CONSTANTS
  Keys = {k1, k2}
  DefaultKeys = {k1}
  Missing = Missing
  Torn = Torn
  BufferRoom = 2
  MaxVersion = 2
  MaxDirtyCount = 3
INIT StateInit
NEXT StateNext
PROPERTY RecoveryFindsBackup
CHECK_DEADLOCK FALSE
