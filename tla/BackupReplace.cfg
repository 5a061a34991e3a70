CONSTANTS
  Objects = {o1, o2}
  MaxObjects = 2
  MaxVersions = 3
INIT KeyVaultInit
NEXT KeyVaultNext
INVARIANT RestoreKeepsObjects
CHECK_DEADLOCK FALSE
