CONSTANTS
  DeviceIds = {"d1", "d2"}
  DeviceSlots = 2
INIT DeviceInit
NEXT DeviceNext
INVARIANT ExclusiveHeldOnce
