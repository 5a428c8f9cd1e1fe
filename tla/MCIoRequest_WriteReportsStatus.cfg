CONSTANTS
  MaxRequests = 2
  Lens <- MCLens
  DeviceTypes <- MCDeviceTypes
  Functions <- MCFunctions
  Accesses <- MCAccesses
  HeapSize = 8
  StructSize = 1

SPECIFICATION Spec
INVARIANT WriteReportsStatus
