SPECIFICATION FairServiceSpec
CONSTANTS
  u1 = u1  u2 = u2  idA = idA  marker = marker  absent = absent  null = null
  Fragment = {idA}
  MARKER = marker
  Absent = absent
  Null = null
  UsageValue <- MCUsageValue
  Scripts <- MCScripts
  MaxPart = 2
  CHANNEL_DEPTH = 2
  r = r
  None = none
INVARIANTS
  DeliveredIsReported
  ShutdownCutsNoStream
PROPERTIES
  ImplementsGateway
  StreamIsServed
