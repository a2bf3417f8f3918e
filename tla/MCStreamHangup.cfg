SPECIFICATION Spec
CONSTANTS
  u1 = u1  u2 = u2
  idA = idA  idB = idB  sigA = sigA
  argA1 = argA1  argA2 = argA2  argB = argB
  marker = marker  absent = absent  null = null
  Fragment <- MCFragment
  MARKER = marker
  Absent = absent
  Null = null
  UsageValue <- MCUsageValue
  Scripts <- ShortScripts
  MaxLines = 2
  MaxPart = 2
  CHANNEL_DEPTH = 2
INVARIANT
  UsageOfHangupIsUnknown
