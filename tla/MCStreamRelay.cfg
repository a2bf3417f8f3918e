SPECIFICATION FairSpec
CONSTANTS
  u1 = u1  u2 = u2
  idA = idA  idB = idB  sigA = sigA
  argA1 = argA1  argA2 = argA2  argB = argB
  marker = marker  absent = absent  null = null
  Fragment <- MCFragment
  MARKER = marker
  Absent = absent
  Null = null
  UsageValue <- MCUsageValue
  Scripts <- MCScripts
  MaxLines = 3
  MaxPart = 2
  CHANNEL_DEPTH = 2
INVARIANTS
  TypeOK
  DoneMeansComplete
  TruncatedTurnIsWithheld
  EndOfBodyIsHonest
  SynthesisedReasonAgrees
  ContentIntact
  HangupStopsReading
  CallsConsolidated
  Backpressure
  LastUsageSurvives
PROPERTIES
  ImplementsResponseStream
  ReadsFollowLineSource
  StreamSettles
