SPECIFICATION Spec
CONSTANTS
  Plain = plain  Lead = lead  Trail = trail  CR = cr  LF = lf
  Replacement = replacement
  Chunks <- MCChunks
  MaxChunk = 3
  MaxFed = 6
  limit = 2
INVARIANTS
  TypeOK
  WholeLines
  CapIsOnTheTail
  TailIsReported
  TextSurvives
PROPERTY
  ImplementsLineSource
