SPECIFICATION FairSpec
CONSTANTS
  Request = {r1, r2}
  Inputs <- MCInputs
  Status = {200, 400}
  KeyRequired = TRUE
  Observed = TRUE
  None = none
INVARIANTS
  TypeOK
  StatusIsVertexs
  AccountedOnce
PROPERTIES
  EveryRequestSettles
  ShutdownCompletes
