SPECIFICATION Spec
CONSTANTS
  Request = {r1, r2}
  Inputs <- MCInputs
  Status = {200, 400}
  KeyRequired = TRUE
  Observed = TRUE
  None = none
INVARIANT
  HangupIsReported
