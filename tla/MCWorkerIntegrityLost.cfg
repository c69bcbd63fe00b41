SPECIFICATION Spec
CONSTANTS
  Terminal = {t1, t2}
  MaxInflight = 1
  RetryMaxAttempts = 2
  RetryAmbiguousCommit = FALSE
  NoDelays = FALSE
  HasStartAt = TRUE
  StartAt = 1
  RampUp = 1
  Measurement = 1
  TransactionDrain = 1
  Inputs = {i1}
  NoInputs = none
INVARIANT IntegrityFailsRun
CHECK_DEADLOCK FALSE
