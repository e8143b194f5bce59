\* Nobody has to ask for anything, and three requests are all there are.
SPECIFICATION Spec
CONSTANTS
  r1 = r1
  r2 = r2
  Original = Original
  None = None
  Wrong = Wrong
  c1 = c1
  c2 = c2
  r3 = r3
  Requests = {r1, r2, r3}
  RecoveryCodes = {c1, c2}
  Scenarios <- MCScenarios
  MaxSignupAttempts = 1
  LockoutThreshold = 1
  MaxVerifyAttempts = 1
SYMMETRY Symmetry
INVARIANTS
  SessionsEnd
  RecoveryCodeOnce
  NewestInForce
CHECK_DEADLOCK FALSE
