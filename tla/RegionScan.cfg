\* When the status is decided, nothing is left to do; NeverStuck says so of
\* every state before.
CHECK_DEADLOCK FALSE
SPECIFICATION Spec
CONSTANTS
  r1 = r1
  r2 = r2
  r3 = r3
  s1 = s1
  s2 = s2
  Regions = {r1, r2, r3}
  Scanners = {s1, s2}
  concurrency = 2
SYMMETRY Symmetry
INVARIANTS
  NoSendOnClosed
  StatusIsTrue
  NeverStuck
