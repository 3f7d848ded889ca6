SPECIFICATION Spec
CONSTANTS
  r1 = r1
  r2 = r2
  w1 = w1
  w2 = w2
  None = None
  Runs = {r1, r2}
  Workers = {w1, w2}
  Handlers = {h1}
  Eager = FALSE
  MaxRedeliveries = 0
  MaxRestarts = 0
  MaxFaults = 0
INVARIANT WaitingRunIsCarried
SYMMETRY Symmetry
CHECK_DEADLOCK FALSE
