SPECIFICATION Spec
CONSTANTS
  r1 = r1
  r2 = r2
  w1 = w1
  w2 = w2
  None = None
  Runs = {r1}
  Workers = {w1}
  Handlers = {h1, h2}
  Eager = FALSE
  MaxRedeliveries = 0
  MaxRestarts = 0
  MaxFaults = 1
PROPERTY StopIsKept
CHECK_DEADLOCK FALSE
