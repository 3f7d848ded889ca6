SPECIFICATION FairSpec
CONSTANTS
  r1 = r1
  r2 = r2
  w1 = w1
  w2 = w2
  None = None
  Runs = {r1}
  Workers = {w1, w2}
  Handlers = {h1}
  Eager = FALSE
  MaxRedeliveries = 1
  MaxRestarts = 1
  MaxFaults = 1
INVARIANT SingleExecutor
PROPERTIES StopSticks SettledIsFinal StopSettles RunningSettles
CHECK_DEADLOCK FALSE
