SPECIFICATION PoolSpec
CONSTANTS
  Workers = {w1, w2}
  Tasks = {t1, t2, t3}
  NoTask = NoTask
  MaxDeficit = 2
INVARIANTS ReadyMeansAllAlive OnlyFirstTaskRuns
PROPERTIES InitReturnsUnlessLost FirstTaskEventuallyRuns
CHECK_DEADLOCK FALSE
