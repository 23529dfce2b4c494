SPECIFICATION FairSpec
CONSTANTS
  m = m  c1 = c1  w1 = w1  w2 = w2  w3 = w3
  n1 = n1  n2 = n2  k1 = k1
  NoTask = NoTask  NoThread = NoThread
  Main = m
  Clients = {m, w1, w2}
  Getters = {m, w1, w2}
  Workers = {w1, w2}
  NormalTasks = {n1, n2}
  CriticalTasks = {k1}
  JoinArgs = {TRUE}
INVARIANTS AcceptedRunByJoin
PROPERTIES WaitsForEmptyQueue EveryTaskRuns JoinReturnsUnlessStuck
CHECK_DEADLOCK FALSE
