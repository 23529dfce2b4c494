SPECIFICATION Spec
CONSTANTS
  m = m  c1 = c1  w1 = w1  w2 = w2  w3 = w3
  n1 = n1  n2 = n2  k1 = k1
  NoTask = NoTask  NoThread = NoThread
  Main = m
  Clients = {m, c1}
  Getters = {}
  Workers = {w1, w2}
  NormalTasks = {n1, n2}
  CriticalTasks = {}
  JoinArgs = {TRUE}
INVARIANT AcceptedRunBeforeJoin
