SPECIFICATION Spec
CONSTANTS
  u1 = u1  u2 = u2  e1 = e1  e2 = e2  a = a  b = b  r = r
  NoTimer = NoTimer  Loop = Loop  NoThread = NoThread
  Users = {u1, u2, e1}
  Executors = {e1, e2}
  OneShots = {a}
  Repeats = {r}
  Delay <- DelayOf
  MayStop = FALSE
  MaxTime = 2
INVARIANTS TypeOK SortedUnlessMarked NoOversleep NoIdleExecutor CancelsOnlyRequested
PROPERTIES ServiceSpec
CHECK_DEADLOCK FALSE
