SPECIFICATION Spec
CONSTANTS
  u1 = u1  u2 = u2  e1 = e1  e2 = e2  a = a  b = b  r = r
  NoTimer = NoTimer  Loop = Loop  NoThread = NoThread
  Users = {u1}
  Executors = {e1, e2}
  OneShots = {}
  Repeats = {r}
  Delay <- DelayOf
  MayStop = FALSE
  MaxTime = 2
INVARIANTS HandlersDoNotOverlap
CHECK_DEADLOCK FALSE
