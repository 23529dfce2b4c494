SPECIFICATION FairSpec
CONSTANTS
  u1 = u1  u2 = u2  e1 = e1  e2 = e2  a = a  b = b  r = r
  NoTimer = NoTimer  Loop = Loop  NoThread = NoThread
  Users = {u1, e1}
  Executors = {e1, e2}
  OneShots = {}
  Repeats = {r}
  Delay <- DelayOf
  MayStop = TRUE
  MaxTime = 2
PROPERTIES EveryTimerExpires EveryExpiryStarts ExitReturnsUnlessSignalLost
CHECK_DEADLOCK FALSE
