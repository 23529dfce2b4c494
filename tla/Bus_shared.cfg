SPECIFICATION FairSpec
CONSTANTS
  m = m  w1 = w1  w2 = w2
  test1 = test1  test2 = test2  one = one  two = two
  Main = m
  Workers = {w1, w2}
  Listeners = {test1, test2}
  Indices = {one}
  RegistersFor <- MCRegistersFor
  Dispatches <- OneDispatch
  MaxPush = 1
  MaxEntries = 3
  None = None
INVARIANTS TypeOK NothingLeftBehind ListenersOutliveCalls
PROPERTIES BusSpec EveryNotificationArrives
CHECK_DEADLOCK FALSE
