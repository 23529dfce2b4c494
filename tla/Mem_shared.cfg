SPECIFICATION Spec
CONSTANTS
  m = m  t1 = t1  p = p  q = q  r = r  Null = Null  Junk = Junk
  Threads = {m, t1}
  Main = m
  SoleCreator = TRUE
  Sizes = {4}
  Word = 2
  Capacity = 24
  SizeMod = 32
  Pointers = {p, q, r}
  NoPointer = NoPointer
  MaxArena = 2
INVARIANTS TypeOK FreeListSound CounterTracksBlocks NoWildPointer BlocksBelongToPool
PROPERTIES AllocatorSpec
CHECK_DEADLOCK FALSE
