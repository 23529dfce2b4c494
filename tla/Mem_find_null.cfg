SPECIFICATION Spec
CONSTANTS
  m = m  t1 = t1  p = p  q = q  r = r  Null = Null  Junk = Junk
  Threads = {m, t1}
  Main = m
  SoleCreator = FALSE
  Sizes = {2}
  Word = 2
  Capacity = 8
  SizeMod = 64
  Pointers = {p, q, r}
  NoPointer = NoPointer
  MaxArena = 2
INVARIANTS NoWildPointer
CHECK_DEADLOCK FALSE
