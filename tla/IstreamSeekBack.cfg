SPECIFICATION Spec
CONSTANTS
  r1 = r1
  r2 = r2
  r3 = r3
  free = free
  Readers = {r1}
  NoReader = free
  Files <- HalfPacked
  MayLeave = TRUE
  MaxSkips = 0
  MaxSeeks = 1
INVARIANTS NoCrash
CHECK_DEADLOCK FALSE
