SPECIFICATION Spec
CONSTANTS
  r1 = r1
  r2 = r2
  r3 = r3
  free = free
  Readers = {r1, r2}
  NoReader = free
  Files <- LateToken
  MayLeave = FALSE
  MaxSkips = 0
  MaxSeeks = 0
INVARIANTS NotGarbled
CHECK_DEADLOCK FALSE
