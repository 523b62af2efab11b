SPECIFICATION LiveSpec
CONSTANTS
  r1 = r1
  r2 = r2
  r3 = r3
  free = free
  Readers = {r1, r2}
  NoReader = free
  Files <- TokensFirst
  MayLeave = FALSE
  MaxSkips = 1
  MaxSeeks = 0
INVARIANTS TypeOK SourceExclusive NotGarbled ExactlyOnce Complete
PROPERTIES CallsReturn
