SPECIFICATION Spec
CONSTANTS
  r1 = r1
  r2 = r2
  r3 = r3
  free = free
  Readers = {r1}
  NoReader = free
  Files <- AllFiles
  MayLeave = FALSE
  MaxSkips = 2
  MaxSeeks = 2
INVARIANTS NoCrash NotGarbled
PROPERTIES ReadsInOrder EofAtEnd
