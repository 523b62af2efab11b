SPECIFICATION Spec
CONSTANTS
  c1 = c1
  c2 = c2
  c3 = c3
  c4 = c4
  c5 = c5
  p1 = p1
  p2 = p2
  p3 = p3
  end = end
  null = null
  Nodes = {c1, c2, c3, c4, c5}
  Parents = {p1, p2, p3}
  End = end
  Null = null
  Careful = FALSE
  MaxCount = 2
INVARIANT OwnContents
CHECK_DEADLOCK FALSE
SYMMETRY Interchangeable
