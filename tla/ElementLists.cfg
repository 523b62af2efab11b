SPECIFICATION Spec
CONSTANTS
  c1 = c1
  c2 = c2
  c3 = c3
  c4 = c4
  c5 = c5
  p1 = p1
  p2 = p2
  p3 = p3
  end = end
  null = null
  Nodes = {c1, c2, c3, c4, c5}
  Parents = {p1, p2, p3}
  End = end
  Null = null
  Careful = TRUE
  MaxCount = 2
INVARIANTS TypeOK OwnContents EditsPlaced RoundTrip
PROPERTY ImplementsSequences
CHECK_DEADLOCK FALSE
SYMMETRY Interchangeable
