SPECIFICATION Spec
CONSTANTS
  t1 = t1
  t2 = t2
  t3 = t3
  free = free
  Threads = {t1, t2}
  Opener = t1
  NoThread = free
  Configurers = {t1}
  Compressions <- NoCompression
  Discipline = "free"
  MayDisable = FALSE
  RecordSizes = {1}
  TokenSize = 1
  BlockLimit <- TwoPerBlock
  MaxRecords = 1
  MaxSettings = 1
INVARIANTS Framed
CHECK_DEADLOCK FALSE
