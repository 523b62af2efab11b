SPECIFICATION Spec
CONSTANTS
  t1 = t1
  t2 = t2
  t3 = t3
  free = free
  Threads = {t1, t2, t3}
  Opener = t1
  NoThread = free
  Configurers = {t1, t2, t3}
  Compressions <- ZAndBz2
  Discipline = "quiet"
  MayDisable = FALSE
  RecordSizes = {1, 2}
  TokenSize = 1
  BlockLimit <- TwoPerBlock
  MaxRecords = 2
  MaxSettings = 2
INVARIANTS SinkExclusive Framed NoCrash Quiescent Conserved
CHECK_DEADLOCK FALSE
SYMMETRY Workers
