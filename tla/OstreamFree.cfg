SPECIFICATION Spec
CONSTANTS
  t1 = t1
  t2 = t2
  t3 = t3
  free = free
  Threads = {t1, t2}
  Opener = t1
  NoThread = free
  Configurers = {t1, t2}
  Compressions <- AllCompressions
  Discipline = "free"
  MayDisable = TRUE
  RecordSizes = {1}
  TokenSize = 1
  BlockLimit <- OnePerBlock
  MaxRecords = 1
  MaxSettings = 2
INVARIANTS TypeOK MutexTruthful
CHECK_DEADLOCK FALSE
