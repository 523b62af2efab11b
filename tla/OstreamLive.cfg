SPECIFICATION LiveSpec
CONSTANTS
  t1 = t1
  t2 = t2
  t3 = t3
  free = free
  Threads = {t1, t2}
  Opener = t1
  NoThread = free
  Configurers = {t1}
  Compressions <- ZAndBz2
  Discipline = "open"
  MayDisable = FALSE
  RecordSizes = {1, 2}
  TokenSize = 1
  BlockLimit <- TwoPerBlock
  MaxRecords = 2
  MaxSettings = 3
PROPERTIES CallsReturn ImplementsLog
CHECK_DEADLOCK FALSE
