SPECIFICATION Spec
CONSTANTS
  t1 = t1
  t2 = t2
  t3 = t3
  free = free
  Threads = {t1}
  Opener = t1
  NoThread = free
  Configurers = {t1}
  Compressions <- ZAndOff
  Discipline = "open"
  MayDisable = TRUE
  RecordSizes = {1}
  TokenSize = 1
  BlockLimit <- TwoPerBlock
  MaxRecords = 2
  MaxSettings = 2
INVARIANTS NoCrash
CHECK_DEADLOCK FALSE
