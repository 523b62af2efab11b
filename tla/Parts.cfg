\* The components that work on their own, each on a small instance.
SPECIFICATION Spec
CONSTANTS
  t1 = t1
  t2 = t2
  nobody = nobody
  v1 = v1
  v2 = v2
\* the remote source: two threads, the look-back and read-ahead of the code
  Clients = {t1, t2}
  Nobody = nobody
  Lookback = 3
  Readahead = 3
  MaxFileBlocks = 8
  FirstReadFails = FALSE
  ErrorHasBody = FALSE
\* schemas and records
  Tags <- TagSet
  Root = "HDDM"
  SchemaPairs <- PairSet
  Counts <- CountSet
  Capacities = {4}
  MaxReads = 2
  IobufferSizes <- SizeSet
  LeafListsMatch = TRUE
  FitTwice = TRUE
  XmlSchemas <- XmlSchemaSet
  MaxEntries = 3
  PlainEnds = TRUE
  SwitchedOnce = TRUE
  RootSchemas <- Sources
  AttrName <- AttrNames
  MaxEvents = 2
  Documents <- DocSet
\* Python objects
  PyNames = {v1, v2}
  MaxObjects = 3
  MaxSerial = 2
\* filters
  FilterBytes = {10, 233}
  Widths = {0, 5}
  MaxSent = 4
  DigestRoom = 2
INVARIANTS
  PartsTypeOK
  RemoteInOrder
  RemoteMemory
  RecordWhole
  ReadsCommonPart
  CReadsCommonPart
  CFilesReadable
  XmlRoundTrip
  XmlReadsAll
  RootRows
  RootKeys
  GeneratedClasses
  PyRecordAlive
  ParticleTablesAgree
  FiltersDeliver
PROPERTIES
  RemoteReturns
\* a part stops when its bounds are reached
CHECK_DEADLOCK FALSE
