SPECIFICATION Spec
CONSTANTS
  Threads = {t1, t2}
  Programs <- SharedPrograms
  Levels = {0, 1}
  Uninitialized = 9
  IntMax = 4
  MaxElements = 2
  Bytes <- ElementBytes
  MaxText = 12
  MaxChanges = 1
INVARIANTS
  TypeOK
  OccasionalLogsAlone
  StrippedStaysHidden
  DebugLeavesNoTrace
  TextReadable
PROPERTIES
  VerboseFollowsFlag
  FatalNeverReturns
CHECK_DEADLOCK FALSE
SYMMETRY Interchangeable
