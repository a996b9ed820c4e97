SPECIFICATION SumSpec
CONSTANTS
  Null = Null
  NoLimit = NoLimit
  NotPaged = NotPaged
  Parts = {1, 2}
  Groups <- MCGroups
  Brokers = {1, 2}
  Disks <- MCDisks
  Lists <- MCLists
  Texts <- MCTexts
  MaxOffset = 2
  MaxChanges = 2
  MaxNow = 4
  LowInterval = 2
  IdleHeartbeat = 2
  MaxSampleGap = 2
  LAG_WORTH_NAMING = 1
  NoteBytes = 2
  RESULT_BYTES = 6
  DEFAULT_ROWS = 5
  MAX_ROWS = 6
  MaxVersion = 3
  MaxId = 3
  MaxLives = 2
  Absent = Absent
CONSTRAINT ToldApart
INVARIANTS MarksAreRecent ViewsTellTheTables RepliesFit
PROPERTIES IdsOfThisLife
CHECK_DEADLOCK FALSE
