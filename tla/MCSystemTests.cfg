CONSTANTS
  MATRIX_SIZE = 6
  NUM_THREADS = 4
  BASE_WORK_COUNT = 10
  OVERHEAD = 1
  POLL = 50
  DATA_PAGE = 9
  FUNC_PAGE = 3
  NumLegacy = 8
  WORD = 64
  PcStart <- MCStart
  MAX_HW_THREADS = 6
  INTMAX = 6
  LEFT_SET = 3
  WordBits = 4
  ticks_per_qtimer1 = 6
  ticks_per_qtimer2 = 13
  QtTarget = 2
  MlWidth = 65536
  MlIntMax = 127
  MlNumbers <- MCNumbers
  MlInts <- MCInts
  Lines <- MCLines
  MAX_ARGS = 3
  MAX_DESC = 2
  INT_MAX = 7
  Sizes <- MCSizes
  Args <- MCArgs
SPECIFICATION SysSpec
CHECK_DEADLOCK FALSE
INVARIANT SystemChecksPass
INVARIANT MappingsAgree
INVARIANT LibraryExact
INVARIANT NoFileOverrun
INVARIANT NoTimerSilent
PROPERTY ProgramsEnd
