CONSTANTS
  WORKERS = 3
  MAX_INT_NUM = 2
  ROUNDS = 2
  INTS_PER_ITER = 1
  NUM_THREADS = 2
  LOOP_CNT = 2
  NUM_RETRIES = 2
SPECIFICATION SuiteSpec
CHECK_DEADLOCK FALSE
INVARIANT ThreadChecksPass
INVARIANT AtomicsExact
INVARIANT ThcntExact
INVARIANT NothingLost
PROPERTY SuiteEnds
