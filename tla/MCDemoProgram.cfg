CONSTANTS
  Processes = {1}
  Workers = {1, 2}
  Threads <- MCThreads
  ClockRange = 64
  TOCTOU_PAD = 1
  MaxDelay = 1
  Durations = {3}
  Latency = 1
  INITIAL_COUNTER = 0
  GLOBAL_COUNTER_LIMIT = 2
  SLEEP_TIME = 3
  MaxKeys = 2
SPECIFICATION DemoSpec
INVARIANTS StallTimerArmed SleepersInOrder CounterNearLimit OwnCharacter
PROPERTIES NoEarlyWakeup ProcessesEnd
CHECK_DEADLOCK FALSE
