CONSTANTS
  USER_THREAD_COUNT = 3
  ADDRESS_SPACE_COUNT = 1
  THREADS_PER_ADDRESS_SPACE = 3
  UART_INPUT_BUFFER_SIZE = 1
  TOCTOU_PAD = 1
  ClockRange = 12
  ClockBound = 3
  Durations = {3}
  Calls = {"create_thread", "stall_thread", "read_character", "keypress"}
  NoStack = NoStack
  OutOfBounds = OutOfBounds
SPECIFICATION FairSpec
INVARIANTS TypeOK NoPanic
PROPERTIES ImplementsLifecycle ReadyThreadRuns ReadersServed
