CONSTANTS
  USER_THREAD_COUNT = 2
  ADDRESS_SPACE_COUNT = 1
  THREADS_PER_ADDRESS_SPACE = 2
  UART_INPUT_BUFFER_SIZE = 1
  TOCTOU_PAD = 1
  ClockRange = 2
  ClockBound = 0
  Durations = {}
  Calls = {"create_thread"}
  NoStack = NoStack
  OutOfBounds = OutOfBounds
SPECIFICATION Spec
INVARIANT RunningStackMapped
