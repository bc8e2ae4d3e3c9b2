CONSTANTS
  USER_THREAD_COUNT = 3
  ADDRESS_SPACE_COUNT = 1
  THREADS_PER_ADDRESS_SPACE = 3
  UART_INPUT_BUFFER_SIZE = 1
  TOCTOU_PAD = 1
  ClockRange = 16
  ClockBound = 2
  Durations = {3, 4}
  Calls = {"create_thread", "stall_thread"}
  NoStack = NoStack
  OutOfBounds = OutOfBounds
SPECIFICATION Spec
INVARIANT NoPanic
