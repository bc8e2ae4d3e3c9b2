CONSTANTS
  USER_THREAD_COUNT = 2
  ADDRESS_SPACE_COUNT = 1
  THREADS_PER_ADDRESS_SPACE = 2
  UART_INPUT_BUFFER_SIZE = 1
  TOCTOU_PAD = 1
  ClockRange = 2
  ClockBound = 0
  Durations = {}
  Calls = {"yield", "stall_too_long", "create_thread"}
  NoStack = NoStack
  OutOfBounds = OutOfBounds
  Characters = {a, b}
  EINVAL = EINVAL
  EBUSY = EBUSY
  Start = Start
  Clear = Clear
  AnyFlags = AnyFlags
  Empty = Empty
SPECIFICATION SwitchSpec
INVARIANT ErrorReachesCaller
