CONSTANTS
  USER_THREAD_COUNT = 2
  ADDRESS_SPACE_COUNT = 1
  THREADS_PER_ADDRESS_SPACE = 2
  UART_INPUT_BUFFER_SIZE = 2
  TOCTOU_PAD = 0
  ClockRange = 8
  ClockBound = 1
  Durations = {1}
  Calls = {"create_thread", "read_character", "keypress", "yield", "stall_thread", "answer", "exit_thread"}
  NoStack = NoStack
  OutOfBounds = OutOfBounds
  Characters = {a, b}
  EINVAL = Failure
  EBUSY = Failure
  Start = Start
  Clear = Clear
  AnyFlags = AnyFlags
  Empty = Empty
SPECIFICATION SwitchSpec
INVARIANTS SwitchTypeOK ContextKept ResultsDelivered
SYMMETRY CharacterSymmetry
