CONSTANTS
  USER_THREAD_COUNT = 4
  ADDRESS_SPACE_COUNT = 2
  THREADS_PER_ADDRESS_SPACE = 2
  UART_INPUT_BUFFER_SIZE = 1
  TOCTOU_PAD = 1
  ClockRange = 2
  ClockBound = 0
  Durations = {}
  Calls = {"create_process", "create_thread", "exit_thread", "yield"}
  NoStack = NoStack
  OutOfBounds = OutOfBounds
  Linked = Linked
  Nothing = Nothing
SPECIFICATION MemorySpec
INVARIANTS
  ListPartition SlotBookkeeping FreeThreadForFreeSlot LiveStackRegistered
  MappingMatchesRunning DataKept ArgumentsFound
PROPERTIES SwitchMapsStack ReadyListIsQueue
