CONSTANTS
  LONG_MAX = 2147483647
  SYSTIMER_FREQUENCY_HZ = 1000000
  StallTimes <- ShortAndLongStalls
  ClockValues <- ClockReadings
  WordBits = 8
  MAX_NUMBER_PRINT_WIDTH = 8
  UINT8_MAX = 255
  Arguments <- Words
  Widths <- FieldWidths
  MaxPasses = 60
  Large = Large
  Labels <- EveryLabel
  ModuleLabels <- LabelsOfModules
  Heads = {ready, finished}
  FirstHead = finished
  NodeCount = 4
  Keys = {0, 1}
  NULL = NULL
  Size = 4
  IndexRange = 8
  Characters = {"a", "b"}
  MaxLength = 5
SPECIFICATION LibrarySpec
INVARIANTS
  StructuresIntact
  TimesRight
  BufferHolds PrintedRight
  ColoursRight
PROPERTIES ImplementsList ImplementsQueue ConversionEnds
