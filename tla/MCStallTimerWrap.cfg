CONSTANTS
  Threads = {1}
  ClockRange = 16
  TOCTOU_PAD = 1
  MaxDelay = 1
  Durations = {5}
  Latency = 2
SPECIFICATION Spec
PROPERTY NoEarlyWakeup
