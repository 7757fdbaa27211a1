CONSTANTS
  DevLines <- MCTimerOnly
  Exceptions <- MCNoExc
  MaxDepth = 3
  MaxExceptions = 1
  BiosImr <- MCBiosImr
SPECIFICATION Spec
PROPERTY TimerKeepsTicking
