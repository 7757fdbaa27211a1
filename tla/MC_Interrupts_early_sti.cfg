CONSTANTS
  DevLines <- MCDevLines
  Exceptions <- MCNoExc
  MaxDepth = 3
  MaxExceptions = 1
  BiosImr <- MCBiosImr
SPECIFICATION Spec
INVARIANT IrqOnlyAfterBoot
