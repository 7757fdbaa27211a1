CONSTANTS
  DevLines <- MCDevLines
  Exceptions <- MCHaltExc
  MaxDepth = 3
  MaxExceptions = 1
  BiosImr <- MCBiosImr
SPECIFICATION Spec
INVARIANT HaltOnlyOnFatal
