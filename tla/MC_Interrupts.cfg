CONSTANTS
  DevLines <- MCDevLines
  Exceptions <- MCHaltExc
  MaxDepth = 3
  MaxExceptions = 1
  BiosImr <- MCBiosImr
SPECIFICATION Spec
INVARIANT TypeOK
INVARIANT CascadeConsistent
INVARIANT IrqReachesOwnHandler
PROPERTY EoiAcksOwnLine
PROPERTY InServiceEventuallyAcked
