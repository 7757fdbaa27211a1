CONSTANTS
  DevLines <- MCDevLines
  Exceptions <- MCNmi
  MaxDepth = 3
  MaxExceptions = 1
  BiosImr <- MCBiosImr
SPECIFICATION Spec
PROPERTY EoiAcksOwnLine
