CONSTANTS
  PathChars <- MCPathChars
  MaxPathLen = 7
  Formats <- MCFormats
  Values <- MCValues
  Strs <- MCStrs
  Sizes <- MCSizes
  MemLen = 4
  Bytes = {0, 1, 2}
SPECIFICATION Spec
INVARIANT NormalizeResolves
