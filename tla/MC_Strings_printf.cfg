CONSTANTS
  PathChars <- MCPathChars
  MaxPathLen = 6
  Formats <- MCBadFormats
  Values <- MCValues
  Strs <- MCStrs
  Sizes <- MCSizes
  MemLen = 4
  Bytes = {0, 1, 2}
SPECIFICATION Spec
INVARIANT SprintfConforms
