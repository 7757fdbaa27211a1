CONSTANTS
  PathChars <- MCPathChars
  MaxPathLen = 6
  Formats <- MCFormats
  Values <- MCValues
  Strs <- MCStrs
  Sizes <- MCSizes
  MemLen = 5
  Bytes = {0, 1, 2}
SPECIFICATION Spec
INVARIANTS TypeOK NormalizedFits NoDotComponents SprintfConforms VsnprintfConforms MemmoveConforms CopiesConform ComparesConform
