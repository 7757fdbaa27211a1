CONSTANTS
  Keys <- MCKeys
  Set2Code <- MCSet2Code
  Set1Code <- MCSet1Code
  Layout <- MCLayout
  Moves <- MCMoves
  BiosConfigs <- MCBiosConfigs
  MaxKeyEvents = 2
  MaxPackets = 1
  BiosImr = {}
SPECIFICATION Spec
INVARIANT MousePacketsReal
