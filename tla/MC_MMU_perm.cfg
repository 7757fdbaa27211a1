CONSTANTS
  Cr3 <- MCRoot0x1000
  LoaderPdp <- MCPdp
  LoaderPd <- MCPd
  LoaderHuge <- MCHugeAll
  MapVirts <- MCMapPair
  UnmapVirts <- MCUnmapOwn
  PhysChoices <- MCData
  FlagChoices <- MCMixed
  MaxAlloc = 6
SPECIFICATION Spec
PROPERTY VMRefinement
