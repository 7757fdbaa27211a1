CONSTANTS
  Cr3 <- MCRoot0x1000
  LoaderPdp <- MCPdp
  LoaderPd <- MCPd
  LoaderHuge <- MCHugeAll
  MapVirts <- MCMapVirts
  UnmapVirts <- MCUnmapHuge
  PhysChoices <- MCData
  FlagChoices <- MCRW
  MaxAlloc = 6
SPECIFICATION Spec
PROPERTY VMRefinement
