CONSTANTS
  Cr3 <- MCRootElse
  LoaderPdp <- MCPdp
  LoaderPd <- MCPd
  LoaderHuge <- MCHugeAll
  MapVirts <- MCMapVirts
  UnmapVirts <- MCUnmapOwn
  PhysChoices <- MCData
  FlagChoices <- MCRW
  MaxAlloc = 6
SPECIFICATION Spec
PROPERTY UnmapClears
