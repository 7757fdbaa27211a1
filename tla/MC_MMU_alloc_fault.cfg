CONSTANTS
  Cr3 <- MCRoot0x1000
  LoaderPdp <- MCPdp
  LoaderPd <- MCPd
  LoaderHuge <- MCHugeFourMiB
  MapVirts <- MCMapVirts
  UnmapVirts <- MCUnmapOwn
  PhysChoices <- MCData
  FlagChoices <- MCRW
  MaxAlloc = 6
SPECIFICATION Spec
INVARIANT NoAllocFault
