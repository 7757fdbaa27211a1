CONSTANTS
  HeapBase <- MCHeapBase
  WindowSize <- MCWindowSize
  TermBufSize <- MCTermBufSize
  MaxPages = 1
  MaxWindows = 2
  TermCap = 3
SPECIFICATION Spec
INVARIANTS DraggingListed
