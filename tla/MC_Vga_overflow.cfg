CONSTANTS
  BufferSize = 65536
  Positions <- MCPositions
  CursorXs <- MCCursorXs
  CursorYs <- MCCursorYs
  MaxTermLen = 3
SPECIFICATION Spec
INVARIANT InBackBuffer
