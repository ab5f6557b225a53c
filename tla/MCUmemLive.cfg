CONSTANTS
  f1 = f1
  f2 = f2
  f3 = f3
  Frames <- MCFrames2
  MaxCores = 2
  RingCap = 2
  FqCap = 2
  TxCap = 2
  Extra = Extra

SPECIFICATION Spec

PROPERTY FrameReturns
