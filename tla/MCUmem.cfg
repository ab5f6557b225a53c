CONSTANTS
  f1 = f1
  f2 = f2
  f3 = f3
  Frames <- MCFrames3
  MaxCores = 2
  RingCap = 3
  FqCap = 3
  TxCap = 3
  Extra = Extra

SPECIFICATION Spec
SYMMETRY FrameSymmetry

INVARIANT TypeOK
INVARIANT FrameConservation
INVARIANT VerdictRespected
