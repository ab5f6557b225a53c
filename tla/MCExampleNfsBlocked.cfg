CONSTANTS
  Packets <- MCPackets
  BlockedDecls <- MCBlockedDecls
  Chances <- MCChances
  U32Bits = 3
  Panic = Panic
SPECIFICATION Spec
CHECK_DEADLOCK FALSE
INVARIANT BlockedSourceBlocked
