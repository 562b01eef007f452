SPECIFICATION Spec

CONSTANTS
  N = 6
  Entry = 1
  MaxBacktrace = 1
  Instrs <- BranchInstrs

INVARIANTS
  Verified
  SplitMovesOne
  JumpsHitStarts
  PtrCoherent
  FaithfulCFG
