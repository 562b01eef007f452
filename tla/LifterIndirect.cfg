SPECIFICATION Spec

CONSTANTS
  N = 4
  Entry = 1
  MaxBacktrace = 2
  Instrs <- IndirectInstrs

INVARIANTS
  Verified
  FaithfulCFG
