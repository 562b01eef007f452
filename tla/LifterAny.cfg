SPECIFICATION FairSpec

CONSTANTS
  N = 3
  Entry = 1
  MaxBacktrace = 1
  Instrs <- Instr

INVARIANTS
  TypeOK
  NothingAhead
  CodePartition

PROPERTIES
  Terminates
