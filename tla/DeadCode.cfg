SPECIFICATION FairSpec

CONSTANTS
  NBlocks = 3
  Statics = 2
  Programs <- SmallPrograms
  Repeats = {1}

INVARIANTS
  TypeOK
  ArgsFollowInputs
  LeavesTheNeeded
  ReadsArePassed
  NothingDangles

PROPERTIES
  Terminates

CHECK_DEADLOCK FALSE
