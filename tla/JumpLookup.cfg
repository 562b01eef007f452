SPECIFICATION FairSpec

CONSTANTS
  Addrs = {1, 2, 3, 4, 5}
  Lo = 2
  Hi = 5
  Steps = 2
  MaxIdx = 7
  Hashes <- FewHashes

INVARIANTS
  TypeOK
  TableExact
  CombinationCounted
  LookupExact
  HashedCalcTargetExact

PROPERTIES
  RefinesMap
  BuildEnds
