CONSTANTS
  None = None
  Strategies = {s1, s2}
  Revisions = {r1, r2, r3, r4}
  Candidates = {c1, c2}
  Contents = {k1, k2}
  Names = {n1, n2}
SPECIFICATION StoreSpec
INVARIANTS
  LinearHistory
  CurrentIsTip
PROPERTIES
  ArchivedIsFrozen
  ImplementsHistory
CHECK_DEADLOCK FALSE
