CONSTANTS
  None = None
  Strategies = {s1}
  Revisions = {r1, r2, r3}
  Candidates = {c1}
  Contents = {k1, k2}
  Names = {m1}
  Runs = {n1, n2}
  Threads = {t1, t2}
  Configs = {g1}
  Faults = {"persistence", "unexpected", "crash"}
SPECIFICATION LoopSpec
SYMMETRY Interchangeable
INVARIANTS
  EvidenceExactlyForSucceeded
  LifecycleNeverRejected
  ComparisonSound
CHECK_DEADLOCK FALSE
