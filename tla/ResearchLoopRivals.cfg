CONSTANTS
  None = None
  Strategies = {s1}
  Revisions = {r1, r2, r3}
  Candidates = {c1, c2}
  Contents = {k1, k2}
  Names = {m1}
  Runs = {n1, n2, n3}
  Threads = {t1, t2}
  Configs = {g1}
  Faults = {}
SPECIFICATION LoopSpec
SYMMETRY Interchangeable
INVARIANTS
  AdoptionBacked
  SiblingCandidatesExclusive
  AdoptionNeverVacuous
PROPERTIES
  ImplementsLifecycle
CHECK_DEADLOCK FALSE
