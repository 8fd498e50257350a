CONSTANTS
  None = None
  Strategies = {s1}
  Revisions = {r1, r2}
  Candidates = {c1}
  Contents = {k1, k2}
  Names = {m1}
  Runs = {n1, n2}
  Threads = {t1, t2}
  Configs = {g1}
  Faults = {}
SPECIFICATION LiveSpec
PROPERTIES
  RunsFinish
  CandidatesAreTested
CHECK_DEADLOCK FALSE
