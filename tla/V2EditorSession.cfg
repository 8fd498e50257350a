CONSTANTS
  None = None
  Strategies = {s1}
  Opened = s1
  Revisions = {r1, r2, r3}
  Candidates = {}
  Definitions = {d1, d2}
  Programs = {p1, p2}
  Contents <- Sources
  Names = {n1}
  Slots = {c1, c2}
  MaxGestures = 4
SPECIFICATION EditorSpec
SYMMETRY Interchangeable
INVARIANTS
  BaseIsSaved
  CleanMeansSaved
  TestRunsWhatWasShown
  IdleIsNotUpdating
CHECK_DEADLOCK FALSE
