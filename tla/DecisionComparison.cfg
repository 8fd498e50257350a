CONSTANTS
  None = None
  Failed = Failed
  Unsupported = Unsupported
  Broken = Broken
  Traces <- AllTraces
  Carried <- AnyDamage
SPECIFICATION Spec
INVARIANTS
  CollectedIsPrefix
  DifferencesAreExact
  AlikeBeforeFirstDifference
CHECK_DEADLOCK FALSE
