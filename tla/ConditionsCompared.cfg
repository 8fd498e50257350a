CONSTANTS
  None = None
  Failed = Failed
  Unsupported = Unsupported
  Broken = Broken
  Traces <- ConditionTraces
  Carried <- AnyDamage
SPECIFICATION Spec
INVARIANTS
  CompleteEvidenceCompares
CHECK_DEADLOCK FALSE
