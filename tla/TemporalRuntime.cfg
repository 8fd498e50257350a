CONSTANTS
  Missing = Missing
  Cash = Cash
  Retain = Retain
  q1 = q1
  q2 = q2
  phase = phase
  level = level
  context = context
  idle = idle
  broken = broken
  retested = retested
  confirmed = confirmed
  expired = expired
  Assets = {q1}
  Keys = {phase}
  Phases = {idle, broken, retested, confirmed, expired}
  Memories = {level, context}
  Programs <- SingleAssetPrograms
  Markets <- ThreePrices
SPECIFICATION RuntimeSpec
INVARIANTS
  LacksOnlyTheUnknown
  HoldingsFollowPolicy
PROPERTY
  ImplementsReference
CHECK_DEADLOCK FALSE
