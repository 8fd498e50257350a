CONSTANTS
  Missing = Missing
  Cash = Cash
  Retain = Retain
  q1 = q1
  q2 = q2
  phase = phase
  level = level
  context = context
  idle = idle
  broken = broken
  retested = retested
  confirmed = confirmed
  expired = expired
  Assets = {q1, q2}
  Keys = {phase}
  Phases = {idle, broken, retested, confirmed, expired}
  Memories = {level, context}
  Programs <- ContestedPrograms
  Markets <- ShortSnapshots
SPECIFICATION RuntimeSpec
INVARIANTS
  CheckpointsAreAccepted
  HoldingsFollowPolicy
PROPERTY
  ImplementsReference
CHECK_DEADLOCK FALSE
