SPECIFICATION Spec
CONSTANTS
  None = None
  Refused = Refused
  Whole = 120
  Strategies <- MCStrategies
  Slices <- MCSlices
  MonthOf <- MCMonthOf
  MaxSlices = 2
INVARIANTS
  WholePortfolioInvested
  PlanIgnoresOrder
PROPERTIES
  CooldownRespected
  ImplementsReference
CHECK_DEADLOCK FALSE
