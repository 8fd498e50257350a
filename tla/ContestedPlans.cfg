SPECIFICATION Spec
CONSTANTS
  None = None
  Refused = Refused
  Whole = 120
  Strategies <- MCContested
  Slices <- MCSlices
  MonthOf <- MCMonthOf
  MaxSlices = 2
INVARIANTS
  WholePortfolioInvested
  PlanIgnoresOrder
PROPERTIES
  CooldownRespected
CHECK_DEADLOCK FALSE
