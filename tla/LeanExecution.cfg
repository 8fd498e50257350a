CONSTANTS
  None = None
  Corrupt = Corrupt
  e1 = e1
  e2 = e2
  spy = spy
  qqq = qqq
  Executions = {e1, e2}
  Local = {e2}
  Symbols = {spy, qqq}
  StartDate = 3
  EndDate = 4
  Plan <- EachPlan
  Directories <- DirectoryStates
  Exits <- WaysToExit
  MaxFaults = 1
  MaxChanges = 1
SPECIFICATION Spec
INVARIANTS
  HostLeftClean
PROPERTIES
  PassedPreflightIsRunnable
  KeepsPromise
  EveryRequestIsAnswered
CHECK_DEADLOCK FALSE
