SPECIFICATION StructuralSpec
CONSTANTS
  None = None
  Refused = Refused
  Whole = 120
  Starts <- MCStarts
  Symbols = {{1}, {1, 2}}
  Signals = {1}
  Names = {"Growth", "Core"}
  Numbers = {1, 2}
  Thresholds = {0, 1}
  Shares = {84}
  Batches <- MCBatches
  MaxOperations = 3
INVARIANTS
  StructuralTypeOK
  UndoRestores
  OffersAreAccepted
  RecipesStayExecutable
CHECK_DEADLOCK FALSE
