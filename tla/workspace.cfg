CONSTANTS
  r1 = r1
  r2 = r2
  Requests <- TwoRequests
  Offered <- Representative
  SharedParts <- Often
  MaxAttempts = 2
  MaxLosses = 1
  MaxOutside = 1
SYMMETRY RequestSymmetry
SPECIFICATION WorkspaceSpec
INVARIANT SavedIsKept
PROPERTY RowsAreRight
CHECK_DEADLOCK FALSE
