SPECIFICATION MCSpec
CONSTANTS
  e = e
  f = f
  x = x
  y = y
  Names = {e, f}
  Entities = {e, f}
  Cells = {x, y}
  Typed <- MCTyped
  Sheets <- MCSheets
  Projectors = {p1, p2}
  Users = {u1, u2}
  NoOne = NoOne
  MaxRows = 3
  MaxOps = 3
  MaxRuns = 2
SYMMETRY Alike
INVARIANTS
  TypeOK
  TargetsAreLive
  RowsAccounted
  EditedHoldsTyped
PROPERTIES
  ProposalsAwaitDecision
CHECK_DEADLOCK FALSE
