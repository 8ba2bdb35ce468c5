SPECIFICATION Spec
CONSTANTS
  i1 = i1
  i2 = i2
  i3 = i3
  a = a
  b = b
  Items = {i1, i2, i3}
  ClaimsOf <- MCClaimsOf
  Runs = {w1, w2}
  Reviewers = {u1, u2}
  Margin = 2
  ReviewBelow = 7
  Templated = TRUE
  MaxStarts = 3
  MaxDecisions = 2
  MaxDeaths = 1
SYMMETRY Alike
INVARIANTS
  TypeOK
  SlotKept
  ReplacementOnFile
  SupersededIsRetired
  GuardHolds
CHECK_DEADLOCK FALSE
