SPECIFICATION Spec
CONSTANTS
  i1 = i1
  i2 = i2
  i3 = i3
  a = a
  b = b
  Items = {i1, i2, i3}
  ClaimsOf <- MCClaimsOf
  Runs = {w1}
  Reviewers = {u1}
  Margin = 2
  ReviewBelow = 10
  Templated = FALSE
  MaxStarts = 3
  MaxDecisions = 2
  MaxDeaths = 0
INVARIANTS
  EveryFactSourced
CHECK_DEADLOCK FALSE
