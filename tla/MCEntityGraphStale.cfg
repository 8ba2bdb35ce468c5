SPECIFICATION Spec
CONSTANTS
  k1 = k1
  k2 = k2
  k3 = k3
  Keys = {k1, k2, k3}
  SeedKeys <- MCNamesakes
  SeedBody = {}
  Class <- MCFactEach
  SeedAt <- MCOneEach
  KeysOf <- MCNoMentions
  Runs = {}
  Reviewers = {}
  MaxSupport = 1
  MaxPasses = 1
  MaxDecisions = 0
  MaxDeaths = 0
INVARIANTS
  NoFactStranded
CHECK_DEADLOCK FALSE
