SPECIFICATION Spec
CONSTANTS
  k1 = k1
  k2 = k2
  k3 = k3
  Keys = {k1, k2, k3}
  SeedKeys <- MCSeedKeys
  SeedBody <- MCSeedBody
  Class <- MCClass
  SeedAt <- MCSeedAt
  KeysOf <- MCKeysOf
  Runs = {w1}
  Reviewers = {u1}
  MaxSupport = 2
  MaxPasses = 2
  MaxDecisions = 1
  MaxDeaths = 1
INVARIANTS
  TypeOK
  TombstonesAreBare
  MergesLogged
  AskedOnce
PROPERTIES
  PruneSparesLinked
CHECK_DEADLOCK FALSE
