SPECIFICATION Spec
CONSTANTS
  Handles = {h1, h2}
  Codes = {k1}
  Items = {i1, i2}
  Calls = {c1, c2}
  NoHandle = NoHandle
  PingLimit = 2
  MaxReviews = 2
  MaxCalls = 2
  Kinds = {property}
  Runs = {r1, r2}
  Imports = {o1}
  Deciders = {d1}
  ProposeAt = 2
  MaxFiled = 2
  RoutedAgents = {a1, a2}
  RoutedItems = {n1}
  NoRoutedItem = NoRoutedItem
  NoRoutedAgent = NoRoutedAgent
  BatchMax = 2
  MaxEvents = 3
  MaxCutOffs = 1
  Spenders = {s1, s2}
  CapUnits = 3
  CallsPerRun = 2
  CallCost = 2
  MaxBlind = 1
  MaxAdrift = 2
  LocalIds = {"e1", "e2", "e9"}
  Predicates = {"year", "note", "author"}
  Literals = {"x", "y"}
  EntityLists <- EdgeEntityLists
  FactPool <- EdgeFacts
  Registry <- EdgeRegistry
  MaxFacts = 3
  Keys = {"amount", "total", "size"}
  LabelKey = "name"
  Bookkeeping = {"size"}
  EntityValued = {"total"}
  Declares = {"amount"}
  Alike <- EdgeAlike
  Usages <- EdgeUsages
  MinCount = 3
  Seeds <- EdgeSeeds
  MaxPerKind = 2
  Approvals = {a1, a2}
  Editors = {e1}
  Sheets = {t1}
  MaxEdits = 1
  MaxBusy = 2
INVARIANTS
  TypeOK
  CodeBindsOnce
  ConfirmedIsDecided
  CategoryAskedBounded
  AcceptedIsRegistered
  LearnFoldsOnce
  CapOvershoot
  ReconcileMeetsReference
  ReconcileIsStable
  FieldsHaveColumns
  AcceptedGrows
CHECK_DEADLOCK FALSE
