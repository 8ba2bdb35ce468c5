SPECIFICATION IngestSpec
CONSTANTS
  m1 = m1
  m2 = m2
  body1 = body1
  body2 = body2
  file = file
  Messages = {m1, m2}
  Hashes = {body1, body2, file}
  Calls = {c1, c2}
  HeadOf <- MCHeadOf
  AttachmentsOf <- MCAttachmentsOf
  MaxDeliveries = 2
  Polls = {p1, p2}
  MaxUid = 4
  MaxTroubles = 2
INVARIANTS
  TypesOK
  NoDanglingHash
  RefCountExact
  StoredIsWhole
  OneWriter
  ImapCursorHonest
PROPERTIES
  ImapDelivers
CHECK_DEADLOCK FALSE
