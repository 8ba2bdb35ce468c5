SPECIFICATION Spec
CONSTANTS
  m1 = m1
  m2 = m2
  body1 = body1
  body2 = body2
  file = file
  Messages = {m1, m2}
  Hashes = {body1, body2, file}
  Calls = {c1, c2}
  HeadOf <- MCHeadOf
  AttachmentsOf <- MCAttachmentsOf
  MaxDeliveries = 2
INVARIANTS
  NothingLost
CHECK_DEADLOCK FALSE
