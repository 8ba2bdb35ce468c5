SPECIFICATION InboxSpec
CONSTANTS
  Handles = {h1}
  Codes = {k1}
  Items = {i1, i2}
  Calls = {c1}
  NoHandle = NoHandle
  PingLimit = 2
  MaxReviews = 2
  MaxCalls = 2
INVARIANTS
  ReplyDecidesAsked
CHECK_DEADLOCK FALSE
