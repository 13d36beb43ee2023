SPECIFICATION Spec
CONSTANTS
  Entry = {m1}
  Message = {m1}
  Registered = {}
  Request = {p1}
  Key = {k1}
  NoEntry = NoEntry
  Token = {t1}
  NoToken = NoToken
  MaxReprocess = 1
  MaxCopies = 2
PROPERTIES
  FailureIsKept
