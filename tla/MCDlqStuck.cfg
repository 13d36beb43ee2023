SPECIFICATION FairSpec
CONSTANTS
  Entry = {m1}
  Message = {m1}
  Process = {p1}
  NoEntry = NoEntry
  Token = {t1, t2}
  NoToken = NoToken
  MaxReprocess = 2
  MaxCopies = 3
PROPERTIES
  RecoveredByExpiry
