SPECIFICATION FairPipeline
CONSTANTS
  m1 = m1
  j1 = j1
  p1 = p1
  p2 = p2
  d1 = d1
  d2 = d2
  k1 = k1
  k2 = k2
  Entry = {m1, j1}
  Message = {m1}
  Registered = {j1}
  Request = {p1, p2}
  Key = {k1, k2}
  NoEntry = NoEntry
  Token = {t1}
  NoToken = NoToken
  MaxReprocess = 1
  MaxCopies = 1
  Letter = {d1, d2}
  NoOutbox = NoOutbox
  Poison = Poison
  PersistenceRetries = 2
  Casts <- MCCasts
INVARIANTS
  PipelineTypeOK
  SuccessIsDurable
  AuditedOnce
  OneKeyPerDecision
PROPERTIES
  EveryRequestEnds
  NothingLostQuietly
  DeadLettersSettle
