SPECIFICATION Spec
CONSTANTS
  Entry = {m1, j1}
  Message = {m1}
  Process = {p1, p2}
  NoEntry = NoEntry
  Token = {t1, t2, t3}
  NoToken = NoToken
  MaxReprocess = 2
  MaxCopies = 3
SYMMETRY Symmetry
INVARIANTS
  TypeOK
  ResolvedAfterEffect
  EffectsAreClaims
  AttemptsLeft
  VersionIsWitness
PROPERTIES
  LiveClaimRespected
  AnswerSettles
  ImplementsContract
