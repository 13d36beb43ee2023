SPECIFICATION Spec
CONSTANTS
  Job = {j1, j2}
  NoJob = NoJob
  Token = {t1, t2, t3}
  NoToken = NoToken
  Key = {k1}
  NoKey = NoKey
  MaxAttempts = 2
  LeaseSpan = 1
  BatchLimit = 2
  Worker = {w1, w2}
SYMMETRY Symmetry
INVARIANTS
  TypeOK
  AtMostOneOwner
  NoStrandedRow
  TerminalCaptured
  SingletonKey
  ReplayLineage
PROPERTIES
  LiveLeaseRespected
  SuccessIsEarned
  ImplementsWorkQueue
