SPECIFICATION FairSpec
CONSTANTS
  Job = {j1}
  NoJob = NoJob
  Token = {t1, t2, t3}
  NoToken = NoToken
  Key = {k1}
  NoKey = NoKey
  MaxAttempts = 2
  LeaseSpan = 2
  BatchLimit = 1
  Worker = {w1, w2}
PROPERTIES
  EveryAttemptEnds
  OneShotSettles
