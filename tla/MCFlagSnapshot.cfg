SPECIFICATION Spec
CONSTANTS
  w1 = w1
  w2 = w2
  q1 = q1
  c1 = c1
  c2 = c2
  a1 = a1
  a2 = a2
  r1 = r1
  r2 = r2
  s1 = s1
  s2 = s2
  Requests = {w1, w2}
  Rids = {r1, r2}
  Keys <- MCKeys
  Values <- MCValues
  NoKey = NoKey
  NoValue = NoValue
  NoRid = NoRid
  MaxVersion = 3
  MaxWrites = 3
  Readers = {q1}
  Buckets = {0, 9999}
  Precedence <- MCPrecedence
  MaxPlatformChanges = 0
  AllowedScopes <- MCAllowedScopes
  ValidSettings = {s1, s2}
  HasDefault = TRUE
  Targets <- MCTargets
  RuleKeys <- MCRuleKeys
  Environment = "production"
  Rollouts <- MCRollouts
  PolicyRollout = 10000
  Callers = {c1, c2}
  MaxEntityVersion = 3
  Grantable <- MCGrantable
  Requestable <- MCRequestable
  Subjects = {"flags"}
  Casts = {{w1, q1}}
  Families <- MCFamilies
  ProfileFamilies <- MCProfileFamilies
  PlainInputs <- MCPlainInputs
  ProfileInputs <- MCProfileInputs
  Words = {a1, a2}
  NoWord = NoWord
PROPERTIES
  EvaluatesOneSnapshot
CHECK_DEADLOCK FALSE
