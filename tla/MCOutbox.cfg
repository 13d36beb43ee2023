SPECIFICATION Spec
CONSTANTS
  Work = {dispatch}
  Grant = {g1, g2}
  NoGrant = NoGrant
  MaxTries = 2
  Event = {e1, e2}
  NoEvent = NoEvent
  Poison = {e2}
  BatchSize = 2
  MaxCount = 3
SYMMETRY Symmetry
CHECK_DEADLOCK FALSE
INVARIANTS
  TypeOK
  PublishedWasAccepted
  DuplicatesAreReclaims
PROPERTIES
  MarkedByClaimant
