SPECIFICATION FairSpec
CONSTANTS
  Work = {dispatch}
  Grant = {g1, g2, g3}
  NoGrant = NoGrant
  MaxTries = 2
  Event = {e1}
  NoEvent = NoEvent
  Poison = {}
  BatchSize = 2
  MaxCount = 1
CHECK_DEADLOCK FALSE
PROPERTIES
  PublishedUnlessBuried
