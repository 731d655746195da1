SPECIFICATION FairSpec
CONSTANTS
  Frames = {off, on}
  Blank = off
  off = off
  on = on
  Never = Never
  Neighbours = {1}
  Line = 1
  Limit = 5
  MaxPublish = 2
  MaxCrashes = 1
  MaxInbox = 1
  MaxRefusals = 0
  MaxReboots = 1
  MaxLosses = 4
INVARIANT TypeOK
PROPERTIES
  FallsForCause
  DeathIsNoticed
  ShowsTheStream
  EveryStateShown
