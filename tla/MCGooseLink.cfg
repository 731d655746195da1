SPECIFICATION LinkSpec
CONSTANTS
  Frames = {off, on}
  Blank = off
  off = off
  on = on
  Never = Never
  Neighbours = {1, 2}
  Limit = 2
  MaxInbox = 1
  MaxRefusals = 2
  MaxReboots = 1
INVARIANTS
  LinkTypeOK
  DspHasWhatWasHeard
  SignalTellsLinks
