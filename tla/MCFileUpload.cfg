SPECIFICATION FairSpec
CONSTANTS
  m1 = m1
  m2 = m2
  pub = pub
  u1 = u1
  u2 = u2
  Masters = {m1, m2}
  Ids = {1, 2}
  Names = {"goose", "plain"}
  Goose = "goose"
  Units = {pub, u1, u2}
  Public = pub
  Part <- MCPart
  MaxSize = 2
  MaxUploads = 2
  MaxFaults = 2
INVARIANTS
  TypeOK
  SavedIsSent
  UnknownIsClash
  UnitsFollowFile
PROPERTIES
  SavingEnds
CHECK_DEADLOCK FALSE
