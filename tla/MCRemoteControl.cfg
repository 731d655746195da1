SPECIFICATION FairSpec
CONSTANTS
  m1 = m1
  m2 = m2
  tool = tool
  p1 = p1
  Clients = {m1, m2}
  Points = {p1}
  NoConn = NoConn
  NoOne = NoOne
  DspAnswers = {TRUE}
  Spawns = {TRUE, FALSE}
  MaxPresets = 1
  From <- MCFrom
  Conn <- MCConn
INVARIANTS
  TypeOK
  SpentOnce
  NothingLeftBehind
  PresetIsTimed
PROPERTIES
  ImplementsGrants
  PresetExpires
  SelectionReleased
