SPECIFICATION FairSpec
CONSTANTS
  m1 = m1
  m2 = m2
  tool = tool
  p1 = p1
  Clients = {m1}
  Points = {p1}
  NoConn = NoConn
  NoOne = NoOne
  DspAnswers = {TRUE}
  Spawns = {TRUE}
  MaxPresets = 2
  From <- MCFrom
  Conn <- MCConn
PROPERTY
  CancelledByOwnTimer
