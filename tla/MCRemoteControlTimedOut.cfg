SPECIFICATION FairSpec
CONSTANTS
  m1 = m1
  m2 = m2
  tool = tool
  p1 = p1
  Clients = {m1, tool}
  Points = {p1}
  NoConn = NoConn
  NoOne = NoOne
  DspAnswers = {TRUE}
  Spawns = {TRUE}
  MaxPresets = 1
  From <- MCFrom
  Conn <- MCConn
PROPERTY
  TimedOutStaysOut
