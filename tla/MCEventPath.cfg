SPECIFICATION FairSpec
CONSTANTS
  soe = soe
  trans = trans
  Reports = {soe, trans}
  FileReports = {trans}
  Capacity <- MCCapacity
  Soe = soe
  MaxEvents = 3
  MaxMishaps = 1
INVARIANTS
  TypeOK
  NumberNamesNewest
  RowsHaveFiles
  FilesHaveRows
  ToldIsStored
  InOrder
  EventsHavePlace
PROPERTIES
  TablesAreLogs
  QueueIsHandled
  FlagsAreLowered
