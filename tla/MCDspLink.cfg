SPECIFICATION FairSpec
CONSTANTS
  t1 = t1
  t2 = t2
  ctrl = ctrl
  fix = fix
  check = check
  fault = fault
  NoOne = NoOne
  Callers = {t1, t2}
  Reads = {check, fault}
  Writes = {ctrl, fix}
  Blocks <- MCBlocks
  Retry <- MCRetry
  Attempts = 2
  Faults = {"deaf", "mute", "refuse"}
  Garbles = 3
  Repeats = 2
INVARIANTS
  TypeOK
  ReadIsWhole
PROPERTIES
  WriteIsWhole
  ActsAsMailbox
  LockReleased
