SPECIFICATION Spec
CONSTANTS
  t1 = t1
  t2 = t2
  p1 = p1
  p2 = p2
  Threads = {t1}
  MaxGroup = 2
  MultiParams = {p1, p2}
  SingleParams = {}
  Values = {0, 1}
  Unset = Unset
  PlainFrames <- MCPlainFrames
  Frames <- MCFrames
  DspAnswers = {TRUE}
INVARIANTS
  TypeOK
  DspRunsCurrentGroup
PROPERTIES
  SwitchLoadsGroup
  ConfirmedOncePerPreset
