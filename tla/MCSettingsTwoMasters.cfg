SPECIFICATION FairSpec
CONSTANTS
  t1 = t1
  t2 = t2
  p1 = p1
  p2 = p2
  Threads = {t1, t2}
  MaxGroup = 2
  MultiParams = {p1}
  SingleParams = {}
  Values = {0, 1}
  Unset = Unset
  PlainFrames = {}
  Frames <- ShortFrames
  DspAnswers = {TRUE}
PROPERTY
  CommitsWhereAsked
