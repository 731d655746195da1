------------------------------ MODULE GooseFrames ------------------------------
(***************************************************************************)
(* What the two ends of a GOOSE line share: the states a station shows its *)
(* neighbours, four booleans in the code (dtuGooseOutputer).               *)
(***************************************************************************)
CONSTANTS
  Frames,  \* states of a station
  Blank    \* the state of a new dtuGooseOutputer: all four false

ASSUME FrameAssumption == Blank \in Frames
=============================================================================
