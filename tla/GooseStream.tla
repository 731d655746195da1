----------------------------- MODULE GooseStream -----------------------------
(***************************************************************************)
(* What a station promises its neighbours about its GOOSE line: the states *)
(* it publishes are shown one after the other, in order, none left out,    *)
(* and the line shows the last one until the next.  A station that starts  *)
(* again forgets what was pending and shows the blank state.               *)
(***************************************************************************)
EXTENDS Sequences

CONSTANTS
  Frames,  \* states of a station (four booleans in the code)
  Blank    \* the state shown before the first publication

VARIABLES
  pending,  \* states published and not yet shown, oldest first
  shown     \* the state the line shows

vars == <<pending, shown>>

Init == pending = <<>> /\ shown = Blank

Publish(f) == pending' = Append(pending, f) /\ UNCHANGED shown

Show ==
  /\ pending # <<>>
  /\ shown' = Head(pending)
  /\ pending' = Tail(pending)

StartAgain == pending' = <<>> /\ shown' = Blank

Next == \/ \E f \in Frames : Publish(f)
        \/ Show
        \/ StartAgain

Spec == Init /\ [][Next]_vars

FairSpec == Spec /\ WF_vars(Show)
=============================================================================
