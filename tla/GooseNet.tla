------------------------------- MODULE GooseNet -------------------------------
(***************************************************************************)
(* Two stations and the network between them: the line of a station        *)
(* (GoosePublisher) is heard by its neighbour (GooseLink), whose links to  *)
(* further stations are in the runs of GooseLink. Frames of the line may   *)
(* be lost. A tick is 5 s: the longest the worker waits, a quarter of what *)
(* the neighbour waits for it. A DSP command of the receiver is over       *)
(* within a tick; the commands of the watch, which keep the receiver from  *)
(* reading, may take as many ticks as frames fit into the inbox.           *)
(***************************************************************************)
EXTENDS GoosePublisher, GooseLink

CONSTANTS
  Line,       \* the APPID of the modelled line
  MaxLosses   \* frames lost in a row, at most (bound of the model)

ASSUME LineAssumption == Line \in Neighbours /\ MaxLosses \in Nat

VARIABLES
  waited,  \* the worker has waited for a whole tick
  losses,  \* frames lost since the line was last heard
  silent   \* the station restarted, or was mute or dead for a tick, since
           \* its line was last heard

netvars == <<waited, losses, silent>>
vars    == <<pubvars, linkvars, netvars>>

Init == PubInit /\ LinkInit /\ waited = FALSE /\ losses = 0 /\ silent = FALSE

TypeOK ==
  /\ PubTypeOK /\ LinkTypeOK
  /\ waited \in BOOLEAN /\ losses \in 0..MaxLosses /\ silent \in BOOLEAN

\* What the worker sends reaches the neighbour, or is lost on the way.
Send(frame) ==
  \/ Arrive(Line, frame) /\ UNCHANGED losses
  \/ losses < MaxLosses /\ losses' = losses + 1 /\ UNCHANGED linkvars

SendBurst == Burst /\ Send(Head(queue)) /\ UNCHANGED <<waited, silent>>
SendBeat  == Beat /\ Send(lastFrame) /\ waited' = FALSE /\ UNCHANGED silent

Work ==
  /\ Quiet
  /\ waited' = FALSE
  /\ UNCHANGED <<linkvars, losses, silent>>

HearLine ==
  /\ Hear
  /\ IF Head(inbox)[1] = Line THEN losses' = 0 /\ silent' = FALSE
                              ELSE UNCHANGED <<losses, silent>>
  /\ UNCHANGED <<pubvars, waited>>

Tick ==
  /\ At("dead") \/ (At("wait") /\ ~waited)
  /\ pub = "idle"
  /\ Locked \/ (inbox = <<>> /\ ~writing)
  /\ Older
  /\ waited' = TRUE
  /\ silent' = (silent \/ Mute \/ At("dead"))
  /\ UNCHANGED <<pubvars, losses>>

Publication == Caller /\ UNCHANGED <<linkvars, netvars>>

Outage ==
  /\ Crash \/ Boot
  /\ waited' = FALSE /\ silent' = TRUE
  /\ UNCHANGED <<linkvars, losses>>

NeighbourStep ==
  (Watch \/ WriteTable \/ Reboot) /\ UNCHANGED <<pubvars, netvars>>

Next == \/ Publication \/ Outage \/ Work \/ SendBurst \/ SendBeat
        \/ NeighbourStep \/ HearLine \/ Tick

Spec == Init /\ [][Next]_vars

\* The threads of both stations run, and time passes. No station need come
\* back, none need publish.
FairSpec ==
  /\ Spec
  /\ WF_vars(ClearPing /\ UNCHANGED <<linkvars, netvars>>)
  /\ WF_vars(Work \/ SendBurst \/ SendBeat)
  /\ WF_vars((Watch \/ WriteTable) /\ UNCHANGED <<pubvars, netvars>>)
  /\ WF_vars(HearLine)
  /\ WF_vars(Tick)
-----------------------------------------------------------------------------
\* A link is declared broken only for a reason: the line was dead or mute for
\* a tick, or so many frames in a row were lost that heartbeats of 5 s and the
\* limit of 20 s no longer fit, the frames a slow watch keeps waiting included.
FallsForCause ==
  [][up[Line] # FALSE /\ up'[Line] = FALSE
       => silent \/ losses + MaxInbox + 1 >= Limit]_vars

\* A neighbour that was heard and stops for good is found broken.
DeathIsNoticed ==
  (At("dead") /\ age[Line] # Never)
    ~> (up[Line] = FALSE \/ ~At("dead") \/ age[Line] = Never)
=============================================================================
