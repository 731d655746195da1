------------------------------ MODULE GooseProofs ------------------------------
(***************************************************************************)
(* Proofs about GoosePublisher, GooseLink and GooseNet, for any frames,    *)
(* neighbours, limit and bounds.                                           *)
(***************************************************************************)
EXTENDS GooseNet, TLAPS

\* What the worker remembers is what the line shows.
PubIInv ==
  /\ PubTypeOK
  /\ At("wait") \/ At("drain") => lastFrame = shown
  /\ At("mark") => worker.output = shown
  /\ At("dead") => queue = <<>> /\ lastFrame = Blank /\ shown = Blank

\* What the DSP took last is the table, and the table is what was heard.
LinkIInv ==
  /\ LinkTypeOK
  /\ "table" \notin ignored /\ ~writing => dspTable = table
  /\ \A a \in Known : table[a] = heard[a]
  /\ SignalTellsLinks

\* A wait of a whole tick ends in a frame: it is owed until it is on the line.
Pending == \/ At("wait") /\ waited /\ (isPing \/ queue # <<>>)
           \/ At("drain") /\ queue # <<>>
Owed    == IF Pending THEN 1 ELSE 0

\* The age of the line is paid for, tick by tick, by frames that were lost,
\* wait to be read or are owed.
AgeIsPaid ==
  ~silent /\ age[Line] # Never => age[Line] <= losses + Len(inbox) + Owed

\* A frame is only owed by a worker that waits, and a publication under way
\* that finds it waiting has left something in the queue.
WorkerIsPrompt ==
  /\ At("drain") \/ At("mark") => ~waited
  /\ pub = "clear" /\ waited /\ At("wait") => queue # <<>>

OnlyLineArrives == \A i \in 1..Len(inbox) : inbox[i][1] = Line
TodoIsDue       == \A a \in Known : <<a, FALSE>> \in todo => age[a] >= Limit

NetIInv ==
  /\ PubIInv /\ LinkIInv
  /\ waited \in BOOLEAN /\ losses \in 0..MaxLosses /\ silent \in BOOLEAN
  /\ WorkerIsPrompt /\ OnlyLineArrives /\ TodoIsDue /\ AgeIsPaid
-----------------------------------------------------------------------------
\* The worker and dsp_handle keep their types, and the frame of the heartbeats
\* is the one on the line.
LEMMA PubInitInv == PubInit => PubIInv
BY PublishAssumption, FrameAssumption
   DEF PubInit, PubIInv, PubTypeOK, At, Places

LEMMA PubStepInv == PubIInv /\ [PubNext]_pubvars => PubIInv'
<1> SUFFICES ASSUME PubIInv, [PubNext]_pubvars PROVE PubIInv'
  OBVIOUS
<1> USE FrameAssumption, PublishAssumption
    DEF PubIInv, PubTypeOK, At, Go, Places
<1>1. ASSUME NEW f \in Frames, Enqueue(f) PROVE PubIInv'
  BY <1>1 DEF Enqueue
<1>2. CASE ClearPing
  BY <1>2 DEF ClearPing
<1>3. CASE Wake
  BY <1>3 DEF Wake
<1>4. CASE Beat
  BY <1>4 DEF Beat
<1>5. CASE Burst
  BY <1>5 DEF Burst
<1>6. CASE TakeNothing
  BY <1>6 DEF TakeNothing
<1>7. CASE Mark
  BY <1>7 DEF Mark
<1>8. CASE Crash
  BY <1>8 DEF Crash
<1>9. CASE Boot
  BY <1>9 DEF Boot
<1>10. CASE UNCHANGED pubvars
  BY <1>10 DEF pubvars
<1> QED
  BY <1>1, <1>2, <1>3, <1>4, <1>5, <1>6, <1>7, <1>8, <1>9, <1>10
     DEF PubNext, Caller, Sender, Quiet

\* Every step of the station is a step of the stream it promises, or invisible.
LEMMA PubStepStream == PubIInv /\ [PubNext]_pubvars => [Stream!Next]_(Stream!vars)
<1> SUFFICES ASSUME PubIInv, [PubNext]_pubvars
             PROVE  [Stream!Next]_(Stream!vars)
  OBVIOUS
<1> USE DEF PubIInv, PubTypeOK, At, Go, Stream!vars
<1>1. ASSUME NEW f \in Frames, Enqueue(f) PROVE Stream!Next
  BY <1>1 DEF Enqueue, Stream!Next, Stream!Publish
<1>2. CASE Beat
  BY <1>2 DEF Beat
<1>3. CASE Burst
  BY <1>3 DEF Burst, Stream!Next, Stream!Show
<1>4. CASE Crash
  BY <1>4 DEF Crash, Stream!Next, Stream!StartAgain
<1>5. CASE ClearPing \/ Wake \/ TakeNothing \/ Mark \/ Boot
  BY <1>5 DEF ClearPing, Wake, TakeNothing, Mark, Boot
<1>6. CASE UNCHANGED pubvars
  BY <1>6 DEF pubvars
<1> QED
  BY <1>1, <1>2, <1>3, <1>4, <1>5, <1>6 DEF PubNext, Caller, Sender, Quiet

LEMMA PubInitStream == PubInit => Stream!Init
BY DEF PubInit, Stream!Init

-----------------------------------------------------------------------------
\* The receiver and the watch keep their types, the table written agrees with
\* the one heard, and the signal with the links.
LEMMA LinkInitInv == LinkInit => LinkIInv
<1> SUFFICES ASSUME LinkInit PROVE LinkIInv
  OBVIOUS
<1> USE NeighbourAssumption, LinkBounds, FrameAssumption DEF LinkInit
<1>1. Recorded = {} /\ Known = {}
  BY DEF Recorded, Known
<1>2. /\ age \in [Neighbours -> 0..Limit \union {Never}]
      /\ up \in [Neighbours -> BOOLEAN \union {Never}]
  OBVIOUS
<1>3. inbox \in Seq(Neighbours \X Frames) /\ Len(inbox) <= MaxInbox
  OBVIOUS
<1>4. {table, dspTable, heard} \subseteq [Neighbours -> Frames]
  OBVIOUS
<1>5. refusals \in 0..MaxRefusals /\ reboots \in 0..MaxReboots
  OBVIOUS
<1>6. LinkTypeOK
  BY <1>1, <1>2, <1>3, <1>4, <1>5 DEF LinkTypeOK
<1> QED
  BY <1>1, <1>6 DEF LinkIInv, SignalTellsLinks

\* A command is answered or not: what the DSP has not got, and the bound.
LEMMA AnswerTypes ==
  ASSUME NEW w \in {"table", "signal"}, Taken(w) \/ Refused(w),
         ignored \subseteq {"table", "signal"}, refusals \in 0..MaxRefusals
  PROVE  ignored' \subseteq {"table", "signal"} /\ refusals' \in 0..MaxRefusals
<1>1. ignored' \subseteq {"table", "signal"}
  BY DEF Taken, Refused
<1>2. CASE Taken(w)
  BY <1>2 DEF Taken
<1>3. CASE Refused(w)
  BY <1>3, LinkBounds DEF Refused
<1> QED
  BY <1>1, <1>2, <1>3

\* The passing of time makes no neighbour known or unknown.
LEMMA OlderKnows == LinkTypeOK /\ Older => Known' = Known
<1> SUFFICES ASSUME LinkTypeOK, Older PROVE Known' = Known
  OBVIOUS
<1> SUFFICES ASSUME NEW a \in Neighbours PROVE (age'[a] # Never) <=> (age[a] # Never)
  BY DEF Known
<1>1. age[a] = Never => age'[a] = Never
  BY DEF Older, Known
<1>2. ASSUME age[a] # Never PROVE age'[a] # Never
  <2>1. age[a] \in Nat /\ age[a] + 1 \in Nat
    BY <1>2, LinkBounds DEF LinkTypeOK
  <2>2. age'[a] \in {age[a], age[a] + 1}
    BY DEF Older
  <2> QED
    BY <2>1, <2>2, NeighbourAssumption
<1> QED
  BY <1>1, <1>2

\* The types of the neighbours' records, action by action.
LEMMA LinkStepTypes == LinkTypeOK /\ [LinkNext]_linkvars => LinkTypeOK'
<1> SUFFICES ASSUME LinkTypeOK, [LinkNext]_linkvars PROVE LinkTypeOK'
  OBVIOUS
<1> USE NeighbourAssumption, LinkBounds, FrameAssumption
    DEF LinkTypeOK, Known, Recorded, Locked
<1>1. ASSUME NEW a \in Neighbours, NEW f \in Frames, Arrive(a, f)
      PROVE  LinkTypeOK'
  <2>1. inbox' \in Seq(Neighbours \X Frames) /\ Len(inbox') <= MaxInbox
    BY <1>1 DEF Arrive
  <2> QED
    BY <1>1, <2>1 DEF Arrive
<1>2. CASE Hear
  <2>1. /\ Head(inbox)[1] \in Neighbours /\ Head(inbox)[2] \in Frames
        /\ inbox' \in Seq(Neighbours \X Frames) /\ Len(inbox') <= MaxInbox
    BY <1>2 DEF Hear
  <2>2. age' \in [Neighbours -> 0..Limit \union {Never}] /\ Recorded' \subseteq Known'
    BY <1>2, <2>1 DEF Hear
  <2>3. ({table, dspTable, heard} \subseteq [Neighbours -> Frames])'
    BY <1>2, <2>1 DEF Hear
  <2>4. writing' \in BOOLEAN /\ todo' = {}
    BY <1>2 DEF Hear
  <2> QED
    BY <1>2, <2>1, <2>2, <2>3, <2>4 DEF Hear
<1>3. CASE WriteTable
  <2>1. ({table, dspTable, heard} \subseteq [Neighbours -> Frames])'
    BY <1>3 DEF WriteTable
  <2>2. refusals' \in 0..MaxRefusals /\ ignored' \subseteq {"table", "signal"}
    BY <1>3, AnswerTypes DEF WriteTable
  <2> QED
    BY <1>3, <2>1, <2>2 DEF WriteTable
<1>4. CASE Scan
  <2>1. Known' = Known /\ \A a \in Known : Fresh(a) \in BOOLEAN
    BY <1>4 DEF Scan, Fresh
  <2>2. todo' \subseteq Known \X BOOLEAN
    BY <1>4, <2>1 DEF Scan
  <2> QED
    BY <1>4, <2>1, <2>2 DEF Scan
<1>5. CASE Signal
  <2>1. PICK c \in todo :
          /\ up' = [up EXCEPT ![c[1]] = c[2]]
          /\ todo' = todo \ {c}
          /\ \/ /\ Taken("signal")
                /\ signal' = (\A a \in Neighbours : up'[a] # FALSE)
             \/ Refused("signal") /\ UNCHANGED signal
          /\ UNCHANGED <<age, inbox, writing, table, dspTable, heard, reboots>>
    BY <1>5 DEF Signal
  <2>2. c[1] \in Known /\ c[2] \in BOOLEAN
    BY <2>1
  <2>3. up' \in [Neighbours -> BOOLEAN \union {Never}]
    BY <2>1, <2>2
  <2>4. Recorded' \subseteq Known'
    BY <2>1, <2>2
  <2>5. refusals' \in 0..MaxRefusals /\ ignored' \subseteq {"table", "signal"}
    BY <2>1, AnswerTypes
  <2>6. signal' \in BOOLEAN /\ todo' \subseteq Known' \X BOOLEAN
    BY <2>1
  <2> QED
    BY <2>1, <2>3, <2>4, <2>5, <2>6
<1>6. CASE Older
  <2>1. age' \in [Neighbours -> 0..Limit \union {Never}]
    BY <1>6 DEF Older, Fresh
  <2>2. Known' = Known
    BY <1>6, OlderKnows DEF LinkTypeOK
  <2> QED
    BY <1>6, <2>1, <2>2 DEF Older
<1>7. CASE Reboot
  <2>1. Known' = {} /\ Recorded' = {}
    BY <1>7 DEF Reboot
  <2>2. /\ age' \in [Neighbours -> 0..Limit \union {Never}]
        /\ up' \in [Neighbours -> BOOLEAN \union {Never}]
    BY <1>7 DEF Reboot
  <2>3. ({table, dspTable, heard} \subseteq [Neighbours -> Frames])'
    BY <1>7 DEF Reboot
  <2>4. refusals' \in 0..MaxRefusals /\ ignored' \subseteq {"table", "signal"}
    BY <1>7, AnswerTypes DEF Reboot
  <2>5. inbox' \in Seq(Neighbours \X Frames) /\ Len(inbox') <= MaxInbox
    BY <1>7 DEF Reboot
  <2>6. reboots' \in 0..MaxReboots
    BY <1>7 DEF Reboot
  <2> QED
    BY <1>7, <2>1, <2>2, <2>3, <2>4, <2>5, <2>6 DEF Reboot
<1>8. CASE UNCHANGED linkvars
  BY <1>8 DEF linkvars
<1> QED
  BY <1>1, <1>2, <1>3, <1>4, <1>5, <1>6, <1>7, <1>8
     DEF LinkNext, Watch, Receiver

\* What the DSP has, the table and what was heard stay together.
LEMMA LinkStepInv == LinkIInv /\ [LinkNext]_linkvars => LinkIInv'
<1> SUFFICES ASSUME LinkIInv, [LinkNext]_linkvars PROVE LinkIInv'
  OBVIOUS
<1>1. LinkTypeOK'
  BY LinkStepTypes DEF LinkIInv
<1> USE NeighbourAssumption, FrameAssumption
    DEF LinkIInv, LinkTypeOK, Known, Recorded
<1>2. ("table" \notin ignored /\ ~writing => dspTable = table)'
  <2>1. ASSUME NEW a \in Neighbours, NEW f \in Frames, Arrive(a, f)
        PROVE  ("table" \notin ignored /\ ~writing => dspTable = table)'
    BY <2>1 DEF Arrive
  <2>2. CASE Hear
    <3>1. Head(inbox)[1] \in Neighbours
      BY <2>2 DEF Hear
    <3> QED
      BY <2>2, <3>1 DEF Hear
  <2>3. CASE WriteTable
    BY <2>3 DEF WriteTable, Taken, Refused
  <2>4. CASE Scan \/ Older
    BY <2>4 DEF Scan, Older
  <2>5. CASE Signal
    <3>1. Taken("signal") \/ Refused("signal")
      BY <2>5 DEF Signal
    <3>2. "table" \notin ignored' => "table" \notin ignored
      BY <3>1 DEF Taken, Refused
    <3> QED
      BY <2>5, <3>2 DEF Signal
  <2>6. CASE Reboot
    BY <2>6 DEF Reboot, Taken, Refused
  <2>7. CASE UNCHANGED linkvars
    BY <2>7 DEF linkvars
  <2> QED
    BY <2>1, <2>2, <2>3, <2>4, <2>5, <2>6, <2>7 DEF LinkNext, Watch, Receiver
<1>3. (\A a \in Known : table[a] = heard[a])'
  <2>1. ASSUME NEW a \in Neighbours, NEW f \in Frames, Arrive(a, f)
        PROVE  (\A b \in Known : table[b] = heard[b])'
    BY <2>1 DEF Arrive
  <2>2. CASE Hear
    <3>1. Head(inbox)[1] \in Neighbours
      BY <2>2 DEF Hear
    <3> QED
      BY <2>2, <3>1 DEF Hear
  <2>3. CASE WriteTable \/ Scan \/ Signal
    BY <2>3 DEF WriteTable, Scan, Signal
  <2>4. CASE Older
    <3>1. Known' = Known
      BY <2>4, OlderKnows
    <3> QED
      BY <2>4, <3>1 DEF Older
  <2>5. CASE Reboot
    BY <2>5 DEF Reboot
  <2>6. CASE UNCHANGED linkvars
    BY <2>6 DEF linkvars
  <2> QED
    BY <2>1, <2>2, <2>3, <2>4, <2>5, <2>6 DEF LinkNext, Watch, Receiver
<1>4. SignalTellsLinks'
  <2> USE DEF SignalTellsLinks
  <2>1. CASE Signal
    <3>1. CASE Refused("signal")
      BY <3>1 DEF Refused
    <3>2. CASE signal' = (\A a \in Neighbours : up'[a] # FALSE)
      <4>1. (\A a \in Neighbours : up'[a] # FALSE)
              <=> (\A a \in Recorded' : up'[a])
        BY <1>1
      <4> QED
        BY <3>2, <4>1
    <3> QED
      BY <2>1, <3>1, <3>2 DEF Signal
  <2>2. CASE Reboot
    BY <2>2 DEF Reboot
  <2>3. CASE WriteTable
    BY <2>3 DEF WriteTable, Taken, Refused
  <2>4. CASE UNCHANGED <<up, signal, ignored>>
    BY <2>4
  <2> QED
    BY <2>1, <2>2, <2>3, <2>4
       DEF LinkNext, Watch, Receiver, Arrive, Hear, Scan, Older, linkvars
<1> QED
  BY <1>1, <1>2, <1>3, <1>4
-----------------------------------------------------------------------------
\* A step of the two stations is a step of each, or invisible to it.
LEMMA NetSteps == PubIInv /\ [Next]_vars => [PubNext]_pubvars /\ [LinkNext]_linkvars
<1> SUFFICES ASSUME PubIInv, [Next]_vars
             PROVE  [PubNext]_pubvars /\ [LinkNext]_linkvars
  OBVIOUS
<1> USE DEF PubNext, LinkNext, Sender
<1>1. CASE Publication \/ Outage \/ Work
  BY <1>1 DEF Publication, Outage, Work
<1>2. ASSUME NEW f \in Frames, Send(f) PROVE [LinkNext]_linkvars
  BY <1>2, LineAssumption DEF Send
<1>3. CASE SendBurst
  <2>1. Head(queue) \in Frames
    BY <1>3 DEF PubIInv, PubTypeOK, SendBurst, Burst
  <2> QED
    BY <1>2, <1>3, <2>1 DEF SendBurst
<1>4. CASE SendBeat
  BY <1>2, <1>4 DEF SendBeat, PubIInv, PubTypeOK
<1>5. CASE NeighbourStep
  BY <1>5 DEF NeighbourStep, Receiver
<1>6. CASE HearLine
  BY <1>6 DEF HearLine, Receiver
<1>7. CASE Tick
  BY <1>7 DEF Tick
<1>8. CASE UNCHANGED vars
  BY <1>8 DEF vars
<1> QED
  BY <1>1, <1>3, <1>4, <1>5, <1>6, <1>7, <1>8 DEF Next

LEMMA NetInitInv == Init => NetIInv
<1> SUFFICES ASSUME Init PROVE NetIInv
  OBVIOUS
<1>1. PubIInv /\ LinkIInv
  BY PubInitInv, LinkInitInv DEF Init
<1>2. waited = FALSE /\ silent = FALSE /\ losses = 0 /\ 0 \in 0..MaxLosses
  BY LineAssumption DEF Init
<1>3. WorkerIsPrompt
  BY DEF Init, PubInit, WorkerIsPrompt
<1>4. OnlyLineArrives /\ TodoIsDue
  BY DEF Init, LinkInit, OnlyLineArrives, TodoIsDue, Known
<1>5. AgeIsPaid
  BY LineAssumption DEF Init, LinkInit, AgeIsPaid
<1> QED
  BY <1>1, <1>2, <1>3, <1>4, <1>5 DEF NetIInv

\* The bookkeeping of the two stations keeps its types.
LEMMA NetStepTypes ==
  NetIInv /\ [Next]_vars =>
    waited' \in BOOLEAN /\ losses' \in 0..MaxLosses /\ silent' \in BOOLEAN
<1> SUFFICES ASSUME NetIInv, [Next]_vars
             PROVE  waited' \in BOOLEAN /\ losses' \in 0..MaxLosses /\ silent' \in BOOLEAN
  OBVIOUS
<1> USE LineAssumption DEF NetIInv
<1>1. CASE Publication \/ NeighbourStep \/ UNCHANGED vars
  BY <1>1 DEF Publication, NeighbourStep, vars, netvars
<1>2. CASE Outage \/ Work
  BY <1>2 DEF Outage, Work
<1>3. CASE SendBurst \/ SendBeat
  <2>1. losses' \in 0..MaxLosses
    BY <1>3 DEF SendBurst, SendBeat, Send
  <2> QED
    BY <1>3, <2>1 DEF SendBurst, SendBeat
<1>4. CASE HearLine
  <2>1. losses' \in {0, losses} /\ 0 \in 0..MaxLosses
    BY <1>4 DEF HearLine
  <2>2. silent' = FALSE \/ silent' = silent
    BY <1>4 DEF HearLine
  <2> QED
    BY <1>4, <2>1, <2>2 DEF HearLine
<1>5. CASE Tick
  BY <1>5 DEF Tick, Mute, At
<1> QED
  BY <1>1, <1>2, <1>3, <1>4, <1>5 DEF Next

\* Only Burst and TakeNothing let the worker run out of a queue, and both find
\* it at work, where it has not waited.
LEMMA NetStepPrompt == NetIInv /\ [Next]_vars => WorkerIsPrompt'
<1> SUFFICES ASSUME NetIInv, [Next]_vars PROVE WorkerIsPrompt'
  OBVIOUS
<1> USE DEF NetIInv, WorkerIsPrompt, PubIInv, PubTypeOK, At, Go, Places
<1>1. CASE Publication
  <2>1. ASSUME NEW f \in Frames, Enqueue(f), UNCHANGED netvars PROVE WorkerIsPrompt'
    BY <2>1 DEF Enqueue, netvars
  <2>2. CASE ClearPing /\ UNCHANGED netvars
    BY <2>2 DEF ClearPing, netvars
  <2> QED
    BY <1>1, <2>1, <2>2 DEF Publication, Caller
<1>2. CASE Outage
  BY <1>2 DEF Outage
<1>3. CASE Work
  BY <1>3 DEF Work
<1>4. CASE SendBurst
  BY <1>4 DEF SendBurst, Burst
<1>5. CASE SendBeat
  BY <1>5 DEF SendBeat, Beat
<1>6. CASE NeighbourStep \/ HearLine \/ UNCHANGED vars
  BY <1>6 DEF NeighbourStep, HearLine, vars, pubvars, netvars
<1>7. CASE Tick
  BY <1>7 DEF Tick, pubvars
<1> QED
  BY <1>1, <1>2, <1>3, <1>4, <1>5, <1>6, <1>7 DEF Next

\* Only the line sends to the neighbour's inbox.
LEMMA NetStepArrivals == NetIInv /\ [Next]_vars => OnlyLineArrives'
<1> SUFFICES ASSUME NetIInv, [Next]_vars PROVE OnlyLineArrives'
  OBVIOUS
<1> USE DEF NetIInv, OnlyLineArrives, LinkIInv, LinkTypeOK
<1>1. CASE UNCHANGED inbox
  BY <1>1
<1>2. ASSUME NEW f, Arrive(Line, f) PROVE OnlyLineArrives'
  <2>1. inbox' = Append(inbox, <<Line, f>>)
    BY <1>2 DEF Arrive
  <2> QED
    BY <2>1
<1>3. CASE SendBurst \/ SendBeat
  BY <1>1, <1>2, <1>3 DEF SendBurst, SendBeat, Send, linkvars
<1>4. CASE HearLine
  <2>1. inbox' = Tail(inbox) /\ inbox # <<>>
    BY <1>4 DEF HearLine, Hear
  <2>2. Len(inbox') = Len(inbox) - 1
        /\ \A i \in 1..Len(inbox') : inbox'[i] = inbox[i + 1]
    BY <2>1
  <2> QED
    BY <2>2
<1>5. CASE NeighbourStep
  <2>1. CASE Reboot
    BY <2>1 DEF Reboot
  <2>2. CASE Watch \/ WriteTable
    BY <1>1, <2>2 DEF Watch, Scan, Signal, WriteTable
  <2> QED
    BY <1>5, <2>1, <2>2 DEF NeighbourStep
<1>6. CASE Publication \/ Outage \/ Work \/ Tick \/ UNCHANGED vars
  BY <1>1, <1>6 DEF Publication, Outage, Work, Tick, Older, vars, linkvars
<1> QED
  BY <1>3, <1>4, <1>5, <1>6 DEF Next

\* While a pass has links to take down nothing makes them young again: the
\* receiver waits for the lock.
LEMMA LinkStepDue ==
  LinkTypeOK /\ TodoIsDue /\ [LinkNext]_linkvars => TodoIsDue'
<1> SUFFICES ASSUME LinkTypeOK, TodoIsDue, [LinkNext]_linkvars,
                    NEW a \in Neighbours, age'[a] # Never, <<a, FALSE>> \in todo'
             PROVE  age'[a] >= Limit
  BY DEF TodoIsDue, Known
<1> USE NeighbourAssumption, LinkBounds DEF LinkTypeOK, TodoIsDue, Known
<1>1. CASE UNCHANGED <<age, todo>>
  BY <1>1
<1>2. CASE Hear
  BY <1>2 DEF Hear, Locked
<1>3. CASE Scan
  <2>1. age' = age /\ Fresh(a) = FALSE
    BY <1>3 DEF Scan, Fresh
  <2>2. age[a] \in Nat
    BY <2>1
  <2> QED
    BY <2>1, <2>2 DEF Fresh
<1>4. CASE Signal
  BY <1>4 DEF Signal
<1>5. CASE Older
  <2>1. age[a] # Never
    BY <1>5, OlderKnows
  <2>2. age[a] >= Limit /\ ~Fresh(a)
    <3>1. age[a] \in Nat /\ todo' = todo
      BY <1>5, <2>1 DEF Older
    <3>2. age[a] >= Limit
      BY <2>1, <3>1
    <3> QED
      BY <3>1, <3>2 DEF Fresh
  <2> QED
    BY <1>5, <2>2 DEF Older
<1>6. CASE Reboot
  BY <1>6 DEF Reboot
<1> QED
  BY <1>1, <1>2, <1>3, <1>4, <1>5, <1>6
     DEF LinkNext, Watch, Receiver, Arrive, WriteTable, linkvars

\* No tick is left unpaid: it comes only when nothing is owed, and then a frame
\* is owed, or the worker is mute or dead.
LEMMA NetStepPaid == NetIInv /\ [Next]_vars => AgeIsPaid'
<1> SUFFICES ASSUME NetIInv, [Next]_vars, ~silent', age'[Line] # Never
             PROVE  age'[Line] <= losses' + Len(inbox') + Owed'
  BY DEF AgeIsPaid
<1>0. /\ losses \in Nat /\ losses' \in Nat /\ Len(inbox) \in Nat /\ Len(inbox') \in Nat
      /\ Owed \in {0, 1} /\ Owed' \in {0, 1}
      /\ age[Line] # Never => age[Line] \in Nat
      /\ age'[Line] # Never => age'[Line] \in Nat
  <2>1. LinkTypeOK /\ LinkTypeOK'
    BY NetSteps, LinkStepInv DEF NetIInv, LinkIInv
  <2>2. losses \in Nat /\ losses' \in Nat
    BY NetStepTypes DEF NetIInv
  <2>3. Len(inbox) \in Nat /\ Len(inbox') \in Nat
    BY <2>1 DEF LinkTypeOK
  <2>4. /\ age[Line] # Never => age[Line] \in Nat
        /\ age'[Line] # Never => age'[Line] \in Nat
    BY <2>1, LineAssumption, LinkBounds DEF LinkTypeOK
  <2> QED
    BY <2>2, <2>3, <2>4 DEF Owed
<1>1. ASSUME silent' = silent, age'[Line] = age[Line],
             losses' + Len(inbox') + Owed' >= losses + Len(inbox) + Owed
      PROVE  age'[Line] <= losses' + Len(inbox') + Owed'
  BY <1>0, <1>1 DEF NetIInv, AgeIsPaid
<1>2. ASSUME Pending => Pending' PROVE Owed' >= Owed
  BY <1>2 DEF Owed
<1> USE DEF NetIInv, PubIInv, PubTypeOK, LinkIInv, LinkTypeOK, WorkerIsPrompt
<1>3. CASE Publication
  <2>1. Pending => Pending'
    BY <1>3 DEF Publication, Caller, Enqueue, ClearPing, netvars, Pending, At
  <2> QED
    BY <1>0, <1>1, <1>2, <1>3, <2>1 DEF Publication, linkvars, netvars
<1>4. CASE Outage
  BY <1>4 DEF Outage
<1>5. CASE Work
  <2>1. Pending => Pending'
    BY <1>5 DEF Work, Quiet, Wake, TakeNothing, Mark, Go, Pending, At
  <2> QED
    BY <1>0, <1>1, <1>2, <1>5, <2>1 DEF Work, linkvars
<1>6. ASSUME NEW f, Send(f)
      PROVE  age' = age /\ losses' + Len(inbox') >= losses + Len(inbox) + 1
  <2>1. CASE Arrive(Line, f) /\ UNCHANGED losses
    <3>1. inbox' = Append(inbox, <<Line, f>>)
      BY <2>1 DEF Arrive
    <3>2. Len(inbox') = Len(inbox) + 1
      BY <3>1
    <3> QED
      BY <1>0, <2>1, <3>2 DEF Arrive
  <2>2. CASE losses' = losses + 1 /\ UNCHANGED linkvars
    BY <1>0, <2>2 DEF linkvars
  <2> QED
    BY <1>6, <2>1, <2>2 DEF Send
<1>7. CASE SendBurst \/ SendBeat
  <2>1. age' = age /\ losses' + Len(inbox') >= losses + Len(inbox) + 1
    BY <1>6, <1>7 DEF SendBurst, SendBeat
  <2>2. silent' = silent
    BY <1>7 DEF SendBurst, SendBeat
  <2> QED
    BY <1>0, <1>1, <2>1, <2>2
<1>8. CASE NeighbourStep
  <2>1. CASE Reboot
    BY <2>1, LineAssumption DEF Reboot
  <2>2. CASE Watch \/ WriteTable
    <3>1. age' = age /\ inbox' = inbox
      BY <2>2 DEF Watch, Scan, Signal, WriteTable
    <3>2. Pending => Pending'
      BY <1>8 DEF NeighbourStep, Pending, At, pubvars, netvars
    <3> QED
      BY <1>0, <1>1, <1>2, <1>8, <3>1, <3>2 DEF NeighbourStep, netvars
  <2> QED
    BY <1>8, <2>1, <2>2 DEF NeighbourStep
<1>9. CASE HearLine
  <2>1. Head(inbox)[1] = Line
    BY <1>9 DEF HearLine, Hear, OnlyLineArrives
  <2>2. age'[Line] = 0
    BY <1>9, <2>1, LineAssumption DEF HearLine, Hear
  <2> QED
    BY <1>0, <2>2
<1>10. CASE Tick
  <2>1. ~silent /\ ~Mute /\ At("wait") /\ ~waited /\ pub = "idle" /\ waited' = TRUE
    BY <1>10 DEF Tick
  <2>2. ~Pending /\ Pending'
    BY <1>10, <2>1 DEF Tick, Mute, Pending, At, pubvars
  <2>3. age[Line] # Never /\ age'[Line] \in {age[Line], age[Line] + 1}
    BY <1>10, LineAssumption, OlderKnows DEF Tick, Older, Known
  <2>4. losses' = losses /\ inbox' = inbox
    BY <1>10 DEF Tick, Older
  <2> QED
    BY <1>0, <2>1, <2>2, <2>3, <2>4 DEF AgeIsPaid, Owed
<1>11. CASE UNCHANGED vars
  <2>1. Pending => Pending'
    BY <1>11 DEF vars, pubvars, netvars, Pending, At
  <2> QED
    BY <1>0, <1>1, <1>2, <1>11, <2>1 DEF vars, linkvars, netvars
<1> QED
  BY <1>3, <1>4, <1>5, <1>7, <1>8, <1>9, <1>10, <1>11 DEF Next

LEMMA NetStepInv == NetIInv /\ [Next]_vars => NetIInv'
<1> SUFFICES ASSUME NetIInv, [Next]_vars PROVE NetIInv'
  OBVIOUS
<1>1. [PubNext]_pubvars /\ [LinkNext]_linkvars
  BY NetSteps DEF NetIInv
<1>2. PubIInv' /\ LinkIInv'
  BY <1>1, PubStepInv, LinkStepInv DEF NetIInv
<1>3. TodoIsDue'
  BY <1>1, LinkStepDue DEF NetIInv, LinkIInv
<1> QED
  BY <1>2, <1>3, NetStepTypes, NetStepPrompt, NetStepArrivals, NetStepPaid
     DEF NetIInv

LEMMA NetInvariant == Spec => []NetIInv
<1>1. Init => NetIInv
  BY NetInitInv
<1>2. NetIInv /\ [Next]_vars => NetIInv'
  BY NetStepInv
<1> QED
  BY <1>1, <1>2, PTL DEF Spec
-----------------------------------------------------------------------------
\* Both stations, and what lies between them, keep their types.
THEOREM NetTypeCorrect == Spec => []TypeOK
<1>1. NetIInv => TypeOK
  BY DEF NetIInv, PubIInv, LinkIInv, TypeOK
<1> QED
  BY <1>1, NetInvariant, PTL

\* The line shows what dsp_handle publishes, in order, whatever the worker and
\* dsp_handle do to isPing in between: GoosePublisher implements GooseStream.
THEOREM LineShowsTheStream == Spec => ShowsTheStream
<1>1. Init => Stream!Init
  BY PubInitStream DEF Init
<1>2. NetIInv /\ [Next]_vars => [Stream!Next]_(Stream!vars)
  BY NetSteps, PubStepStream DEF NetIInv
<1> QED
  BY <1>1, <1>2, NetInvariant, PTL DEF Spec, ShowsTheStream, Stream!Spec

\* A link that is found broken was dead or mute, or lost as many frames as
\* heartbeats of 5 s leave room for in 20 s.
THEOREM LinkFallsForCause == Spec => FallsForCause
<1>1. ASSUME NetIInv, [Next]_vars, up[Line] # FALSE, up'[Line] = FALSE
      PROVE  silent \/ losses + MaxInbox + 1 >= Limit
  <2>1. [LinkNext]_linkvars
    BY <1>1, NetSteps DEF NetIInv
  <2>2. Signal
    BY <1>1, <2>1, LineAssumption, NeighbourAssumption
       DEF LinkNext, Watch, Receiver, Arrive, Hear, WriteTable, Scan, Older,
           Reboot, linkvars
  <2>3. <<Line, FALSE>> \in todo
    <3>1. PICK c \in todo : up' = [up EXCEPT ![c[1]] = c[2]]
      BY <2>2 DEF Signal
    <3>2. c = <<c[1], c[2]>> /\ c[1] \in Neighbours
      BY <1>1 DEF NetIInv, LinkIInv, LinkTypeOK, Known
    <3>3. c[1] = Line /\ c[2] = FALSE
      BY <1>1, <3>1, <3>2, LineAssumption DEF NetIInv, LinkIInv, LinkTypeOK
    <3> QED
      BY <3>2, <3>3
  <2>4. age[Line] # Never /\ age[Line] >= Limit
    BY <1>1, <2>3 DEF NetIInv, TodoIsDue, LinkIInv, LinkTypeOK, Known
  <2>5. /\ age[Line] \in Nat /\ losses \in Nat /\ Len(inbox) \in Nat
        /\ Len(inbox) <= MaxInbox /\ Owed \in {0, 1}
    BY <1>1, <2>4, LineAssumption, LinkBounds
       DEF NetIInv, LinkIInv, LinkTypeOK, Owed
  <2> QED
    BY <1>1, <2>4, <2>5, LinkBounds DEF NetIInv, AgeIsPaid
<1>2. NetIInv /\ [Next]_vars
        => [up[Line] # FALSE /\ up'[Line] = FALSE
              => silent \/ losses + MaxInbox + 1 >= Limit]_vars
  BY <1>1
<1> QED
  BY <1>2, NetInvariant, PTL DEF Spec, FallsForCause
-----------------------------------------------------------------------------
LEMMA LinkInvariant == LinkSpec => []LinkIInv
<1>1. LinkInit => LinkIInv
  BY LinkInitInv
<1>2. LinkIInv /\ [LinkNext]_linkvars => LinkIInv'
  BY LinkStepInv
<1> QED
  BY <1>1, <1>2, PTL DEF LinkSpec

\* The records of the neighbours keep their types, and no link has a state
\* without a time.
THEOREM LinkTypeCorrect == LinkSpec => []LinkTypeOK
BY LinkInvariant, PTL DEF LinkIInv

\* What the DSP took of the table is what was heard of the neighbours.
THEOREM TableReachesDsp == LinkSpec => []DspHasWhatWasHeard
<1>1. LinkIInv => DspHasWhatWasHeard
  BY DEF LinkIInv, DspHasWhatWasHeard
<1> QED
  BY <1>1, LinkInvariant, PTL

\* The DSP's signal says whether all links with a state are up.
THEOREM SignalReachesDsp == LinkSpec => []SignalTellsLinks
BY LinkInvariant, PTL DEF LinkIInv
=============================================================================
