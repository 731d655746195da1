------------------------------- MODULE GooseLink -------------------------------
(***************************************************************************)
(* How a station follows its GOOSE neighbours (dtuGooseSubscriber and      *)
(* dtuGooseTableMgr of libdtugoose).  The receiver thread stamps the time  *)
(* of every frame it accepts and, when the frame changes the table of all  *)
(* neighbours, writes the whole table to the DSP.  A second thread looks   *)
(* every 100 ms for neighbours not heard for 20 s and tells the DSP when   *)
(* that changes; it holds _GooseTimeLock for the whole pass, commands      *)
(* included.  Nobody looks at the DSP's answers.  Time is counted in ticks *)
(* of 5 s.  A neighbour stands for the four entries of the table its frames*)
(* set.                                                                    *)
(***************************************************************************)
EXTENDS Naturals, Sequences, GooseFrames

CONSTANTS
  Neighbours,   \* APPIDs the station is configured to hear
  Never,        \* not in _GooseLinkMap, or not in _GooseLinkStateMap
  Limit,        \* age at which a link is broken: 5 ticks are over 20 s
  MaxInbox,     \* frames waiting for the receiver (bound of the model)
  MaxRefusals,  \* DSP commands that fail, at most (bound of the model)
  MaxReboots    \* restarts of the station, at most (bound of the model)

ASSUME NeighbourAssumption ==
  Neighbours \subseteq Nat /\ Never \notin Nat \union BOOLEAN
ASSUME LinkBounds ==
  /\ Limit \in Nat \ {0} /\ MaxInbox \in Nat
  /\ MaxRefusals \in Nat /\ MaxReboots \in Nat

VARIABLES
  age,       \* ticks since a neighbour was heard (_GooseLinkMap)
  up,        \* _GooseLinkStateMap
  todo,      \* what the pass under way has still to change in up
  inbox,     \* frames the receiver has not read
  writing,   \* the receiver is writing the table to the DSP
  table,     \* GooseTable
  dspTable,  \* the table the DSP has
  signal,    \* the last link signal the DSP took: TRUE is "restored"
  heard,     \* history: the last frame heard of each neighbour
  ignored,   \* history: what the DSP has not got since it last took it
  refusals,  \* commands that failed
  reboots    \* restarts made

linkvars == <<age, up, todo, inbox, writing, table, dspTable, signal, heard,
              ignored, refusals, reboots>>

Known     == {a \in Neighbours : age[a] # Never}

\* Mutant: the time a neighbour may be silent is near that of one heartbeat.
Fresh_OneBeat(a) == age[a] < 2

Fresh(a)  == age[a] < Limit

Locked    == todo # {}
Recorded  == {a \in Neighbours : up[a] # Never}

LinkTypeOK ==
  /\ age \in [Neighbours -> 0..Limit \union {Never}]
  /\ up \in [Neighbours -> BOOLEAN \union {Never}]
  /\ todo \subseteq Known \X BOOLEAN
  /\ inbox \in Seq(Neighbours \X Frames) /\ Len(inbox) <= MaxInbox
  /\ writing \in BOOLEAN /\ signal \in BOOLEAN
  /\ {table, dspTable, heard} \subseteq [Neighbours -> Frames]
  /\ ignored \subseteq {"table", "signal"}
  /\ refusals \in 0..MaxRefusals /\ reboots \in 0..MaxReboots
  /\ Recorded \subseteq Known

LinkInit ==
  /\ age = [a \in Neighbours |-> Never] /\ up = age
  /\ todo = {} /\ inbox = <<>> /\ writing = FALSE
  /\ table = [a \in Neighbours |-> Blank] /\ dspTable = table /\ heard = table
  /\ signal = TRUE /\ ignored = {} /\ refusals = 0 /\ reboots = 0
-----------------------------------------------------------------------------
\* A command to the DSP that concerns w: taken, or refused and forgotten.
Taken(w)   == ignored' = ignored \ {w} /\ UNCHANGED refusals
Refused(w) == /\ refusals < MaxRefusals
              /\ refusals' = refusals + 1
              /\ ignored' = ignored \union {w}

Arrive(a, f) ==
  /\ Len(inbox) < MaxInbox
  /\ inbox' = Append(inbox, <<a, f>>)
  /\ UNCHANGED <<age, up, todo, writing, table, dspTable, signal, heard,
                 ignored, refusals, reboots>>

\* Mutant: only a state that is not blank is compared with the table.
Hear_OnlyAlarms ==
  /\ inbox # <<>> /\ ~writing /\ ~Locked
  /\ LET a == Head(inbox)[1]
         f == Head(inbox)[2]
     IN  /\ age' = [age EXCEPT ![a] = 0]
         /\ heard' = [heard EXCEPT ![a] = f]
         /\ table' = IF f = Blank THEN table ELSE [table EXCEPT ![a] = f]
         /\ writing' = (table' # table)
  /\ inbox' = Tail(inbox)
  /\ UNCHANGED <<up, todo, dspTable, signal, ignored, refusals, reboots>>

\* gooseListener: the time under the lock, then the table.
Hear ==
  /\ inbox # <<>> /\ ~writing /\ ~Locked
  /\ LET a == Head(inbox)[1]
         f == Head(inbox)[2]
     IN  /\ age' = [age EXCEPT ![a] = 0]
         /\ heard' = [heard EXCEPT ![a] = f]
         /\ table' = [table EXCEPT ![a] = f]
         /\ writing' = (table[a] # f)
  /\ inbox' = Tail(inbox)
  /\ UNCHANGED <<up, todo, dspTable, signal, ignored, refusals, reboots>>

WriteTable ==
  /\ writing
  /\ writing' = FALSE
  /\ \/ Taken("table") /\ dspTable' = table
     \/ Refused("table") /\ UNCHANGED dspTable
  /\ UNCHANGED <<age, up, todo, inbox, table, signal, heard, reboots>>
-----------------------------------------------------------------------------
\* Mutant: only links without a state are looked at.
Scan_OnlyNew ==
  /\ ~Locked
  /\ todo' = {<<a, Fresh(a)>> : a \in {b \in Known : up[b] = Never}}
  /\ Locked'
  /\ UNCHANGED <<age, up, inbox, writing, table, dspTable, signal, heard,
                 ignored, refusals, reboots>>

\* A pass begins: the lock, the time, and the links whose state has changed.
Scan ==
  /\ ~Locked
  /\ todo' = {<<a, Fresh(a)>> : a \in {b \in Known : up[b] # Fresh(b)}}
  /\ Locked'
  /\ UNCHANGED <<age, up, inbox, writing, table, dspTable, signal, heard,
                 ignored, refusals, reboots>>

\* Mutant: the signal follows the link that changed, not all links.
Signal_OwnLink ==
  \E c \in todo :
    /\ \A d \in todo : c[1] <= d[1]
    /\ up' = [up EXCEPT ![c[1]] = c[2]]
    /\ todo' = todo \ {c}
    /\ \/ Taken("signal") /\ signal' = c[2]
       \/ Refused("signal") /\ UNCHANGED signal
    /\ UNCHANGED <<age, inbox, writing, table, dspTable, heard, reboots>>

\* updateGooseLinkState, in the order of the APPIDs: the state is recorded,
\* then the DSP is told whether all recorded links are up.
Signal ==
  \E c \in todo :
    /\ \A d \in todo : c[1] <= d[1]
    /\ up' = [up EXCEPT ![c[1]] = c[2]]
    /\ todo' = todo \ {c}
    /\ \/ Taken("signal") /\ signal' = (\A a \in Neighbours : up'[a] # FALSE)
       \/ Refused("signal") /\ UNCHANGED signal
    /\ UNCHANGED <<age, inbox, writing, table, dspTable, heard, reboots>>
-----------------------------------------------------------------------------
Older ==
  /\ age' = [a \in Neighbours |->
               IF a \in Known /\ Fresh(a) THEN age[a] + 1 ELSE age[a]]
  /\ UNCHANGED <<up, todo, inbox, writing, table, dspTable, signal, heard,
                 ignored, refusals, reboots>>

\* Mutant: the states of the links outlive the times.
Reboot_KeepsStates ==
  /\ reboots < MaxReboots
  /\ reboots' = reboots + 1
  /\ age' = [a \in Neighbours |-> Never]
  /\ todo' = {} /\ inbox' = <<>> /\ writing' = FALSE
  /\ \/ Taken("table") /\ table' = dspTable
     \/ Refused("table") /\ table' = [a \in Neighbours |-> Blank]
  /\ UNCHANGED <<up, dspTable, signal, heard>>

\* The station restarts; the DSP goes on. The table is read back from the DSP,
\* or blank when three readings failed; no link is known.
Reboot ==
  /\ reboots < MaxReboots
  /\ reboots' = reboots + 1
  /\ age' = [a \in Neighbours |-> Never] /\ up' = age'
  /\ todo' = {} /\ inbox' = <<>> /\ writing' = FALSE
  /\ \/ Taken("table") /\ table' = dspTable
     \/ Refused("table") /\ table' = [a \in Neighbours |-> Blank]
  /\ UNCHANGED <<dspTable, signal, heard>>
-----------------------------------------------------------------------------
Watch    == Scan \/ Signal
Receiver == Hear \/ WriteTable

LinkNext == \/ \E a \in Neighbours, f \in Frames : Arrive(a, f)
            \/ Watch \/ Receiver \/ Older \/ Reboot

LinkSpec == LinkInit /\ [][LinkNext]_linkvars

\* Once the DSP has taken the table, it has the last state heard of every
\* neighbour heard since the boot; a refused write is made good by the next
\* change, wherever that is.
DspHasWhatWasHeard ==
  ~writing /\ "table" \notin ignored
    => \A a \in Known : dspTable[a] = heard[a]

\* The DSP's signal says whether every link known since the boot is up, whatever
\* the order in which several fall and return, unless the DSP refused it.
SignalTellsLinks ==
  "signal" \notin ignored /\ Recorded # {}
    => signal = \A a \in Recorded : up[a]
=============================================================================
