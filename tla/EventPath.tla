------------------------------- MODULE EventPath -------------------------------
(***************************************************************************)
(* The way of an event from the DSP to its report and to the masters       *)
(* (DSPComm::dsp_run and dsp_handle, composed with ReportStore).  The DSP  *)
(* raises a flag per kind of event.  dsp_run reads the events of a raised  *)
(* flag into a queue and lowers the flag; the connection test adds events  *)
(* of its own.  dsp_handle stores every event of the queue, with a file for*)
(* recordings, and then tells masters and tools.  Meanwhile a tool may     *)
(* clear a report and the program may restart.  The kinds here are those   *)
(* with a report each; a recording is one event.  The DSP is outside this  *)
(* repository: an answer hands over the events it had when it was asked.   *)
(***************************************************************************)
EXTENDS ReportStore, FiniteSets

CONSTANTS
  Soe,       \* the report the connection test adds to
  MaxEvents  \* events raised, at most (bound of the model)

ASSUME EventAssumption == Soe \in Reports \ FileReports /\ MaxEvents \in Nat

VARIABLES
  raised,   \* events raised so far: they are numbered in that order
  byLink,   \* those of the connection test
  dspHas,   \* dspHas[r]: events of kind r the DSP has not handed over
  flag,     \* m_readflag_buff
  reading,  \* the flag dsp_run has still to lower, or Idle
  equeue,   \* _handleQueue
  handler,  \* dsp_handle: what it does, the events left of its item, the entry
  told,     \* history: events told to masters and tools
  stored,   \* history: events whose insertion was answered with success
  dropped   \* history: recordings given up before they had a file

eventvars == <<raised, byLink, dspHas, flag, reading, equeue, handler, told,
               stored, dropped>>
vars      == <<storevars, eventvars>>

Idle == <<>>
Rest == [at |-> "idle", kind |-> Soe, batch |-> <<>>,
         entry |-> [item |-> 0, no |-> 0]]

TypeOK ==
  /\ StoreTypeOK
  /\ raised \in 0..MaxEvents /\ byLink \subseteq 1..raised
  /\ dspHas \in [Reports -> Seq(1..raised)] /\ flag \in [Reports -> BOOLEAN]
  /\ reading \in {Idle} \union {<<r>> : r \in Reports}
  /\ equeue \in Seq(Reports \X Seq(1..raised))
  /\ handler.at \in {"idle", "insert", "tell", "next"}
  /\ handler.at # "idle" => /\ handler.kind \in Reports
                            /\ handler.batch \in Seq(1..raised)
                            /\ handler.at = "next" => handler.batch # <<>>
                            /\ handler.entry \in Entries
  /\ Adding => handler.at = "tell"
  /\ told \subseteq 1..raised /\ stored \subseteq 1..raised
  /\ dropped \subseteq 1..raised

Init ==
  /\ StoreInit
  /\ raised = 0 /\ byLink = {}
  /\ dspHas = [r \in Reports |-> <<>>] /\ flag = [r \in Reports |-> FALSE]
  /\ reading = Idle /\ equeue = <<>> /\ handler = Rest
  /\ told = {} /\ stored = {} /\ dropped = {}
-----------------------------------------------------------------------------
Raise(r) ==
  /\ raised < MaxEvents
  /\ raised' = raised + 1
  /\ dspHas' = [dspHas EXCEPT ![r] = Append(@, raised')]
  /\ flag' = [flag EXCEPT ![r] = TRUE]
  /\ UNCHANGED <<storevars, byLink, reading, equeue, handler, told, stored,
                 dropped>>

\* Mutant: the connection test puts its event in front of the others.
LinkEvent_InFront ==
  /\ raised < MaxEvents
  /\ raised' = raised + 1
  /\ byLink' = byLink \union {raised'}
  /\ equeue' = <<<<Soe, <<raised'>>>>>> \o equeue
  /\ UNCHANGED <<storevars, dspHas, flag, reading, handler, told, stored,
                 dropped>>

\* updateSOE of the connection test.
LinkEvent ==
  /\ raised < MaxEvents
  /\ raised' = raised + 1
  /\ byLink' = byLink \union {raised'}
  /\ equeue' = Append(equeue, <<Soe, <<raised'>>>>)
  /\ UNCHANGED <<storevars, dspHas, flag, reading, handler, told, stored,
                 dropped>>

\* Mutant: nothing read, nothing to lower: the loop goes on.
ReadEvents_EmptyGoesOn(r) ==
  /\ reading = Idle /\ flag[r]
  /\ reading' = IF dspHas[r] = <<>> THEN Idle ELSE <<r>>
  /\ equeue' = IF dspHas[r] = <<>> THEN equeue
               ELSE Append(equeue, <<r, dspHas[r]>>)
  /\ dspHas' = [dspHas EXCEPT ![r] = <<>>]
  /\ UNCHANGED <<storevars, raised, byLink, flag, handler, told, stored,
                 dropped>>

\* dsp_run: the first raised flag, in the order of a hash table, is read.
ReadEvents(r) ==
  /\ reading = Idle /\ flag[r]
  /\ reading' = <<r>>
  /\ \/ /\ Works
        /\ equeue' = IF dspHas[r] = <<>> THEN equeue
                     ELSE Append(equeue, <<r, dspHas[r]>>)
        /\ dspHas' = [dspHas EXCEPT ![r] = <<>>]
     \/ Fails /\ UNCHANGED <<equeue, dspHas>>
  /\ UNCHANGED <<rows, curNo, savedNo, files, job, torn, spoiled, restarts,
                 raised, byLink, flag, handler, told, stored, dropped>>

\* The flag is lowered, whatever the reading gave.
LowerFlag ==
  /\ reading # Idle
  /\ flag' = [flag EXCEPT ![reading[1]] = FALSE]
  /\ reading' = Idle
  /\ UNCHANGED <<storevars, raised, byLink, dspHas, equeue, handler, told,
                 stored, dropped>>
-----------------------------------------------------------------------------
\* Mutant: a last item stays in the queue.
TakeItem_NotLast ==
  /\ handler.at = "idle" /\ Len(equeue) > 1
  /\ handler' = [Rest EXCEPT !.at = "next", !.kind = Head(equeue)[1],
                             !.batch = Head(equeue)[2]]
  /\ equeue' = Tail(equeue)
  /\ UNCHANGED <<storevars, raised, byLink, dspHas, flag, reading, told,
                 stored, dropped>>

TakeItem ==
  /\ handler.at = "idle" /\ equeue # <<>>
  /\ handler' = [Rest EXCEPT !.at = "next", !.kind = Head(equeue)[1],
                             !.batch = Head(equeue)[2]]
  /\ equeue' = Tail(equeue)
  /\ UNCHANGED <<storevars, raised, byLink, dspHas, flag, reading, told,
                 stored, dropped>>

\* Mutant: masters are told before the report is stored.
NextEvent_Tells ==
  /\ handler.at = "next" /\ handler.kind \notin FileReports
  /\ handler' = [handler EXCEPT !.at = "insert", !.batch = Tail(@),
                    !.entry = [item |-> Head(handler.batch), no |-> 0]]
  /\ told' = told \union {Head(handler.batch)}
  /\ UNCHANGED <<storevars, raised, byLink, dspHas, flag, reading, equeue,
                 stored, dropped>>

\* The next event of the item; a recording's file is written first.
NextEvent ==
  /\ handler.at = "next"
  /\ LET e(n) == [item |-> Head(handler.batch), no |-> n]
         Go(entry) == handler' = [handler EXCEPT !.at = "insert",
                                    !.batch = Tail(@), !.entry = entry]
     IN  IF handler.kind \in FileReports
         THEN LET file == e(curNo[handler.kind] + 1)
              IN  WriteFile(handler.kind, file) /\ Go(file)
         ELSE Go(e(0)) /\ UNCHANGED storevars
  /\ UNCHANGED <<raised, byLink, dspHas, flag, reading, equeue, told, stored,
                 dropped>>

StoreEvent ==
  /\ handler.at = "insert"
  /\ \/ /\ Insert(handler.kind, handler.entry)
        /\ stored' = stored \union {handler.entry.item}
     \/ /\ InsertFails(handler.kind, handler.entry)
        /\ UNCHANGED stored
  /\ handler' = [handler EXCEPT !.at = "tell"]
  /\ UNCHANGED <<raised, byLink, dspHas, flag, reading, equeue, told,
                 dropped>>

\* A recording is given up: the last of its frames never came, they do not
\* parse, or its file cannot be opened. Nothing is stored and nobody is told.
LoseRecording ==
  /\ handler.at = "next" /\ handler.kind \in FileReports
  /\ WriteFileFails
  /\ dropped' = dropped \union {Head(handler.batch)}
  /\ handler' = IF Tail(handler.batch) = <<>> THEN Rest
                ELSE [handler EXCEPT !.batch = Tail(@)]
  /\ UNCHANGED <<raised, byLink, dspHas, flag, reading, equeue, told, stored>>

\* Mutant: only the first event of an item is handled.
TellEvent_FirstOnly ==
  /\ handler.at = "tell" /\ ~Adding
  /\ told' = told \union {handler.entry.item}
  /\ handler' = Rest
  /\ UNCHANGED <<storevars, raised, byLink, dspHas, flag, reading, equeue,
                 stored, dropped>>

\* add_report has returned; its result is not looked at.
TellEvent ==
  /\ handler.at = "tell" /\ ~Adding
  /\ told' = told \union {handler.entry.item}
  /\ handler' = IF handler.batch = <<>> THEN Rest
                ELSE [handler EXCEPT !.at = "next"]
  /\ UNCHANGED <<storevars, raised, byLink, dspHas, flag, reading, equeue,
                 stored, dropped>>
-----------------------------------------------------------------------------
Maintain ==
  /\ StoreStep \/ \E r \in Reports : Clear(r)
  /\ UNCHANGED eventvars

\* The queue and the threads begin anew; the DSP keeps its events and flags.
Reboot ==
  /\ Restart
  /\ reading' = Idle /\ equeue' = <<>> /\ handler' = Rest
  /\ UNCHANGED <<raised, byLink, dspHas, flag, told, stored, dropped>>

Run    == LowerFlag \/ \E r \in Reports : ReadEvents(r)
Handle == TakeItem \/ NextEvent \/ LoseRecording \/ StoreEvent \/ TellEvent

Next == \/ \E r \in Reports : Raise(r)
        \/ LinkEvent \/ Run \/ Handle \/ Maintain \/ Reboot

Spec == Init /\ [][Next]_vars

\* The two threads of DSPComm run, and whoever holds _lock goes on. No event
\* need be raised. Tools clear a report now and then, never for ever: a mutex
\* promises nothing to a thread that competes with an endless series of others.
FairSpec ==
  /\ Spec
  /\ WF_vars(Run) /\ WF_vars(Handle)
  /\ WF_vars(StoreStep /\ UNCHANGED eventvars)
  /\ <>[][\A r \in Reports : ~Clear(r)]_vars
-----------------------------------------------------------------------------
\* Nothing stays on disk without a row: no file but of a row, of the recording
\* being stored, of one being removed, or left by a failure or a restart.
FilesHaveRows ==
  \A r \in FileReports :
    Clearing(r) \/ files[r] \subseteq
      EntriesOf(rows[r]) \union spoiled
        \union (IF handler.at = "insert" THEN {handler.entry} ELSE {})
        \union (IF job.do = "unlink" THEN job.doomed ELSE {})

\* Masters and tools are told of an event only when its row was inserted, or
\* the database refused it. Trimming and clearing may take the row afterwards.
ToldIsStored ==
  \A n \in told : n \in stored \/ \E e \in spoiled : e.item = n

\* Within a report, the events of one source are stored and told in the order
\* they were raised, none twice.
InOrder ==
  \A r \in Reports : \A m, n \in DOMAIN rows[r] :
    LET a == rows[r][m].item
        b == rows[r][n].item
    IN  m < n /\ (a \in byLink <=> b \in byLink) => a < b

\* No event is lost or doubled on its way: the DSP has it, the queue, or
\* dsp_handle, or it was told, or it is a recording given up before it had a
\* file; only a restart loses what is under way.
EventsHavePlace ==
  LET InDsp   == UNION {EntriesOf(dspHas[r]) : r \in Reports}
      InQueue == UNION {EntriesOf(q[2]) : q \in EntriesOf(equeue)}
      InHand  == EntriesOf(handler.batch)
                   \union (IF handler.at \in {"insert", "tell"}
                           THEN {handler.entry.item} ELSE {})
      Places  == <<InDsp, InQueue, InHand, told, dropped>>
  IN  /\ restarts = 0 => UNION EntriesOf(Places) = 1..raised
      /\ \A i, j \in 1..5 : i < j => Places[i] \intersect Places[j] = {}

\* What dsp_run has read is handled, unless a restart comes between: the queue
\* empties, and no clearing or full table holds dsp_handle up.
QueueIsHandled == []<>(equeue = <<>> /\ handler.at = "idle")

\* A raised flag does not stay: the event behind it is read or, when the
\* reading failed, left until the next event of its kind.
FlagsAreLowered == []<>(\A r \in Reports : ~flag[r])
=============================================================================
