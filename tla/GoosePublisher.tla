---------------------------- MODULE GoosePublisher ----------------------------
(***************************************************************************)
(* The GOOSE line of a station (dtuGoosePublisher of libdtugoose).  The    *)
(* thread dsp_handle publishes the states the DSP reports; a worker thread *)
(* sleeps on a condition variable for 5 s at most, then empties the queue  *)
(* onto the line or, when isPing says that there is nothing new, repeats   *)
(* the last frame.  publish enqueues, clears isPing and notifies in three  *)
(* steps, without the worker's mutex.  The notification changes nothing    *)
(* but the moment the worker wakes, which is any moment here.              *)
(***************************************************************************)
EXTENDS Naturals, Sequences, GooseFrames

CONSTANTS
  MaxPublish,  \* publications, at most (bound of the model)
  MaxCrashes   \* restarts of the station, at most (bound of the model)

ASSUME PublishAssumption == MaxPublish \in Nat /\ MaxCrashes \in Nat

VARIABLES
  queue,      \* _pulish_queue
  isPing,     \* the next frame is a heartbeat
  lastFrame,  \* the frame heartbeats repeat
  pub,        \* dsp_handle: "idle", or "clear" between its enqueue and isPing
  worker,     \* the worker: where it is and its local output
  shown,      \* the last frame on the line since the boot, or Blank
  published,  \* publications made
  crashes     \* restarts made

pubvars == <<queue, isPing, lastFrame, pub, worker, shown, published, crashes>>

Places == {"wait", "drain", "mark", "dead"}
At(p)  == worker.at = p

PubTypeOK ==
  /\ queue \in Seq(Frames) /\ isPing \in BOOLEAN /\ lastFrame \in Frames
  /\ pub \in {"idle", "clear"}
  /\ worker \in [at : Places, output : Frames]
  /\ shown \in Frames
  /\ published \in 0..MaxPublish /\ crashes \in 0..MaxCrashes

PubInit ==
  /\ queue = <<>> /\ isPing = TRUE /\ lastFrame = Blank
  /\ pub = "idle" /\ worker = [at |-> "wait", output |-> Blank]
  /\ shown = Blank /\ published = 0 /\ crashes = 0
-----------------------------------------------------------------------------
(* dsp_handle.                                                             *)

Enqueue(f) ==
  /\ pub = "idle" /\ ~At("dead")
  /\ published < MaxPublish
  /\ queue' = Append(queue, f)
  /\ pub' = "clear"
  /\ published' = published + 1
  /\ UNCHANGED <<isPing, lastFrame, worker, shown, crashes>>

ClearPing ==
  /\ pub = "clear"
  /\ isPing' = FALSE
  /\ pub' = "idle"
  /\ UNCHANGED <<queue, lastFrame, worker, shown, published, crashes>>
-----------------------------------------------------------------------------
(* The worker.                                                             *)

Go(p) == worker' = [worker EXCEPT !.at = p]

\* The wait ends, notified, after 5 s or for no reason, and isPing is not set.
Wake ==
  /\ At("wait") /\ ~isPing
  /\ Go("drain")
  /\ UNCHANGED <<queue, isPing, lastFrame, pub, shown, published, crashes>>

\* The wait ends and isPing is set: one copy of the last frame.
Beat ==
  /\ At("wait") /\ isPing
  /\ shown' = lastFrame
  /\ UNCHANGED <<queue, isPing, lastFrame, pub, worker, published, crashes>>

\* An item is taken and sent, five copies with pauses: nobody else reads what
\* these steps change.
Burst ==
  /\ At("drain") /\ queue # <<>>
  /\ worker' = [at |-> "mark", output |-> Head(queue)]
  /\ shown' = Head(queue)
  /\ queue' = Tail(queue)
  /\ UNCHANGED <<isPing, lastFrame, pub, published, crashes>>

\* try_dequeue finds nothing: the worker goes back to sleep.
TakeNothing ==
  /\ At("drain") /\ queue = <<>>
  /\ Go("wait")
  /\ UNCHANGED <<queue, isPing, lastFrame, pub, shown, published, crashes>>

\* Mutant: one item a wake-up, as in the version the source keeps commented
\* out.
Mark_OneAWake ==
  /\ At("mark")
  /\ isPing' = TRUE
  /\ lastFrame' = worker.output
  /\ Go("wait")
  /\ UNCHANGED <<queue, pub, shown, published, crashes>>

\* Mutant: the heartbeat keeps the frame before.
Mark_NotKept ==
  /\ At("mark")
  /\ isPing' = TRUE
  /\ Go("drain")
  /\ UNCHANGED <<queue, lastFrame, pub, shown, published, crashes>>

Mark ==
  /\ At("mark")
  /\ isPing' = TRUE
  /\ lastFrame' = worker.output
  /\ Go("drain")
  /\ UNCHANGED <<queue, pub, shown, published, crashes>>
-----------------------------------------------------------------------------
\* The station stops at any step, and later runs the program anew.
Crash ==
  /\ ~At("dead") /\ crashes < MaxCrashes
  /\ crashes' = crashes + 1
  /\ worker' = [at |-> "dead", output |-> Blank]
  /\ queue' = <<>> /\ isPing' = TRUE /\ lastFrame' = Blank /\ pub' = "idle"
  /\ shown' = Blank
  /\ UNCHANGED published

\* The line is opened once, at the start. Where it cannot be (_publisher is null)
\* the worker takes its items and sends nothing, as long as the program runs: to
\* the line that is a dead station, and "dead" is also its state here.
Boot ==
  /\ At("dead")
  /\ Go("wait")
  /\ UNCHANGED <<queue, isPing, lastFrame, pub, shown, published, crashes>>
-----------------------------------------------------------------------------
Quiet  == Wake \/ TakeNothing \/ Mark  \* steps that send nothing
Sender == Quiet \/ Burst \/ Beat
Caller == ClearPing \/ \E f \in Frames : Enqueue(f)

PubNext == Caller \/ Sender \/ Crash \/ Boot

PubSpec == PubInit /\ [][PubNext]_pubvars

\* Nothing new is waiting and isPing says that there is: the worker neither
\* sends nor beats until the next publication.
Mute == ~isPing /\ queue = <<>> /\ pub = "idle" /\ (At("wait") \/ At("drain"))
-----------------------------------------------------------------------------
Stream == INSTANCE GooseStream WITH pending <- queue

\* The line is the stream it promises: what dsp_handle publishes is sent, in
\* order, none twice as new, none lost or overtaken by a heartbeat of an older
\* state.
ShowsTheStream == Stream!Spec

\* Every published state is shown in the end, whenever isPing is read: the
\* race with isPing costs heartbeats, never a state.
EveryStateShown == Stream!FairSpec
=============================================================================
