---------------------------- MODULE RemoteControl ----------------------------
(***************************************************************************)
(* The select-before-operate state machine of RmctrlClass                  *)
(* (libdtutask/dtutask_dsp.cpp).  One thread per 104 connection, one per   *)
(* 101 link and one for the maintenance tool call start(); a connection    *)
(* that closes, or a 101 link in error, calls cancelAll(); every preset    *)
(* starts a detached timer thread.  Each step below is what the code does  *)
(* between two points where another thread can come in: setflag stores the *)
(* four fields of a point under _lock, but start() and cancelAll() read    *)
(* them, one by one, without it, so every store is a step, and for want of *)
(* any ordering the stores are seen in any order.  A request that start()  *)
(* refuses at its first test changes nothing and is not a step.            *)
(***************************************************************************)
EXTENDS Naturals, FiniteSets

CONSTANTS
  Clients,      \* the callers of start()
  Points,       \* remote-control points that have a preset and a cancel command
  From,         \* From[c]: RemoteCtrlInfo.cmdFrom
  Conn,         \* Conn[c]: RemoteCtrlInfo.conn, the connection's address
  NoConn,       \* conn of a cleared point, and of a client that gives none (0)
  NoOne,        \* the holder of _lock when it is free
  DspAnswers,   \* whether dsptask_execute_control may succeed, fail, or both
  Spawns,       \* whether a timer thread can be created, or not, or both
  MaxPresets    \* bound: presets a client makes of one point

Sources      == {"101", "104", "TOOL"}
SlaveSources == {"101", "104"}
NoSource     == "none"

\* Connections are distinct objects; a client without one is alone of its kind.
ASSUME IdentityAssumption ==
  /\ From \in [Clients -> Sources]
  /\ \A c, d \in Clients : c # d => Conn[c] # Conn[d]
  /\ \A c, d \in Clients :
       (c # d /\ Conn[c] = NoConn) => From[c] # From[d]

ASSUME PointAssumption == Points # {} /\ MaxPresets \in Nat

ASSUME AnswerAssumption == DspAnswers \in SUBSET BOOLEAN /\ DspAnswers # {}

ASSUME ThreadAssumption == NoOne \notin Clients /\ Spawns \in SUBSET BOOLEAN

VARIABLES
  pre, from, armed, conn,  \* tuple fields 5 to 8 of every point
  pc,                      \* where each client's thread is
  cmd, point,              \* the request it serves
  lock,                    \* the client that holds _lock in setflag
  left,                    \* the fields it has still to store
  todo,                    \* points its cancelAll has still to visit
  timers,                  \* the detached threads
  selected,                \* the DSP holds a preset (PC_W_YK_SET) it was sent
  recorded, executed,      \* presets recorded, operations sent, so far
  untimed                  \* last presets whose timer could not be started

flags   == <<pre, from, armed, conn>>
mutex   == <<lock, left>>
history == <<recorded, executed, untimed>>
vars    == <<flags, pc, cmd, point, mutex, todo, timers, selected, history>>

Fields     == {"pre", "from", "armed", "conn"}
Serving    == {"push", "mark", "time", "from", "conn", "clear", "send"}
Cancelling == {"scan", "source", "drop", "withdraw"}
Setting    == {"mark", "clear", "drop"}     \* in setflag, or waiting for _lock
AfterSetting == [mark |-> "time", clear |-> "send", drop |-> "withdraw"]
Stages     == {"asleep", "cancel", "forget"}
Timers     == [owner : Clients, point : Points, n : 1..MaxPresets, stage : Stages]

TypeOK ==
  /\ pre \in [Points -> BOOLEAN]
  /\ armed \in [Points -> BOOLEAN]
  /\ from \in [Points -> Sources \union {NoSource}]
  /\ conn \in [Points -> {Conn[c] : c \in Clients} \union {NoConn}]
  /\ pc \in [Clients -> {"off", "idle"} \union Serving \union Cancelling]
  /\ cmd \in [Clients -> {"none", "PRE", "EXE", "CAN"}]
  /\ point \in [Clients -> Points]
  /\ todo \in [Clients -> SUBSET Points]
  /\ timers \in SUBSET Timers
  /\ selected \in BOOLEAN
  /\ recorded \in [Clients -> [Points -> 0..MaxPresets]]
  /\ executed \in [Clients -> [Points -> Nat]]
  /\ untimed \in SUBSET (Clients \X Points)
  /\ lock \in Clients \union {NoOne}
  /\ left \in SUBSET Fields
  /\ IF lock = NoOne THEN left = {} ELSE pc[lock] \in Setting /\ left # {}
  /\ \A c \in Clients :
       /\ pc[c] = "push" \/ (pc[c] = "mark" /\ lock # c)
            => recorded[c][point[c]] < MaxPresets
       /\ pc[c] = "time" \/ (pc[c] = "mark" /\ lock = c)
            => recorded[c][point[c]] > 0

Init ==
  /\ pre = [p \in Points |-> FALSE]
  /\ from = [p \in Points |-> NoSource]
  /\ armed = [p \in Points |-> FALSE]
  /\ conn = [p \in Points |-> NoConn]
  /\ pc = [c \in Clients |-> "off"]
  /\ cmd = [c \in Clients |-> "none"]
  /\ point = [c \in Clients |-> CHOOSE p \in Points : TRUE]
  /\ todo = [c \in Clients |-> {}]
  /\ timers = {}
  /\ selected = FALSE
  /\ recorded = [c \in Clients |-> [p \in Points |-> 0]]
  /\ executed = [c \in Clients |-> [p \in Points |-> 0]]
  /\ untimed = {}
  /\ lock = NoOne
  /\ left = {}

Goto(c, l) == pc' = [pc EXCEPT ![c] = l]

\* start() returns: its arguments are gone.
Return(c) == Goto(c, "idle") /\ cmd' = [cmd EXCEPT ![c] = "none"]

\* Mutant: the source and the address of the owner are swapped.
SetFlag_Swapped(f, p, isPre, source, address) ==
  \/ f = "pre" /\ pre' = [pre EXCEPT ![p] = isPre] /\ UNCHANGED <<from, armed, conn>>
  \/ f = "from" /\ from' = [from EXCEPT ![p] = address] /\ UNCHANGED <<pre, armed, conn>>
  \/ f = "armed" /\ armed' = [armed EXCEPT ![p] = isPre] /\ UNCHANGED <<pre, from, conn>>
  \/ f = "conn" /\ conn' = [conn EXCEPT ![p] = source] /\ UNCHANGED <<pre, from, armed>>

\* One of the four stores of setflag.
SetFlag(f, p, isPre, source, address) ==
  \/ f = "pre" /\ pre' = [pre EXCEPT ![p] = isPre] /\ UNCHANGED <<from, armed, conn>>
  \/ f = "from" /\ from' = [from EXCEPT ![p] = source] /\ UNCHANGED <<pre, armed, conn>>
  \/ f = "armed" /\ armed' = [armed EXCEPT ![p] = isPre] /\ UNCHANGED <<pre, from, conn>>
  \/ f = "conn" /\ conn' = [conn EXCEPT ![p] = address] /\ UNCHANGED <<pre, from, armed>>

\* Mutant: the owner of the point is not cleared with its preset.
ClearFlag_KeepsOwner(f, p) ==
  SetFlag(f, p, FALSE, from[p], conn[p])

\* setflag(fix), with its default arguments.
ClearFlag(f, p) == SetFlag(f, p, FALSE, NoSource, NoConn)

\* Pushcmd: a command the DSP refuses leaves its selection as it was.
Push(selects) ==
  \E ok \in DspAnswers : selected' = IF ok THEN selects ELSE selected
-----------------------------------------------------------------------------
\* A master connects (the tool starts): from now on its requests are served.
Connect(c) ==
  /\ pc[c] = "off"
  /\ Goto(c, "idle")
  /\ UNCHANGED <<mutex, flags, cmd, point, todo, timers, selected, history>>

\* start() up to its test of his_ispre, which was read without the lock.
Start(c, p, k) ==
  /\ pc[c] = "idle"
  /\ \/ k = "PRE" /\ ~pre[p] /\ recorded[c][p] < MaxPresets /\ Goto(c, "push")
     \/ k \in {"EXE", "CAN"} /\ pre[p] /\ Goto(c, "from")
  /\ cmd' = [cmd EXCEPT ![c] = k]
  /\ point' = [point EXCEPT ![c] = p]
  /\ UNCHANGED <<mutex, flags, todo, timers, selected, history>>

PushPreset(c) ==
  /\ pc[c] = "push"
  /\ Push(TRUE)
  /\ Goto(c, "mark")
  /\ UNCHANGED <<mutex, flags, cmd, point, todo, timers, history>>

\* setflag takes the lock.  A preset counts as recorded from here on, whatever
\* the DSP answered.
LockFlags(c) ==
  /\ pc[c] \in Setting
  /\ lock = NoOne
  /\ lock' = c
  /\ left' = Fields
  /\ IF pc[c] = "mark"
     THEN /\ recorded' = [recorded EXCEPT ![c][point[c]] = @ + 1]
          /\ untimed' = untimed \ {<<c, point[c]>>}
     ELSE UNCHANGED <<recorded, untimed>>
  /\ UNCHANGED <<flags, pc, cmd, point, todo, timers, selected, executed>>

\* It stores one more field, and after the last it gives the lock back.
StoreFlag(c, f) ==
  /\ lock = c
  /\ f \in left
  /\ IF pc[c] = "mark" THEN SetFlag(f, point[c], TRUE, From[c], Conn[c])
                       ELSE ClearFlag(f, point[c])
  /\ left' = left \ {f}
  /\ IF left = {f}
     THEN /\ lock' = NoOne
          /\ Goto(c, AfterSetting[pc[c]])
     ELSE UNCHANGED <<lock, pc>>
  /\ UNCHANGED <<cmd, point, todo, timers, selected, history>>

\* The timer thread is started.  When it cannot be, std::thread throws and
\* start() ends in its handler: the point stays preset without a timer.
StartTimer(c) ==
  LET p == point[c]
  IN  /\ pc[c] = "time"
      /\ \/ /\ TRUE \in Spawns
            /\ timers' = timers \union
                 {[owner |-> c, point |-> p, n |-> recorded[c][p], stage |-> "asleep"]}
            /\ UNCHANGED untimed
         \/ /\ FALSE \in Spawns
            /\ untimed' = untimed \union {<<c, p>>}
            /\ UNCHANGED timers
      /\ Return(c)
      /\ UNCHANGED <<flags, point, mutex, todo, selected, recorded, executed>>

\* The two tests of the owner, each reading its field anew.
CheckSource(c) ==
  /\ pc[c] = "from"
  /\ IF from[point[c]] = From[c] THEN Goto(c, "conn") /\ UNCHANGED cmd
                                 ELSE Return(c)
  /\ UNCHANGED <<mutex, flags, point, todo, timers, selected, history>>

\* Mutant: the address is not compared, only the kind of source.
CheckAddress_Skipped(c) ==
  /\ pc[c] = "conn"
  /\ Goto(c, "clear")
  /\ UNCHANGED <<mutex, flags, cmd, point, todo, timers, selected, history>>

CheckAddress(c) ==
  /\ pc[c] = "conn"
  /\ IF conn[point[c]] = Conn[c] THEN Goto(c, "clear") /\ UNCHANGED cmd
                                 ELSE Return(c)
  /\ UNCHANGED <<mutex, flags, point, todo, timers, selected, history>>

\* The operation itself, or the cancel command, goes to the DSP.
SendCommand(c) ==
  /\ pc[c] = "send"
  /\ Push(FALSE)
  /\ executed' = IF cmd[c] = "EXE"
                 THEN [executed EXCEPT ![c][point[c]] = @ + 1]
                 ELSE executed
  /\ Return(c)
  /\ UNCHANGED <<mutex, flags, point, todo, timers, recorded, untimed>>
-----------------------------------------------------------------------------
\* cancelAll(), run by the thread of the connection that went away.
Disconnect(c) ==
  /\ pc[c] = "idle"
  /\ From[c] \in SlaveSources
  /\ todo' = [todo EXCEPT ![c] = Points]
  /\ Goto(c, "scan")
  /\ UNCHANGED <<mutex, flags, cmd, point, timers, selected, history>>

ScanPoint(c, p) ==
  /\ pc[c] = "scan"
  /\ p \in todo[c]
  /\ todo' = [todo EXCEPT ![c] = @ \ {p}]
  /\ point' = [point EXCEPT ![c] = p]
  /\ Goto(c, IF pre[p] THEN "source" ELSE "scan")
  /\ UNCHANGED <<mutex, flags, cmd, timers, selected, history>>

ScanDone(c) ==
  /\ pc[c] = "scan"
  /\ todo[c] = {}
  /\ Goto(c, "off")
  /\ UNCHANGED <<mutex, flags, cmd, point, todo, timers, selected, history>>

\* Mutant: only the presets of 101 masters are withdrawn.
ScanSource_Only101(c) ==
  /\ pc[c] = "source"
  /\ Goto(c, IF from[point[c]] = "101" THEN "drop" ELSE "scan")
  /\ UNCHANGED <<mutex, flags, cmd, point, todo, timers, selected, history>>

ScanSource(c) ==
  /\ pc[c] = "source"
  /\ Goto(c, IF from[point[c]] \in SlaveSources THEN "drop" ELSE "scan")
  /\ UNCHANGED <<mutex, flags, cmd, point, todo, timers, selected, history>>

\* Mutant: the flags are cleared but no cancel command is sent.
WithdrawPreset_Silent(c) ==
  /\ pc[c] = "withdraw"
  /\ Goto(c, "scan")
  /\ UNCHANGED <<mutex, flags, cmd, point, todo, timers, selected, history>>

WithdrawPreset(c) ==
  /\ pc[c] = "withdraw"
  /\ Push(FALSE)
  /\ Goto(c, "scan")
  /\ UNCHANGED <<mutex, flags, cmd, point, todo, timers, history>>
-----------------------------------------------------------------------------
\* The timer thread wakes after the delay and reads field 7 under _lock.
TimerWake(t) ==
  /\ t \in timers /\ t.stage = "asleep" /\ lock = NoOne
  /\ timers' = (timers \ {t}) \union
       IF armed[t.point] THEN {[t EXCEPT !.stage = "cancel"]} ELSE {}
  /\ UNCHANGED <<mutex, flags, pc, cmd, point, todo, selected, history>>

TimerCancel(t) ==
  /\ t \in timers /\ t.stage = "cancel"
  /\ Push(FALSE)
  /\ timers' = (timers \ {t}) \union {[t EXCEPT !.stage = "forget"]}
  /\ UNCHANGED <<mutex, flags, pc, cmd, point, todo, history>>

\* Mutant: the timer clears field 7 instead of field 5.
TimerForget_Field7(t) ==
  /\ t \in timers /\ t.stage = "forget"
  /\ armed' = [armed EXCEPT ![t.point] = FALSE]
  /\ timers' = timers \ {t}
  /\ UNCHANGED <<mutex, pre, from, conn, pc, cmd, point, todo, selected, history>>

\* Only the preset flag is cleared: source, address and field 7 stay.
TimerForget(t) ==
  /\ t \in timers /\ t.stage = "forget"
  /\ pre' = [pre EXCEPT ![t.point] = FALSE]
  /\ timers' = timers \ {t}
  /\ UNCHANGED <<mutex, from, armed, conn, pc, cmd, point, todo, selected, history>>
-----------------------------------------------------------------------------
\* What a client's thread does by itself once it has begun.
ClientStep(c) ==
  \/ LockFlags(c) \/ \E f \in Fields : StoreFlag(c, f)
  \/ PushPreset(c) \/ StartTimer(c)
  \/ CheckSource(c) \/ CheckAddress(c) \/ SendCommand(c)
  \/ ScanDone(c) \/ ScanSource(c) \/ WithdrawPreset(c)
  \/ \E p \in Points : ScanPoint(c, p)

Environment(c) ==
  \/ Connect(c)
  \/ Disconnect(c)
  \/ \E p \in Points, k \in {"PRE", "EXE", "CAN"} : Start(c, p, k)

TimerStep(t) == TimerWake(t) \/ TimerCancel(t) \/ TimerForget(t)

Next ==
  \/ \E c \in Clients : Environment(c) \/ ClientStep(c)
  \/ \E t \in timers : TimerStep(t)

Spec == Init /\ [][Next]_vars

\* A thread that has begun goes on, and a sleeping timer wakes: the code has
\* no condition to wait for there, only a sleep of info.delay seconds and the
\* mutexes.  Nothing makes a master connect, ask or disconnect.
Fairness ==
  /\ \A c \in Clients : WF_vars(ClientStep(c))
  /\ \A t \in Timers : WF_vars(TimerStep(t))

FairSpec == Spec /\ Fairness
-----------------------------------------------------------------------------
\* Properties.

\* Source and address of p are c's.
Owns(c, p) == from[p] = From[c] /\ conn[p] = Conn[c]

\* No setflag of p is half done.
Settled(p) == lock = NoOne \/ point[lock] # p

\* The last preset stored at p is c's, as far as its second test can tell; for
\* a client whose address is that of a cleared point only the first one can.
Claims(c, p) ==
  IF Conn[c] = NoConn THEN from[p] = From[c] ELSE conn[p] = Conn[c]

\* c is storing its preset of p.
Marking(c, p) == lock = c /\ pc[c] = "mark" /\ point[c] = p

\* c has passed the last test that could stop its operation of p.
Redeeming(c, p) ==
  /\ cmd[c] = "EXE" /\ point[c] = p
  /\ pc[c] \in {"clear", "send"} \/ (pc[c] = "conn" /\ Conn[c] = NoConn)

Holds(c, p) == Claims(c, p) \/ Marking(c, p) \/ Redeeming(c, p)

GrantsHeld == {g \in Clients \X Points : Holds(g[1], g[2])}

\* A preset operates its point at most once, however the requests, timers and
\* disconnections of all clients interleave: no client ever has more operations
\* sent for a point than presets recorded for it.
SpentOnce ==
  \A c \in Clients, p \in Points : executed[c][p] <= recorded[c][p]

\* An operation is sent only for a client that made a preset of its own, which
\* it has not used and which no later one has overwritten: the threads, stores
\* and unlocked reads of RmctrlClass implement OperateGrant.  A grant outlives
\* the timeout of its preset, because the timer leaves source and address
\* (line 314): TimedOutStaysOut says what that costs.
Grants == INSTANCE OperateGrant WITH grant <- GrantsHeld
ImplementsGrants == Grants!Spec

\* cancelAll leaves nothing behind: once the thread of a closed connection is
\* done, no point is preset in its name, so the next master that is given the
\* same connection object cannot operate on the old master's preset.  Only
\* while the next preset of the point is being stored may an old name be seen.
NothingLeftBehind ==
  \A c \in Clients, p \in Points :
    (pc[c] = "off" /\ pre[p] /\ Settled(p)) => ~Owns(c, p)

\* The timer of the preset last recorded by c at p has still to fire, is about
\* to be started, or could not be.
Timed(c, p) ==
  \/ \E t \in timers : t.owner = c /\ t.point = p /\ t.n = recorded[c][p]
  \/ pc[c] = "time" /\ point[c] = p
  \/ <<c, p>> \in untimed

\* A point that is preset has the timer of that very preset still to fire, and
\* the field that timer looks at is set: none of the other threads can consume
\* the one or clear the other and leave the preset flag set.
PresetIsTimed ==
  \A p \in Points :
    (pre[p] /\ Settled(p)) =>
      armed[p] /\ \E c \in Clients : Owns(c, p) /\ Timed(c, p)

\* A preset does not outlive its delay: whatever the masters do, the preset
\* flag of a point is sooner or later cleared, unless its timer could not be
\* started.
PresetExpires ==
  \A p \in Points :
    pre[p] ~> ~pre[p] \/ \E c \in Clients : Owns(c, p) /\ <<c, p>> \in untimed

\* The DSP is not left selected: when it obeys its commands, a preset it was
\* sent is always followed by an operation or by a cancel command.
SelectionReleased == selected ~> ~selected \/ untimed # {}

\* Line 315 reports a preset whose delay is over as cancelled, and the comments
\* at 328 and 335 say that whoever operates is checked to be its maker.  Then a
\* client could operate a point again only by a preset of its own, but the old
\* owner comes back when another client's setflag stores the flag first.
TimedOutStaysOut ==
  [][\A c \in Clients, p \in Points :
       (pre'[p] /\ Owns(c, p)') => (pre[p] /\ Owns(c, p)) \/ Marking(c, p)]_vars

\* The comment at dtutask_dsp.cpp:344 says that executing or cancelling a preset
\* calls its automatic cancel off, so a timer that decides to cancel is the
\* timer of the preset then recorded.
CancelledByOwnTimer ==
  [][\A t \in timers :
       (t.stage = "asleep" /\ [t EXCEPT !.stage = "cancel"] \in timers')
         => /\ Owns(t.owner, t.point)
            /\ t.n = recorded[t.owner][t.point]]_vars
=============================================================================
