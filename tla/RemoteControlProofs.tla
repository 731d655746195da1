------------------------- MODULE RemoteControlProofs -------------------------
(***************************************************************************)
(* Proofs about RemoteControl, for any clients, points and bound.          *)
(***************************************************************************)
EXTENDS RemoteControl, TLAPS

\* What the holder of _lock has stored so far is there: no other thread writes
\* these fields but the timer, which can only clear the preset flag.
Stored ==
  lock # NoOne =>
    IF pc[lock] = "mark"
    THEN /\ "from" \in left \/ from[point[lock]] = From[lock]
         /\ "armed" \in left \/ armed[point[lock]]
         /\ "conn" \in left \/ conn[point[lock]] = Conn[lock]
    ELSE /\ "pre" \in left \/ ~pre[point[lock]]
         /\ "from" \in left \/ from[point[lock]] = NoSource
         /\ "conn" \in left \/ conn[point[lock]] = NoConn

\* Whoever still holds a grant has a preset that has not been spent.
Budgeted ==
  \A c \in Clients, p \in Points :
    Holds(c, p) => executed[c][p] < recorded[c][p]

\* A client about to send its command claims the point no more.
Consumed ==
  \A c \in Clients : pc[c] = "send" => ~Claims(c, point[c])

\* cancelAll of c: what is still preset in its name is still to be visited.
Visited(c) ==
  /\ From[c] \in SlaveSources
  /\ \A p \in Points :
       (pre[p] /\ Settled(p) /\ Owns(c, p)) =>
         p \in todo[c] \/ (pc[c] \in {"source", "drop"} /\ point[c] = p)

Visiting == \A c \in Clients : pc[c] \in Cancelling => Visited(c)

IInv ==
  /\ TypeOK
  /\ Stored
  /\ SpentOnce
  /\ Budgeted
  /\ Consumed
  /\ Visiting
  /\ NothingLeftBehind
  /\ PresetIsTimed
-----------------------------------------------------------------------------
\* The initial state satisfies the type invariant.
LEMMA TypeInit == Init => TypeOK
<1> SUFFICES ASSUME Init PROVE TypeOK
  OBVIOUS
<1>1. (CHOOSE p \in Points : TRUE) \in Points
  BY PointAssumption
<1>2. point \in [Clients -> Points]
  BY <1>1 DEF Init
<1>3. /\ recorded \in [Clients -> [Points -> 0..MaxPresets]]
      /\ executed \in [Clients -> [Points -> Nat]]
  BY PointAssumption DEF Init
<1>4. /\ pc \in [Clients -> {"off", "idle"} \union Serving \union Cancelling]
      /\ \A c \in Clients : pc[c] = "off"
  BY DEF Init
<1>5. /\ pre \in [Points -> BOOLEAN]
      /\ armed \in [Points -> BOOLEAN]
      /\ from \in [Points -> Sources \union {NoSource}]
      /\ conn \in [Points -> {Conn[c] : c \in Clients} \union {NoConn}]
      /\ cmd \in [Clients -> {"none", "PRE", "EXE", "CAN"}]
      /\ todo \in [Clients -> SUBSET Points]
      /\ timers \in SUBSET Timers
      /\ selected \in BOOLEAN
      /\ untimed \in SUBSET (Clients \X Points)
      /\ lock = NoOne /\ left = {}
  BY DEF Init
<1> QED
  BY <1>2, <1>3, <1>4, <1>5 DEF TypeOK

\* setflag, while it stores one field, keeps the types of all four.
LEMMA StoreType ==
  ASSUME TypeOK, NEW p \in Points, NEW f, NEW b \in BOOLEAN,
         NEW s \in Sources \union {NoSource},
         NEW a \in {Conn[c] : c \in Clients} \union {NoConn},
         SetFlag(f, p, b, s, a)
  PROVE  /\ pre' \in [Points -> BOOLEAN]
         /\ armed' \in [Points -> BOOLEAN]
         /\ from' \in [Points -> Sources \union {NoSource}]
         /\ conn' \in [Points -> {Conn[c] : c \in Clients} \union {NoConn}]
<1>1. CASE f = "pre"
  BY <1>1 DEF SetFlag, TypeOK
<1>2. CASE f = "from"
  BY <1>2 DEF SetFlag, TypeOK
<1>3. CASE f = "armed"
  BY <1>3 DEF SetFlag, TypeOK
<1>4. CASE f = "conn"
  <2>1. conn' = [conn EXCEPT ![p] = a] /\ UNCHANGED <<pre, from, armed>>
    BY <1>4 DEF SetFlag
  <2> DEFINE Addresses == {Conn[c] : c \in Clients} \union {NoConn}
  <2>2. a \in Addresses /\ conn \in [Points -> Addresses]
    BY DEF TypeOK
  <2>3. conn' \in [Points -> Addresses]
    <3> HIDE DEF Addresses
    <3> QED
      BY <2>1, <2>2
  <2> QED
    BY <2>1, <2>3 DEF TypeOK
<1> QED
  BY <1>1, <1>2, <1>3, <1>4 DEF SetFlag

\* Every action of RmctrlClass keeps every field within its type.
LEMMA TypeStep == TypeOK /\ [Next]_vars => TypeOK'
<1> SUFFICES ASSUME TypeOK, [Next]_vars PROVE TypeOK'
  OBVIOUS
<1> USE DEF TypeOK, Goto, Return, Serving, Cancelling, Setting, flags, mutex, history
<1>1. ASSUME NEW c \in Clients, Environment(c) PROVE TypeOK'
  <2>1. CASE Connect(c)
    BY <2>1 DEF Connect
  <2>2. CASE Disconnect(c)
    BY <2>2 DEF Disconnect
  <2>3. ASSUME NEW p \in Points, NEW k \in {"PRE", "EXE", "CAN"}, Start(c, p, k)
        PROVE TypeOK'
    BY <2>3 DEF Start
  <2> QED
    BY <1>1, <2>1, <2>2, <2>3 DEF Environment
<1>2. ASSUME NEW c \in Clients, ClientStep(c) PROVE TypeOK'
  <2>1. CASE PushPreset(c)
    <3>1. pc[c] = "push" /\ lock # c
      BY <2>1, ThreadAssumption DEF PushPreset
    <3>2. selected' \in BOOLEAN
      BY <2>1, AnswerAssumption DEF PushPreset, Push
    <3>3. /\ pc' = [pc EXCEPT ![c] = "mark"]
          /\ UNCHANGED <<flags, cmd, point, mutex, todo, timers, history>>
      BY <2>1 DEF PushPreset
    <3> QED
      BY <3>1, <3>2, <3>3
  <2>2. CASE LockFlags(c)
    <3>1. CASE pc[c] = "mark"
      <4> DEFINE p == point[c]
      <4>0. /\ recorded[c][p] < MaxPresets /\ recorded[c][p] \in Nat
            /\ recorded' = [recorded EXCEPT ![c][p] = @ + 1]
        BY <2>2, <3>1, ThreadAssumption DEF LockFlags
      <4>a. recorded[c][p] + 1 \in 0..MaxPresets /\ recorded[c][p] + 1 > 0
        BY <4>0, PointAssumption
      <4>1. /\ recorded' \in [Clients -> [Points -> 0..MaxPresets]]
            /\ \A d \in Clients \ {c} : recorded'[d] = recorded[d]
            /\ recorded'[c][p] = recorded[c][p] + 1
            /\ recorded'[c][p] > 0
        BY <4>0, <4>a
      <4>2. /\ untimed' \in SUBSET (Clients \X Points)
            /\ lock' = c /\ left' = Fields /\ Fields # {}
        BY <2>2, <3>1 DEF LockFlags, Fields
      <4> QED
        BY <2>2, <3>1, <4>1, <4>2, ThreadAssumption DEF LockFlags
    <3>2. CASE pc[c] # "mark"
      BY <2>2, <3>2, ThreadAssumption DEF LockFlags, Fields
    <3> QED
      BY <3>1, <3>2
  <2>3. ASSUME NEW f \in Fields, StoreFlag(c, f) PROVE TypeOK'
    <3>1. /\ pre' \in [Points -> BOOLEAN]
          /\ armed' \in [Points -> BOOLEAN]
          /\ from' \in [Points -> Sources \union {NoSource}]
          /\ conn' \in [Points -> {Conn[d] : d \in Clients} \union {NoConn}]
      <4>1. /\ From[c] \in Sources \union {NoSource}
            /\ NoSource \in Sources \union {NoSource}
            /\ Conn[c] \in {Conn[d] : d \in Clients} \union {NoConn}
            /\ NoConn \in {Conn[d] : d \in Clients} \union {NoConn}
            /\ point[c] \in Points /\ TRUE \in BOOLEAN /\ FALSE \in BOOLEAN
        BY IdentityAssumption
      <4>2. CASE pc[c] = "mark"
        <5>1. SetFlag(f, point[c], TRUE, From[c], Conn[c])
          BY <2>3, <4>2 DEF StoreFlag
        <5> QED
          BY ONLY <4>1, <5>1, TypeOK, StoreType
      <4>3. CASE pc[c] # "mark"
        <5>1. SetFlag(f, point[c], FALSE, NoSource, NoConn)
          BY <2>3, <4>3 DEF StoreFlag, ClearFlag
        <5> QED
          BY ONLY <4>1, <5>1, TypeOK, StoreType
      <4> QED
        BY <4>2, <4>3
    <3>2. /\ lock = c /\ c # NoOne /\ pc[c] \in Setting /\ left' = left \ {f}
          /\ UNCHANGED <<cmd, point, todo, timers, selected, history>>
      BY <2>3, ThreadAssumption DEF StoreFlag
    <3>3. CASE left = {f}
      <4>1. lock' = NoOne /\ left' = {} /\ pc' = [pc EXCEPT ![c] = AfterSetting[pc[c]]]
        BY <2>3, <3>2, <3>3 DEF StoreFlag
      <4>2. AfterSetting[pc[c]] \in {"time", "send", "withdraw"}
        BY <3>2 DEF AfterSetting
      <4>3. pc[c] # "mark" => AfterSetting[pc[c]] # "time"
        BY <3>2 DEF AfterSetting
      <4>4. pc[c] = "mark" => recorded[c][point[c]] > 0
        BY <3>2
      <4>5. pc' \in [Clients -> {"off", "idle"} \union Serving \union Cancelling]
        BY <4>1, <4>2
      <4>6. ASSUME NEW d \in Clients
            PROVE  /\ pc'[d] = "push" \/ (pc'[d] = "mark" /\ lock' # d)
                        => recorded'[d][point'[d]] < MaxPresets
                   /\ pc'[d] = "time" \/ (pc'[d] = "mark" /\ lock' = d)
                        => recorded'[d][point'[d]] > 0
        <5>1. CASE d = c
          BY <3>2, <4>1, <4>2, <4>3, <4>4, <5>1
        <5>2. CASE d # c
          BY <3>2, <4>1, <5>2, ThreadAssumption
        <5> QED
          BY <5>1, <5>2
      <4> QED
        BY <3>1, <3>2, <4>1, <4>5, <4>6
    <3>4. CASE left # {f}
      BY <2>3, <3>1, <3>2, <3>4 DEF StoreFlag
    <3> QED
      BY <3>3, <3>4
  <2>4. CASE StartTimer(c)
    <3> DEFINE t == [owner |-> c, point |-> point[c], n |-> recorded[c][point[c]],
                     stage |-> "asleep"]
    <3>1. recorded[c][point[c]] \in 1..MaxPresets
      BY <2>4, PointAssumption DEF StartTimer
    <3>2. t \in Timers
      BY <3>1 DEF Timers, Stages
    <3>3. timers' \in SUBSET Timers
      BY <2>4, <3>2 DEF StartTimer
    <3>4. untimed' \in SUBSET (Clients \X Points)
      <4>1. <<c, point[c]>> \in Clients \X Points
        OBVIOUS
      <4>2. untimed' = untimed \/ untimed' = untimed \union {<<c, point[c]>>}
        BY <2>4 DEF StartTimer
      <4> QED
        BY <4>1, <4>2
    <3> QED
      BY <2>4, <3>3, <3>4, ThreadAssumption DEF StartTimer
  <2>5. CASE CheckSource(c)
    <3>1. pc[c] \notin {"mark", "clear", "drop"} /\ lock # c
      BY <2>5, ThreadAssumption DEF CheckSource
    <3>2. UNCHANGED <<flags, point, mutex, todo, timers, selected, history>>
      BY <2>5 DEF CheckSource
    <3>3. \/ pc' = [pc EXCEPT ![c] = "conn"] /\ UNCHANGED cmd
          \/ pc' = [pc EXCEPT ![c] = "idle"] /\ cmd' = [cmd EXCEPT ![c] = "none"]
      BY <2>5 DEF CheckSource
    <3> QED
      BY <3>1, <3>2, <3>3
  <2>6. CASE CheckAddress(c)
    <3>1. pc[c] \notin {"mark", "clear", "drop"} /\ lock # c
      BY <2>6, ThreadAssumption DEF CheckAddress
    <3>2. UNCHANGED <<flags, point, mutex, todo, timers, selected, history>>
      BY <2>6 DEF CheckAddress
    <3>3. \/ pc' = [pc EXCEPT ![c] = "clear"] /\ UNCHANGED cmd
          \/ pc' = [pc EXCEPT ![c] = "idle"] /\ cmd' = [cmd EXCEPT ![c] = "none"]
      BY <2>6 DEF CheckAddress
    <3> QED
      BY <3>1, <3>2, <3>3
  <2>7. CASE SendCommand(c)
    <3>1. executed' \in [Clients -> [Points -> Nat]]
      BY <2>7 DEF SendCommand
    <3>2. selected' \in BOOLEAN
      BY <2>7, AnswerAssumption DEF SendCommand, Push
    <3> QED
      BY <2>7, <3>1, <3>2 DEF SendCommand
  <2>8. CASE ScanDone(c)
    BY <2>8 DEF ScanDone
  <2>9. CASE ScanSource(c)
    BY <2>9 DEF ScanSource
  <2>10. CASE WithdrawPreset(c)
    BY <2>10, AnswerAssumption DEF WithdrawPreset, Push
  <2>11. ASSUME NEW p \in Points, ScanPoint(c, p) PROVE TypeOK'
    BY <2>11 DEF ScanPoint
  <2> QED
    BY <1>2, <2>1, <2>2, <2>3, <2>4, <2>5, <2>6, <2>7, <2>8, <2>9, <2>10, <2>11
       DEF ClientStep
<1>3. ASSUME NEW t \in timers, TimerStep(t) PROVE TypeOK'
  <2>1. CASE TimerWake(t)
    BY <2>1 DEF TimerWake, Timers, Stages
  <2>2. CASE TimerCancel(t)
    BY <2>2, AnswerAssumption DEF TimerCancel, Push, Timers, Stages
  <2>3. CASE TimerForget(t)
    BY <2>3 DEF TimerForget, Timers
  <2> QED
    BY <1>3, <2>1, <2>2, <2>3 DEF TimerStep
<1>4. CASE UNCHANGED vars
  BY <1>4 DEF vars
<1> QED
  BY <1>1, <1>2, <1>3, <1>4 DEF Next
-----------------------------------------------------------------------------
\* A step of c's thread outside setflag and the start of its timer: the points,
\* the lock and the timers stay, and so does every other thread.
Quiet(c) ==
  /\ UNCHANGED <<flags, mutex, timers, recorded, untimed>>
  /\ pc[c] \notin Setting \union {"time"}
  /\ \A d \in Clients \ {c} :
       pc'[d] = pc[d] /\ cmd'[d] = cmd[d] /\ point'[d] = point[d] /\ todo'[d] = todo[d]

\* All but four of the actions of a client are quiet.
LEMMA QuietActions ==
  ASSUME TypeOK, NEW c \in Clients, Environment(c) \/ ClientStep(c)
  PROVE  \/ Quiet(c)
         \/ LockFlags(c)
         \/ \E f \in Fields : StoreFlag(c, f)
         \/ StartTimer(c)
<1> USE DEF Quiet, TypeOK, Goto, Return, Setting, history
<1>1. CASE Environment(c)
  BY <1>1 DEF Environment, Connect, Disconnect, Start
<1>2. CASE PushPreset(c) \/ CheckSource(c) \/ CheckAddress(c)
  BY <1>2 DEF PushPreset, CheckSource, CheckAddress
<1>3. CASE SendCommand(c)
  BY <1>3 DEF SendCommand
<1>4. CASE ScanDone(c) \/ ScanSource(c) \/ WithdrawPreset(c)
  BY <1>4 DEF ScanDone, ScanSource, WithdrawPreset
<1>5. ASSUME NEW p \in Points, ScanPoint(c, p) PROVE Quiet(c)
  BY <1>5 DEF ScanPoint
<1> QED
  BY <1>1, <1>2, <1>3, <1>4, <1>5 DEF ClientStep

\* What is said of the points, the lock and the timers outlives a quiet step.
LEMMA QuietKeeps ==
  ASSUME TypeOK, NEW c \in Clients, Quiet(c)
  PROVE  /\ \A d \in Clients, p \in Points :
              (Owns(d, p)' <=> Owns(d, p)) /\ (Claims(d, p)' <=> Claims(d, p))
         /\ \A p \in Points : Settled(p)' <=> Settled(p)
         /\ \A d \in Clients, p \in Points :
              Marking(d, p)' <=> Marking(d, p)
         /\ Stored => Stored'
         /\ PresetIsTimed => PresetIsTimed'
<1>0. UNCHANGED <<pre, from, armed, conn, lock, left, timers, recorded, untimed>>
  BY DEF Quiet, flags, mutex
<1>1. lock # c
  BY ThreadAssumption DEF Quiet, TypeOK
<1>2. lock # NoOne => lock \in Clients \ {c} /\ pc'[lock] = pc[lock] /\ point'[lock] = point[lock]
  BY <1>1 DEF Quiet, TypeOK
<1>3. \A d \in Clients, p \in Points :
        (Owns(d, p)' <=> Owns(d, p)) /\ (Claims(d, p)' <=> Claims(d, p))
  BY <1>0 DEF Owns, Claims
<1>4. \A p \in Points : Settled(p)' <=> Settled(p)
  BY <1>0, <1>2 DEF Settled
<1>5. \A d \in Clients, p \in Points : Marking(d, p)' <=> Marking(d, p)
  BY <1>0, <1>1 DEF Marking, Quiet
<1>6. Stored => Stored'
  BY <1>0, <1>2 DEF Stored
<1>7. ASSUME NEW d \in Clients, NEW p \in Points, Timed(d, p) PROVE Timed(d, p)'
  <2>1. CASE pc[d] = "time" /\ point[d] = p
    <3>1. d # c
      BY <2>1 DEF Quiet
    <3> QED
      BY <2>1, <3>1 DEF Quiet, Timed
  <2> QED
    BY <1>0, <1>7, <2>1 DEF Timed
<1>8. PresetIsTimed => PresetIsTimed'
  BY <1>0, <1>3, <1>4, <1>7 DEF PresetIsTimed
<1> QED
  BY <1>3, <1>4, <1>5, <1>6, <1>8

\* One store of setflag, seen from the point it stores to: what is stored is
\* its client's preset or nothing, and the other points stay as they are.
LEMMA StoreEffect ==
  ASSUME TypeOK, NEW c \in Clients, NEW f \in Fields, StoreFlag(c, f),
         NEW p, p = point[c]
  PROVE  /\ pc[c] \in Setting /\ lock = c /\ c # NoOne /\ p \in Points
         /\ \A q \in Points \ {p} :
              pre'[q] = pre[q] /\ from'[q] = from[q]
              /\ armed'[q] = armed[q] /\ conn'[q] = conn[q]
         /\ f = "pre" => (pre'[p] <=> pc[c] = "mark")
         /\ f # "pre" => pre'[p] = pre[p]
         /\ f = "armed" => (armed'[p] <=> pc[c] = "mark")
         /\ f # "armed" => armed'[p] = armed[p]
         /\ from'[p] = IF f = "from"
                       THEN IF pc[c] = "mark" THEN From[c] ELSE NoSource
                       ELSE from[p]
         /\ conn'[p] = IF f = "conn"
                       THEN IF pc[c] = "mark" THEN Conn[c] ELSE NoConn
                       ELSE conn[p]
<1>1. lock = c /\ c # NoOne /\ pc[c] \in Setting /\ p \in Points
  BY ThreadAssumption DEF StoreFlag, TypeOK
<1>2. f \in {"pre", "from", "armed", "conn"}
  BY DEF Fields
<1>3. CASE pc[c] = "mark"
  <2>1. SetFlag(f, p, TRUE, From[c], Conn[c])
    BY <1>3 DEF StoreFlag
  <2>2. CASE f = "pre"
    BY <1>1, <1>3, <2>1, <2>2 DEF SetFlag, TypeOK
  <2>3. CASE f = "from"
    BY <1>1, <1>3, <2>1, <2>3 DEF SetFlag, TypeOK
  <2>4. CASE f = "armed"
    BY <1>1, <1>3, <2>1, <2>4 DEF SetFlag, TypeOK
  <2>5. CASE f = "conn"
    BY <1>1, <1>3, <2>1, <2>5 DEF SetFlag, TypeOK
  <2> QED
    BY <1>2, <2>2, <2>3, <2>4, <2>5
<1>4. CASE pc[c] # "mark"
  <2>1. SetFlag(f, p, FALSE, NoSource, NoConn)
    BY <1>4 DEF StoreFlag, ClearFlag
  <2>2. CASE f = "pre"
    BY <1>1, <1>4, <2>1, <2>2 DEF SetFlag, TypeOK
  <2>3. CASE f = "from"
    BY <1>1, <1>4, <2>1, <2>3 DEF SetFlag, TypeOK
  <2>4. CASE f = "armed"
    BY <1>1, <1>4, <2>1, <2>4 DEF SetFlag, TypeOK
  <2>5. CASE f = "conn"
    BY <1>1, <1>4, <2>1, <2>5 DEF SetFlag, TypeOK
  <2> QED
    BY <1>2, <2>2, <2>3, <2>4, <2>5
<1> QED
  BY <1>3, <1>4

\* What a store does to the threads.
LEMMA StoreControl ==
  ASSUME TypeOK, NEW c \in Clients, NEW f \in Fields, StoreFlag(c, f)
  PROVE  /\ UNCHANGED <<cmd, point, todo, timers, selected, history>>
         /\ \A d \in Clients \ {c} : pc'[d] = pc[d]
         /\ left' = left \ {f}
         /\ left = {f} =>
              /\ lock' = NoOne
              /\ pc[c] = "mark" => pc'[c] = "time"
              /\ pc[c] = "clear" => pc'[c] = "send"
              /\ pc[c] = "drop" => pc'[c] = "withdraw"
         /\ left # {f} => lock' = lock /\ pc' = pc
BY DEF StoreFlag, Goto, AfterSetting, TypeOK

\* A client comes to claim a point only while it stores a preset of its own.
LEMMA ClaimByMark ==
  ASSUME TypeOK, NEW c \in Clients, NEW f \in Fields, StoreFlag(c, f),
         NEW d \in Clients, NEW p \in Points, Claims(d, p)'
  PROVE  Claims(d, p) \/ Marking(d, p)
<1>1. PICK q \in Points : q = point[c]
  BY DEF TypeOK
<1>2. CASE p # q
  BY <1>1, <1>2, StoreEffect DEF Claims
<1>3. CASE p = q
  <2>1. /\ lock = c
        /\ \/ from'[p] = from[p]
           \/ from'[p] = From[c] /\ pc[c] = "mark"
           \/ from'[p] = NoSource
        /\ \/ conn'[p] = conn[p]
           \/ conn'[p] = Conn[c] /\ pc[c] = "mark"
           \/ conn'[p] = NoConn
    BY <1>1, <1>3, StoreEffect
  <2>2. From[d] # NoSource
    BY IdentityAssumption DEF Sources, NoSource
  <2>3. c # d => Conn[c] # Conn[d] /\ (Conn[d] = NoConn => From[c] # From[d])
    BY IdentityAssumption
  <2>4. CASE Conn[d] = NoConn
    BY <2>1, <2>2, <2>3, <2>4, <1>1, <1>3 DEF Claims, Marking
  <2>5. CASE Conn[d] # NoConn
    BY <2>1, <2>3, <2>5, <1>1, <1>3 DEF Claims, Marking
  <2> QED
    BY <2>4, <2>5
<1> QED
  BY <1>2, <1>3

\* No client comes to hold a grant by a step other than its own record of a
\* preset: neither the tests of the owner, nor another client's stores, nor a
\* timer can give one.
LEMMA OnlyPresetsGrant ==
  ASSUME TypeOK, [Next]_vars,
         NEW c \in Clients, NEW p \in Points, Holds(c, p)',
         recorded'[c][p] = recorded[c][p]
  PROVE  Holds(c, p)
<1> USE DEF Goto, Return
<1>1. ASSUME NEW d \in Clients, Environment(d) \/ ClientStep(d), Quiet(d)
      PROVE  Holds(c, p)
  <2>1. (Claims(c, p)' <=> Claims(c, p)) /\ (Marking(c, p)' <=> Marking(c, p))
    BY <1>1, QuietKeeps
  <2>2. CASE d # c
    BY <1>1, <2>1, <2>2 DEF Quiet, Holds, Redeeming
  <2>3. CASE d = c /\ Redeeming(c, p)'
    <3>1. CASE Environment(c)
      BY <3>1, <2>3 DEF Environment, Connect, Disconnect, Start, Redeeming, TypeOK
    <3>2. CASE CheckSource(c)
      <4>1. Conn[c] = NoConn /\ from[p] = From[c]
        BY <3>2, <2>3 DEF CheckSource, Redeeming, TypeOK
      <4> QED
        BY <4>1 DEF Holds, Claims
    <3>3. CASE CheckAddress(c)
      <4>1. conn[p] = Conn[c] /\ pc[c] = "conn" /\ point[c] = p /\ cmd[c] = "EXE"
        BY <3>3, <2>3 DEF CheckAddress, Redeeming, TypeOK
      <4> QED
        BY <4>1 DEF Holds, Claims, Redeeming
    <3>4. CASE PushPreset(c) \/ SendCommand(c)
      BY <3>4, <2>3 DEF PushPreset, SendCommand, Redeeming, TypeOK
    <3>5. CASE ScanDone(c) \/ ScanSource(c) \/ WithdrawPreset(c)
      BY <3>5, <2>3 DEF ScanDone, ScanSource, WithdrawPreset, Redeeming, TypeOK
    <3>6. ASSUME NEW q \in Points, ScanPoint(c, q) PROVE FALSE
      BY <3>6, <2>3 DEF ScanPoint, Redeeming, TypeOK
    <3>7. ~LockFlags(c) /\ ~StartTimer(c) /\ \A f \in Fields : ~StoreFlag(c, f)
      BY <1>1, <2>3, ThreadAssumption
         DEF Quiet, LockFlags, StartTimer, StoreFlag, TypeOK
    <3> QED
      BY <1>1, <2>3, <3>1, <3>2, <3>3, <3>4, <3>5, <3>6, <3>7 DEF ClientStep
  <2> QED
    BY <2>1, <2>2, <2>3 DEF Holds
<1>2. ASSUME NEW d \in Clients, LockFlags(d) PROVE Holds(c, p)
  <2>1. UNCHANGED <<from, conn, pc, cmd, point>> /\ lock' = d
    BY <1>2 DEF LockFlags, flags
  <2>2. (Claims(c, p)' <=> Claims(c, p)) /\ (Redeeming(c, p)' <=> Redeeming(c, p))
    BY <2>1 DEF Claims, Redeeming
  <2>3. ~Marking(c, p)'
    <3> SUFFICES ASSUME d = c, pc[c] = "mark", point[c] = p PROVE FALSE
      BY <2>1 DEF Marking
    <3>1. recorded'[c][p] = recorded[c][p] + 1 /\ recorded[c][p] \in Nat
      BY <1>2 DEF LockFlags, TypeOK
    <3> QED
      BY <3>1
  <2> QED
    BY <2>2, <2>3 DEF Holds
<1>3. ASSUME NEW d \in Clients, NEW f \in Fields, StoreFlag(d, f) PROVE Holds(c, p)
  <2>1. CASE Claims(c, p)'
    BY <1>3, <2>1, ClaimByMark DEF Holds
  <2>2. CASE Marking(c, p)'
    BY <1>3, <2>2, StoreControl, ThreadAssumption DEF Marking, Holds
  <2>3. CASE Redeeming(c, p)'
    <3>1. pc[d] \in Setting
      BY <1>3, ThreadAssumption DEF StoreFlag, TypeOK
    <3>2. UNCHANGED <<cmd, point>>
      BY <1>3, StoreControl
    <3>3. pc'[c] # pc[c] => pc[c] = "clear" \/ pc'[c] \in {"time", "withdraw"}
      BY <1>3, <3>1, StoreControl DEF Setting
    <3> QED
      BY <2>3, <3>2, <3>3 DEF Redeeming, Holds
  <2> QED
    BY <2>1, <2>2, <2>3 DEF Holds
<1>4. ASSUME NEW d \in Clients, StartTimer(d) PROVE Holds(c, p)
  BY <1>4 DEF StartTimer, flags, mutex, Holds, Claims, Marking, Redeeming, TypeOK
<1>5. ASSUME NEW t \in timers, TimerStep(t) PROVE Holds(c, p)
  BY <1>5 DEF TimerStep, TimerWake, TimerCancel, TimerForget, flags, mutex,
              Holds, Claims, Marking, Redeeming
<1>6. CASE UNCHANGED vars
  BY <1>6 DEF vars, flags, mutex, Holds, Claims, Marking, Redeeming
<1> QED
  BY <1>1, <1>2, <1>3, <1>4, <1>5, <1>6, QuietActions DEF Next
-----------------------------------------------------------------------------
\* The initial state satisfies the inductive invariant.
LEMMA InvInit == Init => IInv
<1> SUFFICES ASSUME Init PROVE IInv
  OBVIOUS
<1>1. TypeOK
  BY TypeInit
<1>2. /\ \A c \in Clients : pc[c] = "off" /\ cmd[c] = "none"
      /\ \A p \in Points : ~pre[p] /\ from[p] = NoSource /\ conn[p] = NoConn
      /\ \A c \in Clients, p \in Points : executed[c][p] = 0 /\ recorded[c][p] = 0
      /\ lock = NoOne
  BY DEF Init
<1>3. Budgeted
  <2> SUFFICES ASSUME NEW c \in Clients, NEW p \in Points, Holds(c, p) PROVE FALSE
    BY DEF Budgeted
  <2>1. From[c] # NoSource /\ c # NoOne
    BY IdentityAssumption, ThreadAssumption DEF Sources, NoSource
  <2> QED
    BY <1>2, <2>1 DEF Holds, Claims, Marking, Redeeming
<1> QED
  BY <1>1, <1>2, <1>3 DEF IInv, Stored, SpentOnce, Consumed, Visiting,
                          NothingLeftBehind, PresetIsTimed, Cancelling

\* Only the record of a preset and an operation sent change the counters.
LEMMA CountersStep ==
  ASSUME [Next]_vars
  PROVE  \/ UNCHANGED <<recorded, executed>>
         \/ \E c \in Clients : LockFlags(c) /\ pc[c] = "mark"
         \/ \E c \in Clients : SendCommand(c) /\ cmd[c] = "EXE"
<1>1. ASSUME NEW c \in Clients, Environment(c) PROVE UNCHANGED <<recorded, executed>>
  BY <1>1 DEF Environment, Connect, Disconnect, Start, history
<1>2. ASSUME NEW t \in timers, TimerStep(t) PROVE UNCHANGED <<recorded, executed>>
  BY <1>2 DEF TimerStep, TimerWake, TimerCancel, TimerForget, history
<1>3. ASSUME NEW c \in Clients, ClientStep(c), ~(LockFlags(c) /\ pc[c] = "mark"),
             ~(SendCommand(c) /\ cmd[c] = "EXE")
      PROVE  UNCHANGED <<recorded, executed>>
  BY <1>3 DEF ClientStep, PushPreset, LockFlags, StoreFlag, StartTimer, CheckSource,
              CheckAddress, SendCommand, ScanDone, ScanSource, WithdrawPreset,
              ScanPoint, history
<1> QED
  BY <1>1, <1>2, <1>3 DEF Next, vars, history

\* The client that sends its operation holds its grant no more.
LEMMA SentIsSpent ==
  ASSUME IInv, NEW c \in Clients, SendCommand(c), NEW d \in Clients, NEW p \in Points
  PROVE  /\ Holds(d, p)' => Holds(d, p)
         /\ <<d, p>> = <<c, point[c]>> => ~Holds(d, p)'
         /\ <<d, p>> # <<c, point[c]>> /\ Holds(d, p) => Holds(d, p)'
<1>1. TypeOK /\ Consumed
  BY DEF IInv
<1>2. /\ pc[c] = "send" /\ pc' = [pc EXCEPT ![c] = "idle"]
      /\ cmd' = [cmd EXCEPT ![c] = "none"]
      /\ UNCHANGED <<from, conn, lock, point>>
  BY DEF SendCommand, Return, Goto, flags, mutex
<1>3. lock # c
  BY <1>1, <1>2, ThreadAssumption DEF TypeOK, Setting
<1>4. Claims(d, p)' <=> Claims(d, p)
  BY <1>2 DEF Claims
<1>5. Marking(d, p)' <=> Marking(d, p)
  BY <1>1, <1>2, <1>3 DEF Marking, TypeOK
<1>6. CASE d # c
  BY <1>1, <1>2, <1>4, <1>5, <1>6 DEF Holds, Redeeming, TypeOK
<1>7. CASE d = c
  <2>1. ~Redeeming(c, p)' /\ ~Marking(c, p)'
    BY <1>1, <1>2, <1>3 DEF Redeeming, Marking, TypeOK
  <2>2. p = point[c] => ~Claims(c, p)
    BY <1>1, <1>2 DEF Consumed
  <2>3. p # point[c] => ~Redeeming(c, p)
    BY DEF Redeeming
  <2> QED
    BY <1>4, <1>5, <1>7, <2>1, <2>2, <2>3 DEF Holds
<1> QED
  BY <1>6, <1>7

\* No client sends more operations than it recorded presets, or could.
LEMMA BudgetStep ==
  ASSUME IInv, TypeOK', [Next]_vars
  PROVE  SpentOnce' /\ Budgeted'
<1>1. TypeOK /\ SpentOnce /\ Budgeted
  BY DEF IInv
<1>2. \A d \in Clients, p \in Points :
        recorded[d][p] \in Nat /\ executed[d][p] \in Nat
  BY <1>1 DEF TypeOK
<1>3. CASE UNCHANGED <<recorded, executed>>
  BY <1>1, <1>3, OnlyPresetsGrant DEF SpentOnce, Budgeted
<1>4. ASSUME NEW c \in Clients, LockFlags(c), pc[c] = "mark"
      PROVE  SpentOnce' /\ Budgeted'
  <2>1. /\ executed' = executed
        /\ \A d \in Clients, p \in Points :
             recorded'[d][p] = IF d = c /\ p = point[c] THEN recorded[d][p] + 1
                                                        ELSE recorded[d][p]
    BY <1>1, <1>4 DEF LockFlags, TypeOK
  <2>2. ASSUME NEW d \in Clients, NEW p \in Points
        PROVE  /\ executed'[d][p] <= recorded'[d][p]
               /\ Holds(d, p)' => executed'[d][p] < recorded'[d][p]
    <3>1. CASE d = c /\ p = point[c]
      BY <1>1, <1>2, <2>1, <3>1 DEF SpentOnce
    <3>2. CASE ~(d = c /\ p = point[c])
      BY <1>1, <2>1, <3>2, OnlyPresetsGrant DEF SpentOnce, Budgeted
    <3> QED
      BY <3>1, <3>2
  <2> QED
    BY <2>2 DEF SpentOnce, Budgeted
<1>5. ASSUME NEW c \in Clients, SendCommand(c), cmd[c] = "EXE"
      PROVE  SpentOnce' /\ Budgeted'
  <2>1. /\ recorded' = recorded
        /\ \A d \in Clients, p \in Points :
             executed'[d][p] = IF d = c /\ p = point[c] THEN executed[d][p] + 1
                                                        ELSE executed[d][p]
    BY <1>1, <1>5 DEF SendCommand, TypeOK
  <2>2. point[c] \in Points /\ Holds(c, point[c])
    BY <1>1, <1>5 DEF SendCommand, Holds, Redeeming, TypeOK
  <2>3. ASSUME NEW d \in Clients, NEW p \in Points
        PROVE  /\ executed'[d][p] <= recorded'[d][p]
               /\ Holds(d, p)' => executed'[d][p] < recorded'[d][p]
    <3>1. CASE d = c /\ p = point[c]
      <4>1. ~Holds(d, p)'
        BY <1>5, <3>1, SentIsSpent
      <4>2. executed[d][p] < recorded[d][p]
        BY <1>1, <2>2, <3>1 DEF Budgeted
      <4> QED
        BY <1>2, <2>1, <3>1, <4>1, <4>2
    <3>2. CASE ~(d = c /\ p = point[c])
      BY <1>1, <1>5, <2>1, <3>2, SentIsSpent DEF SpentOnce, Budgeted
    <3> QED
      BY <3>1, <3>2
  <2> QED
    BY <2>3 DEF SpentOnce, Budgeted
<1> QED
  BY <1>3, <1>4, <1>5, CountersStep
-----------------------------------------------------------------------------
\* What is left of the inductive invariant.
Rest == Stored /\ Consumed /\ Visiting /\ NothingLeftBehind /\ PresetIsTimed

\* The quiet steps of cancelAll visit every preset of its client.
LEMMA QuietVisits ==
  ASSUME TypeOK, Rest, NEW c \in Clients, Environment(c) \/ ClientStep(c), Quiet(c)
  PROVE  /\ pc'[c] # "send"
         /\ pc'[c] \in Cancelling => Visited(c)'
         /\ pc'[c] = "off" =>
              \A p \in Points : ~(pre[p] /\ Settled(p) /\ Owns(c, p))
<1> USE DEF Goto, Return
<1>0. /\ \A p \in Points : /\ Owns(c, p)' <=> Owns(c, p)
                           /\ Settled(p)' <=> Settled(p)
      /\ pre' = pre /\ From[c] \in Sources
  BY QuietKeeps, IdentityAssumption DEF Quiet, flags
<1>1. CASE Connect(c)
  BY <1>1 DEF Connect, TypeOK, Cancelling
<1>2. CASE Disconnect(c)
  BY <1>0, <1>2 DEF Disconnect, TypeOK, Visited
<1>3. ASSUME NEW p \in Points, NEW k \in {"PRE", "EXE", "CAN"}, Start(c, p, k)
      PROVE  pc'[c] \notin Cancelling \union {"send", "off"}
  BY <1>3 DEF Start, TypeOK, Cancelling
<1>4. CASE PushPreset(c) \/ CheckSource(c) \/ CheckAddress(c)
  BY <1>4 DEF PushPreset, CheckSource, CheckAddress, TypeOK, Cancelling
<1>5. CASE SendCommand(c)
  BY <1>5 DEF SendCommand, TypeOK, Cancelling
<1>6. ASSUME NEW q \in Points, ScanPoint(c, q)
      PROVE  pc'[c] \notin {"send", "off"} /\ Visited(c)'
  <2>1. /\ todo'[c] = todo[c] \ {q} /\ point'[c] = q /\ pc[c] = "scan"
        /\ pc'[c] = IF pre[q] THEN "source" ELSE "scan"
    BY <1>6 DEF ScanPoint, TypeOK
  <2>2. Visited(c)
    BY <2>1 DEF Rest, Visiting, Visited, Cancelling
  <2> QED
    BY <1>0, <2>1, <2>2 DEF Visited
<1>7. CASE ScanDone(c)
  <2>1. todo[c] = {} /\ pc[c] = "scan" /\ pc'[c] = "off"
    BY <1>7 DEF ScanDone, TypeOK
  <2> QED
    BY <2>1 DEF Rest, Visiting, Visited, Cancelling
<1>8. CASE ScanSource(c)
  <2>1. /\ UNCHANGED <<todo, point>> /\ pc[c] = "source"
        /\ pc'[c] = IF from[point[c]] \in SlaveSources THEN "drop" ELSE "scan"
    BY <1>8 DEF ScanSource, TypeOK
  <2>2. Visited(c)
    BY <2>1 DEF Rest, Visiting, Visited, Cancelling
  <2>3. \A p \in Points : Owns(c, p) => from[p] = From[c]
    BY DEF Owns
  <2> QED
    BY <1>0, <2>1, <2>2, <2>3 DEF Visited
<1>9. CASE WithdrawPreset(c)
  <2>1. UNCHANGED <<todo, point>> /\ pc[c] = "withdraw" /\ pc'[c] = "scan"
    BY <1>9 DEF WithdrawPreset, TypeOK
  <2>2. Visited(c)
    BY <2>1 DEF Rest, Visiting, Visited, Cancelling
  <2> QED
    BY <1>0, <2>1, <2>2 DEF Visited
<1>10. ~LockFlags(c) /\ ~StartTimer(c) /\ \A f \in Fields : ~StoreFlag(c, f)
  BY ThreadAssumption DEF Quiet, LockFlags, StartTimer, StoreFlag, TypeOK
<1> QED
  BY <1>1, <1>2, <1>3, <1>4, <1>5, <1>6, <1>7, <1>8, <1>9, <1>10
     DEF Environment, ClientStep

\* A quiet step keeps the rest of the invariant.
LEMMA QuietRest ==
  ASSUME TypeOK, Rest, NEW c \in Clients, Environment(c) \/ ClientStep(c), Quiet(c)
  PROVE  Rest'
<1>1. Stored' /\ PresetIsTimed'
  BY QuietKeeps DEF Rest
<1>2. ASSUME NEW d \in Clients, d # c
      PROVE  /\ pc'[d] = pc[d] /\ point'[d] = point[d] /\ todo'[d] = todo[d]
             /\ pre' = pre /\ \A p \in Points : /\ Owns(d, p)' <=> Owns(d, p)
                                                /\ Claims(d, p)' <=> Claims(d, p)
                                                /\ Settled(p)' <=> Settled(p)
  BY <1>2, QuietKeeps DEF Quiet, flags
<1>3. Consumed'
  BY <1>2, QuietVisits DEF Rest, Consumed, TypeOK
<1>4. NothingLeftBehind'
  <2> SUFFICES ASSUME NEW d \in Clients, NEW p \in Points, pc'[d] = "off"
               PROVE  ~(pre'[p] /\ Settled(p)' /\ Owns(d, p)')
    BY DEF NothingLeftBehind
  <2>1. CASE d = c
    BY <2>1, QuietVisits, QuietKeeps DEF Quiet, flags
  <2>2. CASE d # c
    BY <1>2, <2>2 DEF Rest, NothingLeftBehind
  <2> QED
    BY <2>1, <2>2
<1>5. Visiting'
  <2> SUFFICES ASSUME NEW d \in Clients, pc'[d] \in Cancelling PROVE Visited(d)'
    BY DEF Visiting, Visited
  <2>1. CASE d = c
    BY <2>1, QuietVisits
  <2>2. CASE d # c
    BY <1>2, <2>2 DEF Rest, Visiting, Visited
  <2> QED
    BY <2>1, <2>2
<1> QED
  BY <1>1, <1>3, <1>4, <1>5 DEF Rest

\* Taking the lock says nothing of the point any more until it is settled.
LEMMA LockRest ==
  ASSUME TypeOK, Rest, NEW c \in Clients, LockFlags(c)
  PROVE  Rest'
<1>1. /\ UNCHANGED <<pre, from, armed, conn, pc, cmd, point, todo, timers>>
      /\ lock = NoOne /\ lock' = c /\ left' = Fields /\ c # NoOne
  BY ThreadAssumption DEF LockFlags, flags
<1>2. Stored'
  BY <1>1 DEF Stored, Fields
<1>3. /\ \A d, p : /\ Owns(d, p)' <=> Owns(d, p)
                   /\ Claims(d, p)' <=> Claims(d, p)
      /\ \A p \in Points : Settled(p) /\ (Settled(p)' <=> p # point[c])
  BY <1>1 DEF Owns, Claims, Settled
<1>4. Consumed'
  BY <1>1, <1>3 DEF Rest, Consumed
<1>5. Visiting'
  BY <1>1, <1>3 DEF Rest, Visiting, Visited
<1>6. NothingLeftBehind'
  BY <1>1, <1>3 DEF Rest, NothingLeftBehind
<1>7. PresetIsTimed'
  <2> SUFFICES ASSUME NEW p \in Points, pre[p], p # point[c]
               PROVE  armed[p] /\ \E d \in Clients : Owns(d, p) /\ Timed(d, p)'
    BY <1>1, <1>3 DEF PresetIsTimed
  <2>1. PICK d \in Clients : Owns(d, p) /\ Timed(d, p) /\ armed[p]
    BY <1>3 DEF Rest, PresetIsTimed
  <2>2. recorded'[d][p] = recorded[d][p] /\ (<<d, p>> \in untimed => <<d, p>> \in untimed')
    <3>1. recorded'[d][p] = recorded[d][p]
      BY DEF LockFlags, TypeOK
    <3>2. untimed' = untimed \/ untimed' = untimed \ {<<c, point[c]>>}
      BY DEF LockFlags
    <3>3. <<d, p>> # <<c, point[c]>>
      OBVIOUS
    <3> QED
      BY <3>1, <3>2, <3>3
  <2>3. Timed(d, p)'
    BY <1>1, <2>1, <2>2 DEF Timed
  <2> QED
    BY <2>1, <2>3
<1> QED
  BY <1>2, <1>4, <1>5, <1>6, <1>7 DEF Rest

\* After the last store the point is its client's preset, or no preset at all.
LEMMA StoreEnds ==
  ASSUME TypeOK, Stored, NEW c \in Clients, NEW f \in Fields, StoreFlag(c, f),
         left = {f}, NEW p, p = point[c]
  PROVE  /\ pc[c] = "mark" => armed'[p] /\ from'[p] = From[c] /\ conn'[p] = Conn[c]
         /\ pc[c] # "mark" => ~pre'[p] /\ from'[p] = NoSource /\ conn'[p] = NoConn
<1>1. lock = c /\ c # NoOne
  BY StoreEffect
<1>2. /\ f # "pre" => "pre" \notin left
      /\ f # "from" => "from" \notin left
      /\ f # "armed" => "armed" \notin left
      /\ f # "conn" => "conn" \notin left
  OBVIOUS
<1>3. CASE pc[c] = "mark"
  <2>1. /\ f # "from" => from[p] = From[c]
        /\ f # "armed" => armed[p]
        /\ f # "conn" => conn[p] = Conn[c]
    BY <1>1, <1>2, <1>3 DEF Stored
  <2> QED
    BY <1>3, <2>1, StoreEffect
<1>4. CASE pc[c] # "mark"
  <2>1. /\ f # "pre" => ~pre[p]
        /\ f # "from" => from[p] = NoSource
        /\ f # "conn" => conn[p] = NoConn
    BY <1>1, <1>2, <1>4 DEF Stored
  <2> QED
    BY <1>4, <2>1, StoreEffect
<1> QED
  BY <1>3, <1>4

\* A store keeps the rest of the invariant: the point it stores to is settled
\* again only when all its fields are new.
LEMMA StoreRest ==
  ASSUME TypeOK, Rest, NEW c \in Clients, NEW f \in Fields, StoreFlag(c, f)
  PROVE  Rest'
<1>0. PICK p \in Points : p = point[c]
  BY DEF TypeOK
<1>1. /\ pc[c] \in Setting /\ lock = c /\ c # NoOne
      /\ UNCHANGED <<cmd, point, todo, timers, selected, history>>
      /\ \A d \in Clients \ {c} : pc'[d] = pc[d]
      /\ left' = left \ {f}
  BY StoreEffect, StoreControl
<1>2. \A q \in Points \ {p} :
        /\ pre'[q] = pre[q] /\ armed'[q] = armed[q]
        /\ Settled(q) /\ Settled(q)'
        /\ \A d \in Clients : Owns(d, q)' <=> Owns(d, q)
  <2>1. \A q \in Points \ {p} : Settled(q) /\ Settled(q)'
    BY <1>0, <1>1, StoreControl DEF Settled
  <2> QED
    BY <1>0, <2>1, StoreEffect DEF Owns
<1>3. CASE left # {f}
  <2>1. lock' = c /\ pc' = pc
    BY <1>1, <1>3, StoreControl
  <2>2. ~Settled(p)'
    BY <1>0, <1>1, <2>1 DEF Settled
  <2>3. Stored'
    <3>1. CASE pc[c] = "mark"
      <4>1. /\ "from" \in left' \/ from'[p] = From[c]
            /\ "armed" \in left' \/ armed'[p]
            /\ "conn" \in left' \/ conn'[p] = Conn[c]
        BY <1>0, <1>1, <3>1, StoreEffect DEF Rest, Stored
      <4> QED
        BY <1>0, <1>1, <2>1, <3>1, <4>1 DEF Stored
    <3>2. CASE pc[c] # "mark"
      <4>1. /\ "pre" \in left' \/ ~pre'[p]
            /\ "from" \in left' \/ from'[p] = NoSource
            /\ "conn" \in left' \/ conn'[p] = NoConn
        BY <1>0, <1>1, <3>2, StoreEffect DEF Rest, Stored
      <4> QED
        BY <1>0, <1>1, <2>1, <3>2, <4>1 DEF Stored
    <3> QED
      BY <3>1, <3>2
  <2>4. Consumed'
    <3> SUFFICES ASSUME NEW d \in Clients, pc[d] = "send", Claims(d, point[d])'
                 PROVE  FALSE
      BY <1>1, <2>1 DEF Consumed
    <3>1. point[d] \in Points /\ d # c
      BY <1>1 DEF TypeOK, Setting
    <3>2. Claims(d, point[d]) \/ Marking(d, point[d])
      BY <1>1, <3>1, ClaimByMark DEF Claims
    <3> QED
      BY <1>1, <3>1, <3>2 DEF Rest, Consumed, Marking
  <2>5. Visiting'
    <3> SUFFICES ASSUME NEW d \in Clients, pc[d] \in Cancelling PROVE Visited(d)'
      BY <2>1 DEF Visiting
    <3>1. Visited(d)
      BY DEF Rest, Visiting
    <3> QED
      BY <1>1, <1>2, <2>1, <2>2, <3>1 DEF Visited
  <2>6. NothingLeftBehind'
    BY <1>2, <2>1, <2>2 DEF Rest, NothingLeftBehind
  <2>7. PresetIsTimed'
    BY <1>1, <1>2, <2>1, <2>2 DEF Rest, PresetIsTimed, Timed, history
  <2> QED
    BY <2>3, <2>4, <2>5, <2>6, <2>7 DEF Rest
<1>4. CASE left = {f}
  <2>0. /\ lock' = NoOne
        /\ pc[c] = "mark" => pc'[c] = "time"
        /\ pc[c] = "clear" => pc'[c] = "send"
        /\ pc[c] = "drop" => pc'[c] = "withdraw"
    BY <1>4, StoreControl
  <2>1. Stored'
    BY <2>0 DEF Stored
  <2>2. /\ pc[c] = "mark" => armed'[p] /\ Owns(c, p)'
        /\ pc[c] # "mark" => ~pre'[p] /\ ~Claims(c, p)'
        /\ \A d \in Clients \ {c} : pre'[p] => ~Owns(d, p)'
    <3>1. CASE pc[c] = "mark"
      <4>1. armed'[p] /\ from'[p] = From[c] /\ conn'[p] = Conn[c]
        BY <1>0, <1>4, <3>1, StoreEnds DEF Rest
      <4> QED
        BY <3>1, <4>1, IdentityAssumption DEF Owns
    <3>2. CASE pc[c] # "mark"
      <4>1. ~pre'[p] /\ from'[p] = NoSource /\ conn'[p] = NoConn
        BY <1>0, <1>4, <3>2, StoreEnds DEF Rest
      <4>2. From[c] # NoSource
        BY IdentityAssumption DEF Sources, NoSource
      <4> QED
        BY <3>2, <4>1, <4>2 DEF Claims
    <3> QED
      BY <3>1, <3>2
  <2>3. Consumed'
    <3> SUFFICES ASSUME NEW d \in Clients, pc'[d] = "send", Claims(d, point[d])'
                 PROVE  FALSE
      BY <1>1 DEF Consumed
    <3>1. CASE d = c
      <4>1. pc[c] # "mark"
        BY <2>0, <3>1
      <4>2. ~Claims(c, p)'
        BY <2>2, <4>1
      <4> QED
        BY <1>0, <1>1, <3>1, <4>2 DEF Claims
    <3>2. CASE d # c
      <4>1. point[d] \in Points /\ pc[d] = "send"
        BY <1>1, <3>2 DEF TypeOK
      <4>2. Claims(d, point[d]) \/ Marking(d, point[d])
        BY <1>1, <4>1, ClaimByMark DEF Claims
      <4> QED
        BY <1>1, <3>2, <4>1, <4>2 DEF Rest, Consumed, Marking
    <3> QED
      BY <3>1, <3>2
  <2>4. Visiting'
    <3> SUFFICES ASSUME NEW d \in Clients, pc'[d] \in Cancelling PROVE Visited(d)'
      BY DEF Visiting
    <3>1. CASE d = c
      <4>1. pc[c] = "drop" /\ pc'[c] = "withdraw"
        BY <1>1, <2>0, <3>1 DEF Setting, Cancelling
      <4>2. Visited(c) /\ ~pre'[p]
        BY <2>2, <4>1 DEF Rest, Visiting, Cancelling
      <4> QED
        BY <1>0, <1>1, <1>2, <3>1, <4>1, <4>2 DEF Visited
    <3>2. CASE d # c
      <4>1. Visited(d) /\ pc'[d] = pc[d]
        BY <1>1, <3>2 DEF Rest, Visiting
      <4> QED
        BY <1>1, <1>2, <2>2, <3>2, <4>1 DEF Visited
    <3> QED
      BY <3>1, <3>2
  <2>5. NothingLeftBehind'
    <3> SUFFICES ASSUME NEW d \in Clients, NEW q \in Points, pc'[d] = "off", pre'[q]
                 PROVE  ~Owns(d, q)'
      BY DEF NothingLeftBehind
    <3>1. d # c /\ pc[d] = "off"
      BY <1>1, <2>0 DEF Setting
    <3>2. CASE q = p
      BY <2>2, <3>1, <3>2
    <3>3. CASE q # p
      BY <1>2, <3>1, <3>3 DEF Rest, NothingLeftBehind
    <3> QED
      BY <3>2, <3>3
  <2>6. PresetIsTimed'
    <3> SUFFICES ASSUME NEW q \in Points, pre'[q]
                 PROVE  armed'[q] /\ \E d \in Clients : Owns(d, q)' /\ Timed(d, q)'
      BY DEF PresetIsTimed
    <3>1. CASE q = p
      <4>1. pc[c] = "mark" /\ armed'[p] /\ Owns(c, p)'
        BY <2>2, <3>1
      <4>2. Timed(c, p)'
        BY <1>0, <1>1, <2>0, <4>1 DEF Timed
      <4> QED
        BY <3>1, <4>1, <4>2
    <3>2. CASE q # p
      <4>1. PICK d \in Clients : armed[q] /\ Owns(d, q) /\ Timed(d, q)
        BY <1>2, <3>2 DEF Rest, PresetIsTimed
      <4>2. Timed(d, q)'
        BY <1>1, <4>1 DEF Timed, history, Setting
      <4> QED
        BY <1>2, <3>2, <4>1, <4>2
    <3> QED
      BY <3>1, <3>2
  <2> QED
    BY <2>1, <2>3, <2>4, <2>5, <2>6 DEF Rest
<1> QED
  BY <1>3, <1>4

\* The timer that is started is the one the point was still waiting for.
LEMMA StartRest ==
  ASSUME TypeOK, Rest, NEW c \in Clients, StartTimer(c)
  PROVE  Rest'
<1>1. /\ UNCHANGED <<flags, point, mutex, todo, recorded>>
      /\ pc[c] = "time" /\ pc' = [pc EXCEPT ![c] = "idle"]
      /\ timers \subseteq timers' /\ untimed \subseteq untimed'
  BY DEF StartTimer, Return, Goto
<1>2. lock # c /\ (lock # NoOne => lock \in Clients /\ pc'[lock] = pc[lock])
  BY <1>1, ThreadAssumption DEF TypeOK, Setting
<1>3. /\ UNCHANGED <<pre, from, armed, conn, lock, left>>
      /\ \A d, p : /\ Owns(d, p)' <=> Owns(d, p)
                   /\ Claims(d, p)' <=> Claims(d, p)
                   /\ Settled(p)' <=> Settled(p)
  BY <1>1 DEF Owns, Claims, Settled, flags, mutex
<1>4. \A d \in Clients : pc'[d] # "idle" => pc'[d] = pc[d]
  BY <1>1 DEF TypeOK
<1>5. Stored'
  BY <1>1, <1>2, <1>3 DEF Rest, Stored
<1>6. Consumed'
  BY <1>1, <1>3, <1>4 DEF Rest, Consumed
<1>7. Visiting'
  <2> SUFFICES ASSUME NEW d \in Clients, pc'[d] \in Cancelling PROVE Visited(d)'
    BY DEF Visiting
  <2>1. pc'[d] = pc[d]
    BY <1>4 DEF Cancelling
  <2> QED
    BY <1>1, <1>3, <2>1 DEF Rest, Visiting, Visited
<1>8. NothingLeftBehind'
  BY <1>3, <1>4 DEF Rest, NothingLeftBehind
<1>9. ASSUME NEW d \in Clients, NEW p \in Points, Timed(d, p) PROVE Timed(d, p)'
  <2>1. CASE d = c /\ pc[d] = "time" /\ point[d] = p
    <3> DEFINE t == [owner |-> c, point |-> p, n |-> recorded[c][p], stage |-> "asleep"]
    <3>1. CASE t \in timers'
      <4>1. t.owner = c /\ t.point = p /\ t.n = recorded[c][p]
        OBVIOUS
      <4> QED
        BY <1>1, <2>1, <3>1, <4>1 DEF Timed
    <3>2. CASE <<c, p>> \in untimed'
      BY <2>1, <3>2 DEF Timed
    <3> QED
      BY <2>1, <3>1, <3>2 DEF StartTimer
  <2>2. CASE d # c /\ pc[d] = "time" /\ point[d] = p
    BY <1>1, <2>2 DEF Timed, TypeOK
  <2> QED
    BY <1>1, <1>9, <2>1, <2>2 DEF Timed
<1>10. PresetIsTimed'
  BY <1>3, <1>9 DEF Rest, PresetIsTimed
<1> QED
  BY <1>5, <1>6, <1>7, <1>8, <1>10 DEF Rest

\* A timer clears a preset flag or nothing, and goes when it has.
LEMMA TimerRest ==
  ASSUME TypeOK, Rest, NEW t \in timers, TimerStep(t)
  PROVE  Rest'
<1>1. /\ UNCHANGED <<from, armed, conn, pc, cmd, point, lock, left, todo, recorded, untimed>>
      /\ \A p \in Points : pre'[p] => pre[p]
  BY DEF TimerStep, TimerWake, TimerCancel, TimerForget, TypeOK, flags, mutex, history
<1>2. \A d, p : /\ Owns(d, p)' <=> Owns(d, p)
                /\ Claims(d, p)' <=> Claims(d, p)
                /\ Settled(p)' <=> Settled(p)
  BY <1>1 DEF Owns, Claims, Settled
<1>3. Stored'
  <2> SUFFICES ASSUME lock # NoOne PROVE Stored'
    BY <1>1 DEF Stored
  <2>1. point[lock] \in Points
    BY DEF TypeOK
  <2> QED
    BY <1>1, <2>1 DEF Rest, Stored
<1>4. Consumed' /\ Visiting' /\ NothingLeftBehind'
  BY <1>1, <1>2 DEF Rest, Consumed, Visiting, Visited, NothingLeftBehind
<1>5. PresetIsTimed'
  <2> SUFFICES ASSUME NEW p \in Points, pre'[p], Settled(p)
               PROVE  armed[p] /\ \E d \in Clients : Owns(d, p) /\ Timed(d, p)'
    BY <1>1, <1>2 DEF PresetIsTimed
  <2>1. PICK d \in Clients : armed[p] /\ Owns(d, p) /\ Timed(d, p)
    BY <1>1 DEF Rest, PresetIsTimed
  <2>2. ASSUME NEW u \in timers, u.owner = d, u.point = p, u.n = recorded[d][p]
        PROVE  \E w \in timers' : w.owner = d /\ w.point = p /\ w.n = recorded[d][p]
    <3>1. CASE u # t
      BY <2>2, <3>1 DEF TimerStep, TimerWake, TimerCancel, TimerForget
    <3>2. CASE u = t
      <4>1. ~TimerForget(t)
        BY <2>2, <3>2 DEF TimerForget, TypeOK
      <4> DEFINE next == IF TimerWake(t) THEN [t EXCEPT !.stage = "cancel"]
                                         ELSE [t EXCEPT !.stage = "forget"]
      <4>2. next \in timers'
        BY <2>1, <2>2, <3>2, <4>1 DEF TimerStep, TimerWake, TimerCancel
      <4>3. next.owner = t.owner /\ next.point = t.point /\ next.n = t.n
        BY DEF TypeOK, Timers
      <4> QED
        BY <2>2, <3>2, <4>2, <4>3
    <3> QED
      BY <3>1, <3>2
  <2>3. Timed(d, p)'
    BY <1>1, <2>1, <2>2 DEF Timed
  <2> QED
    BY <2>1, <2>3
<1> QED
  BY <1>3, <1>4, <1>5 DEF Rest

\* Every step of every thread preserves the inductive invariant.
LEMMA InvStep == IInv /\ [Next]_vars => IInv'
<1> SUFFICES ASSUME IInv, [Next]_vars PROVE IInv'
  OBVIOUS
<1>1. TypeOK /\ TypeOK' /\ Rest
  BY TypeStep DEF IInv, Rest
<1>2. SpentOnce' /\ Budgeted'
  BY <1>1, BudgetStep
<1>3. Rest'
  <2>1. ASSUME NEW c \in Clients, Environment(c) \/ ClientStep(c) PROVE Rest'
    <3>1. CASE Quiet(c)
      BY <1>1, <2>1, <3>1, QuietRest
    <3>2. CASE LockFlags(c)
      BY <1>1, <3>2, LockRest
    <3>3. ASSUME NEW f \in Fields, StoreFlag(c, f) PROVE Rest'
      BY <1>1, <3>3, StoreRest
    <3>4. CASE StartTimer(c)
      BY <1>1, <3>4, StartRest
    <3> QED
      BY <1>1, <2>1, <3>1, <3>2, <3>3, <3>4, QuietActions
  <2>2. ASSUME NEW t \in timers, TimerStep(t) PROVE Rest'
    BY <1>1, <2>2, TimerRest
  <2>3. CASE UNCHANGED vars
    BY <1>1, <2>3 DEF vars, flags, mutex, history, Rest, Stored, Consumed, Visiting,
                      Visited, NothingLeftBehind, PresetIsTimed, Owns, Claims,
                      Settled, Timed
  <2> QED
    BY <2>1, <2>2, <2>3 DEF Next
<1> QED
  BY <1>1, <1>2, <1>3 DEF IInv, Rest
-----------------------------------------------------------------------------
\* IInv holds in every reachable state.
THEOREM Invariance == Spec => []IInv
<1> QED
  BY InvInit, InvStep, PTL DEF Spec

\* The fields of RmctrlClass, the threads and the timers keep their types.
THEOREM TypeCorrect == Spec => []TypeOK
<1>1. IInv => TypeOK
  BY DEF IInv
<1> QED
  BY Invariance, <1>1, PTL

\* No preset operates its point twice, whatever the number of masters, points,
\* presets and timers, and in whatever order the stores of setflag are seen.
THEOREM OneOperationPerPreset == Spec => []SpentOnce
<1>1. IInv => SpentOnce
  BY DEF IInv
<1> QED
  BY Invariance, <1>1, PTL

\* After cancelAll the closed connection owns no preset, but for what is seen of
\* its name while the next preset of the point is being stored.
THEOREM DisconnectionIsClean == Spec => []NothingLeftBehind
<1>1. IInv => NothingLeftBehind
  BY DEF IInv
<1> QED
  BY Invariance, <1>1, PTL

\* Every preset flag that is set, and whose setflag is done, has the timer of
\* that preset still running, unless it could not be started.
THEOREM TimerAlwaysPending == Spec => []PresetIsTimed
<1>1. IInv => PresetIsTimed
  BY DEF IInv
<1> QED
  BY Invariance, <1>1, PTL
-----------------------------------------------------------------------------
\* Losing grants is a step of the abstract specification.
LEMMA LosingIsLapse ==
  ASSUME GrantsHeld' \subseteq GrantsHeld, UNCHANGED <<recorded, executed>>
  PROVE  Grants!Next
<1>1. GrantsHeld \ GrantsHeld' \in SUBSET GrantsHeld
  OBVIOUS
<1>2. GrantsHeld' = GrantsHeld \ (GrantsHeld \ GrantsHeld')
  OBVIOUS
<1>3. Grants!Lapse
  BY <1>1, <1>2 DEF Grants!Lapse
<1> QED
  BY <1>3 DEF Grants!Next

\* Taking the lock to record a preset is the abstract Grant.
LEMMA RecordIsGrant ==
  ASSUME IInv, [Next]_vars, NEW c \in Clients, LockFlags(c), pc[c] = "mark"
  PROVE  Grants!Next
<1>1. TypeOK
  BY DEF IInv
<1>2. PICK p \in Points : p = point[c]
  BY <1>1 DEF TypeOK
<1>3. recorded' = [recorded EXCEPT ![c][p] = @ + 1] /\ executed' = executed
  BY <1>2 DEF LockFlags
<1>4. \A d \in Clients, q \in Points :
        <<d, q>> # <<c, p>> => recorded'[d][q] = recorded[d][q]
  BY <1>1, <1>3 DEF TypeOK
<1>5. GrantsHeld' \subseteq GrantsHeld \union {<<c, p>>}
  BY <1>1, <1>4, OnlyPresetsGrant DEF GrantsHeld
<1>6. Marking(c, p)'
  BY <1>2 DEF LockFlags, Marking
<1>7. <<c, p>> \in GrantsHeld'
  BY <1>6 DEF GrantsHeld, Holds
<1>8. GrantsHeld' = (GrantsHeld \ (GrantsHeld \ GrantsHeld')) \union {<<c, p>>}
  BY <1>5, <1>7
<1>9. Grants!Grant(c, p)
  BY <1>3, <1>8 DEF Grants!Grant
<1> QED
  BY <1>9 DEF Grants!Next

\* Sending an operation uses up exactly the grant of its client and point.
LEMMA SendIsOperate ==
  ASSUME IInv, NEW c \in Clients, SendCommand(c), cmd[c] = "EXE"
  PROVE  Grants!Next
<1>1. PICK p \in Points : p = point[c]
  BY DEF IInv, TypeOK
<1>2. executed' = [executed EXCEPT ![c][p] = @ + 1] /\ recorded' = recorded
  BY <1>1 DEF SendCommand
<1>3. \A d \in Clients, q \in Points :
        Holds(d, q)' <=> Holds(d, q) /\ <<d, q>> # <<c, p>>
  BY <1>1, SentIsSpent
<1>4. GrantsHeld' = GrantsHeld \ {<<c, p>>}
  BY <1>3 DEF GrantsHeld
<1>5. <<c, p>> \in GrantsHeld
  BY <1>1 DEF SendCommand, GrantsHeld, Holds, Redeeming
<1>6. Grants!Operate(c, p)
  BY <1>2, <1>4, <1>5 DEF Grants!Operate
<1> QED
  BY <1>6 DEF Grants!Next

\* RmctrlClass implements OperateGrant: each of its steps grants on a recorded
\* preset, operates on a grant, lets grants lapse, or is invisible.
THEOREM Implementation == Spec => ImplementsGrants
<1>1. Init => Grants!Init
  <2> SUFFICES ASSUME Init PROVE Grants!Init
    OBVIOUS
  <2>1. ASSUME NEW c \in Clients, NEW p \in Points, Holds(c, p) PROVE FALSE
    <3>1. From[c] # NoSource /\ c # NoOne
      BY IdentityAssumption, ThreadAssumption DEF Sources, NoSource
    <3>2. from[p] = NoSource /\ conn[p] = NoConn /\ lock = NoOne /\ cmd[c] = "none"
      BY DEF Init
    <3> QED
      BY <2>1, <3>1, <3>2 DEF Holds, Claims, Marking, Redeeming
  <2>2. GrantsHeld = {}
    BY <2>1 DEF GrantsHeld
  <2> QED
    BY <2>2 DEF Init, Grants!Init
<1>2. IInv /\ [Next]_vars => [Grants!Next]_(Grants!vars)
  <2> SUFFICES ASSUME IInv, [Next]_vars PROVE [Grants!Next]_(Grants!vars)
    OBVIOUS
  <2>1. CASE UNCHANGED <<recorded, executed>>
    <3>1. GrantsHeld' \subseteq GrantsHeld
      BY <2>1, OnlyPresetsGrant DEF GrantsHeld, IInv
    <3> QED
      BY <2>1, <3>1, LosingIsLapse
  <2>2. ASSUME NEW c \in Clients, LockFlags(c), pc[c] = "mark" PROVE Grants!Next
    BY <2>2, RecordIsGrant
  <2>3. ASSUME NEW c \in Clients, SendCommand(c), cmd[c] = "EXE"
        PROVE Grants!Next
    BY <2>3, SendIsOperate
  <2> QED
    BY <2>1, <2>2, <2>3, CountersStep
<1> QED
  BY Invariance, <1>1, <1>2, PTL DEF Spec, Grants!Spec, ImplementsGrants
=============================================================================
