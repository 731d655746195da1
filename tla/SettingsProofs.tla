----------------------------- MODULE SettingsProofs -----------------------------
(***************************************************************************)
(* Proofs about Settings: its types for any threads, and, for commands     *)
(* served one at a time, what the DSP runs and what may be committed.      *)
(***************************************************************************)
EXTENDS Settings, TLAPS

OneAtATime == \E t : Threads = {t}

\* A thread's command is known by where it is.
JobFits ==
  \A t \in Threads :
    /\ pc[t] \in {"idle", "store"} => job[t] = "none"
    /\ pc[t] = "stage" => job[t] \in {"none", "plain"}
    /\ pc[t] = "commit" => job[t] \in {"confirm", "plain confirm"}

Loaded(p)  == dsp[p] = value[current][p]
Sending(t) == pc[t] \in {"pack", "send"}

\* A parameter the DSP does not run as stored is known to have drifted, or is
\* still to be sent.
LoadedOrDue ==
  \A p \in MultiParams \ adrift :
    Loaded(p) \/ \E t \in Threads : Sending(t) /\ p \in left[t]

\* What is packed is what is stored; what the tool has read is what the DSP
\* runs, and what it has written is known to have drifted.
ImageFits ==
  \A t \in Threads :
    /\ pc[t] = "send" /\ image[t].param \in MultiParams =>
         image[t].value = value[current][image[t].param]
    /\ pc[t] = "store" =>
         image[t].param \in adrift \/ image[t].value = dsp[image[t].param]

\* A switch under way has loaded all but what is left to send.
SwitchLoads ==
  DspAnswers = {TRUE} =>
    \A t \in Threads : Sending(t) /\ job[t] = "switch" =>
      \A p \in MultiParams \ left[t] : Loaded(p)

IInv == TypeOK /\ JobFits /\ LoadedOrDue /\ ImageFits /\ SwitchLoads
-----------------------------------------------------------------------------
\* The numbers of groups, and 0 for none.
LEMMA GroupNumbers ==
  /\ 1 \in Groups /\ 0 \in 0..MaxGroup
  /\ \A h \in Groups : h \in 0..MaxGroup
  /\ \A g \in 0..MaxGroup+1 : g <= MaxGroup => g \in 0..MaxGroup
BY GroupAssumption DEF Groups

LEMMA InitTypes == Init => TypeOK
<1> SUFFICES ASSUME Init PROVE TypeOK
  OBVIOUS
<1>1. (CHOOSE w \in Values : TRUE) \in Values
  BY ValueAssumption
<1>2. 1 \in Groups /\ 0 \in 0..MaxGroup /\ \A h \in Groups : h \in 0..MaxGroup
  BY GroupNumbers
<1>3. staged \in [Params -> Values \union {Unset}]
  BY DEF Init, NothingStaged
<1>4. /\ value \in [Groups -> [Params -> Values]]
      /\ dsp \in [Params -> Values]
  BY <1>1 DEF Init
<1>5. /\ preFlag \in BOOLEAN /\ firstFlag \in BOOLEAN /\ fresh \in BOOLEAN
  BY DEF Init
<1>6. /\ pc \in [Threads -> {"idle", "stage", "commit", "pack", "return", "send",
                         "store"}]
      /\ job \in [Threads -> {"none", "plain", "confirm", "plain confirm",
                              "switch"}]
      /\ frame \in [Threads -> Seq(Items)]
      /\ left \in [Threads -> SUBSET Params]
      /\ image \in [Threads -> Images \union {NoImage}]
      /\ \A t \in Threads : pc[t] = "idle"
  BY DEF Init
<1>7. /\ current \in Groups /\ edit \in 0..MaxGroup
      /\ target \in [Threads -> 0..MaxGroup]
      /\ adrift \in SUBSET Params
  BY <1>2 DEF Init
<1> QED
  BY <1>3, <1>4, <1>5, <1>6, <1>7 DEF TypeOK

\* Items, what is left of a frame, and the column of a parameter.
LEMMA FrameItems ==
  ASSUME TypeOK, NEW t \in Threads, pc[t] = "stage"
  PROVE  /\ Head(frame[t]) \in Items /\ Tail(frame[t]) \in Seq(Items)
         /\ Len(frame[t]) # 1 => Tail(frame[t]) # <<>>
         /\ frame[t] # Tail(frame[t]) /\ frame[t] # <<>>
<1> DEFINE f == frame[t]
<1>1. f \in Seq(Items) /\ f # <<>>
  BY DEF TypeOK
<1> HIDE DEF f
<1>2. Len(Tail(f)) = Len(f) - 1 /\ Len(f) \in Nat \ {0}
  BY <1>1
<1>3. Head(f) \in Items /\ Tail(f) \in Seq(Items)
  BY <1>1
<1>4. Len(f) # 1 => Tail(f) # <<>>
  BY <1>2
<1>5. ASSUME f = Tail(f) PROVE FALSE
  <2>1. Len(f) = Len(f) - 1
    BY <1>2, <1>5
  <2> QED
    BY <1>2, <2>1
<1> QED
  BY <1>1, <1>3, <1>4, <1>5 DEF f

LEMMA ColumnIsGroup ==
  ASSUME TypeOK, NEW p PROVE Column(p) \in Groups
<1>1. current \in Groups
  BY DEF TypeOK
<1> QED
  BY <1>1, GroupNumbers DEF Column

\* Every step keeps the types, for any number of threads.
LEMMA StepTypes == TypeOK /\ [Next]_vars => TypeOK'
<1> SUFFICES ASSUME TypeOK, [Next]_vars PROVE TypeOK'
  OBVIOUS
<1> USE DEF TypeOK, Goto, ForgetPreset, store, flags, thread
<1>n. NothingStaged \in [Params -> Values \union {Unset}]
  BY DEF NothingStaged
<1>g. /\ 0 \in 0..MaxGroup
      /\ \A h \in Groups : h \in 0..MaxGroup
      /\ \A g \in 0..MaxGroup+1 : g <= MaxGroup => g \in 0..MaxGroup
  BY GroupNumbers
<1>1. ASSUME NEW t \in Threads, NEW g \in 0..MaxGroup+1, NEW f \in Frames,
             Preset(t, g, f)
      PROVE  TypeOK'
  <2>1. f \in Seq(Items) /\ f # <<>>
    BY FrameAssumption
  <2>2. edit' \in 0..MaxGroup
    BY <1>1, <1>g DEF Preset
  <2>3. (IF g \in Groups THEN g ELSE 0) \in 0..MaxGroup
    BY <1>g
  <2>4. pc' \in [Threads -> {"idle", "stage", "commit", "pack", "return", "send",
                         "store"}]
        /\ frame' \in [Threads -> Seq(Items)]
    BY <1>1, <2>1 DEF Preset
  <2>5. \A u \in Threads : pc'[u] = "stage" => frame'[u] # <<>>
    BY <1>1, <2>1 DEF Preset
  <2>6. \A u \in Threads : pc'[u] \in {"send", "store"} => image'[u] \in Images
    BY <1>1 DEF Preset
  <2> QED
    BY <1>1, <2>2, <2>3, <2>4, <2>5, <2>6 DEF Preset
<1>2. ASSUME NEW t \in Threads, StageItem(t) PROVE TypeOK'
  <2>1. Head(frame[t]) \in Items /\ Tail(frame[t]) \in Seq(Items)
        /\ (Len(frame[t]) # 1 => Tail(frame[t]) # <<>>)
    BY <1>2, FrameItems DEF StageItem
  <2>2. staged' \in [Params -> Values \union {Unset}]
    BY <1>2, <2>1 DEF StageItem, Items
  <2>3. frame' \in [Threads -> Seq(Items)]
    <3>1. frame \in [Threads -> Seq(Items)]
      BY DEF TypeOK
    <3>2. frame' = [frame EXCEPT ![t] = <<>>] \/ frame' = [frame EXCEPT ![t] = Tail(@)]
      BY <1>2 DEF StageItem
    <3>3. <<>> \in Seq(Items)
      <4> HIDE DEF TypeOK
      <4> QED
        OBVIOUS
    <3> HIDE DEF TypeOK
    <3> QED
      BY <2>1, <3>1, <3>2, <3>3
  <2>4. \A u \in Threads : pc'[u] = "stage" => frame'[u] # <<>>
    BY <1>2, <2>1 DEF StageItem
  <2>5. preFlag' \in BOOLEAN /\ fresh' \in BOOLEAN
    BY <1>2 DEF StageItem
  <2> QED
    BY <1>2, <2>2, <2>3, <2>4, <2>5 DEF StageItem
<1>3. ASSUME NEW t \in Threads, NEW f \in PlainFrames, PlainPreset(t, f)
      PROVE  TypeOK'
  <2>1. f \in Seq(Items) /\ f # <<>>
    BY FrameAssumption
  <2> QED
    BY <1>3, <2>1, <1>g DEF PlainPreset
<1>4. ASSUME NEW t \in Threads, PlainItem(t) PROVE TypeOK'
  <2>1. Head(frame[t]) \in Items /\ Tail(frame[t]) \in Seq(Items)
        /\ (Len(frame[t]) # 1 => Tail(frame[t]) # <<>>)
    BY <1>4, FrameItems DEF PlainItem
  <2>2. staged' \in [Params -> Values \union {Unset}]
    BY <1>4, <2>1 DEF PlainItem, Items
  <2>3. frame' \in [Threads -> Seq(Items)]
    BY <1>4, <2>1 DEF PlainItem
  <2>4. \A u \in Threads : pc'[u] = "stage" => frame'[u] # <<>>
    BY <1>4, <2>1 DEF PlainItem
  <2> QED
    BY <1>4, <2>2, <2>3, <2>4 DEF PlainItem
<1>5. ASSUME NEW t \in Threads, NEW g \in 0..MaxGroup+1, SelectEdit(t, g)
      PROVE  TypeOK'
  BY <1>5, <1>g DEF SelectEdit
<1>6. ASSUME NEW t \in Threads,
             PlainCancel(t) \/ Cancel(t) \/ Refuse(t) \/ ConfirmLate(t)
      PROVE  TypeOK'
  <2>1. CASE PlainCancel(t)
    BY <2>1, <1>n DEF PlainCancel
  <2>2. CASE Cancel(t) \/ ConfirmLate(t)
    BY <2>2, <1>n, <1>g DEF Cancel, ConfirmLate
  <2>3. CASE Refuse(t)
    BY <2>3, <1>g DEF Refuse
  <2> QED
    BY <1>6, <2>1, <2>2, <2>3
<1>7. ASSUME NEW t \in Threads, PlainConfirm(t) \/ Confirm(t) PROVE TypeOK'
  BY <1>7 DEF PlainConfirm, Confirm
<1>8. ASSUME NEW t \in Threads, Commit(t) PROVE TypeOK'
  <2>1. value' \in [Groups -> [Params -> Values]]
    BY <1>8 DEF Commit
  <2>2. left' \in [Threads -> SUBSET Params]
    BY <1>8 DEF Commit
  <2> QED
    BY <1>8, <2>1, <2>2 DEF Commit
<1>8a. ASSUME NEW t \in Threads, CommitNothing(t) PROVE TypeOK'
  BY <1>8a DEF CommitNothing
<1>9. ASSUME NEW t \in Threads, NEW p \in Params, Pack(t, p) PROVE TypeOK'
  <2>1. value[Column(p)][p] \in Values
    BY ColumnIsGroup
  <2> QED
    BY <1>9, <2>1 DEF Pack, Images
<1>10. ASSUME NEW t \in Threads, Send(t) PROVE TypeOK'
  <2>1. image[t] \in Images /\ image[t].param \in Params /\ image[t].value \in Values
    BY <1>10 DEF Send, Images
  <2> QED
    BY <1>10, <2>1 DEF Send
<1>11. ASSUME NEW t \in Threads, EndConfirm(t) \/ EndPlainConfirm(t) PROVE TypeOK'
  <2>1. CASE EndConfirm(t)
    BY <2>1, <1>n, <1>g DEF EndConfirm, ClearStaged
  <2>2. CASE EndPlainConfirm(t)
    BY <2>2, <1>n DEF EndPlainConfirm, ClearStaged
  <2> QED
    BY <1>11, <2>1, <2>2
<1>12. ASSUME NEW t \in Threads, NEW g \in Groups, Switch(t, g) PROVE TypeOK'
  BY <1>12 DEF Switch, Params
<1>13. ASSUME NEW t \in Threads, EndSwitch(t) PROVE TypeOK'
  BY <1>13 DEF EndSwitch
<1>14. ASSUME NEW t \in Threads, NEW src \in Groups, NEW dest \in Groups,
              Copy(t, src, dest)
       PROVE  TypeOK'
  BY <1>14 DEF Copy
<1>15. ASSUME NEW t \in Threads, NEW p \in Params, NEW g \in Groups,
              NEW v \in Values, ToolWrite(t, p, g, v)
       PROVE  TypeOK'
  BY <1>15 DEF ToolWrite, Images
<1>16. ASSUME NEW t \in Threads, NEW p \in Params, ToolRead(t, p) PROVE TypeOK'
  BY <1>16 DEF ToolRead, Images
<1>17. ASSUME NEW t \in Threads, Store(t) PROVE TypeOK'
  <2>1. image[t].param \in Params /\ image[t].value \in Values
    BY <1>17 DEF Store, Images
  <2>2. Column(image[t].param) \in Groups
    BY ColumnIsGroup
  <2>3. value' \in [Groups -> [Params -> Values]]
    BY <1>17, <2>1, <2>2 DEF Store
  <2> QED
    BY <1>17, <2>3 DEF Store
<1>18. ASSUME NEW t \in Threads, NEW p \in Params, NEW v \in Values,
              PanelWrite(t, p, v)
       PROVE  TypeOK'
  BY <1>18 DEF PanelWrite
<1>19. CASE Close \/ Wait60s
  BY <1>19 DEF Close, Wait60s
<1>20. CASE Restart
  <2>1. adrift' \in SUBSET Params
    <3>1. \A t \in Threads : left[t] \subseteq Params
      BY DEF TypeOK
    <3>2. UNION {left[t] : t \in Threads} \subseteq Params
      <4> HIDE DEF TypeOK
      <4> QED
        BY <3>1
    <3> QED
      BY <1>20, <3>2 DEF Restart
  <2>2. target' \in [Threads -> 0..MaxGroup]
    BY <1>20, <1>g DEF Restart
  <2>3. left' \in [Threads -> SUBSET Params]
    BY <1>20 DEF Restart
  <2>4. image' \in [Threads -> Images \union {NoImage}]
    BY <1>20 DEF Restart
  <2>5. frame' \in [Threads -> Seq(Items)]
    <3>1. frame' = [t \in Threads |-> <<>>]
      BY <1>20 DEF Restart
    <3> HIDE DEF TypeOK
    <3> QED
      BY <3>1
  <2> QED
    BY <1>20, <1>n, <2>1, <2>2, <2>3, <2>4, <2>5 DEF Restart
<1>21. CASE UNCHANGED vars
  BY <1>21 DEF vars
<1> QED
  BY <1>1, <1>2, <1>3, <1>4, <1>5, <1>6, <1>7, <1>8, <1>8a, <1>9, <1>10, <1>11,
     <1>12, <1>13, <1>14, <1>15, <1>16, <1>17, <1>18, <1>19, <1>20, <1>21
     DEF Next, Master, Unit, Tool, Panel

\* The state of Settings has its type in every reachable state, however many
\* threads serve commands at a time.
THEOREM SettingsTypeCorrect == Spec => []TypeOK
BY InitTypes, StepTypes, PTL DEF Spec
-----------------------------------------------------------------------------
\* Commands that leave stored values, the DSP and what is to be sent alone.
LEMMA QuietStep ==
  ASSUME IInv, NEW t, Threads = {t},
         UNCHANGED <<value, current, dsp, left, image, adrift>>,
         pc[t] \in {"idle", "stage"}, pc'[t] \in {"idle", "stage", "commit"}
  PROVE  LoadedOrDue' /\ ImageFits' /\ SwitchLoads'
<1>1. ~Sending(t) /\ ~Sending(t)' /\ pc'[t] \notin {"send", "store"}
  BY DEF Sending
<1>2. LoadedOrDue'
  BY <1>1 DEF IInv, LoadedOrDue, Loaded
<1>3. ImageFits' /\ SwitchLoads'
  BY <1>1 DEF ImageFits, SwitchLoads
<1> QED
  BY <1>2, <1>3

LEMMA InitInv == Init => IInv
<1> SUFFICES ASSUME Init PROVE IInv
  OBVIOUS
<1>1. TypeOK
  BY InitTypes
<1>2. 1 \in Groups
  BY GroupAssumption DEF Groups
<1>3. \A p \in MultiParams : Loaded(p)
  BY <1>2 DEF Init, Loaded, Params
<1>4. JobFits /\ ImageFits /\ SwitchLoads
  BY DEF Init, JobFits, ImageFits, SwitchLoads, Sending
<1> QED
  BY <1>1, <1>3, <1>4 DEF IInv, LoadedOrDue

\* With one command at a time every step keeps the account of what the DSP runs.
LEMMA StepInv ==
  ASSUME IInv, [Next]_vars, OneAtATime PROVE IInv'
<1>t. PICK t : Threads = {t}
  BY DEF OneAtATime
<1>0. TypeOK'
  BY StepTypes DEF IInv
<1> SUFFICES JobFits' /\ LoadedOrDue' /\ ImageFits' /\ SwitchLoads'
  BY <1>0 DEF IInv
<1> DEFINE Fits == JobFits' /\ LoadedOrDue' /\ ImageFits' /\ SwitchLoads'
<1> USE <1>t
<1> USE DEF Goto, ForgetPreset, store, flags, thread
<1>y. /\ pc \in [Threads -> {"idle", "stage", "commit", "pack", "return", "send",
                         "store"}]
      /\ job \in [Threads -> {"none", "plain", "confirm", "plain confirm", "switch"}]
      /\ left \in [Threads -> SUBSET Params]
      /\ image \in [Threads -> Images \union {NoImage}]
      /\ pc[t] \in {"send", "store"} => image[t] \in Images
      /\ value \in [Groups -> [Params -> Values]]
      /\ dsp \in [Params -> Values]
      /\ current \in Groups
  BY DEF IInv, TypeOK
<1>1. ASSUME NEW g \in 0..MaxGroup+1, NEW f \in Frames, Preset(t, g, f) PROVE Fits
  <2>1. pc[t] = "idle" /\ pc'[t] \in {"idle", "stage"} /\ JobFits'
    BY <1>1, <1>y DEF Preset, IInv, JobFits
  <2> QED
    BY <1>1, <2>1, QuietStep DEF Preset
<1>2. CASE StageItem(t)
  <2>1. pc[t] = "stage" /\ pc'[t] \in {"idle", "stage"} /\ JobFits'
    BY <1>2, <1>y DEF StageItem, JobFits
  <2> QED
    BY <1>2, <2>1, QuietStep DEF StageItem
<1>3. ASSUME NEW f \in PlainFrames, PlainPreset(t, f) PROVE Fits
  <2>1. pc[t] = "idle" /\ pc'[t] = "stage" /\ JobFits'
    BY <1>3, <1>y DEF PlainPreset, JobFits
  <2> QED
    BY <1>3, <2>1, QuietStep DEF PlainPreset
<1>4. CASE PlainItem(t)
  <2>1. pc[t] = "stage" /\ pc'[t] \in {"idle", "stage"} /\ JobFits'
    BY <1>4, <1>y DEF PlainItem, JobFits
  <2> QED
    BY <1>4, <2>1, QuietStep DEF PlainItem
<1>5. ASSUME NEW g \in 0..MaxGroup+1, SelectEdit(t, g) PROVE Fits
  <2>1. pc[t] = "idle" /\ pc'[t] = "idle" /\ JobFits'
    BY <1>5 DEF SelectEdit, IInv, JobFits
  <2> QED
    BY <1>5, <2>1, QuietStep DEF SelectEdit
<1>6. CASE PlainCancel(t) \/ Cancel(t) \/ Refuse(t) \/ ConfirmLate(t)
  <2>1. UNCHANGED <<pc, job, value, current, dsp, left, image, adrift>>
    BY <1>6 DEF PlainCancel, Cancel, Refuse, ConfirmLate
  <2>2. pc[t] = "idle"
    BY <1>6 DEF PlainCancel, Cancel, Refuse, ConfirmLate
  <2>3. JobFits'
    BY <2>1 DEF IInv, JobFits
  <2> QED
    BY <2>1, <2>2, <2>3, QuietStep
<1>7. CASE PlainConfirm(t) \/ Confirm(t)
  <2>1. pc[t] = "idle" /\ pc'[t] = "commit" /\ JobFits'
    BY <1>7, <1>y DEF PlainConfirm, Confirm, JobFits
  <2> QED
    BY <1>7, <2>1, QuietStep DEF PlainConfirm, Confirm
<1>8. CASE Commit(t)
  <2> DEFINE changed == {p \in Params : staged[p] # Unset}
  <2>1. /\ pc[t] = "commit" /\ pc'[t] = "pack"
        /\ left'[t] = IF edit = current THEN changed ELSE {}
        /\ UNCHANGED <<current, dsp, job, image, adrift>>
    BY <1>8, <1>y DEF Commit
  <2>2. \A p \in MultiParams : p \in Params
    BY DEF Params
  <2>3. \A p \in MultiParams : p \notin left'[t] => value'[current][p] = value[current][p]
    BY <1>8, <1>y, <2>1, <2>2 DEF Commit
  <2>4. \A p \in MultiParams \ adrift : Loaded(p)
    BY <2>1 DEF IInv, LoadedOrDue, Sending
  <2>5. LoadedOrDue'
    BY <2>1, <2>3, <2>4 DEF LoadedOrDue, Loaded, Sending
  <2>6. job[t] # "switch"
    BY <2>1 DEF IInv, JobFits
  <2> QED
    BY <2>1, <2>5, <2>6 DEF JobFits, ImageFits, SwitchLoads
<1>8a. CASE CommitNothing(t)
  <2>1. /\ pc[t] = "commit" /\ pc'[t] = "return"
        /\ UNCHANGED <<value, current, dsp, job, left, image, adrift>>
    BY <1>8a, <1>y DEF CommitNothing
  <2>2. LoadedOrDue'
    BY <2>1 DEF IInv, LoadedOrDue, Loaded, Sending
  <2>3. job[t] # "switch"
    BY <2>1 DEF IInv, JobFits
  <2> QED
    BY <2>1, <2>2, <2>3 DEF JobFits, ImageFits, SwitchLoads
<1>9. ASSUME NEW p \in Params, Pack(t, p) PROVE Fits
  <2>1. /\ pc[t] = "pack" /\ pc'[t] = "send"
        /\ image'[t] = [param |-> p, value |-> value[Column(p)][p]]
        /\ UNCHANGED <<value, current, dsp, job, left, adrift>>
    BY <1>9, <1>y DEF Pack
  <2>2. ImageFits'
    BY <2>1 DEF ImageFits, Column
  <2>3. LoadedOrDue' /\ SwitchLoads'
    BY <2>1 DEF IInv, LoadedOrDue, SwitchLoads, Loaded, Sending
  <2> QED
    BY <2>1, <2>2, <2>3 DEF JobFits
<1>10. CASE Send(t)
  <2> DEFINE q == image[t].param
  <2>1. /\ pc[t] = "send" /\ pc'[t] = "pack"
        /\ left'[t] = left[t] \ {q}
        /\ UNCHANGED <<value, current, job>>
        /\ image[t].param \in Params /\ image[t].value \in Values
    BY <1>10, <1>y DEF Send, Images
  <2>2. \/ dsp' = [dsp EXCEPT ![q] = image[t].value] /\ adrift' = adrift \ {q}
        \/ DspAnswers # {TRUE} /\ dsp' = dsp /\ adrift' = adrift \union {q}
    <3>1. PICK ok \in DspAnswers :
            /\ dsp' = IF ok THEN [dsp EXCEPT ![q] = image[t].value] ELSE dsp
            /\ adrift' = IF ok THEN adrift \ {q} ELSE adrift \union {q}
      BY <1>10 DEF Send
    <3>2. ok = TRUE \/ ok = FALSE
      BY DspAssumption
    <3>3. CASE ok = TRUE
      BY <3>1, <3>3
    <3>4. CASE ok = FALSE
      <4>1. DspAnswers # {TRUE}
        BY <3>4
      <4> QED
        BY <3>1, <3>4, <4>1
    <3> QED
      BY <3>2, <3>3, <3>4
  <2>3. \A p \in MultiParams : p # q => dsp'[p] = dsp[p]
    BY <1>y, <2>2 DEF Params
  <2>4. q \in MultiParams => image[t].value = value[current][q]
    BY <2>1 DEF IInv, ImageFits
  <2>5. LoadedOrDue'
    <3>1. CASE adrift' = adrift \ {q} /\ dsp'[q] = image[t].value
      BY <2>1, <2>3, <2>4, <3>1 DEF IInv, LoadedOrDue, Loaded, Sending
    <3>2. CASE adrift' = adrift \union {q}
      BY <2>1, <2>3, <3>2 DEF IInv, LoadedOrDue, Loaded, Sending
    <3> QED
      BY <1>y, <2>1, <2>2, <3>1, <3>2
  <2>6. SwitchLoads'
    <3>1. DspAnswers = {TRUE} => dsp'[q] = image[t].value
      BY <1>y, <2>1, <2>2
    <3> QED
      BY <2>1, <2>3, <2>4, <3>1 DEF IInv, SwitchLoads, Loaded, Sending
  <2> QED
    BY <2>1, <2>5, <2>6 DEF JobFits, ImageFits
<1>11. CASE EndConfirm(t) \/ EndPlainConfirm(t) \/ EndSwitch(t)
  <2>1. /\ pc[t] = "return" \/ (pc[t] = "pack" /\ left[t] = {})
        /\ pc'[t] = "idle" /\ job'[t] = "none"
        /\ UNCHANGED <<value, current, dsp, image, adrift>>
    BY <1>11, <1>y DEF EndConfirm, EndPlainConfirm, EndSwitch, ClearStaged
  <2>2. LoadedOrDue'
    BY <2>1 DEF IInv, LoadedOrDue, Loaded, Sending
  <2> QED
    BY <2>1, <2>2 DEF JobFits, ImageFits, SwitchLoads, Sending
<1>12. ASSUME NEW g \in Groups, Switch(t, g) PROVE Fits
  <2>1. /\ pc'[t] = "pack" /\ left'[t] = MultiParams
    BY <1>12, <1>y DEF Switch
  <2> QED
    BY <2>1 DEF JobFits, ImageFits, SwitchLoads, LoadedOrDue, Sending
<1>13. ASSUME NEW src \in Groups, NEW dest \in Groups, Copy(t, src, dest) PROVE Fits
  <2>1. /\ pc[t] = "idle" /\ value'[current] = value[current]
        /\ UNCHANGED <<pc, job, current, dsp, left, image, adrift>>
    BY <1>13, <1>y DEF Copy
  <2>2. LoadedOrDue'
    BY <2>1 DEF IInv, LoadedOrDue, Loaded, Sending
  <2> QED
    BY <2>1, <2>2 DEF IInv, JobFits, ImageFits, SwitchLoads, Sending
<1>14. ASSUME NEW p \in Params, NEW g \in Groups, NEW v \in Values,
              ToolWrite(t, p, g, v)
       PROVE  Fits
  <2>1. /\ pc[t] = "idle" /\ pc'[t] = "store" /\ adrift' = adrift \union {p}
        /\ image'[t].param = p /\ image'[t].value = v
        /\ UNCHANGED <<value, current, job>>
        /\ \A q \in MultiParams : q # p => dsp'[q] = dsp[q]
    BY <1>14, <1>y DEF ToolWrite, Params
  <2>2. LoadedOrDue'
    BY <2>1 DEF IInv, LoadedOrDue, Loaded, Sending
  <2> QED
    BY <2>1, <2>2 DEF IInv, JobFits, ImageFits, SwitchLoads, Sending
<1>15. ASSUME NEW p \in Params, ToolRead(t, p) PROVE Fits
  <2>1. /\ pc[t] = "idle" /\ pc'[t] = "store"
        /\ image'[t].param = p /\ image'[t].value = dsp[p]
        /\ UNCHANGED <<value, current, job, dsp, adrift>>
    BY <1>15, <1>y DEF ToolRead
  <2>2. LoadedOrDue'
    BY <2>1 DEF IInv, LoadedOrDue, Loaded, Sending
  <2> QED
    BY <2>1, <2>2 DEF IInv, JobFits, ImageFits, SwitchLoads, Sending
<1>16. CASE Store(t)
  <2> DEFINE q == image[t].param
  <2>1. /\ pc[t] = "store" /\ pc'[t] = "idle"
        /\ value' = [value EXCEPT ![Column(q)][q] = image[t].value]
        /\ adrift' = IF dsp[q] = image[t].value THEN adrift \ {q} ELSE adrift
        /\ UNCHANGED <<current, job, dsp>>
        /\ q \in Params /\ image[t].value \in Values
    BY <1>16, <1>y DEF Store, Images
  <2>2. q \in adrift \/ image[t].value = dsp[q]
    BY <2>1 DEF IInv, ImageFits
  <2>3. \A p \in MultiParams : p # q => value'[current][p] = value[current][p]
    <3>1. Column(q) \in Groups
      BY ColumnIsGroup DEF IInv
    <3> QED
      BY <1>y, <2>1, <3>1 DEF Params
  <2>4. q \in MultiParams => value'[current][q] = image[t].value
    BY <1>y, <2>1 DEF Column
  <2>5. LoadedOrDue'
    BY <2>1, <2>2, <2>3, <2>4 DEF IInv, LoadedOrDue, Loaded, Sending
  <2>6. job[t] = "none"
    BY <2>1 DEF IInv, JobFits
  <2> QED
    BY <2>1, <2>5, <2>6 DEF JobFits, ImageFits, SwitchLoads, Sending
<1>17. ASSUME NEW p \in Params, NEW v \in Values, PanelWrite(t, p, v) PROVE Fits
  <2>1. /\ pc[t] = "idle" /\ adrift' = adrift \union {p}
        /\ UNCHANGED <<pc, job, value, current, left, image>>
        /\ \A q \in MultiParams : q # p => dsp'[q] = dsp[q]
    BY <1>17, <1>y DEF PanelWrite, Params
  <2>2. LoadedOrDue'
    BY <2>1 DEF IInv, LoadedOrDue, Loaded, Sending
  <2> QED
    BY <2>1, <2>2 DEF IInv, JobFits, ImageFits, SwitchLoads, Sending
<1>18. CASE Close \/ Wait60s \/ UNCHANGED vars
  <2>1. UNCHANGED <<pc, job, value, current, dsp, left, image, adrift>>
    BY <1>18 DEF Close, Wait60s, vars
  <2> QED
    BY <2>1 DEF IInv, JobFits, LoadedOrDue, Loaded, ImageFits, SwitchLoads, Sending
<1>19. CASE Restart
  <2>1. /\ pc'[t] = "idle" /\ job'[t] = "none"
        /\ left[t] \subseteq adrift' /\ adrift \subseteq adrift'
        /\ UNCHANGED <<value, current, dsp>>
    BY <1>19 DEF Restart
  <2>2. LoadedOrDue'
    BY <2>1 DEF IInv, LoadedOrDue, Loaded
  <2> QED
    BY <2>1, <2>2 DEF JobFits, ImageFits, SwitchLoads, Sending
<1> QED
  BY <1>1, <1>2, <1>3, <1>4, <1>5, <1>6, <1>7, <1>8, <1>8a, <1>9, <1>10, <1>11,
     <1>12, <1>13, <1>14, <1>15, <1>16, <1>17, <1>18, <1>19
     DEF Next, Master, Unit, Tool, Panel

THEOREM Accounts == OneAtATime => (Spec => []IInv)
<1> SUFFICES ASSUME OneAtATime PROVE Spec => []IInv
  OBVIOUS
<1>1. IInv /\ [Next]_vars => IInv'
  BY StepInv
<1> QED
  BY <1>1, InitInv, PTL DEF Spec

\* Served one at a time, whatever commands, closed connections and restarts
\* there are, the DSP runs the stored values of the current group.
THEOREM DspIsCurrent == OneAtATime => (Spec => []DspRunsCurrentGroup)
<1> SUFFICES ASSUME OneAtATime PROVE Spec => []DspRunsCurrentGroup
  OBVIOUS
<1>1. IInv => DspRunsCurrentGroup
  BY DEF IInv, LoadedOrDue, Loaded, Sending, DspRunsCurrentGroup, Busy
<1> QED
  BY <1>1, Accounts, PTL

\* A switch that ends has loaded the whole group, when the DSP obeys.
THEOREM SwitchIsWhole ==
  OneAtATime /\ DspAnswers = {TRUE} => (Spec => SwitchLoadsGroup)
<1> SUFFICES ASSUME OneAtATime, DspAnswers = {TRUE} PROVE Spec => SwitchLoadsGroup
  OBVIOUS
<1> DEFINE Ends ==
      \A t \in Threads :
        (job[t] = "switch" /\ job'[t] = "none" /\ pc'[t] = "idle"
           /\ left[t] = {} /\ pc[t] = "pack")
          => \A p \in MultiParams : dsp[p] = value[current][p]
<1>1. IInv => Ends
  BY DEF IInv, SwitchLoads, Loaded, Sending
<1>2. IInv => [Ends]_vars
  BY <1>1
<1>3. Spec => []IInv
  BY Accounts
<1>4. Spec => [][Ends]_vars
  BY <1>2, <1>3, PTL
<1> QED
  BY <1>4 DEF SwitchLoadsGroup

\* The first half of ConfirmedOncePerPreset: only a good item of a master's
\* preset makes a confirmation possible.
LEMMA GoodItemOnly ==
  ASSUME IInv, [Next]_vars, NEW t, Threads = {t}, ~Confirmable, Confirmable'
  PROVE  /\ pc[t] = "stage" /\ frame'[t] # frame[t] /\ job[t] = "none"
         /\ Head(frame[t]).kind = "good"
<1> USE DEF Goto, ForgetPreset, store, flags, thread
<1>y. /\ pc \in [Threads -> {"idle", "stage", "commit", "pack", "return", "send",
                         "store"}]
      /\ job \in [Threads -> {"none", "plain", "confirm", "plain confirm", "switch"}]
      /\ pc[t] = "idle" => job[t] = "none"
  BY DEF IInv, TypeOK, JobFits
<1>c. Confirmable <=> Committing(t) \/ (preFlag /\ fresh /\ job[t] # "confirm")
  BY DEF Confirmable
<1>d. Confirmable' <=>
        Committing(t)' \/ (preFlag' /\ fresh' /\ job'[t] # "confirm")
  BY DEF Confirmable
<1> USE DEF Committing
<1>1. CASE StageItem(t)
  <2>1. frame'[t] = <<>> \/ frame'[t] = Tail(frame[t])
    BY <1>1 DEF StageItem, IInv, TypeOK
  <2>2. frame[t] # <<>> /\ frame[t] # Tail(frame[t])
    BY <1>1, FrameItems DEF StageItem, IInv
  <2>3. job[t] = "none" /\ job' = job /\ pc'[t] # "commit" /\ pc[t] = "stage"
    BY <1>1, <1>y DEF StageItem
  <2>4. preFlag'
    BY <2>3 DEF Confirmable, Committing
  <2> QED
    BY <1>1, <2>1, <2>2, <2>3, <2>4 DEF StageItem
<1>2. ASSUME NEW g, NEW f, Preset(t, g, f) PROVE FALSE
  <2>1. UNCHANGED <<preFlag, fresh, job>> /\ (pc' = pc \/ pc'[t] = "stage")
    BY <1>2, <1>y DEF Preset
  <2> QED
    BY <1>c, <1>d, <2>1
<1>3. ASSUME NEW f, PlainPreset(t, f) PROVE FALSE
  <2>1. UNCHANGED <<preFlag, fresh>> /\ pc'[t] = "stage" /\ job[t] = "none"
    BY <1>3, <1>y DEF PlainPreset
  <2> QED
    BY <1>c, <1>d, <2>1
<1>4. CASE PlainItem(t)
  <2>1. UNCHANGED <<preFlag, fresh>> /\ pc'[t] # "commit" /\ job[t] = "plain"
    BY <1>4, <1>y DEF PlainItem
  <2> QED
    BY <1>c, <1>d, <2>1
<1>5. ASSUME NEW g, SelectEdit(t, g) PROVE FALSE
  BY <1>5, <1>c, <1>d DEF SelectEdit
<1>6. CASE Cancel(t) \/ Refuse(t) \/ ConfirmLate(t)
  BY <1>6, <1>y, <1>c, <1>d DEF Cancel, Refuse, ConfirmLate
<1>7. CASE PlainConfirm(t) \/ Confirm(t) \/ PlainCancel(t)
  BY <1>7, <1>y, <1>c, <1>d DEF PlainConfirm, Confirm, PlainCancel
<1>8. CASE Commit(t) \/ CommitNothing(t) \/ Send(t) \/ \E p \in Params : Pack(t, p)
  <2>1. UNCHANGED <<preFlag, fresh, job>> /\ pc'[t] # "commit"
    BY <1>8, <1>y DEF Commit, CommitNothing, Send, Pack
  <2> QED
    BY <1>c, <1>d, <2>1
<1>9. CASE EndConfirm(t) \/ EndPlainConfirm(t) \/ EndSwitch(t)
  <2>1. /\ pc'[t] = "idle"
        /\ \/ preFlag' = FALSE
           \/ job[t] # "confirm" /\ UNCHANGED <<preFlag, fresh>>
    BY <1>9, <1>y DEF EndConfirm, EndPlainConfirm, EndSwitch
  <2> QED
    BY <1>c, <1>d, <2>1
<1>10. ASSUME NEW g, Switch(t, g) PROVE FALSE
  <2>1. UNCHANGED <<preFlag, fresh>> /\ pc'[t] = "pack" /\ job[t] = "none"
    BY <1>10, <1>y DEF Switch
  <2> QED
    BY <1>c, <1>d, <2>1
<1>11. ASSUME NEW src, NEW dest, Copy(t, src, dest) PROVE FALSE
  BY <1>11, <1>c, <1>d DEF Copy
<1>12. ASSUME NEW p, NEW g, NEW v, ToolWrite(t, p, g, v) PROVE FALSE
  BY <1>12, <1>y, <1>c, <1>d DEF ToolWrite
<1>13. ASSUME NEW p, ToolRead(t, p) PROVE FALSE
  BY <1>13, <1>y, <1>c, <1>d DEF ToolRead
<1>14. CASE Store(t)
  BY <1>14, <1>y, <1>c, <1>d DEF Store
<1>15. ASSUME NEW p, NEW v, PanelWrite(t, p, v) PROVE FALSE
  BY <1>15, <1>c, <1>d DEF PanelWrite
<1>16. CASE Close \/ Wait60s \/ UNCHANGED vars
  BY <1>16, <1>c, <1>d DEF Close, Wait60s, vars
<1>17. CASE Restart
  BY <1>17, <1>c, <1>d DEF Restart
<1> QED
  BY <1>1, <1>2, <1>3, <1>4, <1>5, <1>6, <1>7, <1>8, <1>9, <1>10, <1>11, <1>12,
     <1>13, <1>14, <1>15, <1>16, <1>17 DEF Next, Master, Unit, Tool, Panel

\* The second half: the commit of a master uses up what made it possible.
LEMMA CommitUsesUp ==
  ASSUME IInv, [Next]_vars, NEW t, Threads = {t}, Committing(t), pc'[t] = "pack"
  PROVE  ~Confirmable'
<1> USE DEF Committing
<1>0. ~CommitNothing(t)
  BY DEF CommitNothing, Goto, IInv, TypeOK
<1>1. Commit(t)
  <2>1. CASE Master(t)
    BY <1>0, <2>1 DEF Master, Preset, StageItem, Cancel, Refuse, ConfirmLate, Confirm,
       Pack, Send, EndConfirm, ClearStaged, Switch, EndSwitch
  <2>2. CASE Unit(t)
    BY <2>2 DEF Unit, PlainPreset, PlainItem, PlainCancel, PlainConfirm,
       EndPlainConfirm, ClearStaged
  <2>3. CASE Tool(t) \/ Panel(t)
    BY <2>3 DEF Tool, Panel, SelectEdit, ToolWrite, ToolRead, Store, PanelWrite,
       Copy
  <2>4. CASE Close \/ Wait60s \/ UNCHANGED vars
    BY <2>4 DEF Close, Wait60s, vars, thread
  <2>5. CASE Restart
    BY <2>5 DEF Restart
  <2> QED
    BY <2>1, <2>2, <2>3, <2>4, <2>5 DEF Next
<1>2. job'[t] = "confirm"
  BY <1>1 DEF Commit
<1> QED
  BY <1>2 DEF Confirmable

\* Served one at a time, no master commits but on a good and fresh preset, and
\* once: for any parameters, frames and answers of the DSP.
THEOREM ConfirmationIsEarned ==
  OneAtATime => (Spec => ConfirmedOncePerPreset)
<1> SUFFICES ASSUME OneAtATime PROVE Spec => ConfirmedOncePerPreset
  OBVIOUS
<1> DEFINE Earned ==
      /\ (~Confirmable /\ Confirmable') =>
           \E t \in Threads : /\ pc[t] = "stage" /\ frame'[t] # frame[t]
                              /\ job[t] = "none"
                              /\ Head(frame[t]).kind = "good"
      /\ \A t \in Threads :
           (Committing(t) /\ pc'[t] = "pack") => ~Confirmable'
<1>1. IInv /\ [Next]_vars => Earned
  BY GoodItemOnly, CommitUsesUp DEF OneAtATime
<1>2. IInv /\ [Next]_vars => [Earned]_vars
  BY <1>1
<1>3. Spec => []IInv
  BY Accounts
<1>4. Spec => [][Earned]_vars
  BY <1>2, <1>3, PTL DEF Spec
<1> QED
  BY <1>4 DEF ConfirmedOncePerPreset
=============================================================================
