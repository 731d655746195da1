------------------------------- MODULE Settings -------------------------------
(***************************************************************************)
(* The protection settings (DBManager and DSTORE of libdtustorage, driven  *)
(* by presetParam and operateParam of libdturuleskit/dtuhalasdu.cpp, by the*)
(* frames of appendix B and their RPC, which keep to no flags, by the      *)
(* maintenance tool's RPC and by the front panel).  The database has one   *)
(* column of values per group and a staging column VALUE0; the DSP runs a  *)
(* copy of what was sent to it.  A master stages values (preset), then     *)
(* confirms or cancels; a confirmation is good for 60 s.  No lock is       *)
(* taken: a step is what a thread does between two accesses of the         *)
(* database or of the DSP.  Each parameter table stands for one setting,   *)
(* and the database does not fail.                                         *)
(***************************************************************************)
EXTENDS Naturals, Sequences

CONSTANTS
  Threads,       \* the threads that serve masters, tool and panel
  MaxGroup,      \* groups are 1..MaxGroup, as MAXGROUP of TableGroup
  MultiParams,   \* parameters with a value per group (MultiGroupVec)
  SingleParams,  \* parameters that always run the value of group 1
  Values,
  Unset,         \* the text 'NULL' of an empty staging cell
  Frames,        \* preset frames a master may send
  PlainFrames,   \* those of appendix B, which have no locked item
  DspAnswers     \* whether dsp_write_data may succeed, fail, or both

Params == MultiParams \union SingleParams
Groups == 1..MaxGroup
Kinds  == {"good", "locked", "wrong"}
Items  == [kind : Kinds, param : Params, value : Values]
Images == [param : Params, value : Values]

NoImage       == [param |-> Unset, value |-> Unset]
NothingStaged == [p \in Params |-> Unset]

ASSUME GroupAssumption == MaxGroup \in Nat \ {0}
ASSUME ParamAssumption ==
  Params # {} /\ MultiParams \intersect SingleParams = {}
ASSUME ValueAssumption == Unset \notin Values /\ Values # {}
ASSUME FrameAssumption ==
  /\ (Frames \union PlainFrames) \subseteq Seq(Items) \ {<<>>}
  /\ \A f \in PlainFrames : \A i \in DOMAIN f : f[i].kind # "locked"
ASSUME DspAssumption == DspAnswers \in SUBSET BOOLEAN /\ DspAnswers # {}

VARIABLES
  value,      \* value[g][p]: the column VALUEg of TableParamGroupValue
  staged,     \* the column VALUE0
  current,    \* _curr_group, saved in TableGroup
  edit,       \* _edit_group, saved in TableGroup
  dsp,        \* what the DSP runs
  preFlag,    \* PreSettingFlag: the last item preset was good
  firstFlag,  \* PreSettingFirstFlag: a preset was made, others are ignored
  fresh,      \* less than 60 s have passed since curTime
  pc, job,    \* where a thread is, and for which command
  frame,      \* items of its preset still to be staged
  left,       \* parameters it still has to send
  image,      \* the table it has packed, or received, for one parameter
  target,     \* history: the group its pending preset named, or 0
  adrift      \* history: parameters whose last change reached only one side

store   == <<value, staged, current, edit>>
flags   == <<preFlag, firstFlag, fresh>>
thread  == <<pc, job, frame, left, image>>
vars    == <<store, dsp, flags, thread, target, adrift>>

TypeOK ==
  /\ value \in [Groups -> [Params -> Values]]
  /\ staged \in [Params -> Values \union {Unset}]
  /\ current \in Groups
  /\ edit \in 0..MaxGroup
  /\ dsp \in [Params -> Values]
  /\ preFlag \in BOOLEAN /\ firstFlag \in BOOLEAN /\ fresh \in BOOLEAN
  /\ pc \in [Threads -> {"idle", "stage", "commit", "pack", "return", "send",
                         "store"}]
  /\ job \in [Threads -> {"none", "plain", "confirm", "plain confirm",
                          "switch"}]
  /\ frame \in [Threads -> Seq(Items)]
  /\ \A t \in Threads : pc[t] = "stage" => frame[t] # <<>>
  /\ left \in [Threads -> SUBSET Params]
  /\ image \in [Threads -> Images \union {NoImage}]
  /\ \A t \in Threads : pc[t] \in {"send", "store"} => image[t] \in Images
  /\ target \in [Threads -> 0..MaxGroup]
  /\ adrift \in SUBSET Params

\* A database as delivered and loaded into the DSP, whatever its edit group.
Init ==
  LET v == CHOOSE w \in Values : TRUE
  IN  /\ value = [g \in Groups |-> [q \in Params |-> v]]
      /\ staged = NothingStaged
      /\ current = 1 /\ edit \in Groups
      /\ dsp = [q \in Params |-> v]
      /\ preFlag = TRUE /\ firstFlag = FALSE /\ fresh = FALSE
      /\ pc = [t \in Threads |-> "idle"]
      /\ job = [t \in Threads |-> "none"]
      /\ frame = [t \in Threads |-> <<>>]
      /\ left = [t \in Threads |-> {}]
      /\ image = [t \in Threads |-> NoImage]
      /\ target = [t \in Threads |-> 0]
      /\ adrift = {}

\* The column a parameter's table is packed from and unpacked to.
Column(p) == IF p \in MultiParams THEN current ELSE 1

Goto(t, l) == pc' = [pc EXCEPT ![t] = l]

\* The end of operateParam, on every path.
ForgetPreset(t) ==
  /\ preFlag' = FALSE
  /\ firstFlag' = FALSE
  /\ target' = [target EXCEPT ![t] = 0]
  /\ UNCHANGED fresh
-----------------------------------------------------------------------------
\* Mutant: the number of the group is not compared with the largest.
Preset_AnyGroup(t, g, f) ==
  /\ pc[t] = "idle"
  /\ edit' = g
  /\ target' = [target EXCEPT ![t] = IF g \in Groups THEN g ELSE 0]
  /\ firstFlag' = TRUE
  /\ IF firstFlag THEN UNCHANGED <<pc, frame>>
     ELSE Goto(t, "stage") /\ frame' = [frame EXCEPT ![t] = f]
  /\ UNCHANGED <<value, staged, current, dsp, preFlag, fresh,
                 job, left, image, adrift>>

\* presetParam: the edit group is selected before the flag is looked at.
\* A frame that is ignored is answered as a success.
Preset(t, g, f) ==
  /\ pc[t] = "idle"
  /\ edit' = IF g <= MaxGroup THEN g ELSE edit
  /\ target' = [target EXCEPT ![t] = IF g \in Groups THEN g ELSE 0]
  /\ firstFlag' = TRUE
  /\ IF firstFlag THEN UNCHANGED <<pc, frame>>
     ELSE Goto(t, "stage") /\ frame' = [frame EXCEPT ![t] = f]
  /\ UNCHANGED <<value, staged, current, dsp, preFlag, fresh,
                 job, left, image, adrift>>

\* One item: refused, or accepted and then unknown or out of range, or staged.
StageItem(t) ==
  LET item == Head(frame[t])
      last == item.kind # "good" \/ Len(frame[t]) = 1
  IN  /\ pc[t] = "stage" /\ job[t] = "none"
      /\ preFlag' = (item.kind = "good")
      /\ fresh' = (fresh \/ item.kind # "locked")
      /\ staged' = IF item.kind = "good"
                   THEN [staged EXCEPT ![item.param] = item.value]
                   ELSE staged
      /\ frame' = [frame EXCEPT ![t] = IF last THEN <<>> ELSE Tail(@)]
      /\ Goto(t, IF last THEN "idle" ELSE "stage")
      /\ UNCHANGED <<value, current, edit, dsp, firstFlag,
                     job, left, image, target, adrift>>

\* Preset_A and Preset_B, by which the public unit has a unit preset: the group
\* is the current one, and no flag is looked at.
PlainPreset(t, f) ==
  /\ pc[t] = "idle"
  /\ edit' = current
  /\ job' = [job EXCEPT ![t] = "plain"]
  /\ frame' = [frame EXCEPT ![t] = f]
  /\ Goto(t, "stage")
  /\ UNCHANGED <<value, staged, current, dsp, flags, left, image, target,
                 adrift>>

\* An item that is refused is passed over.
PlainItem(t) ==
  LET item == Head(frame[t])
      last == Len(frame[t]) = 1
  IN  /\ pc[t] = "stage" /\ job[t] = "plain"
      /\ staged' = IF item.kind = "good"
                   THEN [staged EXCEPT ![item.param] = item.value]
                   ELSE staged
      /\ frame' = [frame EXCEPT ![t] = Tail(@)]
      /\ Goto(t, IF last THEN "idle" ELSE "stage")
      /\ job' = [job EXCEPT ![t] = IF last THEN "none" ELSE "plain"]
      /\ UNCHANGED <<value, current, edit, dsp, flags, left, image, target,
                     adrift>>

\* rpc_select_setting: the tool selects the edit group, whatever was preset.
SelectEdit(t, g) ==
  /\ pc[t] = "idle"
  /\ edit' = IF g <= MaxGroup THEN g ELSE edit
  /\ target' = [u \in Threads |-> 0]
  /\ UNCHANGED <<value, staged, current, dsp, flags, thread, adrift>>

\* Confirm_A, Confirm_B with a cancellation; rpc_revert_setting.
PlainCancel(t) ==
  /\ pc[t] = "idle"
  /\ staged' = NothingStaged
  /\ UNCHANGED <<value, current, edit, dsp, flags, thread, target, adrift>>

\* Confirm_A, Confirm_B, rpc_confirm_setting: neither flags nor time are looked
\* at.
PlainConfirm(t) ==
  /\ pc[t] = "idle"
  /\ job' = [job EXCEPT ![t] = "plain confirm"]
  /\ Goto(t, "commit")
  /\ UNCHANGED <<store, dsp, flags, frame, left, image, target, adrift>>

\* operateParam with the cancel bit.
Cancel(t) ==
  /\ pc[t] = "idle"
  /\ staged' = NothingStaged
  /\ ForgetPreset(t)
  /\ UNCHANGED <<value, current, edit, dsp, thread, adrift>>

\* operateParam without a successful preset, or with an unknown tag.
Refuse(t) ==
  /\ pc[t] = "idle"
  /\ ForgetPreset(t)
  /\ UNCHANGED <<store, dsp, thread, adrift>>

\* operateParam more than 60 s after the last item.
ConfirmLate(t) ==
  /\ pc[t] = "idle"
  /\ preFlag /\ ~fresh
  /\ staged' = NothingStaged
  /\ ForgetPreset(t)
  /\ UNCHANGED <<value, current, edit, dsp, thread, adrift>>

\* Mutant: the 60 s are not looked at.
Confirm_AnyTime(t) ==
  /\ pc[t] = "idle"
  /\ preFlag
  /\ job' = [job EXCEPT ![t] = "confirm"]
  /\ Goto(t, "commit")
  /\ UNCHANGED <<store, dsp, flags, frame, left, image, target, adrift>>

Confirm(t) ==
  /\ pc[t] = "idle"
  /\ preFlag /\ fresh
  /\ job' = [job EXCEPT ![t] = "confirm"]
  /\ Goto(t, "commit")
  /\ UNCHANGED <<store, dsp, flags, frame, left, image, target, adrift>>

\* confirmPreParamValue: one transaction writes the edit group; its
\* parameters are to be sent if that group is the current one.
Commit(t) ==
  LET changed == {p \in Params : staged[p] # Unset}
  IN  /\ pc[t] = "commit" /\ (changed # {} \/ edit # current)
      /\ value' = [g \in Groups |-> [p \in Params |->
                     IF g = edit /\ p \in changed THEN staged[p]
                                                  ELSE value[g][p]]]
      /\ left' = [left EXCEPT ![t] = IF edit = current THEN changed ELSE {}]
      /\ Goto(t, "pack")
      /\ UNCHANGED <<staged, current, edit, dsp, flags,
                     job, frame, image, target, adrift>>

\* Nothing is staged for the current group: confirmPreParamValue returns early.
CommitNothing(t) ==
  /\ pc[t] = "commit" /\ staged = NothingStaged /\ edit = current
  /\ Goto(t, "return")
  /\ UNCHANGED <<store, dsp, flags, job, frame, left, image, target, adrift>>

\* readParamValue and pack: the current group is asked for anew.
Pack(t, p) ==
  /\ pc[t] = "pack" /\ p \in left[t]
  /\ image' = [image EXCEPT ![t] = [param |-> p, value |-> value[Column(p)][p]]]
  /\ Goto(t, "send")
  /\ UNCHANGED <<store, dsp, flags, job, frame, left, target, adrift>>

\* The answer of the DSP is not looked at.
Send(t) ==
  LET p == image[t].param
  IN  /\ pc[t] = "send"
      /\ left' = [left EXCEPT ![t] = @ \ {p}]
      /\ \E ok \in DspAnswers :
           /\ dsp' = IF ok THEN [dsp EXCEPT ![p] = image[t].value] ELSE dsp
           /\ adrift' = IF ok THEN adrift \ {p} ELSE adrift \union {p}
      /\ Goto(t, "pack")
      /\ image' = [image EXCEPT ![t] = NoImage]
      /\ UNCHANGED <<store, flags, job, frame, target>>

\* confirmPreParamValue empties VALUE0 at its end, and not when it returned
\* early.
ClearStaged(t) ==
  \/ pc[t] = "pack" /\ left[t] = {} /\ staged' = NothingStaged
  \/ pc[t] = "return" /\ UNCHANGED staged

\* The confirmation ends, and the preset with it.
EndConfirm(t) ==
  /\ job[t] = "confirm" /\ ClearStaged(t)
  /\ ForgetPreset(t)
  /\ Goto(t, "idle")
  /\ job' = [job EXCEPT ![t] = "none"]
  /\ UNCHANGED <<value, current, edit, dsp, frame, left, image, adrift>>

\* The same without the flags.
EndPlainConfirm(t) ==
  /\ job[t] = "plain confirm" /\ ClearStaged(t)
  /\ Goto(t, "idle")
  /\ job' = [job EXCEPT ![t] = "none"]
  /\ UNCHANGED <<value, current, edit, dsp, flags, frame, left, image, target,
                 adrift>>
-----------------------------------------------------------------------------
\* Mutant: one table only is sent when the group is switched.
Switch_FirstOnly(t, g) ==
  /\ pc[t] = "idle" /\ g # current
  /\ current' = g
  /\ left' = [left EXCEPT ![t] = {CHOOSE p \in MultiParams : TRUE}]
  /\ job' = [job EXCEPT ![t] = "switch"]
  /\ Goto(t, "pack")
  /\ UNCHANGED <<value, staged, edit, dsp, flags,
                 frame, image, target, adrift>>

\* ChangeCurGroup: the number is saved, then every multi-group table sent.
Switch(t, g) ==
  /\ pc[t] = "idle" /\ g # current
  /\ current' = g
  /\ left' = [left EXCEPT ![t] = MultiParams]
  /\ job' = [job EXCEPT ![t] = "switch"]
  /\ Goto(t, "pack")
  /\ UNCHANGED <<value, staged, edit, dsp, flags,
                 frame, image, target, adrift>>

EndSwitch(t) ==
  /\ pc[t] = "pack" /\ job[t] = "switch" /\ left[t] = {}
  /\ Goto(t, "idle")
  /\ job' = [job EXCEPT ![t] = "none"]
  /\ UNCHANGED <<store, dsp, flags, frame, left, image, target, adrift>>

\* Mutant: a copy may overwrite the current group.
Copy_Anywhere(t, src, dest) ==
  /\ pc[t] = "idle"
  /\ src # dest
  /\ value' = [value EXCEPT ![dest] = value[src]]
  /\ UNCHANGED <<staged, current, edit, dsp, flags, thread, target, adrift>>

\* copyAllParamGroup: every cell of the column, single-group ones included.
Copy(t, src, dest) ==
  /\ pc[t] = "idle"
  /\ src # dest /\ dest # current
  /\ value' = [value EXCEPT ![dest] = value[src]]
  /\ UNCHANGED <<staged, current, edit, dsp, flags, thread, target, adrift>>

\* rpc_write_setting sends a value of the current group before it is stored;
\* one the DSP refuses is not stored, and changes nothing.
ToolWrite(t, p, g, v) ==
  /\ pc[t] = "idle"
  /\ g = current => TRUE \in DspAnswers
  /\ dsp' = IF g = current THEN [dsp EXCEPT ![p] = v] ELSE dsp
  /\ adrift' = adrift \union {p}
  /\ image' = [image EXCEPT ![t] = [param |-> p, value |-> v]]
  /\ Goto(t, "store")
  /\ UNCHANGED <<store, flags, job, frame, left, target>>

\* rpc_read_setting stores what it read from the DSP for the current group.
ToolRead(t, p) ==
  /\ pc[t] = "idle"
  /\ image' = [image EXCEPT ![t] = [param |-> p, value |-> dsp[p]]]
  /\ Goto(t, "store")
  /\ UNCHANGED <<store, dsp, flags, job, frame, left, target, adrift>>

\* write_setting_data: its group argument is not used.
Store(t) ==
  LET p == image[t].param
  IN  /\ pc[t] = "store"
      /\ value' = [value EXCEPT ![Column(p)][p] = image[t].value]
      /\ adrift' = IF dsp[p] = image[t].value THEN adrift \ {p} ELSE adrift
      /\ image' = [image EXCEPT ![t] = NoImage]
      /\ Goto(t, "idle")
      /\ UNCHANGED <<staged, current, edit, dsp, flags,
                     job, frame, left, target>>

\* serialtask_execute_write: the panel's value goes to the DSP only.
PanelWrite(t, p, v) ==
  /\ pc[t] = "idle"
  /\ TRUE \in DspAnswers
  /\ dsp' = [dsp EXCEPT ![p] = v]
  /\ adrift' = adrift \union {p}
  /\ UNCHANGED <<store, flags, thread, target>>
-----------------------------------------------------------------------------
\* A 104 connection closes, whichever it is.
Close ==
  /\ preFlag' = FALSE
  /\ firstFlag' = FALSE
  /\ UNCHANGED <<store, dsp, fresh, thread, target, adrift>>

Wait60s ==
  /\ fresh
  /\ fresh' = FALSE
  /\ UNCHANGED <<store, dsp, preFlag, firstFlag, thread, target, adrift>>

\* The program dies and starts again: the groups are read back, VALUE0 is
\* emptied and nothing is sent (change_default_setting_num finds the group
\* it asks for current).  The DSP goes on with what it has.
Restart ==
  /\ staged' = NothingStaged
  /\ preFlag' = TRUE /\ firstFlag' = FALSE /\ fresh' = FALSE
  /\ pc' = [t \in Threads |-> "idle"]
  /\ job' = [t \in Threads |-> "none"]
  /\ frame' = [t \in Threads |-> <<>>]
  /\ left' = [t \in Threads |-> {}]
  /\ adrift' = adrift \union UNION {left[t] : t \in Threads}
  /\ image' = [t \in Threads |-> NoImage]
  /\ target' = [t \in Threads |-> 0]
  /\ UNCHANGED <<value, current, edit, dsp>>
-----------------------------------------------------------------------------
Master(t) ==
  \/ \E g \in 0..MaxGroup+1, f \in Frames : Preset(t, g, f)
  \/ StageItem(t)
  \/ Cancel(t) \/ Refuse(t) \/ ConfirmLate(t) \/ Confirm(t)
  \/ Commit(t) \/ CommitNothing(t) \/ Send(t) \/ EndConfirm(t) \/ EndSwitch(t)
  \/ \E p \in Params : Pack(t, p)
  \/ \E g \in Groups : Switch(t, g)

\* A bay unit, called by the public unit; so the tool confirms and cancels.
Unit(t) ==
  \/ \E f \in PlainFrames : PlainPreset(t, f)
  \/ PlainItem(t) \/ PlainCancel(t) \/ PlainConfirm(t) \/ EndPlainConfirm(t)

Tool(t) ==
  \/ \E g \in 0..MaxGroup+1 : SelectEdit(t, g)
  \/ \E p \in Params, g \in Groups, v \in Values : ToolWrite(t, p, g, v)
  \/ \E p \in Params : ToolRead(t, p)
  \/ Store(t)

Panel(t) ==
  \/ \E p \in Params, v \in Values : PanelWrite(t, p, v)
  \/ \E src, dest \in Groups : Copy(t, src, dest)

Next ==
  \/ \E t \in Threads : Master(t) \/ Unit(t) \/ Tool(t) \/ Panel(t)
  \/ Close \/ Wait60s \/ Restart

Spec == Init /\ [][Next]_vars

\* A thread that has begun a command goes on with it.
Proceed(t) ==
  \/ StageItem(t) \/ PlainItem(t) \/ Commit(t) \/ CommitNothing(t)
  \/ Send(t) \/ Store(t)
  \/ EndConfirm(t) \/ EndPlainConfirm(t) \/ EndSwitch(t)
  \/ \E p \in Params : Pack(t, p)

FairSpec == Spec /\ \A t \in Threads : WF_vars(Proceed(t))
-----------------------------------------------------------------------------
\* Properties.

Busy(t) == pc[t] # "idle"

\* The DSP protects with the settings of the current group: when no command is
\* under way, every multi-group parameter runs its stored value, except those
\* whose last change is known to have reached one side only (a write at the
\* panel, a tool write to another group, a refused or interrupted sending).
DspRunsCurrentGroup ==
  (\A t \in Threads : ~Busy(t)) =>
    \A p \in MultiParams \ adrift : dsp[p] = value[current][p]

\* When the DSP obeys, a group switch that ends has loaded the whole group,
\* whatever had drifted before it.
SwitchLoadsGroup ==
  [][\A t \in Threads :
       (job[t] = "switch" /\ job'[t] = "none" /\ pc'[t] = "idle"
          /\ left[t] = {} /\ pc[t] = "pack")
         => \A p \in MultiParams : dsp[p] = value[current][p]]_vars

\* A master's confirmation would commit, or is about to.
Committing(t) == pc[t] = "commit" /\ job[t] = "confirm"

Confirmable ==
  \/ \E t \in Threads : Committing(t)
  \/ preFlag /\ fresh /\ \A t \in Threads : job[t] # "confirm"

\* No master commits but on a preset whose last item was good, less than
\* 60 s ago, and that no operation, closed connection or restart has ended;
\* and that once: only a good item makes a confirmation possible, and the
\* commit uses it up.
ConfirmedOncePerPreset ==
  [][/\ (~Confirmable /\ Confirmable') =>
          \E t \in Threads : /\ pc[t] = "stage" /\ frame'[t] # frame[t]
                             /\ job[t] = "none"
                             /\ Head(frame[t]).kind = "good"
     /\ \A t \in Threads :
          (Committing(t) /\ pc'[t] = "pack") => ~Confirmable']_vars

\* The comment at dtustorage.h:140 says that once one master has preset, the
\* presets of others are not executed; here a master's confirmation writes no
\* group but the one its own preset named.
CommitsWhereAsked ==
  [][\A t \in Threads :
       (Committing(t) /\ pc'[t] = "pack" /\ target[t] \in Groups)
         => \A g \in Groups : g # target[t] => value'[g] = value[g]]_vars

\* The comments at dtudbmanager.cpp:2101 and 2103 say that the values a
\* confirmation changed are sent to the DSP when their group is the current
\* one; here the DSP runs them when it ends.
ConfirmedIsInForce ==
  [][\A t \in Threads :
       (job[t] = "confirm" /\ job'[t] = "none" /\ pc[t] = "pack"
          /\ left[t] = {} /\ edit = current)
         => \A p \in Params : staged[p] # Unset => dsp[p] = staged[p]]_vars
=============================================================================
