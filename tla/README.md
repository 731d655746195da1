# TLA+ models of the DTU terminal

The repository is the program of a distribution terminal unit (DTU): an ARM
process (`sdl9200`) that serves IEC 60870-5-101/104 masters, a maintenance tool
(RPC), a front panel (serial line) and GOOSE neighbours, keeps settings and
reports in SQLite, and commands a protection DSP through shared memory.  A
station has one public unit and several bay units, each running this program.
The specifications here model the parts where threads, timers, lost messages,
failures and restarts meet; TLC checks them on small instances, and TLAPS proves
every safety property of the passing runs for all instances.

## 1. Inventory

| Component | State | Operations | Talks to | Modelled in |
|---|---|---|---|---|
| Remote control, `RmctrlClass` (`libdtutask/dtutask_dsp.cpp`) | per point: flag, source, armed, connection (tuple fields 5-8) | `start` (preset, execute, cancel), timer thread per preset, `cancelAll` | called by every protocol thread; commands the DSP | `RemoteControl` |
| Settings, `DBManager` + `DSTORE` (`libdtustorage`), `presetParam`/`operateParam`, `Preset_B`/`Confirm_B` (`libdturuleskit/dtuhalasdu.cpp`) | value columns per group, staging column VALUE0, current and edit group, preset flags, time stamp | preset, cancel, confirm, switch, copy, tool and panel writes, boot | masters, public unit, tool, panel; sends tables to the DSP | `Settings` |
| DSP link, `DSPComm` (`libdtudsp/dspcomm.cpp`) | `_ram_lock`, command and answer areas, interrupts; event flags, event queue | `dsp_write_ctrl`, `dsp_write_data`, `dsp_read_data`; `dsp_run`, `dsp_handle` | all of the above; the DSP | `DspLink`, `EventPath` |
| Reports, `dtuArchiveMgr` (`dtudbmanager.cpp`), recordings (`dtuarchivestransrcd.cpp`) | rows, count in memory and in a table, limit, a file per row | add, trim, clear, read | DSP events, masters, tool | `ReportStore`, `EventPath` |
| Notifications (`libdtucomm`, `libdturuleskit/dturulesnotify.cpp`) | connections | fan-out of an event | `dsp_handle`; masters, tool | `EventPath` (one step) |
| Connection test, `DTUConnectTest` (`libdtucomm`) | one state per kind of link, last LED state | 5 s loop, events of its own | 104 server, event queue, DSP (LED) | `EventPath` (its events) |
| GOOSE publisher (`libdtugoose`) | queue, `isPing`, last frame | `publish`, worker thread | DSP events, neighbours | `GoosePublisher` |
| GOOSE subscriber and table (`libdtugoose`) | time and state per APPID, table of the neighbours' states | receive, watch of 20 s, boot | neighbours, DSP | `GooseLink` |
| Protocol file transfer (`libdturuleskit/dturulehandle.cpp`) | read and write buffers by file id, `_write_lock` | announce, piece, last piece, hand-out of a GOOSE configuration | masters, bay units | `FileUpload` (sending) |
| Protocol files, `DRULESFILE` (`libdturulesfile`) | queues and files of events, extremes, logs | add, form files at fixed times | DSP events, masters | - |
| 104 server, 101 slaves, 101 master, 104 client (`libdturuleskit`) | connections | lib60870 callbacks | masters, bay units | closes: `RemoteControl`, `Settings` |
| Dispatch to bay units (`dtuHALhandler`) | none of its own | forwards a frame by RPC, joins the answers | bay units | in part |
| RPC service, serial task (`libdtutask`, `libdtucomm`) | connections | one callback per command | tool, panel, public unit | calls that change state |
| Start and stop (`sdl9200/main.cpp`) | services running | ordered start, ordered stop | everything | boot of each model |
| `serialretrans`, `libmodule`, `libdtuconfigure`, `libdtubase`, `DTUTool(s)`, vendored code | - | forwarding program, metering, configuration, buffers, user interfaces, libraries | - | - |

What makes these hard, and the property each should have:

- **Remote control.** Requests of several masters, timers and disconnections
  interleave on fields that are read without the lock `setflag` takes.  A
  preset must allow one operation, by its maker, before its timer or its
  disconnection withdraws it, and the DSP must not stay selected.
- **Settings.** A preset, its confirmation 60 s later at most, a group switch
  and a restart all change what the DSP protects with, in several steps of
  database and DSP.  The DSP must run the stored values of the current group,
  and no master may commit but what was preset.
- **DSP link.** One mailbox, answers that name no command, lost interrupts,
  retries.  A success must mean the whole data of that very command, and the
  lock must always be released.
- **Events and reports.** Flags lowered after reading, two producers of one
  queue, rows, counts and files changed by statements of their own that may
  fail or be cut off by a restart, a tool that clears in between.  No event may
  be lost, doubled or told before it is stored; the number of reports must name
  the newest; rows and files must belong together.
- **GOOSE.** A wake-up flag cleared after the item is queued, a watch that holds
  the lock of the times while it commands the DSP, commands that are refused
  unnoticed.  Every state published must be shown, in order; a link must fall
  for a reason and a death be noticed; the DSP must have what was heard.
- **File transfer.** Pieces out of order or damaged, identities the masters
  choose, units that cannot be reached.  What is saved must be what was sent,
  and units must follow the configuration of the public unit.

The hazards, each at its line, are listed in `PROJECT.json` with the properties
that would catch them, or the reason why none does.

## 2. Modules

| Module | What it is |
|---|---|
| `OperateGrant` | abstract promise of a remote operation: a grant per client and point, given by a preset, used at most once, lapsing at any time |
| `RemoteControl` | `RmctrlClass`; implements `OperateGrant` |
| `RemoteControlProofs` | the theorems about `RemoteControl` |
| `Settings` | setting groups between masters, bay units' RPC, tool, panel, database and DSP |
| `SettingsProofs` | the theorems about `Settings` |
| `DspMailbox` | abstract promise of the DSP's link: one call at a time, an image kept block after block, successes that are whole |
| `DspLink` | the exchange of commands and blocks with the DSP; implements `DspMailbox` |
| `DspLinkProofs` | the theorems about `DspLink` |
| `BoundedLogs` | abstract promise of the report tables: appended, cut off at the old end, cleared |
| `ReportStore` | rows, counts and files of `dtuArchiveMgr`; implements `BoundedLogs` |
| `EventPath` | composes `ReportStore` with the DSP's flags, `dsp_run`, the queue, `dsp_handle` and the connection test |
| `EventPathProofs` | the theorems about `ReportStore` and `EventPath`: type, counts, what is told, the logs |
| `EventOrderProofs` | the theorems about the order and the whereabouts of events |
| `ReportFileProofs` | the theorems about the files of recordings |
| `GooseFrames` | the states a GOOSE frame carries |
| `GooseStream` | abstract promise of a station's line: states shown one after the other, none skipped |
| `GoosePublisher` | `dtuGoosePublisher`; implements `GooseStream` |
| `GooseLink` | `dtuGooseSubscriber` and `dtuGooseTableMgr`: links, table, signal to the DSP |
| `GooseNet` | composes publisher, a network that loses frames, and the neighbour's `GooseLink` |
| `GooseProofs` | the theorems about the GOOSE modules |
| `FileUpload` | files sent by masters, and the hand-out of a GOOSE configuration |
| `FileUploadProofs` | the theorems about `FileUpload` |
| `MCRemoteControl`, `MCSettings`, `MCDspLink`, `MCEventPath`, `MCGooseLink`, `MCGooseNet`, `MCFileUpload` | values of the constants for TLC |

**RemoteControl.**  `pre`, `from`, `armed`, `conn` are fields 5 to 8 of a
point's tuple.  Each client has the program counter of the thread that runs
`start()` or, when its connection closes, `cancelAll()`.  A step ends wherever
another thread can change what is read next: the flag is tested in `Start`, the
DSP commanded in `PushPreset`; an execution reads `from` (`CheckSource`), then
`conn` (`CheckAddress`), then clears, then sends (`SendCommand`).  `setflag` takes
`_lock` (`LockFlags`; `lock` is its holder, `left` the fields still to store) and
each of its four stores is a step (`StoreFlag`, by `SetFlag` or `ClearFlag`).  Its
readers take no lock, so this is a data race: nothing orders the stores for them,
and the model lets the four become visible in any order, which includes the
order of the source (`dtutask_dsp.cpp:410-413`).  The loads are taken
in the order of the program, one step each, which is an assumption: they stand in
branches of their own, but nothing else orders them.  `StartTimer` starts the
timer, or finds that no thread can be created (`Spawns`): the exception ends
`start()` at line 379 and the point stays preset; `untimed` remembers it.
`Disconnect`, `ScanPoint`, `ScanSource`, `WithdrawPreset` and `ScanDone` are the
loop of `cancelAll`; `TimerWake`, `TimerCancel`, `TimerForget` the detached timer,
which clears field 5 and leaves source, address and field 7.  `selected` says
whether the DSP was told to hold a preset.  `recorded` and `executed` only count,
for the properties; a preset counts from the moment its `setflag` begins, so that
no store of it is seen before.  That two presets of one point may pass the
unlocked test of line 276 together, against the log at line 291, is part of the
model; the properties count presets as the code records them.

What survives the race is weaker than what a reader of `start()` expects.  A
client that recorded a preset may operate once, as long as source and address are
its own: the timeout of its preset does not take that away, since line 314 leaves
both, and an execution by it then only needs a set flag - its own next preset's,
or, for the moment in which another client's stores are under way, that one's
(`TimedOutStaysOut` is violated).  `OperateGrant` is written accordingly: a grant is
given by a preset and used by an operation; it lapses when the owner's fields are
overwritten or cleared, and need not lapse at the timeout.

**Settings.**  `value[g]` is the column VALUEg, `staged` is VALUE0, `dsp` what
the DSP was sent.  `Preset` selects the edit group *before* it looks at the
first-come flag, as `PresetParam` does, then `StageItem` stages one item a
step; `Confirm`, `Commit`, `Pack`, `Send`, `EndConfirm` follow `operateParam`
and `confirmPreParamValue`, which returns early when nothing is staged in the
current group (`CommitNothing`) and otherwise clears the staging column at its end
(`ClearStaged`); `Switch` saves the group number first and shares
`Pack`/`Send` with it.  `PlainPreset`, `PlainItem`, `PlainConfirm`,
`PlainCancel` and `EndPlainConfirm` are `Preset_B` and `Confirm_B`, by which the
public unit has a bay unit change its parameters: the same staging column and
the same commit, but no flag is read or written and no time looked at; the
tool's confirmation and reversal do the same, and `SelectEdit` is its choice of
the edit group.  `Preset_A` and `Confirm_A` have the same text.  `Close` is a
closed 104 connection, `Wait60s` the age of a preset, `Restart` a crash and boot
at any step.  `adrift` is a history variable: the parameters whose last change
is known to have reached only the database or only the DSP, because the code
sends or stores nothing for it (panel write, tool write to another group,
refused or interrupted sending).

**DspLink.**  A caller's locals are the locals of `try_execute_write` and
`try_execute_read` (`attempt` is the outer loop of three, `resend` is nResend or
nReSend, `got`/`size`/`last` the buffer, its length and `lastNo`).  The two areas
and the two interrupts are single: what is not read is overwritten.  An area
that was read is forgotten in the model, since nothing reads it again without
a new interrupt.  Acknowledging a block and reading it are one step: the DSP
does nothing in between but wait.  The DSP itself is external: it answers
writes, streams the blocks of an answer, repeats a block on NACK or when it
heard no reply.  After a fourth bad block in an answer the reading is given up
while the repetition asked for is still to come (`dspcomm.cpp:414`), and the
next command may take it for its own answer; the run allows three.
`DspMailbox` is what the callers rely on: a call begins, gets the DSP for itself
(`Enter`), each `Store` keeps the next block of its data, and it ends with
`Succeed`, its image whole in the DSP or its answer whole in hand, or with `Fail`.
`Calls` maps the locals of `DspLink` to it; what the two areas hold, and every
try, is invisible.

**ReportStore, EventPath.**  A table is the sequence of its rows by RINDEX, with
`curNo` in memory and `savedNo` in TableReportIndex.  `job` is what the holder
of `_lock` has still to do: `Insert` is followed by `Count` below the limit, by
`Trim` and `Unlink` at it; `Clear` by `Zero` and, for files, `Sweep`.  Each of
these may fail unnoticed, and a restart may come between any two.  `torn` and
`spoiled` are history: tables and files a failure, a restart or a clearing has
taken apart, for which the properties ask nothing until the next trimming or
clearing.  In `EventPath` events are numbered as they are raised.  `ReadEvents`
is dsp_run's reading of one raised flag, `LowerFlag` what it does afterwards;
`LinkEvent` is the connection test adding its own item; `TakeItem`, `NextEvent`,
`StoreEvent` and `TellEvent` are the loop of dsp_handle, which writes a
recording's file before `_lock` is taken for its row.  `LoseRecording` is a
recording given up before that: another one's frames came before its last
(`dtuarchivestransrcd.cpp:45`), it does not parse, or its file cannot be opened
(`:78`, and `dtuarchviesworkrcd.cpp:53` and `:83`); `dropped` remembers it.

That RINDEX is the position of a row can be read from `config/dtu.db`: every
`TableReport*` declares `"RINDEX" INTEGER NOT NULL` with `PRIMARY KEY ("RINDEX")`, an
alias of sqlite's rowid, so that a row inserted without it gets the greatest one
plus one; there are no triggers, `updatereport` numbers the rows that stay from 1
(`dtudbmanager.cpp:728`), and a cleared table begins at 1 again.

**GoosePublisher, GooseLink, GooseNet.**  `Enqueue` and `ClearPing` are the two
statements of `publish`; the worker wakes at any moment (its condition variable
may), takes an item and sends five copies (`Burst`), marks it (`Mark`), or sends
a heartbeat (`Beat`).  In `GooseLink` a pass of the watch (`Scan`, then `Signal`
for each link that changed, in the order of the map) holds the lock of the
times, so that `Hear` waits; `WriteTable` is the receiver's command to the DSP.
In `GooseNet` a tick is 5 s, the longest the worker waits, and four ticks are the
20 s of the watch; `Tick` waits for the worker to have had its turn and for the
receiver to have emptied its inbox, unless the watch keeps it waiting.  A
publisher that could not be opened at the start (`_publisher` null) takes its items
and sends nothing until the program ends: to the line it is a dead station, and a
station that stays in `dead` stands for it (no fairness makes `Boot` happen).

**FileUpload.**  `uploads` is `_write_file_map`; a file is the sequence of its
pieces, each the number of the transfer it came from, 0 where nothing came.
`Keep` and `Refused` are one piece; the last one starts a saving (`Write`,
`Load`, `HandOut` for each unit, `Answer`), during which `_write_lock` keeps
all others out.  `Write` is `save_file` with its three ends: all is written; a part
is, and `fwrite` says so; a part is, and only `fclose`, whose result nobody looks at,
could have said so - the answer is then a success, and `unflushed` remembers the
file.  The public unit saves its settings and goes on; a bay unit's
`rpc_save_goose_cfg` saves and then kills its own process (`iskill` is true by
default, `dtusystemconfig.h:273`), so that the call throws after the saving took
effect, and the loop goes on in its handler.  What counts in `HandOut` is therefore
whether the saving took effect, not what the call returned: `missed` are the units
for which it did not.

The models meet in few places.  `RemoteControl`, `Settings` and `GooseLink` see
the DSP through the result of one call, which is what `DspMailbox` promises of a
success and `DspLink` implements; the close of a connection is an action of the first two; what
`FileUpload` hands out is the configuration `GooseLink` is started with.

## 3. What is checked

| Run | Result | What it shows |
|---|---|---|
| `remote_control` | pass | two 104 masters, one point, a preset each, every store of `setflag` a step, timers that start or cannot, disconnections: `TypeOK`, `SpentOnce`, `NothingLeftBehind`, `PresetIsTimed`, `ImplementsGrants` (the abstract grants), every flag is cleared (`PresetExpires`), the DSP is released (`SelectionReleased`) |
| `remote_timer` | violation of `CancelledByOwnTimer` | the timer of an executed preset cancels the next one, against the comment at `dtutask_dsp.cpp:344` |
| `remote_timed_out` | violation of `TimedOutStaysOut` | a master whose preset timed out owns, for a moment, the preset the tool is storing, and its execution passes all tests, against the log at `dtutask_dsp.cpp:315` and the comments at 328 and 335 |
| `settings_safety` | pass | one command at a time, both ways of presetting, closes, timeouts and restarts anywhere: `TypeOK`, `DspRunsCurrentGroup`, `SwitchLoadsGroup`, `ConfirmedOncePerPreset` |
| `settings_two_masters` | violation of `CommitsWhereAsked` | an ignored preset moves the edit group of the one pending, against `dtustorage.h:140` |
| `settings_single_group` | violation of `ConfirmedIsInForce` | a single-group parameter confirmed in group 2 is sent from group 1, against `dtudbmanager.cpp:2103` |
| `dsp_link` | pass | lost and refused commands, lost answers, up to three bad blocks: `TypeOK`, `ReadIsWhole`, `WriteIsWhole`, `ActsAsMailbox` (the abstract mailbox), `LockReleased` |
| `dsp_wrong_answer` | violation of `LockReleased` | a persistent wrong answer is resent for ever under the lock, against the log at `dspcomm.cpp:362` |
| `goose_link` | pass | two neighbours that send anything at any time, refused commands, a restart: `LinkTypeOK`, `DspHasWhatWasHeard`, `SignalTellsLinks` |
| `goose_net` | pass | a station, its neighbour, lost frames, a crash, a restart: `TypeOK`, `FallsForCause`, `DeathIsNoticed`, `ShowsTheStream` and `EveryStateShown` (the abstract stream and its liveness) |
| `event_path` | pass | three events of the DSP and the connection test, clearings, one failure, lost recording or restart anywhere: `TypeOK`, `NumberNamesNewest`, `RowsHaveFiles`, `FilesHaveRows`, `ToldIsStored`, `InOrder`, `EventsHavePlace`, `TablesAreLogs`, `QueueIsHandled`, `FlagsAreLowered` |
| `files` | pass | two masters, two identities, damaged pieces, writes that fail noticed or unnoticed, failed calls, restarts: `TypeOK`, `SavedIsSent`, `UnknownIsClash`, `UnitsFollowFile`, `SavingEnds` |

### Bounds

- *Remote control.* Two clients are enough for every race on a point, since a
  race is between a thread that reads a field and one that writes it; with a
  preset each, the stores of one meet the reads, the timer and the disconnection
  of the other.  A second preset of the same client is in `remote_timer`, the tool,
  whose address is that of a cleared point, in `remote_timed_out`; the proofs hold
  for any number of presets and for the tool.
- *Settings.* Two groups and two parameters distinguish "this group" from
  "another" and a half-sent set from a whole one; a master's frames have one
  item, or a good and a bad one, those of appendix B a refused item and then a
  good one.  The two violations need two threads, respectively one single-group
  parameter, and no frame of appendix B.  In the passing run one command is
  served at a time: with two the code itself interleaves sendings and the DSP
  may end with older values (a hazard listed with that note).
- *DSP link.* Messages of one and two blocks have a first, a middle boundary and
  a last block; two tries instead of three and one resend instead of 3 and 9
  shorten the same loops.  Three bad blocks are what the code tolerates, four
  what it does not.
- *GOOSE.* `goose_net` keeps the real ratio of 5 s and 20 s (`Limit = 5`: the age
  of more than four ticks), two publications so that one may be under way while
  another waits, four lost frames so that losses alone may break the link, one
  crash and one restart of the neighbour.  `goose_link` takes a shorter limit and
  two neighbours, so that one link falls while another returns, two refused
  commands and one restart.
- *Events.* A report of capacity 2 without files and one of capacity 1 with
  files; three events fill both and go over, in one item or several; one failed
  statement, lost recording or restart, at any step.  Two mishaps give no further cases of a
  property, since what a first one tears apart is excused until mended; the
  proofs hold for any number.
- *Files.* Two masters and two identities let masters meet or pass each other;
  files of one and two pieces have a gap, a last piece, an end to lose, and a
  configuration that names some units and not others; two faults let a write fail
  before a call, or a restart after either.

### Fairness

- *Remote control.* Weak fairness of every step of a thread that serves a
  request, cancels, or is a timer: the operating system runs them and nothing
  blocks them but `_lock`, held for four assignments.  No fairness of requests
  or disconnections.
- *Settings.* Weak fairness of a command already begun.
- *DSP link.* Weak fairness of the holder of `_ram_lock` and of the DSP.  None
  of callers: `std::mutex` promises a waiting thread nothing, so `LockReleased`
  says that the lock is released, not who gets it.
- *GOOSE.* Weak fairness of the worker, of the second statement of `publish`, of
  the watch, of the receiver and of time.  No publication need be made and no
  station come back.
- *Events.* Weak fairness of dsp_run, of dsp_handle and of the holder of
  `_lock`.  Clearings are assumed to be finitely many: the tool's user makes them,
  and a mutex promises nothing to a thread that competes with an endless series
  of others.  No event need be raised.
- *Files.* Weak fairness of the holder of `_write_lock`: a call of a unit that is
  down ends by its own time limit.

### Assumptions on what is outside

The DSP obeys a command it acknowledges (`DspAnswers = {TRUE}` in the settings
and remote runs; the proofs allow any answer).  In `dsp_link` it answers within
the time the ARM waits: with the fault `late` no success would mean anything,
since answers name no command.  It answers CRC_BAD never (`crc`): the code takes
that for a success, and its comment says so.  In `EventPath` an answer hands over
the events the DSP had when it was asked, and nothing else; flags survive a
restart of the ARM.  The network of `GooseNet` loses frames but neither reorders
nor repeats them: one Ethernet segment.  Masters of `FileUpload` send their pieces
without waiting for answers, as the terminal cannot make them wait.

## 4. What is proved

`RemoteControlProofs`, for any sets of clients and points, any assignment of
sources and connections that satisfies `IdentityAssumption`, any bound on
presets, any answers of the DSP, and whether or not timer threads can be created;
with every store of `setflag` a step, in any order:

- `TypeCorrect`, `OneOperationPerPreset`, `DisconnectionIsClean`,
  `TimerAlwaysPending`: `TypeOK`, `SpentOnce`, `NothingLeftBehind` and
  `PresetIsTimed` hold in every reachable state.
- `Implementation`: `Spec` implements `OperateGrant` under the mapping
  `grant <- GrantsHeld`.

`SpentOnce` is not inductive: a thread that has passed its tests will operate
whatever happens to the flags.  `IInv` adds `Budgeted` (whoever still holds a
grant - by the fields stored, by a `setflag` under way, or by the tests it has
passed - has an unspent preset), `Consumed` (a client about to send claims the
point no more, so its next preset is a new one), `Stored` (what the holder of
`_lock` has stored of a point is there, but for the flag, which a timer may clear
again), and `Visiting` (a live preset of a client being cancelled is still ahead of
its scan), which carries `NothingLeftBehind`.  The step lemma has one step per
action.  `Implementation` shows that only the `LockFlags` of a preset adds a grant,
that sending an execution uses one up, and that every other step lets some lapse
or changes nothing.

Two properties speak of points that are `Settled`, with no `setflag` half done:
between the stores a point has fields of two presets, and nothing is true of it
but what `Budgeted` says.

The delicate case is a client without an address (the tool): a cleared point's
address equals its own, so its execution passes the second test of the owner on
a point already cleared.  `Claims` judges such a client by its source and the
others by their address, which is what their last test reads, and `Redeeming`
counts it as committed one test earlier than the others; the theorem shows that
it, too, operates once per preset.

`GooseProofs`, for any frames, neighbours, limit and bounds:

- `NetTypeCorrect`, `LinkTypeCorrect`: `TypeOK` of `GooseNet`, `LinkTypeOK`.
- `LineShowsTheStream`: the line implements `GooseStream`; the worker's `output`
  and `lastFrame` are what the line shows (`PubIInv`), so that a heartbeat shows
  nothing new.
- `TableReachesDsp`, `SignalReachesDsp`: `DspHasWhatWasHeard` and
  `SignalTellsLinks`, from `LinkIInv`.
- `LinkFallsForCause`: `FallsForCause`.  The age of a link alone tells nothing of
  its reason.  `AgeIsPaid` keeps the account: while the line was never silent, each
  tick of its age is a frame lost, a frame waiting in the inbox, or a frame owed
  by a worker that has waited a tick; `TodoIsDue` carries it from the moment the
  watch compares to the moment the state is recorded, `WorkerIsPrompt` ties the
  frame owed to the worker's place.

`EventPathProofs`, for any reports, capacities and bounds:

- `PathTypeCorrect`, `NumberIsRight`, `ToldCanBeRead`, `StoreKeepsLogs`: `TypeOK`,
  `NumberNamesNewest`, `ToldIsStored` and `TablesAreLogs`.

`CountsAgree` is the inductive form of `NumberNamesNewest`: it says of each stage of
the holder of `_lock` by how much rows and count are apart.  `StoreMove` lists what
`EventPath` does to the tables, so that everything about them is proved of
`ReportStore` alone.

`EventOrderProofs`, on the invariant of `EventPathProofs`:

- `ReportsInOrder`, `EventsKeepPlace`: `InOrder` and `EventsHavePlace`.

`InOrder` looks at a table only, and a row is added long after its event was
raised.  `EventOrder` follows each kind of event through its stages - stored, being
stored, in the batch of dsp_handle, in the queue, in the DSP - and says that of
two events of one source the one at the earlier stage was raised first (`Staged`),
and that each stage is in order itself.  It needs the source in it: the connection
test overtakes the DSP's events.  `EventPlaces` says that DSP, queue, hand and
told are apart, and the parts of each as well - the kinds in the DSP, the items of
the queue, the entry and the batch in hand - so that taking a batch, telling an
event or giving a recording up moves it and copies nothing.  What is given up has a
place of its own, `dropped`.

`ReportFileProofs`, on the invariants of the two modules before:

- `FilesAreKnown`, `RowsKeepFiles`: `FilesHaveRows` and `RowsHaveFiles`.

`FilesAgree` says of each report with files that they are those of its rows, of
the recording on its way to a row, of the rows just trimmed, or spoiled; and that
a file about to be removed is of no row, or the removal of its row failed.  The
last part is what keeps a trimming from taking the file of a row that stays.  It
rests on `EventOrder`: no event has two rows, so that the oldest rows and the newest
have no file in common (`RowsSplit`).

`DspLinkProofs`, for any callers, commands, sizes, retries and tries:

- `TypeCorrect`: `TypeOK`, with every fault.
- `ReadsAreWhole`: `ReadIsWhole`, under `InTime`.
- `WritesAreWhole`, `ImplementsMailbox`: `WriteIsWhole` and `ActsAsMailbox`, under
  `Honest`.

`InTime` says that the DSP answers before the ARM stops waiting and sends at most
three bad blocks in one answer; `Honest` adds that it does not answer CRC_BAD.
These are hypotheses about the DSP and not assumptions of the module, and without
them the theorems are not true of the code: no answer names its command, so a late
one is taken for the answer of the next; the fourth bad block ends a try with
the block still asked for again (`dspcomm.cpp:414`), which then comes late; and
`SelfCheck` takes CRC_BAD for an ACK.  Failed interrupts, lost answers, refusals,
wrong answers and repetitions may happen in any number.

A success of a read says nothing of the steps before it, so `ReadInv` says where an
answer is while somebody waits for it: asked for, refused, or with the DSP at a
block that the caller holds or is to receive (`Follows`), and every bad block is
paid for by one the DSP has sent (`Waste`).  `Quiet` is the part that makes the
next exchange begin on an empty link: when nobody waits nothing rings, and the DSP
has at most the ACK of a last block to hear.  `WriteInv` says how far the DSP's image
is when a block is sent (`Written`) and when its ACK has come (`Acknowledged`); a
block sent twice is in the image once.  `ImplementsMailbox` then shows step by step
that an exchange is seen by its callers as its blocks and its end.

`SettingsProofs`, for any groups, parameters, values, frames and answers of the
DSP:

- `SettingsTypeCorrect`: `TypeOK`, for any number of threads.
- `DspIsCurrent`, `SwitchIsWhole`, `ConfirmationIsEarned`:
  `DspRunsCurrentGroup`, `SwitchLoadsGroup` (when the DSP obeys) and
  `ConfirmedOncePerPreset`, for one thread (`OneAtATime`).

`OneAtATime` is a hypothesis and not an assumption of the module: the program does
not serve commands one at a time, and with two threads the first of the three
is not true (a sending packed before a second commit may reach the DSP after
that commit's own).  The theorems say that no *sequence* of commands, closed
connections, timeouts and restarts goes wrong.  `DspRunsCurrentGroup` speaks of
quiet moments only, so it says nothing of the steps in between; `LoadedOrDue`
does: a parameter the DSP does not run as stored is known to have drifted or is
still in the list of the command under way.  `ImageFits` says the same of the
table on its way (packed from what is stored, or read from what is run),
`SwitchLoads` that a switch has loaded all but what is left to send, and
`JobFits` which command a thread can be at.

`FileUploadProofs`, for any masters, identities, sizes, units and faults:

- `UploadTypeCorrect`, `SavedIsWhatWasSent`, `OnlyClashesAreUnknown`,
  `UnitsHaveTheirPart`: `TypeOK`, `SavedIsSent`, `UnknownIsClash` and
  `UnitsFollowFile`.

`SavedIsSent` speaks of the moment of the answer.  Until then `Buffered` says that
the buffer of a master nobody clashes with holds what it sent (`NoShare`: two that
send under one identity are known to clash), and `WrittenOut` that a writing taken
for a success left the buffer on disk, or all but an end of it where the file is in
`unflushed`; `Whole` is the same of what the master was answered.  `UnitsFollowFile` holds when nothing is being
saved; `FollowOrDue` says in between that a unit which does not follow is still to
be called.  The master that starts a transfer is the only one that can take a buffer
away, and it is by then in `clashed` with all it meets.

## 5. Only model-checked

- All liveness: `PresetExpires`, `SelectionReleased`, `LockReleased`,
  `DeathIsNoticed`, `EveryStateShown`, `QueueIsHandled`, `FlagsAreLowered`,
  `SavingEnds`.  TLAPS does not reason about fairness and ENABLED here.
  Every other property of a passing run is a theorem; what TLC adds to those are
  the mutants it refutes and, for `settings_safety` and `dsp_link`, an instance on
  which the theorems' hypotheses are met.
- The five violations are counterexamples on the smallest instances that have
  them.

## 6. Not modelled

- *Vendored code* (lib60870, lib61850, msgpack, rest_rpc, sqlite, spdlog,
  pugixml, jsoncpp): more than nine tenths of the lines under `src/`.  The models
  take from it what the program uses: a callback, a call that succeeds or not.
- *Frames and numbers*: parsing and formatting of ASDUs, GOOSE PDUs, APCI, CRC
  and COMTRADE, the tables of points, the conversion of values.  A frame is a
  record or a member of a small set.  `tlapm` and TLC would add little to a unit
  test of a pure conversion.
- *Drivers and libraries*: shared memory and interrupts of the DSP beyond what
  `DspLink` says of them, serial ports, LEDs, sqlite's own transactions, thread
  pools of rest_rpc.
- *Failures of the database* in `Settings` (in `ReportStore` they are modelled):
  the statements there are transactions whose failure is logged and passed over.
- *Reading of files*: `fileReqDirectory`, `fileReqContent` and its missing return
  value (`dtuhalasdu.cpp:1901`), `DRULESFILE` and its files of events, extremes and logs.
- *Connection test*: how the states of the links are found and the LED shown;
  only the events it adds are modelled.  One flag stands for several connections:
  the close of one of two turns the LED off (`dtuconnect.cpp:90`).
- *Forwarding of frames to bay units* and the joining of their answers in
  `dtuHALhandler`; of the calls that change state, those that set parameters and
  hand out a configuration are modelled.
- *Stop of the services* (`main.cpp`, where the two branches for CS101 and CS104
  stop each other's service) and the order of their start.
- *A GOOSE neighbour that is dead from the very start*: a link nobody was ever
  heard on has no time and is not watched; `DeathIsNoticed` speaks of those that
  were.
- *Line loss, 101 master, serialretrans, configuration, user interfaces*: no state
  that outlives a call, or not part of the terminal.

## 7. Plan

1. A composition of `Settings` with `DspMailbox` in the place of its answers, and
   the theorem that a command of `DspLink` may be used for it.
2. `Settings` with failing statements of the database, and two threads with the
   weaker property that holds of them.
3. The connection test with its LED, and `DRULESFILE`.

## 8. Running

In this directory:

    tlc -workers 2 -config MCEventPath.cfg MCEventPath
    tlapm EventPathProofs.tla

The configuration of each run, its module and its properties are in `PROJECT.json`.
The longest runs are `settings_safety` and `dsp_link` (about two minutes each),
`remote_control` (one and a half) and `event_path` (about one); the longest proofs are `DspLinkProofs` (two to three
minutes from nothing) and those of the events.
