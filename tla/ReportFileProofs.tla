--------------------------- MODULE ReportFileProofs ---------------------------
(***************************************************************************)
(* Proofs about the files of the recordings: no file without a row, no row *)
(* without its file, whatever fails and wherever the program restarts, for *)
(* any reports, capacities and bounds.                                     *)
(***************************************************************************)
EXTENDS EventOrderProofs

\* The file written whose row is still to come; the files about to be removed.
OnItsWay(r) == IF handler.at = "insert" /\ handler.kind = r THEN {handler.entry} ELSE {}
Doomed(r)   == IF job.do = "unlink" /\ job.of = r THEN job.doomed ELSE {}

\* The inductive invariant: files and rows agree, but for what is on its way,
\* doomed or spoiled. A doomed file is of no row, or the removal of its row has
\* failed.
Kept(r) ==
  /\ Clearing(r) \/ files[r] \subseteq EntriesOf(rows[r]) \union spoiled
                                         \union OnItsWay(r) \union Doomed(r)
  /\ EntriesOf(rows[r]) \subseteq files[r] \union spoiled
  /\ OnItsWay(r) \subseteq files[r] \union spoiled
  /\ Doomed(r) \intersect EntriesOf(rows[r]) \subseteq spoiled

FilesAgree == \A r \in FileReports : Kept(r)
-----------------------------------------------------------------------------
\* The rows over the limit and those within it are all of the rows, and in a
\* table in order no row is among both.
LEMMA RowsSplit ==
  ASSUME StoreTypeOK, NEW r \in Reports, RowsAscend(byLink, rows[r])
  PROVE  /\ EntriesOf(rows[r]) = EntriesOf(Oldest(r)) \union EntriesOf(Newest(r))
         /\ EntriesOf(Oldest(r)) \intersect EntriesOf(Newest(r)) = {}
<1> DEFINE s == rows[r]
           c == Capacity[r]
           k == Len(s) - c
<1>1. s \in Seq(Entries) /\ c \in Nat /\ Len(s) \in Nat
  BY ReportAssumption DEF StoreTypeOK
<1>2. CASE Len(s) <= c
  <2>1. Newest(r) = s /\ Oldest(r) = <<>>
    BY <1>2, NewestRows
  <2>2. EntriesOf(<<>>) = {}
    BY DEF EntriesOf
  <2> QED
    BY <2>1, <2>2
<1>3. CASE Len(s) > c
  <2>1. Oldest(r) = SubSeq(s, 1, k)
    BY <1>3 DEF Oldest, Excess
  <2>2. Newest(r) = SubSeq(s, k + 1, Len(s))
    BY <1>3, NewestRows
  <2>3. k \in 1..Len(s)
    BY <1>1, <1>3
  <2> DEFINE old == SubSeq(s, 1, k)
             new == SubSeq(s, k + 1, Len(s))
  <2> HIDE DEF s, k
  <2>4. /\ \A m \in DOMAIN old : m \in DOMAIN s /\ m <= k /\ m \in Nat /\ old[m] = s[m]
        /\ \A m \in DOMAIN s : m <= k => m \in DOMAIN old
    BY <1>1, <2>3
  <2>5. /\ \A m \in DOMAIN new : m + k \in DOMAIN s /\ k < m + k /\ new[m] = s[m + k]
        /\ \A m \in DOMAIN s : ~(m <= k) => m - k \in DOMAIN new /\ new[m - k] = s[m]
    BY <1>1, <2>3
  <2> HIDE DEF old, new
  <2>6. EntriesOf(old) \subseteq EntriesOf(s)
    BY <2>4, Zenon DEF EntriesOf
  <2>7. EntriesOf(new) \subseteq EntriesOf(s)
    <3> SUFFICES ASSUME NEW x \in EntriesOf(new) PROVE x \in EntriesOf(s)
      OBVIOUS
    <3>1. PICK m \in DOMAIN new : x = new[m]
      BY DEF EntriesOf
    <3>2. m + k \in DOMAIN s /\ x = s[m + k]
      BY <2>5, <3>1
    <3> QED
      BY <3>2, Zenon DEF EntriesOf
  <2>8. EntriesOf(s) \subseteq EntriesOf(old) \union EntriesOf(new)
    <3> SUFFICES ASSUME NEW x \in EntriesOf(s) PROVE x \in EntriesOf(old) \/ x \in EntriesOf(new)
      OBVIOUS
    <3>1. PICK m \in DOMAIN s : x = s[m]
      BY DEF EntriesOf
    <3>2. CASE m <= k
      <4>1. m \in DOMAIN old /\ x = old[m]
        BY <2>4, <3>1, <3>2
      <4> QED
        BY <4>1, Zenon DEF EntriesOf
    <3>3. CASE ~(m <= k)
      <4>1. m - k \in DOMAIN new /\ x = new[m - k]
        BY <2>5, <3>1, <3>3
      <4> QED
        BY <4>1, Zenon DEF EntriesOf
    <3> QED
      BY <3>2, <3>3
  <2>9. ASSUME NEW x \in EntriesOf(old), x \in EntriesOf(new) PROVE FALSE
    <3>1. PICK m \in DOMAIN old : x = old[m]
      BY DEF EntriesOf
    <3>2. PICK n \in DOMAIN new : x = new[n]
      BY <2>9 DEF EntriesOf
    <3>3. m \in DOMAIN s /\ n + k \in DOMAIN s /\ x = s[m] /\ x = s[n + k]
      BY <2>4, <2>5, <3>1, <3>2
    <3>4. m <= k /\ k < n + k /\ m \in Nat /\ n + k \in Nat /\ k \in Nat
      BY <1>1, <2>3, <2>4, <2>5, <3>1, <3>2, <3>3
    <3>5. m < n + k
      BY <3>4
    <3>6. Before(byLink, x.item, x.item) /\ x.item \in Nat
      <4>1. Before(byLink, s[m].item, s[n + k].item)
        BY <3>3, <3>5 DEF RowsAscend, s
      <4>2. x \in Entries
        BY <1>1, <3>3
      <4> QED
        BY <3>3, <4>1, <4>2 DEF Entries
    <3> QED
      BY <3>6 DEF Before
  <2>10. /\ EntriesOf(s) = EntriesOf(old) \union EntriesOf(new)
         /\ EntriesOf(old) \intersect EntriesOf(new) = {}
    BY <2>6, <2>7, <2>8, <2>9
  <2> QED
    BY <2>1, <2>2, <2>10 DEF s, old, new
<1> QED
  BY <1>1, <1>2, <1>3
-----------------------------------------------------------------------------
LEMMA FilesInit == Init => FilesAgree
<1> SUFFICES ASSUME Init, NEW r \in FileReports PROVE Kept(r)
  BY DEF FilesAgree
<1>1. files[r] = {} /\ rows[r] = <<>> /\ handler.at = "idle" /\ job = Free
  BY ReportAssumption DEF Init, StoreInit, Rest
<1>2. EntriesOf(<<>>) = {}
  BY DEF EntriesOf
<1>3. OnItsWay(r) = {} /\ Doomed(r) = {}
  BY <1>1 DEF OnItsWay, Doomed, Free
<1> QED
  BY <1>1, <1>2, <1>3 DEF Kept

\* The files of the other reports, and their entries, are left alone.
LEMMA KeptAlone ==
  ASSUME NEW r \in FileReports, Kept(r), spoiled \subseteq spoiled',
         rows'[r] = rows[r], files'[r] = files[r],
         OnItsWay(r)' = OnItsWay(r), Doomed(r)' = Doomed(r),
         Clearing(r) => Clearing(r)'
  PROVE  Kept(r)'
BY DEF Kept

\* The file of a recording is written.
LEMMA NextEventFiles ==
  ASSUME PathIInv, FilesAgree, NextEvent
  PROVE  FilesAgree'
<1> SUFFICES ASSUME NEW r \in FileReports PROVE Kept(r)'
  BY DEF FilesAgree
<1>1. /\ handler.at = "next" /\ handler'.at = "insert" /\ handler'.kind = handler.kind
      /\ rows' = rows
  BY NextEventHand
<1>2. job' = job /\ spoiled' = spoiled
  BY DEF NextEvent, WriteFile, storevars
<1>3. OnItsWay(r) = {} /\ Doomed(r)' = Doomed(r) /\ (Clearing(r) => Clearing(r)') /\ Kept(r)
  BY <1>1, <1>2 DEF OnItsWay, Doomed, Clearing, FilesAgree
<1>4. files \in [FileReports -> SUBSET Entries]
  BY DEF PathIInv, StoreTypeOK
<1>5. CASE handler.kind = r
  <2> DEFINE e == [item |-> Head(handler.batch), no |-> curNo[handler.kind] + 1]
  <2>1. WriteFile(r, e) /\ handler' = [handler EXCEPT !.at = "insert",
                                        !.batch = Tail(@), !.entry = e]
    BY <1>5 DEF NextEvent
  <2>2. handler'.entry = e
    BY <2>1 DEF PathIInv, HandlerOK
  <2> HIDE DEF e
  <2>3. files'[r] = files[r] \union {e} /\ job = Free
    BY <1>4, <2>1 DEF WriteFile
  <2>4. OnItsWay(r)' = {e}
    BY <1>1, <1>5, <2>2 DEF OnItsWay
  <2> QED
    BY <1>1, <1>2, <1>3, <2>3, <2>4 DEF Kept
<1>6. CASE handler.kind # r
  <2>1. files'[r] = files[r]
    BY <1>4, <1>6 DEF NextEvent, WriteFile, storevars
  <2>2. OnItsWay(r)' = {}
    BY <1>1, <1>6 DEF OnItsWay
  <2> QED
    BY <1>1, <1>2, <1>3, <2>1, <2>2, KeptAlone
<1> QED
  BY <1>5, <1>6

\* Its row is inserted or refused.
LEMMA StoreEventFiles ==
  ASSUME PathIInv, FilesAgree, StoreEvent
  PROVE  FilesAgree'
<1> SUFFICES ASSUME NEW r \in FileReports PROVE Kept(r)'
  BY DEF FilesAgree
<1>1. /\ handler.at = "insert" /\ handler'.at = "tell" /\ job = Free /\ files' = files
      /\ job' = Free \/ job' = Holding("count", handler.kind) \/ job' = Holding("trim", handler.kind)
  BY DEF StoreEvent, Insert, InsertFails, PathIInv, HandlerOK
<1>2. OnItsWay(r)' = {} /\ Doomed(r) = {} /\ Doomed(r)' = {} /\ ~Clearing(r) /\ Kept(r)
  BY <1>1 DEF OnItsWay, Doomed, Clearing, Free, Holding, FilesAgree
<1>3. /\ rows \in [Reports -> Seq(Entries)] /\ rows[r] \in Seq(Entries) /\ r \in Reports
      /\ handler.entry \in Entries
  BY ReportAssumption DEF PathIInv, StoreTypeOK, HandlerOK
<1>4. EntriesOf(Append(rows[r], handler.entry)) = EntriesOf(rows[r]) \union {handler.entry}
  BY <1>3, EntriesAppend
<1>5. CASE handler.kind = r
  <2>1. OnItsWay(r) = {handler.entry}
    BY <1>1, <1>5 DEF OnItsWay
  <2>2. CASE Insert(r, handler.entry)
    <3>1. rows'[r] = Append(rows[r], handler.entry) /\ spoiled' = spoiled
      BY <1>3, <2>2 DEF Insert
    <3> QED
      BY <1>1, <1>2, <1>4, <2>1, <3>1 DEF Kept
  <2>3. CASE InsertFails(r, handler.entry)
    <3>1. rows' = rows /\ spoiled' = spoiled \union {handler.entry}
      BY <2>3 DEF InsertFails
    <3> QED
      BY <1>1, <1>2, <2>1, <3>1 DEF Kept
  <2> QED
    BY <1>5, <2>2, <2>3 DEF StoreEvent
<1>6. CASE handler.kind # r
  <2>1. OnItsWay(r) = {}
    BY <1>6 DEF OnItsWay
  <2>2. rows'[r] = rows[r] /\ spoiled \subseteq spoiled'
    BY <1>3, <1>6 DEF StoreEvent, Insert, InsertFails
  <2> QED
    BY <1>1, <1>2, <2>1, <2>2, KeptAlone
<1> QED
  BY <1>5, <1>6

\* The rows over the limit go, their files are doomed.
LEMMA TrimFiles ==
  ASSUME PathIInv, EventOrder, FilesAgree, Trim, UNCHANGED eventvars
  PROVE  FilesAgree'
<1> SUFFICES ASSUME NEW r \in FileReports PROVE Kept(r)'
  BY DEF FilesAgree
<1>1. job.do = "trim" /\ files' = files /\ handler' = handler
  BY DEF Trim, eventvars
<1>2. /\ OnItsWay(r)' = OnItsWay(r) /\ Doomed(r) = {} /\ ~Clearing(r) /\ Kept(r)
      /\ StoreTypeOK /\ r \in Reports /\ rows \in [Reports -> Seq(Entries)]
  BY <1>1, ReportAssumption
     DEF OnItsWay, Doomed, Clearing, FilesAgree, PathIInv, StoreTypeOK
<1>3. CASE job.of = r
  <2> DEFINE doomed == EntriesOf(Oldest(r))
  <2>1. /\ job' = IF doomed # {} THEN Unlinking(r, doomed) ELSE Free
        /\ \/ rows' = [rows EXCEPT ![r] = Newest(r)] /\ spoiled' = spoiled
           \/ rows' = rows /\ spoiled' = spoiled \union doomed
    BY <1>3 DEF Trim
  <2>2. /\ EntriesOf(rows[r]) = doomed \union EntriesOf(Newest(r))
        /\ doomed \intersect EntriesOf(Newest(r)) = {}
    BY <1>2, RowsSplit DEF EventOrder, Ordered
  <2> HIDE DEF doomed
  <2>3. Doomed(r)' = doomed
    BY <2>1 DEF Doomed, Unlinking, Free
  <2>4. CASE rows' = [rows EXCEPT ![r] = Newest(r)] /\ spoiled' = spoiled
    <3>1. rows'[r] = Newest(r)
      BY <1>2, <2>4
    <3> QED
      BY <1>1, <1>2, <2>2, <2>3, <2>4, <3>1 DEF Kept
  <2>5. CASE rows' = rows /\ spoiled' = spoiled \union doomed
    BY <1>1, <1>2, <2>3, <2>5 DEF Kept
  <2> QED
    BY <2>1, <2>4, <2>5
<1>4. CASE job.of # r
  <2>1. Doomed(r)' = {}
    BY <1>4 DEF Trim, Doomed, Unlinking, Free
  <2>2. rows'[r] = rows[r] /\ spoiled \subseteq spoiled'
    BY <1>2, <1>4 DEF Trim
  <2> QED
    BY <1>1, <1>2, <2>1, <2>2, KeptAlone
<1> QED
  BY <1>3, <1>4

\* The doomed files go, or all of a cleared report.
LEMMA UnlinkFiles ==
  ASSUME PathIInv, FilesAgree, Unlink, UNCHANGED eventvars
  PROVE  FilesAgree'
<1> SUFFICES ASSUME NEW r \in FileReports PROVE Kept(r)'
  BY DEF FilesAgree
<1>1. /\ job.do = "unlink" /\ job' = Free /\ rows' = rows /\ spoiled' = spoiled
      /\ files' = [files EXCEPT ![job.of] = @ \ job.doomed] /\ handler' = handler
      /\ files \in [FileReports -> SUBSET Entries]
  BY DEF Unlink, eventvars, PathIInv, StoreTypeOK
<1>2. OnItsWay(r) = {} /\ OnItsWay(r)' = {} /\ Doomed(r)' = {} /\ ~Clearing(r) /\ Kept(r)
  BY <1>1 DEF OnItsWay, Doomed, Clearing, FilesAgree, Free, PathIInv, HandlerOK, Adding
<1>3. CASE job.of = r
  <2>1. Doomed(r) = job.doomed /\ files'[r] = files[r] \ job.doomed
    BY <1>1, <1>3 DEF Doomed
  <2> QED
    BY <1>1, <1>2, <2>1 DEF Kept
<1>4. CASE job.of # r
  <2>1. Doomed(r) = {} /\ files'[r] = files[r]
    BY <1>1, <1>4 DEF Doomed
  <2> QED
    BY <1>1, <1>2, <2>1, KeptAlone
<1> QED
  BY <1>3, <1>4

LEMMA SweepFiles ==
  ASSUME PathIInv, FilesAgree, Sweep, UNCHANGED eventvars
  PROVE  FilesAgree'
<1> SUFFICES ASSUME NEW r \in FileReports PROVE Kept(r)'
  BY DEF FilesAgree
<1>1. /\ job.do = "sweep" /\ job' = Free /\ rows' = rows
      /\ spoiled' = spoiled \union files[job.of]
      /\ files' = [files EXCEPT ![job.of] = {}] /\ handler' = handler
      /\ files \in [FileReports -> SUBSET Entries]
  BY DEF Sweep, eventvars, PathIInv, StoreTypeOK
<1>2. /\ OnItsWay(r)' = OnItsWay(r) /\ Doomed(r) = {} /\ Doomed(r)' = {} /\ Kept(r)
  BY <1>1 DEF OnItsWay, Doomed, FilesAgree, Free
<1>3. CASE job.of = r
  <2>1. files'[r] = {} /\ spoiled' = spoiled \union files[r]
    BY <1>1, <1>3
  <2> QED
    BY <1>1, <1>2, <2>1 DEF Kept
<1>4. CASE job.of # r
  <2>1. files'[r] = files[r] /\ ~Clearing(r)
    BY <1>1, <1>4 DEF Clearing
  <2> QED
    BY <1>1, <1>2, <2>1, KeptAlone
<1> QED
  BY <1>3, <1>4

\* A report is cleared, row by row first: its files have no row until Sweep.
LEMMA ClearFiles ==
  ASSUME PathIInv, FilesAgree, NEW q \in Reports, Clear(q), UNCHANGED eventvars
  PROVE  FilesAgree'
<1> SUFFICES ASSUME NEW r \in FileReports PROVE Kept(r)'
  BY DEF FilesAgree
<1>1. /\ job = Free /\ job' = Holding("zero", q) /\ files' = files /\ spoiled' = spoiled
      /\ handler' = handler /\ r \in Reports /\ rows \in [Reports -> Seq(Entries)]
  BY ReportAssumption DEF Clear, eventvars, PathIInv, StoreTypeOK
<1>2. /\ OnItsWay(r)' = OnItsWay(r) /\ Doomed(r) = {} /\ Doomed(r)' = {} /\ Kept(r)
      /\ ~Clearing(r) /\ (Clearing(r)' <=> q = r)
  BY <1>1 DEF OnItsWay, Doomed, FilesAgree, Free, Holding, Clearing
<1>3. CASE q = r
  <2>1. rows'[r] = rows[r] \/ rows'[r] = <<>>
    BY <1>1, <1>3 DEF Clear
  <2>2. EntriesOf(rows'[r]) \subseteq EntriesOf(rows[r])
    BY <2>1 DEF EntriesOf
  <2> QED
    BY <1>1, <1>2, <1>3, <2>2 DEF Kept
<1>4. CASE q # r
  <2>1. rows'[r] = rows[r]
    BY <1>1, <1>4 DEF Clear
  <2> QED
    BY <1>1, <1>2, <2>1, KeptAlone
<1> QED
  BY <1>3, <1>4

\* A restart: every file without a row is known.
LEMMA RebootFiles ==
  ASSUME PathIInv, FilesAgree, Reboot
  PROVE  FilesAgree'
<1> SUFFICES ASSUME NEW r \in FileReports PROVE Kept(r)'
  BY DEF FilesAgree
<1>1. /\ job' = Free /\ handler' = Rest /\ rows' = rows /\ files' = files
      /\ spoiled' = spoiled \union UNION {files[q] \ EntriesOf(rows[q]) : q \in FileReports}
  BY DEF Reboot, Restart
<1>2. OnItsWay(r)' = {} /\ Doomed(r)' = {} /\ Kept(r)
  BY <1>1 DEF OnItsWay, Doomed, FilesAgree, Free, Rest
<1>3. files[r] \ EntriesOf(rows[r]) \subseteq spoiled' /\ spoiled \subseteq spoiled'
  BY <1>1
<1> QED
  BY <1>1, <1>2, <1>3 DEF Kept

LEMMA MaintainFiles ==
  ASSUME PathIInv, EventOrder, FilesAgree, Maintain
  PROVE  FilesAgree'
<1>1. UNCHANGED eventvars
  BY DEF Maintain
<1>2. ASSUME Count \/ Zero PROVE FilesAgree'
  <2> SUFFICES ASSUME NEW r \in FileReports PROVE Kept(r)'
    BY DEF FilesAgree
  <2>1. /\ rows' = rows /\ files' = files /\ spoiled' = spoiled /\ handler' = handler
        /\ job.do \in {"count", "zero"} /\ job'.do # "unlink"
    BY <1>1, <1>2 DEF Count, Zero, eventvars, Free, Holding
  <2>2. Clearing(r) => Clearing(r)'
    BY <1>2 DEF Count, Zero, Clearing, Holding
  <2>3. OnItsWay(r)' = OnItsWay(r) /\ Doomed(r) = {} /\ Doomed(r)' = {} /\ Kept(r)
    BY <2>1 DEF OnItsWay, Doomed, FilesAgree
  <2> QED
    BY <2>1, <2>2, <2>3, KeptAlone
<1> QED
  BY <1>1, <1>2, TrimFiles, UnlinkFiles, SweepFiles, ClearFiles DEF Maintain, StoreStep

LEMMA FilesStep == PathIInv /\ EventOrder /\ FilesAgree /\ [Next]_vars => FilesAgree'
<1> SUFFICES ASSUME PathIInv, EventOrder, FilesAgree, [Next]_vars PROVE FilesAgree'
  OBVIOUS
<1>1. ASSUME UNCHANGED <<rows, files, spoiled, job>>, handler.at # "insert",
             handler'.at # "insert"
      PROVE  FilesAgree'
  <2> SUFFICES ASSUME NEW r \in FileReports PROVE Kept(r)'
    BY DEF FilesAgree
  <2>1. /\ OnItsWay(r)' = OnItsWay(r) /\ Doomed(r)' = Doomed(r)
        /\ (Clearing(r) => Clearing(r)') /\ Kept(r)
    BY <1>1 DEF OnItsWay, Doomed, Clearing, FilesAgree
  <2> QED
    BY <1>1, <2>1, KeptAlone
<1>2. ASSUME UNCHANGED <<rows, files, spoiled, job, handler>> PROVE FilesAgree'
  BY <1>2 DEF FilesAgree, Kept, OnItsWay, Doomed, Clearing
<1>3. ASSUME NEW r \in Reports, Raise(r) \/ ReadEvents(r) PROVE FilesAgree'
  BY <1>2, <1>3 DEF Raise, ReadEvents, storevars
<1>4. CASE LinkEvent \/ LowerFlag \/ UNCHANGED vars
  BY <1>2, <1>4 DEF LinkEvent, LowerFlag, vars, storevars, eventvars
<1>5. CASE TakeItem
  BY <1>1, <1>5 DEF TakeItem, Rest, storevars
<1>6. CASE TellEvent
  BY <1>1, <1>6 DEF TellEvent, Rest, storevars, PathIInv, HandlerOK
<1>7. CASE LoseRecording
  <2>1. handler.at = "next" /\ handler'.at # "insert"
    BY <1>7, LoseRecordingHand DEF PathIInv, HandlerOK, Rest
  <2> QED
    BY <1>1, <1>7, <2>1 DEF LoseRecording, WriteFileFails
<1> QED
  BY <1>3, <1>4, <1>5, <1>6, <1>7, NextEventFiles, StoreEventFiles, MaintainFiles, RebootFiles
     DEF Next, Run, Handle

LEMMA FilesInvariant == Spec => [](PathIInv /\ EventOrder /\ FilesAgree)
<1>1. PathIInv /\ EventOrder /\ FilesAgree /\ [Next]_vars => FilesAgree'
  BY FilesStep
<1> QED
  BY <1>1, FilesInit, OrderInvariant, PTL DEF Spec
-----------------------------------------------------------------------------
\* No file stays without a row, but that of a recording about to be stored, one
\* about to be removed, or one a failure or a restart has left.
THEOREM FilesAreKnown == Spec => []FilesHaveRows
<1>1. FilesAgree => FilesHaveRows
  <2> SUFFICES ASSUME FilesAgree, NEW r \in FileReports, ~Clearing(r)
      PROVE  files[r] \subseteq EntriesOf(rows[r]) \union spoiled
               \union (IF handler.at = "insert" THEN {handler.entry} ELSE {})
               \union (IF job.do = "unlink" THEN job.doomed ELSE {})
    BY DEF FilesHaveRows
  <2>1. files[r] \subseteq EntriesOf(rows[r]) \union spoiled \union OnItsWay(r) \union Doomed(r)
    BY DEF FilesAgree, Kept
  <2> QED
    BY <2>1 DEF OnItsWay, Doomed
<1> QED
  BY <1>1, FilesInvariant, PTL

\* A row has its file, unless a failure or a clearing has taken it.
THEOREM RowsKeepFiles == Spec => []RowsHaveFiles
<1>1. FilesAgree => RowsHaveFiles
  BY DEF FilesAgree, Kept, RowsHaveFiles
<1> QED
  BY <1>1, FilesInvariant, PTL
=============================================================================
