---------------------------- MODULE EventPathProofs ----------------------------
(***************************************************************************)
(* Proofs about ReportStore and EventPath, for any reports, capacities and *)
(* bounds.                                                                 *)
(***************************************************************************)
EXTENDS EventPath, TLAPS

\* What the steps of EventPath do to the tables.
StoreMove ==
  \/ StoreStep \/ Restart
  \/ \E r \in Reports : Clear(r)
  \/ \E r \in Reports, e \in Entries : Insert(r, e) \/ InsertFails(r, e)
  \/ \E r \in FileReports, e \in Entries : WriteFile(r, e)
  \/ Fails /\ UNCHANGED <<rows, curNo, savedNo, files, job, torn, spoiled, restarts>>
  \/ UNCHANGED storevars

\* The count follows the rows, step by step of whoever holds the lock; a table
\* torn apart is mended by a removal or a clearing only.
CountsAgree ==
  /\ \A r \in Reports \ torn :
       CASE Busy(r) /\ job.do \in {"count", "trim"} -> Len(rows[r]) = curNo[r] + 1
         [] Busy(r) /\ job.do = "zero"              -> Len(rows[r]) = 0
         [] OTHER                                   -> Len(rows[r]) = curNo[r]
  /\ job.do = "trim" => curNo[job.of] = Capacity[job.of]
-----------------------------------------------------------------------------
LEMMA StoreInitTypes == StoreInit => StoreTypeOK
BY ReportAssumption, StoreBounds DEF StoreInit, StoreTypeOK, Free

\* A statement that fails or works, and the bound of the failures.
LEMMA FailureCount ==
  ASSUME StoreTypeOK, Works \/ Fails, UNCHANGED restarts
  PROVE  failures' \in Nat /\ failures' + restarts' <= MaxMishaps
BY StoreBounds DEF StoreTypeOK, Works, Fails, MayFail

\* The rows over the limit and the rows within it: together they are the rows.
LEMMA NewestRows ==
  ASSUME StoreTypeOK, NEW r \in Reports
  PROVE  /\ Newest(r) \in Seq(Entries) /\ Oldest(r) \in Seq(Entries)
         /\ EntriesOf(Oldest(r)) \subseteq Entries
         /\ Len(rows[r]) <= Capacity[r] => Newest(r) = rows[r] /\ Oldest(r) = <<>>
         /\ Len(rows[r]) > Capacity[r] =>
              /\ Newest(r) = SubSeq(rows[r], Len(rows[r]) - Capacity[r] + 1, Len(rows[r]))
              /\ Len(Newest(r)) = Capacity[r]
              /\ Oldest(r) # <<>>
<1> DEFINE s == rows[r]
           c == Capacity[r]
<1>1. s \in Seq(Entries) /\ c \in Nat \ {0} /\ Len(s) \in Nat
  BY ReportAssumption DEF StoreTypeOK
<1>2. CASE Len(s) <= c
  <2>1. Oldest(r) = <<>>
    BY <1>1, <1>2 DEF Oldest
  <2>2. Newest(r) = SubSeq(s, 1, Len(s))
    BY <2>1 DEF Newest
  <2>3. SubSeq(s, 1, Len(s)) = s
    BY <1>1
  <2> QED
    BY <1>1, <1>2, <2>1, <2>2, <2>3 DEF EntriesOf
<1>3. CASE Len(s) > c
  <2>1. Oldest(r) = SubSeq(s, 1, Len(s) - c)
    BY <1>3 DEF Oldest, Excess
  <2>2. Len(s) - c \in 1..Len(s)
    BY <1>1, <1>3
  <2>3. Oldest(r) \in Seq(Entries) /\ Len(Oldest(r)) = Len(s) - c
    BY <1>1, <2>1, <2>2
  <2>4. Newest(r) = SubSeq(s, Len(s) - c + 1, Len(s))
    BY <2>3 DEF Newest
  <2>5. Newest(r) \in Seq(Entries) /\ Len(Newest(r)) = c
    BY <1>1, <2>2, <2>4
  <2>6. EntriesOf(Oldest(r)) \subseteq Entries
    BY <2>3 DEF EntriesOf
  <2> QED
    BY <1>1, <1>3, <2>2, <2>3, <2>4, <2>5, <2>6
<1> QED
  BY <1>1, <1>2, <1>3

\* Every step on the tables keeps their types.
LEMMA StoreMoveTypes == StoreTypeOK /\ StoreMove => StoreTypeOK'
<1> SUFFICES ASSUME StoreTypeOK, StoreMove PROVE StoreTypeOK'
  OBVIOUS
<1> USE ReportAssumption, StoreBounds
<1> USE DEF StoreTypeOK
<1>1. ASSUME NEW r \in Reports, NEW e \in Entries, Insert(r, e) PROVE StoreTypeOK'
  <2>1. rows' \in [Reports -> Seq(Entries)]
    BY <1>1 DEF Insert
  <2>2. \/ job' = Holding("count", r) /\ curNo[r] < Capacity[r]
        \/ job' = Holding("trim", r)
    BY <1>1 DEF Insert
  <2> QED
    BY <1>1, <2>1, <2>2 DEF Insert, Works, Holding, Free
<1>2. ASSUME NEW r \in Reports, NEW e \in Entries, InsertFails(r, e) PROVE StoreTypeOK'
  <2>1. failures' \in Nat /\ failures' + restarts' <= MaxMishaps
    BY <1>2, FailureCount DEF InsertFails
  <2> QED
    BY <1>2, <2>1 DEF InsertFails, Free
<1>3. ASSUME NEW r \in FileReports, NEW e \in Entries, WriteFile(r, e)
      PROVE  StoreTypeOK'
  <2>1. files' \in [FileReports -> SUBSET Entries]
    BY <1>3 DEF WriteFile
  <2> QED
    BY <1>3, <2>1 DEF WriteFile, Free
<1>4. ASSUME NEW r \in Reports, Clear(r) PROVE StoreTypeOK'
  <2>1. failures' \in Nat /\ failures' + restarts' <= MaxMishaps
    BY <1>4, FailureCount DEF Clear
  <2>2. rows' \in [Reports -> Seq(Entries)]
    <3>1. rows' = rows \/ rows' = [rows EXCEPT ![r] = <<>>]
      BY <1>4 DEF Clear
    <3>2. <<>> \in Seq(Entries)
      OBVIOUS
    <3> QED
      BY <3>1, <3>2
  <2>3. torn' \subseteq Reports
    BY <1>4 DEF Clear
  <2> QED
    BY <1>4, <2>1, <2>2, <2>3 DEF Clear, Holding
<1>5. CASE Count
  <2>1. job.of \in Reports /\ curNo[job.of] < Capacity[job.of]
    BY <1>5 DEF Count, Free, Holding, Unlinking
  <2>2. /\ curNo' \in [Reports -> Nat]
        /\ \A r \in Reports : curNo'[r] <= Capacity[r]
    BY <1>5, <2>1 DEF Count
  <2>3. savedNo' \in [Reports -> Nat]
    BY <1>5, <2>1, <2>2 DEF Count
  <2>4. \A r \in Reports : savedNo'[r] <= Capacity[r]
    BY <1>5, <2>1, <2>2 DEF Count
  <2>5. failures' \in Nat /\ failures' + restarts' <= MaxMishaps
    BY <1>5, FailureCount DEF Count
  <2> QED
    BY <1>5, <2>2, <2>3, <2>4, <2>5 DEF Count, Free
<1>6. CASE Trim
  <2>1. job.of \in Reports
    BY <1>6 DEF Trim, Free, Holding, Unlinking
  <2>2. /\ Newest(job.of) \in Seq(Entries)
        /\ EntriesOf(Oldest(job.of)) \subseteq Entries
    BY <2>1, NewestRows
  <2>3. rows' \in [Reports -> Seq(Entries)] /\ torn' \subseteq Reports
        /\ spoiled' \subseteq Entries
    BY <1>6, <2>1, <2>2 DEF Trim
  <2>4. failures' \in Nat /\ failures' + restarts' <= MaxMishaps
    BY <1>6, FailureCount DEF Trim
  <2>5. job' = Free
          \/ /\ job.of \in FileReports
             /\ job' = Unlinking(job.of, EntriesOf(Oldest(job.of)))
    BY <1>6 DEF Trim
  <2> QED
    BY <1>6, <2>2, <2>3, <2>4, <2>5 DEF Trim, Unlinking, Free
<1>7. CASE Unlink
  <2>1. job.of \in FileReports
    BY <1>7 DEF Unlink, Free, Holding, Unlinking
  <2>2. files' \in [FileReports -> SUBSET Entries]
    BY <1>7, <2>1 DEF Unlink
  <2> QED
    BY <1>7, <2>2 DEF Unlink, Free
<1>8. CASE Zero
  <2>1. job.of \in Reports
    BY <1>8 DEF Zero, Free, Holding, Unlinking
  <2>2. curNo' \in [Reports -> Nat] /\ savedNo' \in [Reports -> Nat]
    <3>1. curNo' = [curNo EXCEPT ![job.of] = 0]
      BY <1>8 DEF Zero
    <3>2. savedNo' = savedNo \/ savedNo' = [savedNo EXCEPT ![job.of] = 0]
      BY <1>8 DEF Zero
    <3>3. curNo \in [Reports -> Nat] /\ savedNo \in [Reports -> Nat]
      OBVIOUS
    <3> HIDE DEF StoreTypeOK
    <3> QED
      BY <2>1, <3>1, <3>2, <3>3
  <2>3. \A r \in Reports : curNo'[r] <= Capacity[r] /\ savedNo'[r] <= Capacity[r]
    BY <1>8, <2>1 DEF Zero
  <2>4. failures' \in Nat /\ failures' + restarts' <= MaxMishaps
    BY <1>8, FailureCount DEF Zero
  <2>5. job' = Free \/ (job.of \in FileReports /\ job' = Holding("sweep", job.of))
    <3>1. job' = IF job.of \in FileReports THEN Holding("sweep", job.of) ELSE Free
      BY <1>8 DEF Zero
    <3> HIDE DEF StoreTypeOK
    <3> QED
      BY <3>1, Zenon
  <2> QED
    BY <1>8, <2>2, <2>3, <2>4, <2>5 DEF Zero, Holding, Free
<1>9. CASE Sweep
  <2>1. job.of \in FileReports
    BY <1>9 DEF Sweep, Free, Holding, Unlinking
  <2>2. files' \in [FileReports -> SUBSET Entries] /\ spoiled' \subseteq Entries
    BY <1>9, <2>1 DEF Sweep
  <2> QED
    BY <1>9, <2>2 DEF Sweep, Free
<1>10. CASE Restart
  <2>1. /\ torn' \subseteq Reports /\ spoiled' \subseteq Entries
        /\ curNo' = savedNo /\ savedNo' = savedNo
    BY <1>10 DEF Restart
  <2>2. restarts' \in Nat /\ failures' + restarts' <= MaxMishaps
    BY <1>10 DEF Restart, MayFail
  <2> QED
    BY <1>10, <2>1, <2>2 DEF Restart
<1>11. CASE Fails /\ UNCHANGED <<rows, curNo, savedNo, files, job, torn, spoiled, restarts>>
  <2>1. failures' \in Nat /\ failures' + restarts' <= MaxMishaps
    BY <1>11, FailureCount
  <2> QED
    BY <1>11, <2>1
<1>12. CASE UNCHANGED storevars
  BY <1>12 DEF storevars
<1> QED
  BY <1>1, <1>2, <1>3, <1>4, <1>5, <1>6, <1>7, <1>8, <1>9, <1>10, <1>11, <1>12
     DEF StoreMove, StoreStep

\* Every step on the tables keeps rows and count together, or marks the table.
LEMMA StoreMoveAgrees == StoreTypeOK /\ CountsAgree /\ StoreMove => CountsAgree'
<1> SUFFICES ASSUME StoreTypeOK, CountsAgree, StoreMove PROVE CountsAgree'
  OBVIOUS
<1> USE ReportAssumption
<1> USE DEF StoreTypeOK, CountsAgree, Busy
<1>1. ASSUME NEW r \in Reports, NEW e \in Entries, Insert(r, e) PROVE CountsAgree'
  <2>1. rows' = [rows EXCEPT ![r] = Append(rows[r], e)] /\ rows[r] \in Seq(Entries)
    BY <1>1 DEF Insert
  <2>2. Len(rows'[r]) = Len(rows[r]) + 1
    BY <2>1
  <2>3. \/ job' = Holding("count", r)
        \/ job' = Holding("trim", r) /\ curNo[r] = Capacity[r]
    BY <1>1 DEF Insert
  <2> QED
    BY <1>1, <2>1, <2>2, <2>3 DEF Insert, Holding, Free
<1>2. ASSUME NEW r \in Reports, NEW e \in Entries, InsertFails(r, e)
      PROVE  CountsAgree'
  BY <1>2 DEF InsertFails
<1>3. ASSUME NEW r \in FileReports, NEW e \in Entries, WriteFile(r, e)
      PROVE  CountsAgree'
  BY <1>3 DEF WriteFile
<1>4. ASSUME NEW r \in Reports, Clear(r) PROVE CountsAgree'
  <2>1. job' = Holding("zero", r) /\ job = Free /\ curNo' = curNo
    BY <1>4 DEF Clear
  <2>2. CASE rows' = [rows EXCEPT ![r] = <<>>] /\ torn' = torn \ {r}
    BY <2>1, <2>2 DEF Holding, Free
  <2>3. CASE rows' = rows /\ torn' = torn \union {r}
    BY <2>1, <2>3 DEF Holding, Free
  <2> QED
    BY <1>4, <2>2, <2>3 DEF Clear
<1>5. CASE Count
  <2>1. job.of \in Reports
    BY <1>5 DEF Count, Free, Holding, Unlinking
  <2> QED
    BY <1>5, <2>1 DEF Count, Free
<1>6. CASE Trim
  <2>1. job.of \in Reports
    BY <1>6 DEF Trim, Free, Holding, Unlinking
  <2> DEFINE r == job.of
  <2>2. /\ curNo' = curNo /\ curNo[r] = Capacity[r] /\ Busy(r)
        /\ \/ job' = Free
           \/ job' = Unlinking(r, EntriesOf(Oldest(r)))
    BY <1>6 DEF Trim, Free
  <2>3. ASSUME NEW q \in Reports \ {r} PROVE rows'[q] = rows[q] /\ (q \in torn' <=> q \in torn)
    BY <1>6, <2>3 DEF Trim
  <2>4. r \notin torn' => Len(rows'[r]) = Capacity[r]
    <3>1. CASE /\ rows' = [rows EXCEPT ![r] = Newest(r)]
               /\ torn' = IF Len(rows'[r]) = Capacity[r] THEN torn \ {r} ELSE torn
      <4>1. r \notin torn => Len(rows[r]) = Capacity[r] + 1
        BY <1>6, <2>1, <2>2 DEF Trim
      <4>2. r \notin torn => Len(rows[r]) > Capacity[r]
        BY <2>1, <4>1
      <4>3. r \notin torn => Len(Newest(r)) = Capacity[r]
        <5> HIDE DEF StoreTypeOK, CountsAgree, Busy
        <5> QED
          BY <2>1, <4>2, NewestRows
      <4> QED
        BY <2>1, <3>1, <4>3
    <3>2. CASE r \in torn'
      BY <3>2
    <3> QED
      BY <1>6, <3>1, <3>2 DEF Trim
  <2>5. job'.do \notin {"count", "trim", "zero"}
    BY <2>2 DEF Unlinking, Free
  <2>6. ASSUME NEW q \in Reports \ torn' PROVE Len(rows'[q]) = curNo'[q]
    <3>1. CASE q = r
      BY <2>2, <2>4, <2>6, <3>1
    <3>2. CASE q # r
      BY <2>2, <2>3, <2>6, <3>2
    <3> QED
      BY <3>1, <3>2
  <2> QED
    BY <2>5, <2>6
<1>7. CASE Unlink
  BY <1>7 DEF Unlink, Free
<1>8. CASE Zero
  <2>1. job.of \in Reports
    BY <1>8 DEF Zero, Free, Holding, Unlinking
  <2> QED
    BY <1>8, <2>1 DEF Zero, Free, Holding
<1>9. CASE Sweep
  BY <1>9 DEF Sweep, Free
<1>10. CASE Restart
  BY <1>10 DEF Restart, Free
<1>11. CASE UNCHANGED <<rows, curNo, job, torn>>
  BY <1>11
<1> QED
  BY <1>1, <1>2, <1>3, <1>4, <1>5, <1>6, <1>7, <1>8, <1>9, <1>10, <1>11
     DEF StoreMove, StoreStep, storevars

\* Every step on the tables is one of a log, or none.
LEMMA StoreMoveLogs == StoreTypeOK /\ StoreMove => [Logs!Next]_rows
<1> SUFFICES ASSUME StoreTypeOK, StoreMove PROVE [Logs!Next]_rows
  OBVIOUS
<1> USE ReportAssumption
<1> USE DEF StoreTypeOK, Logs!Becomes
<1>1. ASSUME NEW r \in Reports, NEW e \in Entries, Insert(r, e) PROVE Logs!Next
  <2>1. rows' = [rows EXCEPT ![r] = Append(rows[r], e)] /\ rows[r] \in Seq(Entries)
    BY <1>1 DEF Insert
  <2>2. rows'[r] = Append(rows[r], e)
    BY <2>1
  <2>3. rows'[r] # <<>> /\ rows'[r][Len(rows'[r])] = e
    BY <2>1, <2>2
  <2>4. Logs!Add(r)
    BY <2>1, <2>3 DEF Logs!Add
  <2> QED
    BY <2>4 DEF Logs!Next
<1>2. ASSUME NEW r \in Reports, Clear(r) PROVE Logs!Next \/ rows' = rows
  BY <1>2 DEF Clear, Logs!Next, Logs!Clear
<1>3. CASE Trim
  <2>1. job.of \in Reports
    BY <1>3 DEF Trim, Free, Holding, Unlinking
  <2>2. rows' = rows \/ rows' = [rows EXCEPT ![job.of] = Newest(job.of)]
    BY <1>3 DEF Trim
  <2>3. CASE rows' = [rows EXCEPT ![job.of] = Newest(job.of)]
             /\ Len(rows[job.of]) > Capacity[job.of]
    <3>1. Logs!DropOldest(job.of)
      BY <2>1, <2>3, NewestRows DEF Logs!DropOldest
    <3> QED
      BY <2>1, <3>1 DEF Logs!Next
  <2>4. CASE rows' = [rows EXCEPT ![job.of] = Newest(job.of)]
             /\ ~(Len(rows[job.of]) > Capacity[job.of])
    <3>1. Newest(job.of) = rows[job.of]
      <4>1. Len(rows[job.of]) \in Nat /\ Capacity[job.of] \in Nat
        BY <2>1
      <4>2. Len(rows[job.of]) <= Capacity[job.of]
        BY <2>4, <4>1
      <4> HIDE DEF StoreTypeOK
      <4> QED
        BY <2>1, <4>2, NewestRows
    <3> QED
      BY <2>1, <2>4, <3>1
  <2> QED
    BY <2>2, <2>3, <2>4
<1>4. CASE Count \/ Unlink \/ Zero \/ Sweep \/ Restart \/ UNCHANGED rows
  BY <1>4 DEF Count, Unlink, Zero, Sweep, Restart
<1> QED
  BY <1>1, <1>2, <1>3, <1>4
     DEF StoreMove, StoreStep, storevars, InsertFails, WriteFile
-----------------------------------------------------------------------------
\* What dsp_handle has in hand is an event; an item of the queue has some.
Items == Reports \X (Seq(1..raised) \ {<<>>})

HandlerOK ==
  /\ handler \in [at : {"idle", "insert", "tell", "next"}, kind : Reports,
                  batch : Seq(1..raised), entry : Entries]
  /\ handler.at = "next" => handler.batch # <<>>
  /\ handler.at \in {"insert", "tell"} => handler.entry.item \in 1..raised
  /\ Adding => handler.at = "tell"

QueuesOK ==
  /\ raised \in 0..MaxEvents /\ byLink \subseteq 1..raised
  /\ dspHas \in [Reports -> Seq(1..raised)] /\ flag \in [Reports -> BOOLEAN]
  /\ reading \in {Idle} \union {<<r>> : r \in Reports}
  /\ equeue \in Seq(Items)

\* What is stored is known of what is told and of what is about to be.
Vouched(n) == n \in stored \/ \E e \in spoiled : e.item = n

HistoryOK ==
  /\ told \subseteq 1..raised /\ stored \subseteq 1..raised
  /\ dropped \subseteq 1..raised
  /\ \A n \in told : Vouched(n)
  /\ handler.at = "tell" => Vouched(handler.entry.item)

PathIInv == StoreTypeOK /\ CountsAgree /\ HandlerOK /\ QueuesOK /\ HistoryOK
-----------------------------------------------------------------------------
LEMMA SeqMonotone ==
  ASSUME NEW S, NEW T, S \subseteq T, NEW s \in Seq(S) PROVE s \in Seq(T)
OBVIOUS

LEMMA HeadAndTail ==
  ASSUME NEW S, NEW s \in Seq(S), s # <<>> PROVE Head(s) \in S /\ Tail(s) \in Seq(S)
OBVIOUS

\* An item put into a queue of items.
LEMMA AppendTyped ==
  ASSUME NEW S, NEW s \in Seq(S), NEW e \in S PROVE Append(s, e) \in Seq(S)
OBVIOUS

\* More events make no sequence of events less of one.
LEMMA MoreEvents ==
  ASSUME raised \in Nat, raised' = raised + 1
  PROVE  /\ 1..raised \subseteq 1..raised' /\ raised' \in 1..raised'
         /\ Seq(1..raised) \subseteq Seq(1..raised')
         /\ Seq(Items) \subseteq Seq(Items')
<1>1. 1..raised \subseteq 1..raised' /\ raised' \in 1..raised'
  OBVIOUS
<1>2. Seq(1..raised) \subseteq Seq(1..raised')
  BY <1>1, SeqMonotone
<1>3. Items \subseteq Items'
  BY <1>2 DEF Items
<1>4. Seq(Items) \subseteq Seq(Items')
  BY <1>3, SeqMonotone
<1> QED
  BY <1>1, <1>2, <1>4

\* A step of the whole path is one on the tables.
LEMMA PathSteps == StoreTypeOK /\ HandlerOK /\ [Next]_vars => StoreMove
<1> SUFFICES ASSUME StoreTypeOK, HandlerOK, [Next]_vars PROVE StoreMove
  OBVIOUS
<1> USE DEF StoreMove
<1>1. ASSUME NEW r \in Reports, Raise(r) \/ ReadEvents(r) PROVE StoreMove
  <2>1. CASE Raise(r)
    BY <2>1 DEF Raise
  <2>2. CASE ReadEvents(r)
    <3>1. Works \/ Fails
      BY <2>2 DEF ReadEvents
    <3> QED
      BY <2>2, <3>1 DEF ReadEvents, Works, storevars
  <2> QED
    BY <1>1, <2>1, <2>2
<1>2. CASE LinkEvent \/ LowerFlag \/ TakeItem \/ TellEvent
  BY <1>2 DEF LinkEvent, LowerFlag, TakeItem, TellEvent
<1>3. CASE NextEvent
  <2>1. CASE UNCHANGED storevars
    BY <2>1
  <2>2. CASE handler.kind \in FileReports
    <3> DEFINE file == [item |-> Head(handler.batch), no |-> curNo[handler.kind] + 1]
    <3>1. WriteFile(handler.kind, file)
      BY <1>3, <2>2 DEF NextEvent
    <3>2. handler.kind \in Reports /\ Head(handler.batch) \in 1..raised
      <4>1. handler.at = "next" /\ handler.kind \in Reports
        BY <1>3 DEF NextEvent, HandlerOK
      <4>2. handler.batch \in Seq(1..raised) /\ handler.batch # <<>>
        BY <4>1 DEF HandlerOK
      <4> QED
        BY <4>1, <4>2, HeadAndTail
    <3>3. curNo[handler.kind] \in Nat
      BY <3>2 DEF StoreTypeOK
    <3>4. file \in Entries
      BY <3>2, <3>3 DEF Entries
    <3> QED
      BY <2>2, <3>1, <3>4
  <2> QED
    BY <1>3, <2>1, <2>2 DEF NextEvent
<1>4. CASE StoreEvent
  <2>1. handler.kind \in Reports /\ handler.entry \in Entries
    BY DEF HandlerOK
  <2> QED
    BY <1>4, <2>1 DEF StoreEvent
<1>5. CASE Maintain
  BY <1>5 DEF Maintain
<1>6. CASE Reboot
  BY <1>6 DEF Reboot
<1>7. CASE UNCHANGED vars
  BY <1>7 DEF vars
<1>8. CASE LoseRecording
  BY <1>8 DEF LoseRecording, WriteFileFails
<1> QED
  BY <1>1, <1>2, <1>3, <1>4, <1>5, <1>6, <1>7, <1>8 DEF Next, Run, Handle

\* The recording LoseRecording takes from the item in hand.
LEMMA LoseRecordingHand ==
  ASSUME StoreTypeOK, HandlerOK, LoseRecording
  PROVE  /\ handler.at = "next" /\ handler.batch # <<>>
         /\ handler.batch \in Seq(1..raised)
         /\ \/ handler' = Rest /\ Tail(handler.batch) = <<>>
            \/ /\ handler' = [handler EXCEPT !.batch = Tail(handler.batch)]
               /\ Tail(handler.batch) # <<>>
         /\ UNCHANGED <<rows, curNo, savedNo, files, job, torn, spoiled, restarts>>
<1>1. /\ handler.at = "next" /\ handler.batch # <<>>
      /\ handler.batch \in Seq(1..raised)
  BY DEF LoseRecording, HandlerOK
<1> QED
  BY <1>1 DEF LoseRecording, WriteFileFails

LEMMA PathInit == Init => PathIInv
<1> SUFFICES ASSUME Init PROVE PathIInv
  OBVIOUS
<1>1. StoreTypeOK
  BY StoreInitTypes DEF Init
<1>2. CountsAgree
  BY DEF Init, StoreInit, CountsAgree, Busy, Free
<1>3. HandlerOK
  BY EventAssumption DEF Init, StoreInit, HandlerOK, Rest, Entries, Adding, Free
<1>4. QueuesOK
  BY EventAssumption DEF Init, QueuesOK
<1>5. HistoryOK
  BY DEF Init, HistoryOK, Rest
<1> QED
  BY <1>1, <1>2, <1>3, <1>4, <1>5 DEF PathIInv

\* The queues keep their types.
LEMMA PathStepQueues == PathIInv /\ [Next]_vars => QueuesOK'
<1> SUFFICES ASSUME PathIInv, [Next]_vars PROVE QueuesOK'
  OBVIOUS
<1> USE EventAssumption
<1> USE DEF PathIInv, QueuesOK
<1>1. ASSUME NEW r \in Reports, Raise(r) PROVE QueuesOK'
  <2>1. raised' = raised + 1 /\ raised \in Nat /\ raised' \in 0..MaxEvents
    BY <1>1 DEF Raise
  <2>2. dspHas' \in [Reports -> Seq(1..raised')]
    <3>1. \A q \in Reports : dspHas[q] \in Seq(1..raised')
      BY <2>1, MoreEvents
    <3>2. Append(dspHas[r], raised') \in Seq(1..raised')
      BY <2>1, <3>1, MoreEvents
    <3> QED
      BY <1>1, <3>1, <3>2 DEF Raise
  <2>3. equeue' \in Seq(Items')
    BY <1>1, <2>1, MoreEvents DEF Raise
  <2>4. byLink' \subseteq 1..raised'
    BY <1>1, <2>1, MoreEvents DEF Raise
  <2> QED
    BY <1>1, <2>1, <2>2, <2>3, <2>4 DEF Raise
<1>2. CASE LinkEvent
  <2>1. raised' = raised + 1 /\ raised \in Nat /\ raised' \in 0..MaxEvents
    BY <1>2 DEF LinkEvent
  <2>2. dspHas' \in [Reports -> Seq(1..raised')]
    BY <1>2, <2>1, MoreEvents DEF LinkEvent
  <2>3. equeue' \in Seq(Items')
    <3>1. <<raised'>> \in Seq(1..raised') \ {<<>>}
      BY <2>1, MoreEvents
    <3>2. <<Soe, <<raised'>>>> \in Items'
      BY <3>1 DEF Items
    <3>3. equeue \in Seq(Items')
      BY <2>1, MoreEvents
    <3> QED
      BY <1>2, <3>2, <3>3 DEF LinkEvent
  <2>4. byLink' \subseteq 1..raised'
    BY <1>2, <2>1, MoreEvents DEF LinkEvent
  <2> QED
    BY <1>2, <2>1, <2>2, <2>3, <2>4 DEF LinkEvent
<1>3. ASSUME NEW r \in Reports, ReadEvents(r) PROVE QueuesOK'
  <2>1. raised' = raised /\ byLink' = byLink /\ flag' = flag /\ reading' = <<r>>
    BY <1>3 DEF ReadEvents
  <2>2. dspHas' \in [Reports -> Seq(1..raised)]
    <3>1. dspHas' = dspHas \/ dspHas' = [dspHas EXCEPT ![r] = <<>>]
      BY <1>3 DEF ReadEvents
    <3>2. <<>> \in Seq(1..raised)
      OBVIOUS
    <3> QED
      BY <3>1, <3>2
  <2>3. \/ equeue' = equeue
        \/ dspHas[r] # <<>> /\ equeue' = Append(equeue, <<r, dspHas[r]>>)
    BY <1>3 DEF ReadEvents
  <2>4. equeue' \in Seq(Items)
    <3>1. dspHas[r] # <<>> => <<r, dspHas[r]>> \in Items
      BY DEF Items
    <3>2. equeue \in Seq(Items)
      OBVIOUS
    <3> HIDE DEF PathIInv, QueuesOK
    <3> QED
      BY <2>3, <3>1, <3>2, AppendTyped
  <2>5. Items' = Items
    BY <2>1 DEF Items
  <2> QED
    BY <2>1, <2>2, <2>4, <2>5
<1>4. CASE LowerFlag
  BY <1>4 DEF LowerFlag, Items
<1>5. CASE TakeItem
  <2>1. equeue' \in Seq(Items)
    BY <1>5 DEF TakeItem
  <2> QED
    BY <1>5, <2>1 DEF TakeItem, Items
<1>6. CASE Reboot
  BY <1>6 DEF Reboot, Items, Idle
<1>7. CASE UNCHANGED <<raised, byLink, dspHas, flag, reading, equeue>>
  BY <1>7 DEF Items
<1> QED
  BY <1>1, <1>2, <1>3, <1>4, <1>5, <1>6, <1>7
     DEF Next, Run, Handle, NextEvent, LoseRecording, StoreEvent, TellEvent, Maintain,
         vars, eventvars

\* What dsp_handle has in hand keeps its type.
LEMMA PathStepHandler == PathIInv /\ [Next]_vars => HandlerOK'
<1> SUFFICES ASSUME PathIInv, [Next]_vars PROVE HandlerOK'
  OBVIOUS
<1> USE DEF PathIInv, HandlerOK, Adding
<1>1. ASSUME UNCHANGED <<handler, job>>, raised' = raised \/ raised' = raised + 1
      PROVE  HandlerOK'
  <2>1. raised \in Nat
    BY DEF QueuesOK
  <2>2. 1..raised \subseteq 1..raised' /\ Seq(1..raised) \subseteq Seq(1..raised')
    BY <1>1, <2>1, MoreEvents
  <2>3. handler \in [at : {"idle", "insert", "tell", "next"}, kind : Reports,
                     batch : Seq(1..raised'), entry : Entries]
    BY <2>2
  <2> QED
    BY <1>1, <2>2, <2>3
<1>2. ASSUME NEW r \in Reports, Raise(r) \/ ReadEvents(r) PROVE HandlerOK'
  BY <1>1, <1>2 DEF Raise, ReadEvents, storevars
<1>3. CASE LinkEvent \/ LowerFlag \/ UNCHANGED vars
  BY <1>1, <1>3 DEF LinkEvent, LowerFlag, vars, storevars, eventvars
<1>4. CASE TakeItem
  <2>1. Head(equeue) \in Items
    BY <1>4 DEF TakeItem, QueuesOK
  <2>2. Head(equeue)[1] \in Reports /\ Head(equeue)[2] \in Seq(1..raised) \ {<<>>}
    BY <2>1 DEF Items
  <2>3. handler' = [at |-> "next", kind |-> Head(equeue)[1],
                    batch |-> Head(equeue)[2], entry |-> Rest.entry]
    BY <1>4 DEF TakeItem, Rest
  <2>4. Rest.entry \in Entries
    BY DEF Rest, Entries
  <2>5. raised' = raised /\ job' = job
    BY <1>4 DEF TakeItem, storevars
  <2> QED
    BY <1>4, <2>2, <2>3, <2>4, <2>5 DEF TakeItem
<1>5. CASE NextEvent
  <2>1. handler.at = "next" /\ raised' = raised /\ ~Adding'
    BY <1>5 DEF NextEvent, WriteFile, storevars
  <2>2. /\ handler.batch \in Seq(1..raised) /\ handler.batch # <<>>
        /\ handler.kind \in Reports /\ curNo[handler.kind] \in Nat
    BY <2>1 DEF StoreTypeOK
  <2>3. Head(handler.batch) \in 1..raised /\ Tail(handler.batch) \in Seq(1..raised)
    BY <2>2, HeadAndTail
  <2>4. PICK n \in Nat :
          handler' = [handler EXCEPT !.at = "insert", !.batch = Tail(@),
                        !.entry = [item |-> Head(handler.batch), no |-> n]]
    <3>1. CASE handler.kind \in FileReports
      <4>1. curNo[handler.kind] + 1 \in Nat
        BY <2>2
      <4> QED
        BY <1>5, <3>1, <4>1 DEF NextEvent
    <3>2. CASE handler.kind \notin FileReports
      BY <1>5, <3>2 DEF NextEvent
    <3> QED
      BY <3>1, <3>2
  <2>5. [item |-> Head(handler.batch), no |-> n] \in Entries
    BY <2>3 DEF Entries
  <2> QED
    BY <2>1, <2>3, <2>4, <2>5
<1>6. CASE StoreEvent
  <2>1. /\ handler.at = "insert" /\ raised' = raised
        /\ handler' = [handler EXCEPT !.at = "tell"]
    BY <1>6 DEF StoreEvent
  <2> QED
    BY <2>1
<1>7. CASE TellEvent
  <2>1. raised' = raised /\ job' = job /\ ~Adding
    BY <1>7 DEF TellEvent, storevars
  <2>2. \/ handler' = Rest
        \/ handler.batch # <<>> /\ handler' = [handler EXCEPT !.at = "next"]
    BY <1>7 DEF TellEvent
  <2>3. Rest \in [at : {"idle", "insert", "tell", "next"}, kind : Reports,
                  batch : Seq(1..raised), entry : Entries]
    BY EventAssumption DEF Rest, Entries
  <2> QED
    BY <2>1, <2>2, <2>3 DEF Rest
<1>8. CASE Maintain
  <2>1. Adding' => Adding
    <3>1. CASE StoreStep
      BY <3>1 DEF StoreStep, Count, Trim, Unlink, Zero, Sweep, Free, Holding, Unlinking
    <3>2. ASSUME NEW r \in Reports, Clear(r) PROVE ~Adding'
      BY <3>2 DEF Clear, Holding
    <3> QED
      BY <1>8, <3>1, <3>2 DEF Maintain
  <2> QED
    BY <1>8, <2>1 DEF Maintain, eventvars
<1>9. CASE Reboot
  <2>1. handler' = Rest /\ job' = Free /\ raised' = raised
    BY <1>9 DEF Reboot, Restart
  <2>2. Rest \in [at : {"idle", "insert", "tell", "next"}, kind : Reports,
                  batch : Seq(1..raised), entry : Entries]
    BY EventAssumption DEF Rest, Entries
  <2> QED
    BY <2>1, <2>2 DEF Rest, Free
<1>10. CASE LoseRecording
  <2>1. /\ handler.at = "next" /\ raised' = raised /\ job' = job
        /\ \/ handler' = Rest
           \/ /\ handler' = [handler EXCEPT !.batch = Tail(handler.batch)]
              /\ Tail(handler.batch) # <<>> /\ Tail(handler.batch) \in Seq(1..raised)
    BY <1>10, LoseRecordingHand, HeadAndTail DEF LoseRecording
  <2>2. Rest \in [at : {"idle", "insert", "tell", "next"}, kind : Reports,
                  batch : Seq(1..raised), entry : Entries]
    BY EventAssumption DEF Rest, Entries
  <2> QED
    BY <2>1, <2>2 DEF Rest
<1> QED
  BY <1>2, <1>3, <1>4, <1>5, <1>6, <1>7, <1>8, <1>9, <1>10 DEF Next, Run, Handle

\* Nothing takes an event out of the stored or the spoiled, and nothing is told
\* that StoreEvent has not put there.
LEMMA PathStepHistory == PathIInv /\ [Next]_vars => HistoryOK'
<1> SUFFICES ASSUME PathIInv, [Next]_vars PROVE HistoryOK'
  OBVIOUS
<1>1. raised \in Nat /\ (raised' = raised \/ raised' = raised + 1)
  BY DEF PathIInv, QueuesOK, Next, Raise, LinkEvent, Run, ReadEvents, LowerFlag,
         Handle, TakeItem, NextEvent, LoseRecording, StoreEvent, TellEvent, Maintain,
         Reboot, vars, eventvars
<1>2. 1..raised \subseteq 1..raised'
  BY <1>1, MoreEvents
<1>3. spoiled \subseteq spoiled'
  <2>1. StoreMove
    BY PathSteps DEF PathIInv
  <2> QED
    BY <2>1 DEF StoreMove, StoreStep, Count, Trim, Unlink, Zero, Sweep, Restart,
                Clear, Insert, InsertFails, WriteFile, storevars
<1>4. stored \subseteq stored'
  BY DEF Next, Raise, LinkEvent, Run, ReadEvents, LowerFlag, Handle, TakeItem,
         NextEvent, LoseRecording, StoreEvent, TellEvent, Maintain, Reboot, vars,
         eventvars
<1>5. \A n : Vouched(n) => Vouched(n)'
  BY <1>3, <1>4 DEF Vouched
<1>6. CASE StoreEvent
  <2>1. /\ handler.at = "insert" /\ told' = told /\ raised' = raised /\ dropped' = dropped
        /\ handler'.entry = handler.entry
    BY <1>6 DEF StoreEvent, PathIInv, HandlerOK
  <2>2. handler.entry.item \in 1..raised
    BY <2>1 DEF PathIInv, HandlerOK
  <2>3. handler.entry.item \in stored' \/ handler.entry \in spoiled'
    BY <1>6 DEF StoreEvent, InsertFails
  <2>4. stored' \subseteq 1..raised
    BY <1>6, <2>2 DEF StoreEvent, PathIInv, HistoryOK
  <2>5. Vouched(handler.entry.item)'
    BY <2>1, <2>3 DEF Vouched
  <2> QED
    BY <1>5, <2>1, <2>4, <2>5 DEF HistoryOK, PathIInv
<1>7. CASE TellEvent
  <2>1. /\ handler.at = "tell" /\ told' = told \union {handler.entry.item}
        /\ stored' = stored /\ raised' = raised /\ dropped' = dropped
    BY <1>7 DEF TellEvent
  <2>2. handler.entry.item \in 1..raised /\ handler'.at # "tell"
    BY <1>7, <2>1 DEF TellEvent, PathIInv, HandlerOK, Rest
  <2> QED
    BY <1>5, <2>1, <2>2 DEF HistoryOK, PathIInv
<1>8. ASSUME told' = told, stored' = stored, dropped' \subseteq 1..raised,
             handler' = handler \/ handler'.at # "tell"
      PROVE  HistoryOK'
  BY <1>2, <1>5, <1>8 DEF HistoryOK, PathIInv
<1>9. CASE TakeItem \/ NextEvent \/ LoseRecording \/ Reboot
  <2>0. dropped \subseteq 1..raised
    BY DEF PathIInv, HistoryOK
  <2>1. CASE TakeItem
    BY <1>8, <2>0, <2>1 DEF TakeItem, Rest
  <2>2. CASE NextEvent
    <3>1. handler'.at = "insert"
      BY <2>2 DEF NextEvent, PathIInv, HandlerOK
    <3> QED
      BY <1>8, <2>0, <2>2, <3>1 DEF NextEvent
  <2>3. CASE Reboot
    BY <1>8, <2>0, <2>3 DEF Reboot, Rest
  <2>4. CASE LoseRecording
    <3>1. Head(handler.batch) \in 1..raised
      BY <2>4, LoseRecordingHand, HeadAndTail DEF PathIInv
    <3>2. handler'.at # "tell"
      BY <2>4, LoseRecordingHand DEF PathIInv, HandlerOK, Rest
    <3> QED
      BY <1>8, <2>0, <2>4, <3>1, <3>2 DEF LoseRecording
  <2> QED
    BY <1>9, <2>1, <2>2, <2>3, <2>4
<1>10. CASE UNCHANGED <<told, stored, dropped, handler>>
  BY <1>8, <1>10 DEF PathIInv, HistoryOK
<1> QED
  BY <1>6, <1>7, <1>9, <1>10
     DEF Next, Raise, LinkEvent, Run, ReadEvents, LowerFlag, Handle, Maintain,
         vars, eventvars

LEMMA PathInvariant == Spec => []PathIInv
<1>1. PathIInv /\ [Next]_vars => PathIInv'
  <2> SUFFICES ASSUME PathIInv, [Next]_vars PROVE PathIInv'
    OBVIOUS
  <2>1. StoreMove
    BY PathSteps DEF PathIInv
  <2>2. StoreTypeOK' /\ CountsAgree'
    BY <2>1, StoreMoveTypes, StoreMoveAgrees DEF PathIInv
  <2> QED
    BY <2>2, PathStepHandler, PathStepQueues, PathStepHistory DEF PathIInv
<1> QED
  BY <1>1, PathInit, PTL DEF Spec
-----------------------------------------------------------------------------
\* The tables, the queues and the threads keep their types.
THEOREM PathTypeCorrect == Spec => []TypeOK
<1>1. PathIInv => TypeOK
  <2> SUFFICES ASSUME PathIInv PROVE TypeOK
    OBVIOUS
  <2>1. StoreTypeOK
    BY DEF PathIInv
  <2>2. equeue \in Seq(Reports \X Seq(1..raised))
    <3>1. Items \subseteq Reports \X Seq(1..raised) /\ equeue \in Seq(Items)
      BY DEF Items, PathIInv, QueuesOK
    <3> QED
      BY <3>1, SeqMonotone
  <2>3. raised \in 0..MaxEvents /\ byLink \subseteq 1..raised
        /\ dspHas \in [Reports -> Seq(1..raised)] /\ flag \in [Reports -> BOOLEAN]
        /\ reading \in {Idle} \union {<<r>> : r \in Reports}
    BY DEF PathIInv, QueuesOK
  <2>4. /\ handler.at \in {"idle", "insert", "tell", "next"}
        /\ handler.kind \in Reports /\ handler.batch \in Seq(1..raised)
        /\ handler.at = "next" => handler.batch # <<>>
        /\ handler.entry \in Entries
        /\ Adding => handler.at = "tell"
    BY DEF PathIInv, HandlerOK
  <2>5. told \subseteq 1..raised /\ stored \subseteq 1..raised /\ dropped \subseteq 1..raised
    BY DEF PathIInv, HistoryOK
  <2> QED
    BY <2>1, <2>2, <2>3, <2>4, <2>5 DEF TypeOK
<1> QED
  BY <1>1, PathInvariant, PTL

\* The number of the newest report names the newest row, unless a failure or a
\* restart tore them apart.
THEOREM NumberIsRight == Spec => []NumberNamesNewest
<1>1. PathIInv => NumberNamesNewest
  BY DEF PathIInv, CountsAgree, NumberNamesNewest
<1> QED
  BY <1>1, PathInvariant, PTL

\* Masters and tools are told what was stored, or what the database refused.
THEOREM ToldCanBeRead == Spec => []ToldIsStored
<1>1. PathIInv => ToldIsStored
  BY DEF PathIInv, HistoryOK, Vouched, ToldIsStored
<1> QED
  BY <1>1, PathInvariant, PTL

\* The tables of reports are bounded logs, whatever fails and wherever the
\* program restarts: ReportStore, driven by EventPath, implements BoundedLogs.
THEOREM StoreKeepsLogs == Spec => TablesAreLogs
<1>1. Init => Logs!Init
  BY DEF Init, StoreInit, Logs!Init
<1>2. PathIInv /\ [Next]_vars => [Logs!Next]_rows
  BY PathSteps, StoreMoveLogs DEF PathIInv
<1> QED
  BY <1>1, <1>2, PathInvariant, PTL DEF Spec, TablesAreLogs, Logs!Spec
=============================================================================
