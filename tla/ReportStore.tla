------------------------------ MODULE ReportStore ------------------------------
(***************************************************************************)
(* Tables of reports (dtuArchiveMgr of libdtustorage/dtudbmanager.cpp).  A *)
(* table has rows numbered from 1 by RINDEX, here the rows of a sequence, a*)
(* count CURNO kept in memory and in another table, and, for some reports, *)
(* a file per row.  _lock is held from the insertion of a row to the last  *)
(* file removed, but rows, count and files are changed by steps of their   *)
(* own, each of which may fail unnoticed, with restarts between them.      *)
(***************************************************************************)
EXTENDS Naturals, Sequences

CONSTANTS
  Reports,      \* reports with a table (REPORTID)
  FileReports,  \* those of type ReportTypeFile
  Capacity,     \* MAXCOUNT of a report
  MaxMishaps    \* statements that fail and restarts, together, at most (bound
                \* of the model)

ASSUME ReportAssumption ==
  FileReports \subseteq Reports /\ Capacity \in [Reports -> Nat \ {0}]
ASSUME StoreBounds == MaxMishaps \in Nat

VARIABLES
  rows,      \* rows[r][n]: the row of RINDEX n, its report and its file's name
  curNo,     \* curNo of the report in memory
  savedNo,   \* CURNO in the database
  files,     \* files of a file report on disk
  job,       \* what the holder of _lock has still to do
  torn,      \* history: reports whose rows and count were torn apart
  spoiled,   \* history: files removed, or left, by a failure or a race
  failures,  \* statements that failed
  restarts   \* restarts made

storevars == <<rows, curNo, savedNo, files, job, torn, spoiled, failures,
               restarts>>

\* A row's data: the report, and the number its file was named with.
Entries == [item : Nat, no : Nat]

Free    == [do |-> "nothing"]
Holding(do, r)        == [do |-> do, of |-> r]
Unlinking(r, doomed)  == [do |-> "unlink", of |-> r, doomed |-> doomed]
Adding  == job.do \in {"count", "trim", "unlink"}
Clearing(r) == job.do \in {"zero", "sweep"} /\ job.of = r
Busy(r) == job # Free /\ job.of = r
EntriesOf(s) == {s[n] : n \in DOMAIN s}

StoreTypeOK ==
  /\ rows \in [Reports -> Seq(Entries)]
  /\ {curNo, savedNo} \subseteq [Reports -> Nat]
  /\ \A r \in Reports : curNo[r] <= Capacity[r] /\ savedNo[r] <= Capacity[r]
  /\ files \in [FileReports -> SUBSET Entries]
  /\ \/ job = Free
     \/ \E r \in Reports, do \in {"count", "trim", "zero"} :
          job = Holding(do, r) /\ (do = "count" => curNo[r] < Capacity[r])
     \/ \E r \in FileReports : job = Holding("sweep", r)
     \/ /\ job.do = "unlink" /\ job = Unlinking(job.of, job.doomed)
        /\ job.of \in FileReports /\ job.doomed \subseteq Entries
  /\ torn \subseteq Reports /\ spoiled \subseteq Entries
  /\ failures \in Nat /\ restarts \in Nat /\ failures + restarts <= MaxMishaps

StoreInit ==
  /\ rows = [r \in Reports |-> <<>>]
  /\ curNo = [r \in Reports |-> 0] /\ savedNo = curNo
  /\ files = [r \in FileReports |-> {}]
  /\ job = Free /\ torn = {} /\ spoiled = {}
  /\ failures = 0 /\ restarts = 0
-----------------------------------------------------------------------------
MayFail == failures + restarts < MaxMishaps

\* A statement is carried out, or fails and is rolled back.
Works == UNCHANGED failures
Fails == MayFail /\ failures' = failures + 1

\* form_archives_file: the file is named and written before the row.
WriteFile(r, e) ==
  /\ job = Free
  /\ e.no = curNo[r] + 1
  /\ files' = [files EXCEPT ![r] = @ \union {e}]
  /\ UNCHANGED <<rows, curNo, savedNo, job, torn, spoiled, failures, restarts>>

\* The recording is not complete, or its file cannot be opened: no file, and
\* add_report is not reached.
WriteFileFails ==
  /\ Fails
  /\ UNCHANGED <<rows, curNo, savedNo, files, job, torn, spoiled, restarts>>

\* Mutant: one row more than the limit is counted.
Insert_OneMore(r, e) ==
  /\ job = Free
  /\ Works
  /\ rows' = [rows EXCEPT ![r] = Append(@, e)]
  /\ job' = Holding(IF curNo[r] <= Capacity[r] THEN "count" ELSE "trim", r)
  /\ UNCHANGED <<curNo, savedNo, files, torn, spoiled, restarts>>

\* add_report inserts the row, under the lock.
Insert(r, e) ==
  /\ job = Free
  /\ Works
  /\ rows' = [rows EXCEPT ![r] = Append(@, e)]
  /\ job' = Holding(IF curNo[r] < Capacity[r] THEN "count" ELSE "trim", r)
  /\ UNCHANGED <<curNo, savedNo, files, torn, spoiled, restarts>>

\* The row is refused: the report is lost and its file stays.
InsertFails(r, e) ==
  /\ job = Free
  /\ Fails
  /\ spoiled' = spoiled \union {e}
  /\ UNCHANGED <<rows, curNo, savedNo, files, job, torn, restarts>>

Count ==
  /\ job.do = "count"
  /\ LET r == job.of
     IN  /\ curNo' = [curNo EXCEPT ![r] = @ + 1]
         /\ \/ Works /\ savedNo' = [savedNo EXCEPT ![r] = curNo'[r]]
            \/ Fails /\ UNCHANGED savedNo
  /\ job' = Free
  /\ UNCHANGED <<rows, files, torn, spoiled, restarts>>

Excess(r) == Len(rows[r]) - Capacity[r]
Oldest(r) == IF Len(rows[r]) > Capacity[r] THEN SubSeq(rows[r], 1, Excess(r))
             ELSE <<>>
Newest(r) == SubSeq(rows[r], Len(Oldest(r)) + 1, Len(rows[r]))

\* Mutant: the files to remove are asked for when the rows are gone and the
\* others have their numbers.
Trim_FilesLast ==
  /\ job.do = "trim"
  /\ LET r == job.of
     IN  /\ Works
         /\ rows' = [rows EXCEPT ![r] = Newest(r)]
         /\ torn' = IF Len(rows'[r]) = Capacity[r] THEN torn \ {r} ELSE torn
         /\ job' = IF r \in FileReports /\ Oldest(r) # <<>>
                   THEN Unlinking(r, {rows'[r][1]}) ELSE Free
  /\ UNCHANGED <<curNo, savedNo, files, spoiled, restarts>>

\* Mutant: the rows over the limit are cut off at the end.
Trim_Newest ==
  /\ job.do = "trim"
  /\ LET r == job.of
     IN  /\ Works
         /\ rows' = [rows EXCEPT ![r] = SubSeq(@, 1, Capacity[r])]
         /\ torn' = IF Len(rows'[r]) = Capacity[r] THEN torn \ {r} ELSE torn
         /\ job' = Free
  /\ UNCHANGED <<curNo, savedNo, files, spoiled, restarts>>

\* updatereport: the files of the rows over the limit are listed, then those
\* rows are deleted and the others renumbered. When that is rolled back the
\* files are removed all the same.
Trim ==
  /\ job.do = "trim"
  /\ LET r == job.of
         doomed == EntriesOf(Oldest(r))
     IN  /\ \/ /\ Works
               /\ rows' = [rows EXCEPT ![r] = Newest(r)]
               /\ torn' = IF Len(rows'[r]) = Capacity[r] THEN torn \ {r}
                          ELSE torn
               /\ UNCHANGED spoiled
            \/ /\ Fails
               /\ doomed # {}
               /\ torn' = torn \union {r}
               /\ spoiled' = spoiled \union doomed
               /\ UNCHANGED rows
         /\ job' = IF r \in FileReports /\ doomed # {}
                   THEN Unlinking(r, doomed) ELSE Free
  /\ UNCHANGED <<curNo, savedNo, files, restarts>>

Unlink ==
  /\ job.do = "unlink"
  /\ files' = [files EXCEPT ![job.of] = @ \ job.doomed]
  /\ job' = Free
  /\ UNCHANGED <<rows, curNo, savedNo, torn, spoiled, failures, restarts>>
-----------------------------------------------------------------------------
\* clearReport: rows, count, files; nobody looks at the results.
Clear(r) ==
  /\ job = Free
  /\ \/ Works /\ rows' = [rows EXCEPT ![r] = <<>>] /\ torn' = torn \ {r}
     \/ Fails /\ UNCHANGED rows /\ torn' = torn \union {r}
  /\ job' = Holding("zero", r)
  /\ UNCHANGED <<curNo, savedNo, files, spoiled, restarts>>

\* Mutant: the count in memory is not reset.
Zero_SavedOnly ==
  /\ job.do = "zero"
  /\ LET r == job.of
     IN  /\ Works /\ savedNo' = [savedNo EXCEPT ![r] = 0]
         /\ job' = IF r \in FileReports THEN Holding("sweep", r) ELSE Free
  /\ UNCHANGED <<rows, curNo, files, torn, spoiled, restarts>>

\* Mutant: the files of a cleared report stay.
Zero_KeepsFiles ==
  /\ job.do = "zero"
  /\ Works
  /\ curNo' = [curNo EXCEPT ![job.of] = 0]
  /\ savedNo' = [savedNo EXCEPT ![job.of] = 0]
  /\ job' = Free
  /\ UNCHANGED <<rows, files, torn, spoiled, restarts>>

Zero ==
  /\ job.do = "zero"
  /\ LET r == job.of
     IN  /\ curNo' = [curNo EXCEPT ![r] = 0]
         /\ \/ Works /\ savedNo' = [savedNo EXCEPT ![r] = 0]
            \/ Fails /\ UNCHANGED savedNo
         /\ job' = IF r \in FileReports THEN Holding("sweep", r) ELSE Free
  /\ UNCHANGED <<rows, files, torn, spoiled, restarts>>

\* Every file goes, that of a report whose row is still to come included.
Sweep ==
  /\ job.do = "sweep"
  /\ files' = [files EXCEPT ![job.of] = {}]
  /\ spoiled' = spoiled \union files[job.of]
  /\ job' = Free
  /\ UNCHANGED <<rows, curNo, savedNo, torn, failures, restarts>>
-----------------------------------------------------------------------------
\* A restart at any step: rows, count and files are what was saved.
Restart ==
  /\ MayFail
  /\ restarts' = restarts + 1
  /\ job' = Free
  /\ curNo' = savedNo
  /\ torn' = torn \union {r \in Reports : savedNo[r] # Len(rows[r])}
  /\ spoiled' = spoiled \union UNION {files[r] \ EntriesOf(rows[r])
                                        : r \in FileReports}
  /\ UNCHANGED <<rows, savedNo, files, failures>>

StoreStep == Count \/ Trim \/ Unlink \/ Zero \/ Sweep
-----------------------------------------------------------------------------
Logs == INSTANCE BoundedLogs WITH Tables <- Reports, log <- rows

\* Readers see a bounded log of the reports accepted, in order, whatever fails
\* and wherever the program restarts.
TablesAreLogs == Logs!Spec

\* get_report_no names the newest row, and no table is over its limit, unless
\* a failure or a restart tore rows and count apart; the limit, when reached,
\* or a clearing brings them together again.
NumberNamesNewest ==
  \A r \in Reports \ torn :
    ~Busy(r) => curNo[r] = Len(rows[r])

\* A row has its file until it is over the limit, unless a failure or a
\* clearing of all files came between.
RowsHaveFiles ==
  \A r \in FileReports :
    EntriesOf(rows[r]) \subseteq files[r] \union spoiled
=============================================================================
