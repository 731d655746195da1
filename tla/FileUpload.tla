------------------------------- MODULE FileUpload -------------------------------
(***************************************************************************)
(* Files that masters send to the terminal (writeFileActive and writeFile- *)
(* Content of libdturuleskit/dturulehandle.cpp).  A transfer is announced  *)
(* under an identity the master chooses, its pieces fill a buffer of the   *)
(* announced size, and the last piece saves the buffer, whatever it holds. *)
(* The public unit then takes its part of a GOOSE configuration and hands  *)
(* the bay units theirs, all under _write_lock.  Masters send piece after  *)
(* piece and do not wait for answers, so a piece refused is a gap.         *)
(***************************************************************************)
EXTENDS Naturals, Sequences

CONSTANTS
  Masters,
  Ids,         \* fileID of a transfer
  Names,       \* names of files
  Goose,       \* GooseConfigPlus.xml
  Units,       \* the public unit and the bay units in use
  Public,      \* the public unit, which runs this program
  Part,        \* the piece of Goose a unit's settings stand in
  MaxSize,     \* pieces of a file, at most (bound of the model)
  MaxUploads,  \* files sent: they are numbered (bound of the model)
  MaxFaults    \* pieces damaged, calls and writes failed, restarts (bound)

ASSUME UploadAssumption ==
  /\ Goose \in Names /\ Public \in Units /\ Part \in [Units -> 1..MaxSize]
  /\ MaxSize \in Nat \ {0} /\ MaxUploads \in Nat /\ MaxFaults \in Nat

VARIABLES
  uploads,  \* _write_file_map
  disk,     \* disk[n]: pieces of the file n, each the number of its file or 0
  saving,   \* what the holder of _write_lock has still to do
  unitCfg,  \* unitCfg[u]: the file the saved settings of unit u are from
  sender,   \* the transfer of a master, and its answers
  started,  \* files sent so far
  faults,   \* faults so far
  clashed,  \* history: files whose identity two masters used at a time
  unflushed,\* history: files of which a part was lost when they were closed
  missed    \* history: units that did not save what the last distribution
            \* had for them

vars == <<uploads, disk, saving, unitCfg, sender, started, faults, clashed,
          unflushed, missed>>

NoUpload == [name |-> Goose, data |-> <<>>, open |-> FALSE]
Free     == [do |-> "nothing"]
Transfer(file, id, name, size) ==
  [file |-> file, id |-> id, name |-> name, size |-> size,
   next |-> 1, ok |-> {}, answer |-> "none", saved |-> <<>>]
NoFile   == Transfer(0, CHOOSE id \in Ids : TRUE, Goose, 0)
Content  == Seq(0..started)
Sending(m) == sender[m].file # 0 /\ sender[m].answer = "none"
Values(s)  == {s[i] : i \in DOMAIN s}

TypeOK ==
  /\ \A id \in Ids : /\ uploads[id].name \in Names
                     /\ uploads[id].data \in Content
                     /\ ~uploads[id].open => uploads[id] = NoUpload
  /\ disk \in [Names -> Content]
  /\ \/ saving = Free
     \/ /\ saving.do \in {"write", "load", "hand out", "answer"}
        /\ saving.by \in Masters
        /\ Sending(saving.by)
        /\ uploads[sender[saving.by].id].open
        /\ saving.units \subseteq Units /\ saving.result \in {"ok", "failed"}
  /\ unitCfg \in [Units -> 0..started]
  /\ \A m \in Masters :
       /\ sender[m].next \in 1..(sender[m].size + 1)
       /\ sender[m].ok \subseteq 1..(sender[m].next - 1)
       /\ Sending(m) /\ sender[m].next > sender[m].size =>
            saving # Free /\ saving.by = m
       /\ sender[m].saved \in Content
  /\ started \in 0..MaxUploads /\ faults \in 0..MaxFaults
  /\ clashed \subseteq 1..started /\ unflushed \subseteq 1..started
  /\ missed \subseteq Units

Init ==
  /\ uploads = [id \in Ids |-> NoUpload]
  /\ disk = [n \in Names |-> <<>>]
  /\ saving = Free
  /\ unitCfg = [u \in Units |-> 0]
  /\ sender = [m \in Masters |-> NoFile]
  /\ started = 0 /\ faults = 0 /\ clashed = {} /\ unflushed = {}
  /\ missed = {}
-----------------------------------------------------------------------------
Works == UNCHANGED faults
Fails == faults < MaxFaults /\ faults' = faults + 1

\* writeFileActive; a transfer of the same identity gives way, silently.
Activate(m, id, name, size) ==
  /\ saving = Free /\ started < MaxUploads
  /\ started' = started + 1
  /\ uploads' = [uploads EXCEPT ![id] =
       [name |-> name, data |-> [i \in 1..size |-> 0], open |-> TRUE]]
  /\ sender' = [sender EXCEPT ![m] = Transfer(started', id, name, size)]
  /\ LET others == {o \in Masters \ {m} : Sending(o) /\ sender[o].id = id}
     IN  clashed' = IF others = {} THEN clashed
                    ELSE clashed \union {started'}
                           \union {sender[o].file : o \in others}
  /\ UNCHANGED <<disk, saving, unitCfg, faults, missed, unflushed>>

\* The next piece is a master's last one.
IsLast(m) == sender[m].next = sender[m].size

\* Mutant: a last piece refused leaves the master without an answer.
Refuse_Silent(m, answer) ==
  /\ sender' = [sender EXCEPT ![m].next = @ + 1]
  /\ UNCHANGED <<uploads, disk, saving, unitCfg, started, clashed, missed,
                 unflushed>>

\* A piece refused: the identity is not known (4), the checksum is wrong (2) or
\* the piece does not fit (3). The master goes on, unless it was the last one.
Refuse(m, answer) ==
  /\ sender' = [sender EXCEPT ![m].next = @ + 1,
                              ![m].answer = IF IsLast(m) THEN answer ELSE @]
  /\ UNCHANGED <<uploads, disk, saving, unitCfg, started, clashed, missed,
                 unflushed>>

\* Mutant: a damaged piece ends the transfer.
Refused_Ends(m) ==
  /\ saving = Free /\ Sending(m)
  /\ LET upload == uploads[sender[m].id]
         Answered(answer) ==
           /\ sender' = [sender EXCEPT ![m].next = @ + 1,
                            ![m].answer = IF IsLast(m) THEN answer ELSE @]
           /\ UNCHANGED <<disk, saving, unitCfg, started, clashed, missed,
                          unflushed>>
     IN  \/ ~upload.open /\ Works /\ Answered("unknown") /\ UNCHANGED uploads
         \/ /\ upload.open /\ Fails /\ Answered("damaged")
            /\ uploads' = [uploads EXCEPT ![sender[m].id] = NoUpload]

Refused(m) ==
  /\ saving = Free /\ Sending(m)
  /\ LET upload == uploads[sender[m].id]
     IN  \/ ~upload.open /\ Works /\ Refuse(m, "unknown")
         \/ upload.open /\ Fails /\ Refuse(m, "damaged")
         \/ /\ upload.open /\ sender[m].next > Len(upload.data)
            /\ Works /\ Refuse(m, "too long")

\* Mutant: the last piece is saved without being kept.
Keep_NotTheLast(m) ==
  /\ saving = Free /\ Sending(m)
  /\ LET id == sender[m].id
         i  == sender[m].next
     IN  /\ uploads[id].open /\ i <= Len(uploads[id].data)
         /\ uploads' = IF IsLast(m) THEN uploads
                       ELSE [uploads EXCEPT ![id].data[i] = sender[m].file]
         /\ sender' = [sender EXCEPT ![m].next = i + 1, ![m].ok = @ \union {i}]
         /\ saving' = IF IsLast(m)
                      THEN [do |-> "write", by |-> m, units |-> {},
                            result |-> "ok"]
                      ELSE Free
  /\ UNCHANGED <<disk, unitCfg, started, faults, clashed, missed, unflushed>>

\* A good piece is kept; with the last one the file is opened, hence emptied,
\* or cannot be opened.
Keep(m) ==
  /\ saving = Free /\ Sending(m)
  /\ LET id == sender[m].id
         i  == sender[m].next
         Save(result) == [do |-> IF result = "ok" THEN "write" ELSE "load",
                          by |-> m, units |-> {}, result |-> result]
     IN  /\ uploads[id].open /\ i <= Len(uploads[id].data)
         /\ uploads' = [uploads EXCEPT ![id].data[i] = sender[m].file]
         /\ sender' = [sender EXCEPT ![m].next = i + 1, ![m].ok = @ \union {i}]
         /\ \/ ~IsLast(m) /\ Works /\ UNCHANGED <<disk, saving>>
            \/ /\ IsLast(m) /\ Works
               /\ saving' = Save("ok")
               /\ disk' = [disk EXCEPT ![uploads[id].name] = <<>>]
            \/ /\ IsLast(m) /\ Fails
               /\ saving' = Save("failed")
               /\ UNCHANGED disk
  /\ UNCHANGED <<unitCfg, started, clashed, missed, unflushed>>
-----------------------------------------------------------------------------
Upload == uploads[sender[saving.by].id]

\* A buffer of which the disk took a part: it breaks off within a piece.
CutOff(data) == {Append(SubSeq(data, 1, n - 1), 0) : n \in 1..Len(data)}

\* save_file writes the buffer. What fwrite does not take is noticed; what is
\* lost when fclose writes the rest is not.
Write ==
  /\ saving.do = "write"
  /\ \/ /\ Works
        /\ disk' = [disk EXCEPT ![Upload.name] = Upload.data]
        /\ saving' = [saving EXCEPT !.do = "load"]
        /\ UNCHANGED unflushed
     \/ /\ Fails
        /\ \E c \in CutOff(Upload.data) :
             disk' = [disk EXCEPT ![Upload.name] = c]
        /\ \/ /\ saving' = [saving EXCEPT !.do = "load", !.result = "failed"]
              /\ UNCHANGED unflushed
           \/ /\ saving' = [saving EXCEPT !.do = "load"]
              /\ unflushed' = unflushed \union {sender[saving.by].file}
  /\ UNCHANGED <<uploads, unitCfg, sender, started, clashed, missed>>

\* A configuration with a piece missing or broken off has no end, and is
\* refused by the parser.
Loads(content) == content # <<>> /\ 0 \notin Values(content)

\* What is on disk is loaded, also when the writing failed.
Load ==
  /\ saving.do = "load"
  /\ saving' = IF Upload.name = Goose /\ Loads(disk[Goose])
               THEN [saving EXCEPT !.do = "hand out", !.units = Units]
               ELSE [saving EXCEPT !.do = "answer"]
  /\ UNCHANGED <<uploads, disk, unitCfg, sender, started, faults, clashed,
                 missed, unflushed>>

\* The public unit first, then each unit the file names is called; units that
\* cannot be are passed over, and so is a saving that fails. A bay unit restarts
\* when it has saved, before it answers: nobody looks at the answer.
Named(u)  == Part[u] <= Len(disk[Goose])
Served(u) == /\ u = Public \/ Public \notin saving.units
             /\ saving' = [saving EXCEPT !.units = @ \ {u}]

\* Mutant: a unit the file does not name is waited for.
HandOut_OnlyNamed(u) ==
  /\ saving.do = "hand out" /\ u \in saving.units
  /\ Named(u) /\ Works /\ Served(u)
  /\ unitCfg' = [unitCfg EXCEPT ![u] = disk[Goose][Part[u]]]
  /\ missed' = missed \ {u}
  /\ UNCHANGED <<uploads, disk, sender, started, clashed, unflushed>>

\* Mutant: a unit that cannot be called ends the loop.
HandOut_Stops(u) ==
  /\ saving.do = "hand out" /\ u \in saving.units
  /\ \/ /\ ~Named(u) /\ Works /\ Served(u)
        /\ UNCHANGED <<unitCfg, missed>>
     \/ /\ Named(u) /\ Works /\ Served(u)
        /\ unitCfg' = [unitCfg EXCEPT ![u] = disk[Goose][Part[u]]]
        /\ missed' = missed \ {u}
     \/ /\ Named(u) /\ Fails
        /\ u = Public \/ Public \notin saving.units
        /\ saving' = [saving EXCEPT !.units = {}]
        /\ missed' = missed \union {u}
        /\ UNCHANGED unitCfg
  /\ UNCHANGED <<uploads, disk, sender, started, clashed, unflushed>>

HandOut(u) ==
  /\ saving.do = "hand out" /\ u \in saving.units /\ Served(u)
  /\ \/ /\ ~Named(u) /\ Works
        /\ UNCHANGED <<unitCfg, missed>>
     \/ /\ Named(u) /\ Works
        /\ unitCfg' = [unitCfg EXCEPT ![u] = disk[Goose][Part[u]]]
        /\ missed' = missed \ {u}
     \/ /\ Named(u) /\ Fails
        /\ missed' = missed \union {u}
        /\ UNCHANGED unitCfg
  /\ UNCHANGED <<uploads, disk, sender, started, clashed, unflushed>>

\* The transfer is erased and the master told what save_file returned.
Answer ==
  /\ saving.do = "answer" \/ (saving.do = "hand out" /\ saving.units = {})
  /\ uploads' = [uploads EXCEPT ![sender[saving.by].id] = NoUpload]
  /\ sender' = [sender EXCEPT ![saving.by].answer = saving.result,
                              ![saving.by].saved = disk[Upload.name]]
  /\ saving' = Free
  /\ UNCHANGED <<disk, unitCfg, started, faults, clashed, missed, unflushed>>

\* Transfers and connections are gone, files stay as they are.
Restart ==
  /\ Fails
  /\ uploads' = [id \in Ids |-> NoUpload]
  /\ sender' = [m \in Masters |-> NoFile]
  /\ saving' = Free
  /\ missed' = missed \union
       IF saving = Free \/ Upload.name # Goose THEN {}
       ELSE IF saving.do = "hand out" THEN saving.units ELSE Units
  /\ UNCHANGED <<disk, unitCfg, started, clashed, unflushed>>

SaveStep == Write \/ Load \/ Answer \/ \E u \in Units : HandOut(u)

Next ==
  \/ \E m \in Masters :
       \/ Refused(m) \/ Keep(m)
       \/ \E id \in Ids, n \in Names, size \in 1..MaxSize :
            Activate(m, id, n, size)
  \/ SaveStep \/ Restart

Spec == Init /\ [][Next]_vars

\* Whoever holds _write_lock goes on: calls of bay units end by themselves.
FairSpec == Spec /\ WF_vars(SaveStep)
-----------------------------------------------------------------------------
\* What a master sent, with zeros for the pieces that were refused.
Sent(m) == [i \in 1..sender[m].size |->
              IF i \in sender[m].ok THEN sender[m].file ELSE 0]

\* A master told success finds its pieces in the file saved, every one at its
\* place and no other's among them; unless another master used the same identity
\* at the time, or the disk lost an end of the file when it was closed.
SavedIsSent ==
  \A m \in Masters :
    sender[m].answer = "ok" /\ sender[m].file \notin clashed =>
      \/ sender[m].saved = Sent(m)
      \/ sender[m].file \in unflushed /\ sender[m].saved \in CutOff(Sent(m))

\* A transfer is unknown to the terminal only when another master used its
\* identity: errors of a piece, and other transfers, do not end it.
UnknownIsClash ==
  \A m \in Masters :
    sender[m].answer = "unknown" => sender[m].file \in clashed

\* Every unit has its part of the GOOSE configuration on the public unit's
\* disk, but for those that could not be called or did not save it, whatever
\* transfers, failures and restarts there were.
UnitsFollowFile ==
  saving = Free /\ Loads(disk[Goose]) =>
    \A u \in Units \ missed :
      Named(u) => unitCfg[u] = disk[Goose][Part[u]]

\* A saving ends, and with it _write_lock is free for the other masters, also
\* when bay units cannot be reached.
SavingEnds == saving # Free ~> saving = Free
=============================================================================
