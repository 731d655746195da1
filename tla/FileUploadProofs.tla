---------------------------- MODULE FileUploadProofs ----------------------------
(***************************************************************************)
(* Proofs about FileUpload: what a master was told is saved is what it     *)
(* sent, and the units have what the configuration on disk says.           *)
(***************************************************************************)
EXTENDS FileUpload, SequenceTheorems, TLAPS

UploadRecs == [name : Names, data : Content, open : BOOLEAN]
NoId == NoFile.id
SenderRecs ==
  [file : 0..started, id : Ids \union {NoId}, name : Names, size : Nat,
   next : Nat, ok : SUBSET Nat,
   answer : {"none", "ok", "failed", "unknown", "damaged", "too long"},
   saved : Content]
SavingRecs ==
  [do : {"write", "load", "hand out", "answer"}, by : Masters,
   units : SUBSET Units, result : {"ok", "failed"}]

Shape ==
  /\ uploads \in [Ids -> UploadRecs]
  /\ sender \in [Masters -> SenderRecs]
  /\ saving # Free => saving \in SavingRecs
  /\ started \in Nat /\ faults \in Nat
  /\ \A m \in Masters : sender[m].file # 0 => sender[m].id \in Ids

\* The data as it was sent, or cut off in a file u knows of.
Survives(u, file, saved, data) ==
  saved = data \/ (file \in u /\ saved \in CutOff(data))

\* What the buffer of a transfer holds that no other has touched.
Pieces(file, size, ok) == [i \in 1..size |-> IF i \in ok THEN file ELSE 0]
Kept(m) == Pieces(sender[m].file, sender[m].size, sender[m].ok)
Intact(m) == Survives(unflushed, sender[m].file, sender[m].saved, Kept(m))

\* Masters that send under one identity are known to clash.
NoShare ==
  \A m, o \in Masters :
    m # o /\ Sending(m) /\ Sending(o) /\ sender[m].id = sender[o].id
      => sender[m].file \in clashed

Buffered ==
  \A m \in Masters :
    Sending(m) /\ sender[m].file \notin clashed =>
      /\ uploads[sender[m].id].open
      /\ uploads[sender[m].id].data = Kept(m)

WrittenOut ==
  saving # Free /\ saving.do # "write" /\ saving.result = "ok" =>
    Survives(unflushed, sender[saving.by].file, disk[Upload.name], Upload.data)

\* A unit that does not follow the file is known to have been missed, or is
\* still to be called by the saving under way.
Due(u) ==
  /\ saving # Free /\ Upload.name = Goose
  /\ \/ saving.do \in {"write", "load"}
     \/ saving.do = "hand out" /\ u \in saving.units

FollowOrDue ==
  Loads(disk[Goose]) =>
    \A u \in Units \ missed :
      Due(u) \/ (Named(u) => unitCfg[u] = disk[Goose][Part[u]])

\* SavedIsSent, in terms of what the buffer held.
Whole ==
  \A m \in Masters :
    sender[m].answer = "ok" /\ sender[m].file \notin clashed => Intact(m)

Transfers == NoShare /\ Buffered /\ WrittenOut /\ Whole /\ UnknownIsClash

IInv == Shape /\ TypeOK /\ Transfers /\ FollowOrDue
-----------------------------------------------------------------------------
\* A buffer of n pieces, none of which has come.
LEMMA Empty ==
  ASSUME NEW n \in Nat, NEW k \in Nat
  PROVE  [i \in 1..n |-> 0] \in Seq(0..k)
<1>1. [i \in 1..n |-> 0] \in [1..n -> 0..k]
  OBVIOUS
<1> QED
  BY <1>1, SeqDef

LEMMA MoreContent ==
  ASSUME NEW a \in Nat, NEW b \in Nat, a <= b, NEW s \in Seq(0..a)
  PROVE  s \in Seq(0..b)
<1>1. PICK n \in Nat : s \in [1..n -> 0..a]
  BY SeqDef
<1>2. s \in [1..n -> 0..b]
  BY <1>1
<1> QED
  BY <1>2, SeqDef

LEMMA InitShape == Init => Shape /\ TypeOK
<1> SUFFICES ASSUME Init PROVE Shape /\ TypeOK
  OBVIOUS
<1>1. <<>> \in Content
  BY DEF Content
<1>2. started = 0 /\ faults = 0 /\ Goose \in Names
  BY UploadAssumption DEF Init
<1>3. uploads \in [Ids -> UploadRecs] /\ \A id \in Ids : uploads[id] = NoUpload
  BY <1>1, <1>2 DEF Init, UploadRecs, NoUpload
<1>4. NoFile \in SenderRecs
  BY <1>1, <1>2 DEF NoFile, Transfer, NoId, SenderRecs
<1>5. sender \in [Masters -> SenderRecs] /\ \A m \in Masters : sender[m] = NoFile
  BY <1>4 DEF Init
<1>6. NoFile.file = 0 /\ NoFile.size = 0 /\ NoFile.next = 1 /\ NoFile.ok = {}
      /\ NoFile.saved = <<>>
  BY DEF NoFile, Transfer
<1>7. Shape
  BY <1>2, <1>3, <1>5, <1>6 DEF Init, Shape
<1>8. \A id \in Ids : /\ uploads[id].name \in Names /\ uploads[id].data \in Content
                      /\ ~uploads[id].open => uploads[id] = NoUpload
  BY <1>3 DEF UploadRecs
<1>9. disk \in [Names -> Content] /\ unitCfg \in [Units -> 0..started]
  BY <1>1, <1>2 DEF Init
<1>10. \A m \in Masters :
         /\ sender[m].next \in 1..(sender[m].size + 1)
         /\ sender[m].ok \subseteq 1..(sender[m].next - 1)
         /\ ~Sending(m)
         /\ sender[m].saved \in Content
  <2>1. 1 \in 1..(0 + 1) /\ {} \subseteq 1..(1 - 1)
    OBVIOUS
  <2> QED
    BY <1>1, <1>5, <1>6, <2>1 DEF Sending
<1> QED
  BY <1>2, <1>7, <1>8, <1>9, <1>10, UploadAssumption DEF Init, TypeOK
-----------------------------------------------------------------------------
LEMMA FaultsCount ==
  ASSUME TypeOK, Works \/ Fails PROVE faults' \in 0..MaxFaults /\ faults' \in Nat
<1>1. faults \in 0..MaxFaults /\ MaxFaults \in Nat
  BY UploadAssumption DEF TypeOK
<1> QED
  BY <1>1 DEF Works, Fails

LEMMA ActivateShape ==
  ASSUME Shape, TypeOK, NEW m \in Masters, NEW id \in Ids, NEW n \in Names,
         NEW size \in 1..MaxSize, Activate(m, id, n, size)
  PROVE  Shape' /\ TypeOK'
<1> DEFINE d == [i \in 1..size |-> 0]
           r == [name |-> n, data |-> d, open |-> TRUE]
           q == Transfer(started', id, n, size)
<1>s. /\ started \in Nat /\ started < MaxUploads /\ MaxUploads \in Nat
      /\ started' = started + 1 /\ size \in Nat \ {0}
      /\ saving = Free /\ saving' = Free
  BY UploadAssumption DEF Activate, Shape, Free
<1>1. \A s \in Content : s \in Content'
  BY <1>s, MoreContent DEF Content
<1>2. d \in Content' /\ <<>> \in Content'
  BY <1>s, Empty DEF Content
<1>3. r \in UploadRecs'
  BY <1>2 DEF UploadRecs
<1>4. uploads' = [uploads EXCEPT ![id] = r]
  BY DEF Activate
<1>5. \A j \in Ids : uploads[j] \in UploadRecs'
  BY <1>1 DEF Shape, UploadRecs
<1>6. uploads' \in [Ids -> UploadRecs']
  BY <1>3, <1>4, <1>5 DEF Shape
<1>7. q \in SenderRecs'
  BY <1>2, <1>s DEF SenderRecs, Transfer
<1>8. sender' = [sender EXCEPT ![m] = q]
  BY DEF Activate
<1>9. \A o \in Masters : sender[o] \in SenderRecs'
  <2>1. \A k \in 0..started : k \in 0..started'
    BY <1>s
  <2> QED
    BY <1>1, <2>1 DEF Shape, SenderRecs
<1>10. sender' \in [Masters -> SenderRecs']
  BY <1>7, <1>8, <1>9 DEF Shape
<1>11. \A o \in Masters : sender'[o].file # 0 => sender'[o].id \in Ids
  BY <1>8 DEF Shape, Transfer
<1>12. \A j \in Ids : /\ uploads'[j].name \in Names /\ uploads'[j].data \in Content'
                      /\ ~uploads'[j].open => uploads'[j] = NoUpload
  <2>1. \A j \in Ids : ~uploads[j].open => uploads[j] = NoUpload
    BY DEF TypeOK
  <2> QED
    BY <1>4, <1>6, <2>1 DEF UploadRecs, Shape
<1>13. disk' \in [Names -> Content']
  BY <1>1 DEF TypeOK, Activate
<1>14. unitCfg' \in [Units -> 0..started']
  BY <1>s DEF TypeOK, Activate
<1>15. \A o \in Masters :
         /\ sender'[o].next \in 1..(sender'[o].size + 1)
         /\ sender'[o].ok \subseteq 1..(sender'[o].next - 1)
         /\ ~(Sending(o)' /\ sender'[o].next > sender'[o].size)
         /\ sender'[o].saved \in Content'
  <2>1. TAKE o \in Masters
  <2>2. CASE o = m
    <3>1. /\ q.next = 1 /\ q.size = size /\ q.ok = {} /\ q.saved = <<>>
      BY DEF Transfer
    <3>2. sender'[o] = q
      BY <1>8, <2>2 DEF Shape
    <3> HIDE DEF q
    <3>3. 1 \in 1..(size + 1) /\ {} \subseteq 1..(1 - 1) /\ ~(1 > size)
      BY <1>s
    <3> QED
      BY <1>2, <3>1, <3>2, <3>3
  <2>3. CASE o # m
    <3>1. sender'[o] = sender[o] /\ (Sending(o)' <=> Sending(o))
      BY <1>8, <2>3 DEF Shape, Sending
    <3> QED
      BY <1>1, <1>s, <3>1 DEF TypeOK
  <2> QED
    BY <2>2, <2>3
<1>16. /\ clashed' \subseteq 1..started' /\ unflushed' \subseteq 1..started'
       /\ missed' \subseteq Units
  <2>1. \A o \in Masters : Sending(o) => sender[o].file \in 1..started'
    <3>1. \A o \in Masters : sender[o].file \in 0..started
      BY DEF Shape, SenderRecs
    <3> QED
      BY <1>s, <3>1 DEF Sending
  <2>2. /\ clashed \subseteq 1..started' /\ unflushed \subseteq 1..started'
        /\ started' \in 1..started'
    BY <1>s DEF TypeOK
  <2> QED
    BY <2>1, <2>2 DEF Activate, TypeOK
<1>17. faults' \in 0..MaxFaults /\ faults' \in Nat /\ started' \in 0..MaxUploads
  BY <1>s DEF Activate, TypeOK, Shape
<1>18. Shape'
  BY <1>6, <1>10, <1>11, <1>17, <1>s DEF Shape, Free
<1> QED
  BY <1>12, <1>13, <1>14, <1>15, <1>16, <1>17, <1>18, <1>s DEF TypeOK, Free

\* A step that begins no transfer leaves the types of contents alone.
LEMMA SameContent ==
  ASSUME UNCHANGED started
  PROVE  Content' = Content /\ UploadRecs' = UploadRecs /\ SenderRecs' = SenderRecs
BY DEF Content, UploadRecs, SenderRecs

\* While nothing is saved, a master that sends has a piece left.
LEMMA NextPlace ==
  ASSUME Shape, TypeOK, NEW m \in Masters, Sending(m), saving = Free
  PROVE  \E i \in Nat, n \in Nat :
           /\ sender[m].next = i /\ sender[m].size = n
           /\ 1 <= i /\ i <= n /\ sender[m].ok \subseteq 1..(i - 1)
<1>1. PICK i \in Nat, n \in Nat : sender[m].next = i /\ sender[m].size = n
  BY DEF Shape, SenderRecs
<1>2. /\ i \in 1..(n + 1) /\ ~(i > n) /\ sender[m].ok \subseteq 1..(i - 1)
  BY <1>1 DEF TypeOK
<1>3. 1 <= i /\ i <= n
  BY <1>2
<1> QED
  BY <1>1, <1>2, <1>3

LEMMA RefusedShape ==
  ASSUME Shape, TypeOK, NEW m \in Masters, Refused(m)
  PROVE  Shape' /\ TypeOK'
<1>1. PICK a : /\ a \in {"unknown", "damaged", "too long"}
               /\ sender' = [sender EXCEPT ![m].next = @ + 1,
                               ![m].answer = IF IsLast(m) THEN a ELSE @]
  BY DEF Refused, Refuse
<1>2. /\ UNCHANGED <<uploads, disk, saving, unitCfg, started, clashed,
                      unflushed, missed>>
      /\ saving = Free /\ Sending(m) /\ (Works \/ Fails)
  BY DEF Refused, Refuse
<1>3. Content' = Content /\ UploadRecs' = UploadRecs /\ SenderRecs' = SenderRecs
  BY <1>2, SameContent
<1>4. PICK i \in Nat, n \in Nat :
        /\ sender[m].next = i /\ sender[m].size = n
        /\ 1 <= i /\ i <= n /\ sender[m].ok \subseteq 1..(i - 1)
  BY NextPlace, <1>2
<1>5. i + 1 \in 1..(n + 1) /\ i + 1 \in Nat /\ (i + 1 > n <=> i = n)
      /\ sender[m].ok \subseteq 1..((i + 1) - 1)
  <2>1. /\ i + 1 \in 1..(n + 1) /\ i + 1 \in Nat /\ (i + 1 > n <=> i = n)
        /\ 1..(i - 1) \subseteq 1..((i + 1) - 1)
    <3>1. 1 <= i /\ i <= n
      BY <1>4
    <3> QED
      BY <3>1
  <2> QED
    BY <1>4, <2>1
<1> DEFINE q == [sender[m] EXCEPT !.next = i + 1,
                                  !.answer = IF IsLast(m) THEN a ELSE @]
<1>6. q \in SenderRecs /\ sender' = [sender EXCEPT ![m] = q]
  <2>1. sender[m] \in SenderRecs
    BY DEF Shape
  <2>2. q \in SenderRecs
    BY <1>1, <2>1, <1>5 DEF SenderRecs
  <2>3. sender' = [sender EXCEPT ![m] = q]
    BY <1>1, <1>4
  <2> QED
    BY <2>2, <2>3
<1>7. /\ q.file = sender[m].file /\ q.id = sender[m].id /\ q.size = n
      /\ q.next = i + 1 /\ q.ok = sender[m].ok /\ q.saved = sender[m].saved
      /\ q.answer = IF i = n THEN a ELSE "none"
  BY <1>2, <1>4 DEF Shape, SenderRecs, Sending, IsLast
<1> HIDE DEF q
<1>8. Shape'
  BY <1>2, <1>3, <1>6, <1>7, FaultsCount DEF Shape
<1>9. \A o \in Masters :
        /\ sender'[o].next \in 1..(sender'[o].size + 1)
        /\ sender'[o].ok \subseteq 1..(sender'[o].next - 1)
        /\ ~(Sending(o)' /\ sender'[o].next > sender'[o].size)
        /\ sender'[o].saved \in Content
  <2>1. TAKE o \in Masters
  <2>2. CASE o = m
    <3>1. sender'[o] = q
      BY <1>6, <2>2 DEF Shape
    <3>2. q.saved \in Content
      BY <1>6 DEF SenderRecs
    <3>3. q.next > q.size => q.answer # "none"
      BY <1>1, <1>5, <1>7
    <3>4. q.next \in 1..(q.size + 1) /\ q.ok \subseteq 1..(q.next - 1)
      BY <1>5, <1>7
    <3> QED
      BY <3>1, <3>2, <3>3, <3>4 DEF Sending
  <2>3. CASE o # m
    <3>1. sender'[o] = sender[o] /\ (Sending(o)' <=> Sending(o))
      BY <1>6, <2>3 DEF Shape, Sending
    <3> QED
      BY <1>2, <3>1 DEF TypeOK
  <2> QED
    BY <2>2, <2>3
<1> QED
  BY <1>2, <1>3, <1>8, <1>9, FaultsCount DEF TypeOK

\* Keep, with the names the proofs use: the transfer id, the place i of n.
KeepOf(m, id, i, n) ==
  /\ sender[m].id = id /\ sender[m].next = i /\ sender[m].size = n
  /\ 1 <= i /\ i <= n /\ sender[m].ok \subseteq 1..(i - 1)
  /\ uploads[id].open /\ i \in DOMAIN uploads[id].data
  /\ uploads' = [uploads EXCEPT ![id] =
       [uploads[id] EXCEPT !.data =
          [uploads[id].data EXCEPT ![i] = sender[m].file]]]
  /\ sender' = [sender EXCEPT ![m] =
       [sender[m] EXCEPT !.next = i + 1, !.ok = sender[m].ok \union {i}]]

LEMMA KeepIs ==
  ASSUME Shape, TypeOK, NEW m \in Masters, Keep(m)
  PROVE  \E id \in Ids, i \in Nat, n \in Nat : KeepOf(m, id, i, n)
<1>1. saving = Free /\ Sending(m)
  BY DEF Keep
<1>2. PICK i \in Nat, n \in Nat :
        /\ sender[m].next = i /\ sender[m].size = n
        /\ 1 <= i /\ i <= n /\ sender[m].ok \subseteq 1..(i - 1)
  BY <1>1, NextPlace
<1>3. PICK id \in Ids : sender[m].id = id
  BY <1>1 DEF Shape, Sending
<1>4. /\ uploads[id].open /\ i <= Len(uploads[id].data)
      /\ uploads' = [uploads EXCEPT ![id].data[i] = sender[m].file]
      /\ sender' = [sender EXCEPT ![m].next = i + 1, ![m].ok = @ \union {i}]
  BY <1>2, <1>3 DEF Keep
<1>5. i \in DOMAIN uploads[id].data
  <2>1. uploads[id].data \in Seq(0..started)
    BY DEF TypeOK, Content
  <2> QED
    BY <1>2, <1>4, <2>1
<1>6. uploads' = [uploads EXCEPT ![id] =
        [uploads[id] EXCEPT !.data =
           [uploads[id].data EXCEPT ![i] = sender[m].file]]]
  BY <1>4
<1>7. sender' = [sender EXCEPT ![m] =
        [sender[m] EXCEPT !.next = i + 1, !.ok = sender[m].ok \union {i}]]
  BY <1>4
<1> QED
  BY <1>2, <1>3, <1>4, <1>5, <1>6, <1>7 DEF KeepOf

LEMMA KeepShape ==
  ASSUME Shape, TypeOK, NEW m \in Masters, Keep(m)
  PROVE  Shape' /\ TypeOK'
<1>1. PICK id \in Ids, i \in Nat, n \in Nat : KeepOf(m, id, i, n)
  BY KeepIs
<1>2. /\ UNCHANGED <<unitCfg, started, clashed, unflushed, missed>>
      /\ saving = Free /\ Sending(m) /\ (Works \/ Fails)
  BY DEF Keep
<1>3. Content' = Content /\ UploadRecs' = UploadRecs /\ SenderRecs' = SenderRecs
  BY <1>2, SameContent
<1>4. i + 1 \in 1..(n + 1) /\ i + 1 \in Nat /\ (i + 1 > n <=> i = n)
      /\ sender[m].ok \union {i} \subseteq 1..((i + 1) - 1)
      /\ sender[m].ok \union {i} \subseteq Nat
  <2>1. 1 <= i /\ i <= n /\ sender[m].ok \subseteq 1..(i - 1)
    BY <1>1 DEF KeepOf
  <2>2. /\ i + 1 \in 1..(n + 1) /\ i + 1 \in Nat /\ (i + 1 > n <=> i = n)
    <3>1. 1 <= i /\ i <= n
      BY <2>1
    <3> QED
      BY <3>1
  <2>3. /\ 1..(i - 1) \subseteq 1..((i + 1) - 1)
        /\ i \in 1..((i + 1) - 1)
    <3>1. 1 <= i
      BY <2>1
    <3> QED
      BY <3>1
  <2>4. 1..((i + 1) - 1) \subseteq Nat
    OBVIOUS
  <2> QED
    BY <2>1, <2>2, <2>3, <2>4
<1> DEFINE d == [uploads[id].data EXCEPT ![i] = sender[m].file]
           r == [uploads[id] EXCEPT !.data = d]
           q == [sender[m] EXCEPT !.next = i + 1, !.ok = sender[m].ok \union {i}]
<1>5. d \in Content
  <2>1. uploads[id].data \in Seq(0..started) /\ sender[m].file \in 0..started
    BY DEF TypeOK, Content, Shape, SenderRecs
  <2>2. i \in DOMAIN uploads[id].data
    BY <1>1 DEF KeepOf
  <2>3. i \in 1..Len(uploads[id].data)
    BY <2>1, <2>2, LenProperties
  <2> QED
    BY <2>1, <2>3, ExceptSeq DEF Content
<1>6. r \in UploadRecs /\ r.name = uploads[id].name /\ r.data = d /\ r.open
  <2>1. uploads[id] \in UploadRecs
    BY DEF Shape
  <2>2. uploads[id].open
    BY <1>1 DEF KeepOf
  <2> HIDE DEF d
  <2> QED
    BY <2>1, <2>2, <1>5 DEF UploadRecs
<1>7. /\ q \in SenderRecs /\ q.file = sender[m].file /\ q.id = id /\ q.size = n
      /\ q.next = i + 1 /\ q.ok = sender[m].ok \union {i}
      /\ q.saved = sender[m].saved /\ q.answer = "none"
  <2>1. sender[m] \in SenderRecs
    BY DEF Shape
  <2>2. sender[m].id = id /\ sender[m].size = n /\ sender[m].answer = "none"
    BY <1>1, <1>2 DEF KeepOf, Sending
  <2> QED
    BY <2>1, <2>2, <1>4 DEF SenderRecs
<1>8. uploads' = [uploads EXCEPT ![id] = r] /\ sender' = [sender EXCEPT ![m] = q]
  BY <1>1 DEF KeepOf
<1> HIDE DEF q, r, d
<1>9. \/ i # n /\ saving' = Free /\ disk' = disk
      \/ /\ i = n /\ saving' \in SavingRecs /\ saving' # Free
         /\ saving'.by = m /\ saving'.units = {}
         /\ disk' = disk \/ disk' = [disk EXCEPT ![uploads[id].name] = <<>>]
  <2>1. sender[m].next = i /\ sender[m].size = n /\ sender[m].id = id
    BY <1>1 DEF KeepOf
  <2>2. CASE ~IsLast(m) /\ Works /\ UNCHANGED <<disk, saving>>
    BY <1>2, <2>1, <2>2 DEF IsLast
  <2>3. CASE /\ IsLast(m) /\ Works
             /\ saving' = [do |-> "write", by |-> m, units |-> {}, result |-> "ok"]
             /\ disk' = [disk EXCEPT ![uploads[id].name] = <<>>]
    BY <2>1, <2>3 DEF IsLast, SavingRecs, Free
  <2>4. CASE /\ IsLast(m) /\ Fails
             /\ saving' = [do |-> "load", by |-> m, units |-> {},
                           result |-> "failed"]
             /\ UNCHANGED disk
    BY <2>1, <2>4 DEF IsLast, SavingRecs, Free
  <2> QED
    BY <2>1, <2>2, <2>3, <2>4 DEF Keep
<1>10. Shape'
  BY <1>2, <1>3, <1>6, <1>7, <1>8, <1>9, FaultsCount DEF Shape
<1>11. disk' \in [Names -> Content]
  <2>1. <<>> \in Content
    BY DEF Content
  <2> QED
    BY <1>9, <2>1 DEF TypeOK
<1>12. /\ saving' # Free =>
            /\ Sending(m)' /\ sender'[m].id = id /\ uploads'[id].open
       /\ \A j \in Ids : /\ uploads'[j].name \in Names /\ uploads'[j].data \in Content
                         /\ ~uploads'[j].open => uploads'[j] = NoUpload
  BY <1>2, <1>5, <1>6, <1>7, <1>8 DEF Shape, UploadRecs, TypeOK, Sending
<1>13. \A o \in Masters :
        /\ sender'[o].next \in 1..(sender'[o].size + 1)
        /\ sender'[o].ok \subseteq 1..(sender'[o].next - 1)
        /\ Sending(o)' /\ sender'[o].next > sender'[o].size =>
             saving' # Free /\ saving'.by = o
        /\ sender'[o].saved \in Content
  <2>1. TAKE o \in Masters
  <2>2. CASE o = m
    <3>1. sender'[o] = q
      BY <1>8, <2>2 DEF Shape
    <3>2. q.saved \in Content
      BY <1>7 DEF SenderRecs
    <3>3. q.next > q.size => saving' # Free /\ saving'.by = o
      BY <1>4, <1>7, <1>9, <2>2
    <3>4. q.next \in 1..(q.size + 1) /\ q.ok \subseteq 1..(q.next - 1)
      BY <1>4, <1>7
    <3> QED
      BY <3>1, <3>2, <3>3, <3>4
  <2>3. CASE o # m
    <3>1. sender'[o] = sender[o] /\ (Sending(o)' <=> Sending(o))
      BY <1>8, <2>3 DEF Shape, Sending
    <3> QED
      BY <1>2, <3>1 DEF TypeOK
  <2> QED
    BY <2>2, <2>3
<1>14. saving' = Free \/ /\ saving'.do \in {"write", "load", "hand out", "answer"}
                         /\ saving'.by \in Masters /\ Sending(saving.by)'
                         /\ uploads'[sender'[saving'.by].id].open
                         /\ saving'.units \subseteq Units
                         /\ saving'.result \in {"ok", "failed"}
  BY <1>9, <1>12 DEF SavingRecs
<1> QED
  BY <1>2, <1>3, <1>10, <1>11, <1>12, <1>13, <1>14, FaultsCount DEF TypeOK
-----------------------------------------------------------------------------
LEMMA NotFree == ASSUME NEW s, s.do # "nothing" PROVE s # Free
<1>1. Free.do = "nothing"
  BY DEF Free
<1> QED
  BY <1>1

\* The holder of the lock, and its transfer.
LEMMA Holder ==
  ASSUME Shape, TypeOK, saving # Free
  PROVE  /\ saving \in SavingRecs /\ saving.by \in Masters /\ Sending(saving.by)
         /\ sender[saving.by].id \in Ids /\ Upload.open
         /\ Upload = uploads[sender[saving.by].id] /\ Upload \in UploadRecs
<1>1. saving \in SavingRecs /\ saving.by \in Masters /\ Sending(saving.by)
      /\ uploads[sender[saving.by].id].open
  BY DEF Shape, TypeOK
<1>2. sender[saving.by].id \in Ids
  BY <1>1 DEF Shape, Sending
<1> QED
  BY <1>1, <1>2 DEF Upload, Shape

\* What a step of the saving under way may do.
LEMMA SavingMoves ==
  ASSUME Shape, TypeOK, saving # Free, UNCHANGED <<uploads, sender, started, clashed>>,
         saving' \in SavingRecs, saving'.by = saving.by,
         disk' \in [Names -> Content], unitCfg' \in [Units -> 0..started],
         missed' \subseteq Units, unflushed' \subseteq 1..started, Works \/ Fails
  PROVE  Shape' /\ TypeOK'
<1>1. Content' = Content /\ UploadRecs' = UploadRecs /\ SenderRecs' = SenderRecs
  BY SameContent
<1>2. Shape'
  BY <1>1, FaultsCount DEF Shape
<1>3. /\ saving'.do \in {"write", "load", "hand out", "answer"}
      /\ saving'.units \subseteq Units /\ saving'.result \in {"ok", "failed"}
  BY DEF SavingRecs
<1>4. /\ saving'.by \in Masters /\ saving' # Free
      /\ sender'[saving'.by].file # 0 /\ sender'[saving'.by].answer = "none"
      /\ uploads'[sender'[saving'.by].id].open
  <2>1. saving' # Free
    <3>1. Free.do = "nothing"
      BY DEF Free
    <3>2. saving'.do # "nothing"
      BY <1>3
    <3> QED
      BY <3>1, <3>2
  <2> QED
    BY <2>1, Holder DEF Sending, Upload
<1>5. \A m \in Masters :
       /\ sender'[m].next \in 1..(sender'[m].size + 1)
       /\ sender'[m].ok \subseteq 1..(sender'[m].next - 1)
       /\ Sending(m)' /\ sender'[m].next > sender'[m].size =>
            saving' # Free /\ saving'.by = m
       /\ sender'[m].saved \in Content
  BY <1>4 DEF TypeOK, Sending
<1> QED
  BY <1>1, <1>2, <1>3, <1>4, <1>5, FaultsCount DEF TypeOK, Sending

LEMMA WriteShape ==
  ASSUME Shape, TypeOK, Write PROVE Shape' /\ TypeOK'
<1>1. /\ saving.do = "write" /\ (Works \/ Fails)
      /\ UNCHANGED <<uploads, unitCfg, sender, started, clashed, missed>>
  BY DEF Write
<1>2. saving # Free
  BY <1>1 DEF Free
<1>3. saving \in SavingRecs /\ Upload \in UploadRecs
  BY <1>2, Holder
<1>4. PICK c \in Content : disk' = [disk EXCEPT ![Upload.name] = c]
  <2>1. Upload.data \in Seq(0..started)
    BY <1>3 DEF UploadRecs, Content
  <2>2. ASSUME NEW n \in 1..Len(Upload.data)
        PROVE  Append(SubSeq(Upload.data, 1, n - 1), 0) \in Content
    <3> DEFINE d == Upload.data
    <3>1. d \in Seq(0..started) /\ 0 \in 0..started /\ Len(d) \in Nat
      BY <2>1, LenProperties DEF Shape
    <3> HIDE DEF d
    <3>2. n - 1 \in Int /\ 1 \in Int /\ \A i \in 1..(n - 1) : i \in 1..Len(d)
      <4>1. n \in 1..Len(d) /\ Len(d) \in Nat
        BY <3>1 DEF d
      <4> QED
        BY <4>1
    <3>3. \A i \in 1..(n - 1) : d[i] \in 0..started
      BY <3>1, <3>2, LenProperties
    <3>4. SubSeq(d, 1, n - 1) \in Seq(0..started)
      BY <3>2, <3>3, SubSeqProperties
    <3> QED
      BY <3>1, <3>4, AppendProperties DEF Content, d
  <2>3. \A c \in CutOff(Upload.data) : c \in Content
    BY <2>2 DEF CutOff
  <2> QED
    BY <2>1, <2>3 DEF Write, Content
<1>5. disk' \in [Names -> Content]
  BY <1>4 DEF TypeOK
<1>6. saving' \in SavingRecs /\ saving'.by = saving.by
  BY <1>3 DEF Write, SavingRecs
<1>7. unflushed' \subseteq 1..started
  <2>1. sender[saving.by].file \in 0..started /\ sender[saving.by].file # 0
    BY <1>2, Holder DEF Shape, SenderRecs, Sending
  <2>2. started \in Nat
    BY DEF Shape
  <2>3. sender[saving.by].file \in 1..started
    BY <2>1, <2>2
  <2> QED
    BY <2>3 DEF Write, TypeOK
<1>8. unitCfg' \in [Units -> 0..started] /\ missed' \subseteq Units
  BY <1>1 DEF TypeOK
<1> QED
  BY <1>1, <1>2, <1>5, <1>6, <1>7, <1>8, SavingMoves

LEMMA LoadShape ==
  ASSUME Shape, TypeOK, Load PROVE Shape' /\ TypeOK'
<1>1. /\ saving.do = "load"
      /\ UNCHANGED <<uploads, disk, unitCfg, sender, started, faults, clashed,
                      unflushed, missed>>
  BY DEF Load
<1>2. saving # Free
  BY <1>1 DEF Free
<1>3. saving \in SavingRecs
  BY <1>2, Holder
<1>4. saving' \in SavingRecs /\ saving'.by = saving.by
  BY <1>3 DEF Load, SavingRecs
<1> QED
  BY <1>1, <1>2, <1>4, SavingMoves DEF TypeOK, Works

LEMMA HandOutShape ==
  ASSUME Shape, TypeOK, NEW u \in Units, HandOut(u) PROVE Shape' /\ TypeOK'
<1>1. /\ saving.do = "hand out" /\ (Works \/ Fails)
      /\ UNCHANGED <<uploads, disk, sender, started, clashed, unflushed>>
      /\ saving' = [saving EXCEPT !.units = @ \ {u}]
  BY DEF HandOut, Served
<1>2. saving # Free
  <2>1. saving.do # "nothing"
    BY <1>1
  <2> QED
    BY <2>1, NotFree
<1>3. saving \in SavingRecs
  BY <1>2, Holder
<1>4. saving' \in SavingRecs /\ saving'.by = saving.by
  BY <1>1, <1>3 DEF SavingRecs
<1>5. missed' \subseteq Units
  BY DEF HandOut, TypeOK
<1>6. unitCfg' \in [Units -> 0..started]
  <2>1. ASSUME Named(u) PROVE disk[Goose][Part[u]] \in 0..started
    <3> DEFINE d == disk[Goose]
               i == Part[u]
    <3>1. d \in Seq(0..started) /\ i \in 1..MaxSize /\ MaxSize \in Nat
      BY UploadAssumption DEF TypeOK, Content
    <3>2. i <= Len(d) /\ Len(d) \in Nat /\ d \in [1..Len(d) -> 0..started]
      BY <2>1, <3>1, LenProperties DEF Named
    <3> HIDE DEF d, i
    <3>3. i \in 1..Len(d)
      BY <3>1, <3>2
    <3> QED
      BY <3>2, <3>3 DEF d, i
  <2> QED
    BY <2>1 DEF HandOut, TypeOK
<1> QED
  BY <1>1, <1>2, <1>4, <1>5, <1>6, SavingMoves DEF TypeOK

LEMMA AnswerShape ==
  ASSUME Shape, TypeOK, Answer
  PROVE  /\ Shape' /\ TypeOK' /\ saving # Free /\ saving' = Free
         /\ \A m \in Masters \ {saving.by} : sender'[m] = sender[m]
         /\ sender'[saving.by] = [sender[saving.by] EXCEPT
                                    !.answer = saving.result,
                                    !.saved = disk[Upload.name]]
<1> DEFINE b == saving.by
           id == sender[b].id
           q == [sender[b] EXCEPT !.answer = saving.result,
                                  !.saved = disk[Upload.name]]
<1>1. saving # Free
  <2>1. saving.do # "nothing"
    BY DEF Answer
  <2> QED
    BY <2>1, NotFree
<1>2. /\ saving \in SavingRecs /\ b \in Masters /\ Sending(b) /\ id \in Ids
      /\ Upload \in UploadRecs
  BY <1>1, Holder
<1>3. /\ uploads' = [uploads EXCEPT ![id] = NoUpload]
      /\ sender' = [sender EXCEPT ![b].answer = saving.result,
                                  ![b].saved = disk[Upload.name]]
      /\ saving' = Free
      /\ UNCHANGED <<disk, unitCfg, started, faults, clashed, unflushed, missed>>
  BY DEF Answer
<1>4. Content' = Content /\ UploadRecs' = UploadRecs /\ SenderRecs' = SenderRecs
  BY <1>3, SameContent
<1>5. NoUpload \in UploadRecs
  <2>1. <<>> \in Content
    BY DEF Content
  <2> QED
    BY <2>1, UploadAssumption DEF NoUpload, UploadRecs
<1>6. sender[b] \in SenderRecs /\ saving.result \in {"ok", "failed"}
      /\ disk[Upload.name] \in Content
  BY <1>2 DEF Shape, TypeOK, SavingRecs, UploadRecs
<1>7. q \in SenderRecs /\ sender' = [sender EXCEPT ![b] = q]
  <2>1. q \in SenderRecs
    BY <1>6 DEF SenderRecs
  <2>2. sender' = [sender EXCEPT ![b] = q]
    BY <1>3
  <2> QED
    BY <2>1, <2>2
<1>8. /\ q.file = sender[b].file /\ q.id = id /\ q.size = sender[b].size
      /\ q.next = sender[b].next /\ q.ok = sender[b].ok /\ q.saved \in Content
      /\ q.answer # "none"
  BY <1>6 DEF SenderRecs
<1>9. /\ \A m \in Masters \ {b} : sender'[m] = sender[m]
      /\ sender'[b] = q
  BY <1>2, <1>7 DEF Shape
<1> HIDE DEF q
<1>10. Shape'
  BY <1>2, <1>3, <1>4, <1>5, <1>7, <1>8, <1>9 DEF Shape
<1>11. \A j \in Ids : /\ uploads'[j].name \in Names /\ uploads'[j].data \in Content
                      /\ ~uploads'[j].open => uploads'[j] = NoUpload
  BY <1>2, <1>3, <1>5 DEF Shape, UploadRecs, TypeOK
<1>12. \A m \in Masters :
        /\ sender'[m].next \in 1..(sender'[m].size + 1)
        /\ sender'[m].ok \subseteq 1..(sender'[m].next - 1)
        /\ ~(Sending(m)' /\ sender'[m].next > sender'[m].size)
        /\ sender'[m].saved \in Content
  <2>1. TAKE m \in Masters
  <2>2. CASE m = b
    BY <1>8, <1>9, <2>2 DEF TypeOK, Sending
  <2>3. CASE m # b
    <3>1. sender'[m] = sender[m] /\ (Sending(m)' <=> Sending(m))
      BY <1>9, <2>3 DEF Sending
    <3>2. ~(Sending(m) /\ sender[m].next > sender[m].size)
      BY <2>3 DEF TypeOK
    <3> QED
      BY <3>1, <3>2 DEF TypeOK
  <2> QED
    BY <2>2, <2>3
<1>13. TypeOK'
  BY <1>3, <1>4, <1>11, <1>12 DEF TypeOK
<1> QED
  BY <1>1, <1>3, <1>9, <1>10, <1>13 DEF q

LEMMA RestartShape ==
  ASSUME Shape, TypeOK, Restart PROVE Shape' /\ TypeOK'
<1>1. /\ uploads' = [id \in Ids |-> NoUpload] /\ sender' = [m \in Masters |-> NoFile]
      /\ saving' = Free /\ UNCHANGED <<disk, unitCfg, started, clashed, unflushed>>
      /\ Works \/ Fails
  BY DEF Restart
<1>2. Content' = Content /\ UploadRecs' = UploadRecs /\ SenderRecs' = SenderRecs
  BY <1>1, SameContent
<1>3. <<>> \in Content
  BY DEF Content
<1>4. NoUpload \in UploadRecs /\ NoFile \in SenderRecs
  <2>1. 0 \in 0..started
    BY DEF Shape
  <2>2. NoUpload \in UploadRecs
    BY <1>3, UploadAssumption DEF NoUpload, UploadRecs
  <2>3. NoFile \in SenderRecs
    BY <1>3, <2>1, UploadAssumption DEF NoFile, Transfer, NoId, SenderRecs
  <2> QED
    BY <2>2, <2>3
<1>5. NoFile.file = 0 /\ NoFile.size = 0 /\ NoFile.next = 1 /\ NoFile.ok = {}
      /\ NoFile.saved = <<>>
  BY DEF NoFile, Transfer
<1>6. Shape'
  BY <1>1, <1>2, <1>4, <1>5, FaultsCount DEF Shape
<1>7. \A m \in Masters :
         /\ sender'[m].next \in 1..(sender'[m].size + 1)
         /\ sender'[m].ok \subseteq 1..(sender'[m].next - 1)
         /\ ~Sending(m)'
         /\ sender'[m].saved \in Content
  <2>1. 1 \in 1..(0 + 1) /\ {} \subseteq 1..(1 - 1)
    OBVIOUS
  <2> QED
    BY <1>1, <1>3, <1>5, <2>1 DEF Sending
<1>8. \A j \in Ids : /\ uploads'[j].name \in Names /\ uploads'[j].data \in Content
                     /\ ~uploads'[j].open => uploads'[j] = NoUpload
  BY <1>1, <1>4 DEF UploadRecs
<1>9. missed' \subseteq Units
  <2>1. saving # Free => saving.units \subseteq Units
    BY DEF TypeOK
  <2> QED
    BY <2>1 DEF Restart, TypeOK
<1> QED
  BY <1>1, <1>2, <1>6, <1>7, <1>8, <1>9, FaultsCount DEF TypeOK
-----------------------------------------------------------------------------
\* What was sent is what is kept in the buffer.
LEMMA SentIsKept == Whole => SavedIsSent
<1>1. \A m \in Masters : Sent(m) = Kept(m)
  BY DEF Sent, Kept, Pieces
<1> QED
  BY <1>1 DEF Whole, SavedIsSent, Intact, Survives

\* Masters that are not told success in this step have what they had.
LEMMA WholeStays ==
  ASSUME Whole, clashed \subseteq clashed', unflushed \subseteq unflushed',
         \A m \in Masters :
           \/ sender'[m].answer # "ok"
           \/ /\ sender'[m].answer = sender[m].answer
              /\ sender'[m].file = sender[m].file
              /\ sender'[m].size = sender[m].size
              /\ sender'[m].ok = sender[m].ok
              /\ sender'[m].saved = sender[m].saved
  PROVE  Whole'
<1> SUFFICES ASSUME NEW m \in Masters, sender'[m].answer = "ok",
                    sender'[m].file \notin clashed'
             PROVE  Intact(m)'
  BY DEF Whole
<1>1. /\ sender[m].answer = "ok" /\ sender'[m].file = sender[m].file
      /\ sender'[m].saved = sender[m].saved /\ sender[m].file \notin clashed
      /\ sender'[m].size = sender[m].size /\ sender'[m].ok = sender[m].ok
  OBVIOUS
<1>2. Kept(m)' = Kept(m)
  BY <1>1 DEF Kept
<1>3. Intact(m)
  BY <1>1 DEF Whole
<1> QED
  BY <1>1, <1>2, <1>3 DEF Intact, Survives

LEMMA ActivateTransfers ==
  ASSUME Shape, TypeOK, Transfers, NEW m \in Masters, NEW id \in Ids,
         NEW n \in Names, NEW size \in 1..MaxSize, Activate(m, id, n, size)
  PROVE  Transfers'
<1> DEFINE q == Transfer(started', id, n, size)
           others == {o \in Masters \ {m} : Sending(o) /\ sender[o].id = id}
<1>1. /\ uploads' = [uploads EXCEPT ![id] =
           [name |-> n, data |-> [i \in 1..size |-> 0], open |-> TRUE]]
      /\ sender' = [sender EXCEPT ![m] = q]
      /\ saving' = Free
  BY DEF Activate
<1>2. /\ sender'[m] = q
      /\ \A o \in Masters \ {m} : sender'[o] = sender[o] /\ (Sending(o)' <=> Sending(o))
  BY <1>1 DEF Shape, Sending
<1>3. /\ q.file = started' /\ q.id = id /\ q.size = size /\ q.ok = {}
      /\ q.answer = "none"
  BY DEF Transfer
<1>4. /\ clashed \subseteq clashed'
      /\ \A o \in others : sender[o].file \in clashed' /\ started' \in clashed'
  BY DEF Activate
<1> HIDE DEF q
<1>5. NoShare'
  <2>1. SUFFICES ASSUME NEW a \in Masters, NEW b \in Masters, a # b,
                        Sending(a)', Sending(b)', sender'[a].id = sender'[b].id
                 PROVE  sender'[a].file \in clashed'
    BY DEF NoShare
  <2>2. CASE a = m
    <3>1. b \in others
      BY <1>2, <1>3, <2>1, <2>2
    <3> QED
      BY <1>2, <1>3, <1>4, <2>2, <3>1
  <2>3. CASE b = m
    <3>1. a \in others
      BY <1>2, <1>3, <2>1, <2>3
    <3> QED
      BY <1>2, <1>4, <2>1, <2>3, <3>1
  <2>4. CASE a # m /\ b # m
    BY <1>2, <1>4, <2>1, <2>4 DEF Transfers, NoShare
  <2> QED
    BY <2>2, <2>3, <2>4
<1>6. Buffered'
  <2>1. SUFFICES ASSUME NEW a \in Masters, Sending(a)', sender'[a].file \notin clashed'
                 PROVE  /\ uploads'[sender'[a].id].open
                        /\ uploads'[sender'[a].id].data = Kept(a)'
    BY DEF Buffered
  <2>2. CASE a = m
    <3>1. uploads'[id].open /\ uploads'[id].data = [i \in 1..size |-> 0]
      BY <1>1 DEF Shape
    <3>2. Kept(a)' = [i \in 1..size |-> 0]
      BY <1>2, <1>3, <2>2 DEF Kept, Pieces
    <3> QED
      BY <1>2, <1>3, <2>2, <3>1, <3>2
  <2>3. CASE a # m
    <3>1. sender'[a] = sender[a] /\ Sending(a) /\ sender[a].file \notin clashed
      BY <1>2, <1>4, <2>1, <2>3
    <3>2. sender[a].id # id
      BY <1>4, <2>1, <2>3, <3>1
    <3>3. uploads'[sender[a].id] = uploads[sender[a].id]
      BY <1>1, <3>1, <3>2 DEF Shape, Sending
    <3>4. Kept(a)' = Kept(a)
      BY <3>1 DEF Kept
    <3> QED
      BY <3>1, <3>3, <3>4 DEF Transfers, Buffered
  <2> QED
    BY <2>2, <2>3
<1>7. WrittenOut'
  BY <1>1 DEF WrittenOut
<1>8. Whole' /\ UnknownIsClash'
  <2>1. unflushed' = unflushed
    BY DEF Activate
  <2>2. Whole'
    BY <1>2, <1>3, <1>4, <2>1, WholeStays DEF Transfers
  <2> QED
    BY <1>2, <1>3, <1>4, <2>2 DEF Transfers, UnknownIsClash
<1> QED
  BY <1>5, <1>6, <1>7, <1>8 DEF Transfers

LEMMA RefusedTransfers ==
  ASSUME Shape, TypeOK, Transfers, NEW m \in Masters, Refused(m)
  PROVE  Transfers'
<1>1. PICK a : /\ a \in {"unknown", "damaged", "too long"}
               /\ sender' = [sender EXCEPT ![m].next = @ + 1,
                               ![m].answer = IF IsLast(m) THEN a ELSE @]
               /\ a = "unknown" => ~uploads[sender[m].id].open
  BY DEF Refused, Refuse
<1>2. /\ UNCHANGED <<uploads, saving, clashed, unflushed>>
      /\ saving = Free /\ Sending(m)
  BY DEF Refused, Refuse
<1>3. \A o \in Masters : /\ sender'[o].file = sender[o].file
                         /\ sender'[o].id = sender[o].id
                         /\ sender'[o].size = sender[o].size
                         /\ sender'[o].ok = sender[o].ok
                         /\ sender'[o].saved = sender[o].saved
                         /\ o # m => sender'[o].answer = sender[o].answer
  BY <1>1 DEF Shape, SenderRecs
<1>4. sender'[m].answer \in {"none", a}
  BY <1>1, <1>2 DEF Shape, SenderRecs, Sending
<1>5. \A o \in Masters : (Sending(o)' => Sending(o)) /\ Kept(o)' = Kept(o)
  <2>1. TAKE o \in Masters
  <2>2. Kept(o)' = Kept(o)
    BY <1>3 DEF Kept
  <2>3. Sending(o)' => Sending(o)
    BY <1>2, <1>3 DEF Sending
  <2> QED
    BY <2>2, <2>3
<1>6. NoShare' /\ Buffered' /\ WrittenOut'
  BY <1>2, <1>3, <1>5 DEF Transfers, NoShare, Buffered, WrittenOut
<1>7. Whole'
  <2>1. sender'[m].answer # "ok"
    BY <1>1, <1>4
  <2> QED
    BY <1>2, <1>3, <2>1, WholeStays DEF Transfers
<1>8. UnknownIsClash'
  <2>1. a = "unknown" => sender[m].file \in clashed
    BY <1>1, <1>2 DEF Transfers, Buffered
  <2>2. SUFFICES ASSUME NEW o \in Masters, sender'[o].answer = "unknown"
                 PROVE  sender'[o].file \in clashed'
    BY DEF UnknownIsClash
  <2>3. CASE o = m
    BY <1>2, <1>3, <1>4, <2>1, <2>2, <2>3
  <2>4. CASE o # m
    BY <1>2, <1>3, <2>2, <2>4 DEF Transfers, UnknownIsClash
  <2> QED
    BY <2>3, <2>4
<1> QED
  BY <1>6, <1>7, <1>8 DEF Transfers

LEMMA KeepTransfers ==
  ASSUME Shape, TypeOK, Transfers, NEW m \in Masters, Keep(m)
  PROVE  Transfers'
<1>1. PICK id \in Ids, i \in Nat, n \in Nat : KeepOf(m, id, i, n)
  BY KeepIs
<1>2. saving = Free /\ Sending(m) /\ UNCHANGED <<clashed, unflushed>>
  BY DEF Keep
<1>3. /\ sender[m].id = id /\ sender[m].size = n /\ uploads[id].open
      /\ i \in DOMAIN uploads[id].data
  BY <1>1 DEF KeepOf
<1>4. \A o \in Masters : /\ sender'[o].file = sender[o].file
                         /\ sender'[o].id = sender[o].id
                         /\ sender'[o].size = sender[o].size
                         /\ sender'[o].saved = sender[o].saved
                         /\ sender'[o].answer = sender[o].answer
                         /\ sender'[o].ok = IF o = m THEN sender[m].ok \union {i}
                                            ELSE sender[o].ok
  BY <1>1 DEF KeepOf, Shape, SenderRecs
<1>5. \A o \in Masters : /\ Sending(o)' <=> Sending(o)
                         /\ o # m => Kept(o)' = Kept(o)
  <2>1. TAKE o \in Masters
  <2>2. o # m => Kept(o)' = Kept(o)
    BY <1>4 DEF Kept
  <2>3. Sending(o)' <=> Sending(o)
    BY <1>4 DEF Sending
  <2> QED
    BY <2>2, <2>3
<1>6. NoShare'
  BY <1>2, <1>4, <1>5 DEF Transfers, NoShare
<1>7. Buffered'
  <2>1. SUFFICES ASSUME NEW a \in Masters, Sending(a), sender[a].file \notin clashed
                 PROVE  /\ uploads'[sender[a].id].open
                        /\ uploads'[sender[a].id].data = Kept(a)'
    BY <1>2, <1>4, <1>5 DEF Buffered
  <2>2. uploads[sender[a].id].open /\ uploads[sender[a].id].data = Kept(a)
    BY <2>1 DEF Transfers, Buffered
  <2>3. CASE a = m
    <3> DEFINE d == [uploads[id].data EXCEPT ![i] = sender[m].file]
    <3>1. uploads'[id].open /\ uploads'[id].data = d
      BY <1>1, <1>3 DEF KeepOf, Shape, UploadRecs
    <3>2. d = Kept(a)'
      <4>1. uploads[id].data =
              [j \in 1..n |-> IF j \in sender[m].ok THEN sender[m].file ELSE 0]
        BY <1>3, <2>2, <2>3 DEF Kept, Pieces
      <4>2. Kept(a)' = [j \in 1..n |-> IF j \in sender[m].ok \union {i}
                                       THEN sender[m].file ELSE 0]
        BY <1>3, <1>4, <2>3 DEF Kept, Pieces
      <4> QED
        BY <1>3, <4>1, <4>2
    <3> QED
      BY <1>3, <2>3, <3>1, <3>2
  <2>4. CASE a # m
    <3>1. sender[a].id # id
      BY <1>2, <1>3, <2>1, <2>4 DEF Transfers, NoShare
    <3>2. uploads'[sender[a].id] = uploads[sender[a].id]
      BY <1>1, <3>1, <2>1 DEF KeepOf, Shape, Sending
    <3> QED
      BY <1>5, <2>2, <2>4, <3>2
  <2> QED
    BY <2>3, <2>4
<1>8. WrittenOut'
  <2>1. \/ saving' = Free
        \/ saving'.do = "write"
        \/ saving'.result = "failed"
    BY <1>2 DEF Keep
  <2> QED
    BY <2>1 DEF WrittenOut
<1>9. Whole' /\ UnknownIsClash'
  <2>1. UnknownIsClash'
    BY <1>2, <1>4 DEF Transfers, UnknownIsClash
  <2>2. sender'[m].answer # "ok"
    BY <1>2, <1>4 DEF Sending
  <2>3. Whole'
    BY <1>2, <1>4, <2>2, WholeStays DEF Transfers
  <2> QED
    BY <2>1, <2>3
<1> QED
  BY <1>6, <1>7, <1>8, <1>9 DEF Transfers

\* Write, Load and HandOut touch no transfer.
LEMMA SaverTransfers ==
  ASSUME Transfers, UNCHANGED <<uploads, sender, clashed>>, WrittenOut',
         unflushed \subseteq unflushed'
  PROVE  Transfers'
<1>1. \A m \in Masters : (Sending(m)' <=> Sending(m)) /\ Kept(m)' = Kept(m)
  BY DEF Sending, Kept
<1>2. NoShare' /\ Buffered'
  BY <1>1 DEF Transfers, NoShare, Buffered
<1>3. Whole' /\ UnknownIsClash'
  <2>1. Whole'
    BY WholeStays DEF Transfers
  <2> QED
    BY <2>1 DEF Transfers, UnknownIsClash
<1> QED
  BY <1>2, <1>3 DEF Transfers

LEMMA SaveTransfers ==
  ASSUME Shape, TypeOK, Transfers, Write \/ Load \/ \E u \in Units : HandOut(u)
  PROVE  Transfers'
<1>1. UNCHANGED <<uploads, sender, clashed>> /\ saving # Free
  <2>1. saving.do # "nothing"
    BY DEF Write, Load, HandOut
  <2> QED
    BY <2>1, NotFree DEF Write, Load, HandOut
<1>2. saving \in SavingRecs /\ Upload \in UploadRecs
  BY <1>1, Holder
<1>3. CASE Write
  <2>1. /\ unflushed \subseteq unflushed'
        /\ saving'.result = "ok" =>
             Survives(unflushed', sender[saving.by].file, disk'[Upload.name],
                      Upload.data)
    <3>1. Upload.name \in DOMAIN disk
      BY <1>2 DEF TypeOK, UploadRecs
    <3> QED
      BY <1>2, <1>3, <3>1 DEF Write, SavingRecs, Survives
  <2>2. saving'.by = saving.by
    BY <1>2, <1>3 DEF Write, SavingRecs
  <2>3. Upload' = Upload
    BY <1>1, <2>2 DEF Upload
  <2>4. WrittenOut'
    BY <1>1, <2>1, <2>2, <2>3 DEF WrittenOut
  <2> QED
    BY <1>1, <2>1, <2>4, SaverTransfers
<1>4. CASE Load \/ \E u \in Units : HandOut(u)
  <2>1. /\ saving'.by = saving.by /\ saving'.result = saving.result
        /\ saving.do # "write" /\ UNCHANGED <<disk, unflushed>>
    BY <1>2, <1>4 DEF Load, HandOut, Served, SavingRecs
  <2>2. Upload' = Upload
    BY <1>1, <2>1 DEF Upload
  <2>3. WrittenOut'
    BY <1>1, <2>1, <2>2 DEF Transfers, WrittenOut
  <2> QED
    BY <1>1, <2>1, <2>3, SaverTransfers
<1> QED
  BY <1>3, <1>4

LEMMA AnswerTransfers ==
  ASSUME Shape, TypeOK, Transfers, Answer
  PROVE  Transfers'
<1> DEFINE b == saving.by
           id == sender[b].id
<1>1. /\ saving # Free /\ saving' = Free
      /\ \A m \in Masters \ {b} : sender'[m] = sender[m]
      /\ sender'[b] = [sender[b] EXCEPT !.answer = saving.result,
                                        !.saved = disk[Upload.name]]
  BY AnswerShape
<1>2. /\ saving \in SavingRecs /\ b \in Masters /\ Sending(b) /\ id \in Ids
      /\ Upload = uploads[id]
  BY <1>1, Holder
<1>3. /\ uploads' = [uploads EXCEPT ![id] = NoUpload] /\ UNCHANGED <<clashed, unflushed>>
      /\ saving.do # "write"
  BY DEF Answer
<1>4. /\ sender'[b].file = sender[b].file /\ sender'[b].size = sender[b].size
      /\ sender'[b].ok = sender[b].ok /\ sender'[b].answer = saving.result
      /\ sender'[b].saved = disk[Upload.name] /\ saving.result \in {"ok", "failed"}
  <2>1. sender[b] \in SenderRecs /\ saving.result \in {"ok", "failed"}
    BY <1>2 DEF Shape, SavingRecs
  <2>2. sender'[b] = [sender[b] EXCEPT !.answer = saving.result,
                                       !.saved = disk[Upload.name]]
    BY <1>1
  <2> HIDE DEF b
  <2> QED
    BY <2>1, <2>2 DEF SenderRecs
<1> HIDE DEF b, id
<1>5. \A m \in Masters : Sending(m)' <=> m # b /\ Sending(m)
  BY <1>1, <1>4 DEF Sending
<1>6. NoShare'
  BY <1>1, <1>3, <1>5 DEF Transfers, NoShare
<1>7. Buffered'
  <2>1. SUFFICES ASSUME NEW a \in Masters, Sending(a)', sender'[a].file \notin clashed'
                 PROVE  /\ uploads'[sender'[a].id].open
                        /\ uploads'[sender'[a].id].data = Kept(a)'
    BY DEF Buffered
  <2>2. a # b /\ Sending(a) /\ sender'[a] = sender[a]
    BY <1>1, <1>5, <2>1
  <2>3. sender[a].id # id
    BY <1>2, <1>3, <2>1, <2>2 DEF Transfers, NoShare, id
  <2>4. uploads'[sender[a].id] = uploads[sender[a].id]
    BY <1>3, <2>2, <2>3 DEF Shape, Sending
  <2>5. Kept(a)' = Kept(a)
    BY <2>2 DEF Kept
  <2> QED
    BY <1>3, <2>1, <2>2, <2>4, <2>5 DEF Transfers, Buffered
<1>8. WrittenOut'
  BY <1>1 DEF WrittenOut
<1>9. Whole'
  <2>1. SUFFICES ASSUME NEW a \in Masters, sender'[a].answer = "ok",
                        sender'[a].file \notin clashed'
                 PROVE  Intact(a)'
    BY DEF Whole
  <2>2. CASE a = b
    <3>1. Survives(unflushed, sender[b].file, disk[Upload.name], Upload.data)
      BY <1>1, <1>3, <1>4, <2>1, <2>2 DEF Transfers, WrittenOut, b
    <3>2. Upload.data = Kept(b)
      BY <1>2, <1>3, <1>4, <2>1, <2>2 DEF Transfers, Buffered, id
    <3>3. Kept(a)' = Kept(b)
      BY <1>4, <2>2 DEF Kept
    <3> QED
      BY <1>3, <1>4, <2>2, <3>1, <3>2, <3>3 DEF Intact
  <2>3. CASE a # b
    <3>1. sender'[a] = sender[a]
      BY <1>1, <2>3
    <3>2. Intact(a)
      BY <1>3, <2>1, <3>1 DEF Transfers, Whole
    <3>3. Kept(a)' = Kept(a)
      BY <3>1 DEF Kept
    <3> QED
      BY <1>3, <3>1, <3>2, <3>3 DEF Intact
  <2> QED
    BY <2>2, <2>3
<1>10. UnknownIsClash'
  <2>1. sender'[b].answer # "unknown"
    BY <1>4
  <2> QED
    BY <1>1, <1>3, <2>1 DEF Transfers, UnknownIsClash
<1> QED
  BY <1>6, <1>7, <1>8, <1>9, <1>10 DEF Transfers

LEMMA RestartTransfers ==
  ASSUME Restart PROVE Transfers'
<1>1. /\ sender' = [m \in Masters |-> NoFile] /\ saving' = Free
      /\ NoFile.file = 0 /\ NoFile.answer = "none"
  BY DEF Restart, NoFile, Transfer
<1>2. \A m \in Masters : ~Sending(m)' /\ sender'[m].answer = "none"
  BY <1>1 DEF Sending
<1> QED
  BY <1>1, <1>2
     DEF Transfers, NoShare, Buffered, WrittenOut, Whole, UnknownIsClash
-----------------------------------------------------------------------------
LEMMA IdleFollows ==
  ASSUME FollowOrDue, saving = Free, UNCHANGED <<unitCfg, missed>>,
         disk'[Goose] = disk[Goose] \/ ~Loads(disk'[Goose])
  PROVE  FollowOrDue'
<1>1. \A u \in Units : ~Due(u)
  BY DEF Due
<1>2. SUFFICES ASSUME Loads(disk'[Goose]), NEW u \in Units \ missed', Named(u)'
               PROVE  unitCfg'[u] = disk'[Goose][Part[u]]
  BY DEF FollowOrDue
<1>3. disk'[Goose] = disk[Goose]
  BY <1>2
<1>4. Loads(disk[Goose]) /\ Named(u)
  BY <1>2, <1>3 DEF Named
<1> QED
  BY <1>1, <1>3, <1>4 DEF FollowOrDue

LEMMA MasterFollows ==
  ASSUME Shape, TypeOK, FollowOrDue, NEW m \in Masters,
         \/ Refused(m) \/ Keep(m)
         \/ \E id \in Ids, n \in Names, size \in 1..MaxSize :
              Activate(m, id, n, size)
  PROVE  FollowOrDue'
<1>1. saving = Free /\ UNCHANGED <<unitCfg, missed>>
  BY DEF Refused, Refuse, Keep, Activate
<1>2. disk' = disk \/ \E n \in Names : disk' = [disk EXCEPT ![n] = <<>>]
  <2>1. CASE Keep(m)
    <3>1. PICK id \in Ids, i \in Nat, n \in Nat : KeepOf(m, id, i, n)
      BY <2>1, KeepIs
    <3>2. sender[m].id = id /\ uploads[id].name \in Names
      BY <3>1 DEF KeepOf, TypeOK
    <3> QED
      BY <2>1, <3>2 DEF Keep
  <2>2. CASE \/ Refused(m)
             \/ \E id \in Ids, n \in Names, size \in 1..MaxSize :
                  Activate(m, id, n, size)
    BY <2>2 DEF Refused, Refuse, Activate
  <2> QED
    BY <2>1, <2>2
<1>3. disk'[Goose] = disk[Goose] \/ ~Loads(disk'[Goose])
  BY <1>2, UploadAssumption DEF TypeOK, Loads
<1> QED
  BY <1>1, <1>3, IdleFollows

\* The saving under way keeps its transfer.
LEMMA SameUpload ==
  ASSUME Shape, TypeOK, Write \/ Load \/ \E u \in Units : HandOut(u)
  PROVE  /\ saving # Free /\ saving \in SavingRecs
         /\ Upload \in UploadRecs /\ Upload' = Upload
<1>1. UNCHANGED <<uploads, sender>> /\ saving # Free
  <2>1. saving.do # "nothing"
    BY DEF Write, Load, HandOut
  <2> QED
    BY <2>1, NotFree DEF Write, Load, HandOut
<1>2. saving \in SavingRecs /\ Upload \in UploadRecs
  BY <1>1, Holder
<1>3. saving'.by = saving.by
  BY <1>2 DEF Write, Load, HandOut, Served, SavingRecs
<1> QED
  BY <1>1, <1>2, <1>3 DEF Upload

LEMMA WriteFollows ==
  ASSUME Shape, TypeOK, FollowOrDue, Write
  PROVE  FollowOrDue'
<1>1. saving # Free /\ saving \in SavingRecs /\ Upload \in UploadRecs /\ Upload' = Upload
  BY SameUpload
<1>2. /\ saving.do = "write" /\ UNCHANGED <<unitCfg, missed>>
      /\ \E c : disk' = [disk EXCEPT ![Upload.name] = c]
  BY DEF Write
<1>3. saving'.do = "load"
  BY <1>1 DEF Write, SavingRecs
<1>4. saving' # Free
  BY <1>3, NotFree
<1>5. CASE Upload.name = Goose
  BY <1>1, <1>3, <1>4, <1>5 DEF FollowOrDue, Due
<1>6. CASE Upload.name # Goose
  <2>1. disk'[Goose] = disk[Goose] /\ \A u \in Units : ~Due(u)
    BY <1>2, <1>6, UploadAssumption DEF TypeOK, Due
  <2>2. \A u \in Units : Named(u)' <=> Named(u)
    BY <2>1 DEF Named
  <2> QED
    BY <1>2, <2>1, <2>2 DEF FollowOrDue
<1> QED
  BY <1>5, <1>6

LEMMA LoadFollows ==
  ASSUME Shape, TypeOK, FollowOrDue, Load
  PROVE  FollowOrDue'
<1>1. saving # Free /\ saving \in SavingRecs /\ Upload \in UploadRecs /\ Upload' = Upload
  BY SameUpload
<1>2. saving.do = "load" /\ UNCHANGED <<disk, unitCfg, missed>>
  BY DEF Load
<1>3. CASE Upload.name = Goose /\ Loads(disk[Goose])
  <2>1. saving'.do = "hand out" /\ saving'.units = Units
    BY <1>1, <1>3 DEF Load, SavingRecs
  <2>2. saving' # Free
    BY <2>1, NotFree
  <2> QED
    BY <1>1, <1>3, <2>1, <2>2 DEF FollowOrDue, Due
<1>4. CASE Upload.name # Goose
  <2>1. \A u \in Units : ~Due(u) /\ (Named(u)' <=> Named(u))
    BY <1>2, <1>4 DEF Due, Named
  <2> QED
    BY <1>2, <2>1 DEF FollowOrDue
<1>5. CASE ~Loads(disk[Goose])
  BY <1>2, <1>5 DEF FollowOrDue
<1> QED
  BY <1>3, <1>4, <1>5

LEMMA HandOutFollows ==
  ASSUME Shape, TypeOK, FollowOrDue, NEW u \in Units, HandOut(u)
  PROVE  FollowOrDue'
<1>1. saving # Free /\ saving \in SavingRecs /\ Upload \in UploadRecs /\ Upload' = Upload
  BY SameUpload
<1>2. saving.do = "hand out" /\ UNCHANGED disk
  BY DEF HandOut
<1>3. saving'.do = "hand out" /\ saving'.units = saving.units \ {u}
  BY <1>1, <1>2 DEF HandOut, Served, SavingRecs
<1>4. saving' # Free
  BY <1>3, NotFree
<1>5. SUFFICES ASSUME Loads(disk[Goose]), NEW w \in Units \ missed'
               PROVE  Due(w)' \/ (Named(w) => unitCfg'[w] = disk[Goose][Part[w]])
  BY <1>2 DEF FollowOrDue, Named
<1>6. CASE w = u
  BY <1>5, <1>6 DEF HandOut, TypeOK
<1>7. CASE w # u
  <2>1. w \notin missed /\ unitCfg'[w] = unitCfg[w]
    BY <1>5, <1>7 DEF HandOut, TypeOK
  <2>2. Due(w) => Due(w)'
    BY <1>1, <1>2, <1>3, <1>4, <1>7 DEF Due
  <2> QED
    BY <1>5, <2>1, <2>2 DEF FollowOrDue
<1> QED
  BY <1>6, <1>7

LEMMA AnswerFollows ==
  ASSUME FollowOrDue, Answer
  PROVE  FollowOrDue'
<1>1. UNCHANGED <<disk, unitCfg, missed>>
  BY DEF Answer
<1>2. \A u \in Units : ~Due(u) /\ (Named(u)' <=> Named(u))
  BY <1>1 DEF Answer, Due, Named
<1> QED
  BY <1>1, <1>2 DEF FollowOrDue

LEMMA RestartFollows ==
  ASSUME FollowOrDue, Restart
  PROVE  FollowOrDue'
<1>1. UNCHANGED <<disk, unitCfg>>
  BY DEF Restart
<1>2. \A u \in Units \ missed' : ~Due(u) /\ u \notin missed
  BY DEF Restart, Due
<1>3. \A u \in Units : Named(u)' <=> Named(u)
  BY <1>1 DEF Named
<1> QED
  BY <1>1, <1>2, <1>3 DEF FollowOrDue
-----------------------------------------------------------------------------
LEMMA InitInv == Init => IInv
<1> SUFFICES ASSUME Init PROVE IInv
  OBVIOUS
<1>1. \A m \in Masters : sender[m].file = 0 /\ sender[m].answer = "none"
  BY DEF Init, NoFile, Transfer
<1>2. Transfers
  BY <1>1 DEF Init, Transfers, NoShare, Buffered, WrittenOut, Whole,
              UnknownIsClash, Sending
<1>3. ~Loads(disk[Goose])
  BY UploadAssumption DEF Init, Loads
<1> QED
  BY <1>2, <1>3, InitShape DEF IInv, FollowOrDue

LEMMA NextInv == IInv /\ [Next]_vars => IInv'
<1> SUFFICES ASSUME IInv, [Next]_vars PROVE IInv'
  OBVIOUS
<1>0. Shape /\ TypeOK /\ Transfers /\ FollowOrDue
  BY DEF IInv
<1>1. ASSUME NEW m \in Masters, NEW id \in Ids, NEW n \in Names,
             NEW size \in 1..MaxSize, Activate(m, id, n, size)
      PROVE  IInv'
  BY <1>0, <1>1, ActivateShape, ActivateTransfers, MasterFollows DEF IInv
<1>2. ASSUME NEW m \in Masters, Refused(m) PROVE IInv'
  BY <1>0, <1>2, RefusedShape, RefusedTransfers, MasterFollows DEF IInv
<1>3. ASSUME NEW m \in Masters, Keep(m) PROVE IInv'
  BY <1>0, <1>3, KeepShape, KeepTransfers, MasterFollows DEF IInv
<1>4. CASE Write
  BY <1>0, <1>4, WriteShape, SaveTransfers, WriteFollows DEF IInv
<1>5. CASE Load
  BY <1>0, <1>5, LoadShape, SaveTransfers, LoadFollows DEF IInv
<1>6. ASSUME NEW u \in Units, HandOut(u) PROVE IInv'
  BY <1>0, <1>6, HandOutShape, SaveTransfers, HandOutFollows DEF IInv
<1>7. CASE Answer
  BY <1>0, <1>7, AnswerShape, AnswerTransfers, AnswerFollows DEF IInv
<1>8. CASE Restart
  BY <1>0, <1>8, RestartShape, RestartTransfers, RestartFollows DEF IInv
<1>9. CASE UNCHANGED vars
  <2>1. UNCHANGED <<uploads, disk, saving, unitCfg, sender, started, faults,
                    clashed, unflushed, missed>>
    BY <1>9 DEF vars
  <2>2. Shape' /\ TypeOK'
    BY <1>0, <2>1 DEF Shape, TypeOK, Sending, Content, UploadRecs, SenderRecs,
                      SavingRecs
  <2>3. Transfers' /\ FollowOrDue'
    BY <1>0, <2>1 DEF Transfers, NoShare, Buffered, WrittenOut, Whole,
                      UnknownIsClash, FollowOrDue, Due, Named, Upload, Kept,
                      Intact, Sending
  <2> QED
    BY <2>2, <2>3 DEF IInv
<1> QED
  BY <1>1, <1>2, <1>3, <1>4, <1>5, <1>6, <1>7, <1>8, <1>9 DEF Next, SaveStep

\* Every reachable state satisfies the inductive invariant.
THEOREM UploadInvariant == Spec => []IInv
  BY InitInv, NextInv, PTL DEF Spec

\* The variables keep their types (of all of FileUpload).
THEOREM UploadTypeCorrect == Spec => []TypeOK
<1>1. IInv => TypeOK
  BY DEF IInv
<1> QED
  BY <1>1, UploadInvariant, PTL

\* A master told success finds what it sent in the file saved: the last piece
\* of writeFileContent saves a buffer no other transfer has touched, and only an
\* end that save_file lost when it closed the file can be missing.
THEOREM SavedIsWhatWasSent == Spec => []SavedIsSent
<1>1. IInv => SavedIsSent
  BY SentIsKept DEF IInv, Transfers
<1> QED
  BY <1>1, UploadInvariant, PTL

\* A piece is refused as unknown only when another master used the identity.
THEOREM OnlyClashesAreUnknown == Spec => []UnknownIsClash
<1>1. IInv => UnknownIsClash
  BY DEF IInv, Transfers
<1> QED
  BY <1>1, UploadInvariant, PTL

\* The units save_file reached have what the GOOSE configuration on disk says
\* of them, whatever failures and restarts there were.
THEOREM UnitsHaveTheirPart == Spec => []UnitsFollowFile
<1>1. IInv => UnitsFollowFile
  BY DEF IInv, FollowOrDue, Due, UnitsFollowFile
<1> QED
  BY <1>1, UploadInvariant, PTL
=============================================================================
