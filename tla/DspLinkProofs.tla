----------------------------- MODULE DspLinkProofs -----------------------------
(***************************************************************************)
(* Proofs about DspLink: a read that succeeds has returned its own answer  *)
(* whole, and a write that succeeds has left its own image in the DSP, as  *)
(* long as the DSP answers in time.                                        *)
(***************************************************************************)
EXTENDS DspLink, SequenceTheorems, TLAPS

LocalRecs ==
  [at : {"idle", "lock", "send", "reply", "receive"}, cmd : Commands,
   block : Nat, attempt : Nat, resend : Nat, got : Seq(Commands \X Nat),
   size : Nat, last : Nat, ok : BOOLEAN]

\* The locals of a call are within its command's bounds.
Bounded(r) ==
  /\ r \in LocalRecs
  /\ r.block \in 1..Blocks[r.cmd] /\ r.attempt \in 1..Attempts
  /\ r.at # "idle" => Len(r.got) <= r.size

Exchanging(c) == x[c].at \in {"send", "reply", "receive"}

CallsOK ==
  /\ lock \in Callers \union {NoOne}
  /\ x \in [Callers -> LocalRecs]
  /\ \A c \in Callers : Bounded(x[c]) /\ (Exchanging(c) => lock = c)

LinkOK ==
  /\ order \in Orders \union {NoOrder} /\ bell \in BOOLEAN
  /\ answer \in Answers \union {NoAnswer} /\ ring \in BOOLEAN

StreamOK ==
  /\ stream \in Streams \union {Silent} /\ unheard \in BOOLEAN
  /\ garbled \in 0..Garbles /\ repeated \in 0..Repeats
  /\ unheard => stream # Silent

MemoryOK == memory \in Seq(Writes \X Nat)

TypeInv == CallsOK /\ LinkOK /\ StreamOK /\ MemoryOK
-----------------------------------------------------------------------------
LEMMA MaxNat == MaxBlocks \in Nat
  BY DEF MaxBlocks

LEMMA Marks ==
  /\ FinalNo \in Nat /\ BareNo \in Nat /\ NoNo \in Nat
  /\ MaxBlocks < FinalNo /\ FinalNo < BareNo /\ BareNo < NoNo
  BY DEF MaxBlocks, FinalNo, BareNo, NoNo

LEMMA BlocksOK ==
  ASSUME NEW k \in Commands
  PROVE  /\ Blocks[k] \in 1..MaxBlocks
         /\ Blocks[k] \in Nat /\ 1 <= Blocks[k] /\ Blocks[k] <= MaxBlocks
         /\ MaxBlocks \in Nat
<1>1. Blocks[k] \in 1..MaxBlocks
  BY CommandAssumption
<1> QED
  BY <1>1, MaxNat

LEMMA NoSeq == <<>> \in Seq(Commands \X Nat) /\ Len(<<>>) = 0
  BY EmptySeq

LEMMA First1 ==
  ASSUME NEW k \in Commands
  PROVE  1 \in 1..Blocks[k] /\ 1 \in 1..Attempts
  BY BlocksOK, BoundAssumption

LEMMA LocalsBounded ==
  ASSUME NEW k \in Commands,
         NEW at \in {"idle", "lock", "send", "reply", "receive"}
  PROVE  /\ Locals(at, k) \in LocalRecs
         /\ Bounded(Locals(at, k))
<1>1. NoNo \in Nat /\ 1 \in Nat /\ 0 \in Nat /\ 0 <= 0
  BY DEF NoNo
<1>2. Locals(at, k) \in LocalRecs
  BY <1>1, NoSeq DEF Locals, LocalRecs
<1> QED
  BY <1>1, <1>2, First1, NoSeq DEF Bounded, Locals

\* One caller's step: the others keep their locals, and it has the lock.
LEMMA CallsStep ==
  ASSUME CallsOK, NEW c \in Callers, NEW r, Bounded(r),
         x' = [x EXCEPT ![c] = r],
         \/ lock = c /\ lock' = c
         \/ lock = c /\ lock' = NoOne /\ r.at = "idle"
         \/ lock = NoOne /\ lock' = c /\ r.at = "send"
         \/ lock' = lock /\ r.at = "lock"
  PROVE  CallsOK'
<1>1. lock' \in Callers \union {NoOne}
  BY DEF CallsOK
<1>2. x' \in [Callers -> LocalRecs]
  BY DEF CallsOK, Bounded
<1>3. ASSUME NEW d \in Callers
      PROVE  Bounded(x[d])' /\ (Exchanging(d)' => lock' = d)
  <2>1. CASE d = c
    <3>1. x'[d] = r
      BY <2>1 DEF CallsOK
    <3> QED
      BY <2>1, <3>1 DEF Bounded, Exchanging
  <2>2. CASE d # c
    <3>1. x'[d] = x[d]
      BY <2>2 DEF CallsOK
    <3>2. NoOne # d
      BY CallerAssumption
    <3> QED
      BY <2>2, <3>1, <3>2 DEF CallsOK, Bounded, Exchanging
  <2> QED
    BY <2>1, <2>2
<1> QED
  BY <1>1, <1>2, <1>3 DEF CallsOK

LEMMA KeepOK ==
  ASSUME CallsOK, NEW c \in Callers, NEW r, Bounded(r), lock = c, Keep(c, r)
  PROVE  CallsOK'
<1> QED
  BY CallsStep DEF Keep

LEMMA ReturnOK ==
  ASSUME CallsOK, NEW c \in Callers, NEW r, r.cmd \in Commands,
         r.got \in Seq(Commands \X Nat), lock = c, NEW ok \in BOOLEAN,
         Return(c, r, ok)
  PROVE  CallsOK'
<1> DEFINE t == [Locals("idle", r.cmd) EXCEPT !.got = r.got, !.ok = ok]
<1>1. Locals("idle", r.cmd) \in LocalRecs /\ Bounded(Locals("idle", r.cmd))
  BY LocalsBounded
<1>2. Bounded(t) /\ t.at = "idle"
  BY <1>1 DEF Bounded, LocalRecs, Locals
<1> QED
  BY <1>2, CallsStep DEF Return

LEMMA GiveUpOK ==
  ASSUME CallsOK, NEW c \in Callers, NEW r, r.cmd \in Commands,
         r.block \in 1..Blocks[r.cmd], r.attempt \in 1..Attempts,
         r.got \in Seq(Commands \X Nat), lock = c, GiveUp(c, r)
  PROVE  CallsOK'
<1> DEFINE t == [Locals("send", r.cmd) EXCEPT !.block = r.block,
                                              !.attempt = r.attempt + 1]
<1>1. CASE r.attempt < Attempts
  <2>1. Locals("send", r.cmd) \in LocalRecs /\ Bounded(Locals("send", r.cmd))
    BY LocalsBounded
  <2>2. r.attempt + 1 \in 1..Attempts /\ r.attempt + 1 \in Nat
    BY <1>1, BoundAssumption
  <2>3. r.block \in Nat
    BY BlocksOK
  <2>4. t \in LocalRecs
    BY <2>1, <2>2, <2>3 DEF LocalRecs
  <2>5. Bounded(t)
    BY <2>1, <2>2, <2>4 DEF Bounded, Locals
  <2> QED
    BY <1>1, <2>5, KeepOK DEF GiveUp
<1>2. CASE ~(r.attempt < Attempts)
  BY <1>2, ReturnOK DEF GiveUp
<1> QED
  BY <1>1, <1>2

LEMMA NextBlockOK ==
  ASSUME CallsOK, NEW c \in Callers, NEW r, Bounded(r), lock = c,
         NextBlock(c, r)
  PROVE  CallsOK'
<1> DEFINE t == [Locals("send", r.cmd) EXCEPT !.block = r.block + 1]
<1>0. r.cmd \in Commands /\ r.got \in Seq(Commands \X Nat)
  BY DEF Bounded, LocalRecs
<1>1. CASE r.block < Blocks[r.cmd]
  <2>1. Locals("send", r.cmd) \in LocalRecs /\ Bounded(Locals("send", r.cmd))
    BY <1>0, LocalsBounded
  <2>2. r.block + 1 \in 1..Blocks[r.cmd] /\ r.block + 1 \in Nat
    BY <1>0, <1>1, BlocksOK DEF Bounded
  <2>4. t \in LocalRecs
    BY <2>1, <2>2 DEF LocalRecs
  <2>5. Bounded(t)
    BY <2>1, <2>2, <2>4 DEF Bounded, Locals
  <2> QED
    BY <1>1, <2>5, KeepOK DEF NextBlock
<1>2. CASE ~(r.block < Blocks[r.cmd])
  BY <1>0, <1>2, ReturnOK DEF NextBlock
<1> QED
  BY <1>1, <1>2
-----------------------------------------------------------------------------
\* The areas of the link: what is written there is an order or an answer.
LEMMA Kinds ==
  /\ \A k \in {"ack", "nack"} : [kind |-> k] \in Orders
  /\ \A k \in {"ack", "nack", "crcbad", "other", "bad"} :
       [kind |-> k] \in Answers
  BY DEF Orders, Answers

LEMMA OrderOfOK ==
  ASSUME NEW r, Bounded(r)
  PROVE  OrderOf(r) \in Orders
<1>1. r.cmd \in Commands
  BY DEF Bounded, LocalRecs
<1>2. r.block \in 1..Blocks[r.cmd]
  BY DEF Bounded
<1>3. r.block \in 1..MaxBlocks
  BY <1>1, <1>2, BlocksOK
<1> QED
  BY <1>1, <1>3 DEF OrderOf, Orders, Commands

LEMMA AnswerOK ==
  ASSUME NEW a \in Answers, Answer(a), answer \in Answers \union {NoAnswer},
         ring \in BOOLEAN
  PROVE  answer' \in Answers \union {NoAnswer} /\ ring' \in BOOLEAN
  BY DEF Answer

LEMMA DataOK ==
  ASSUME NEW s \in Streams
  PROVE  /\ [kind |-> "data", cmd |-> s[1], block |-> s[2]] \in Answers
         /\ s[1] \in Reads /\ s[1] \in Commands
         /\ s[2] \in Nat /\ 1 <= s[2] /\ s[2] <= Blocks[s[1]]
         /\ s = <<s[1], s[2]>> /\ s # Silent
<1>1. s[1] \in Reads /\ s[2] \in 1..MaxBlocks /\ s[2] \in 1..Blocks[s[1]]
  BY DEF Streams
<1>2. s[1] \in Commands
  BY <1>1 DEF Commands
<1>3. [kind |-> "data", cmd |-> s[1], block |-> s[2]] \in Answers
  BY <1>1 DEF Answers
<1>4. s = <<s[1], s[2]>>
  BY DEF Streams
<1>5. s # Silent
  BY <1>4 DEF Silent
<1>6. s[2] \in Nat /\ 1 <= s[2] /\ s[2] <= Blocks[s[1]]
  BY <1>1, <1>2, BlocksOK
<1> QED
  BY <1>1, <1>2, <1>3, <1>4, <1>5, <1>6

LEMMA AnswerBlockOK ==
  ASSUME NEW s \in Streams, NEW g \in 0..Garbles, AnswerBlock(s, g),
         answer \in Answers \union {NoAnswer}, ring \in BOOLEAN
  PROVE  /\ answer' \in Answers \union {NoAnswer} /\ ring' \in BOOLEAN
         /\ garbled' \in 0..Garbles
<1>1. CASE /\ Answer([kind |-> "data", cmd |-> s[1], block |-> s[2]])
           /\ garbled' = g
  BY <1>1, DataOK, AnswerOK
<1>2. CASE g < Garbles /\ Answer([kind |-> "bad"]) /\ garbled' = g + 1
  <2>1. g + 1 \in 0..Garbles
    BY <1>2, BoundAssumption
  <2> QED
    BY <1>2, <2>1, Kinds, AnswerOK
<1> QED
  BY <1>1, <1>2 DEF AnswerBlock
-----------------------------------------------------------------------------
\* The ARM's steps keep the types.
LEMMA CallType ==
  ASSUME TypeInv, NEW c \in Callers, NEW k \in Commands, Call(c, k)
  PROVE  TypeInv'
<1>1. Bounded(Locals("lock", k)) /\ Locals("lock", k).at = "lock"
  BY LocalsBounded DEF Locals
<1>2. CallsOK'
  BY <1>1, CallsStep DEF TypeInv, Call
<1> QED
  BY <1>2 DEF TypeInv, Call, line, dspv, LinkOK, StreamOK, MemoryOK

LEMMA LockType ==
  ASSUME TypeInv, NEW c \in Callers, Lock(c)
  PROVE  TypeInv'
<1> DEFINE r == [x[c] EXCEPT !.at = "send"]
<1>1. x \in [Callers -> LocalRecs] /\ Bounded(x[c]) /\ x[c].at = "lock"
  BY DEF TypeInv, CallsOK, Lock
<1>2. r \in LocalRecs
  BY <1>1 DEF LocalRecs
<1>3. Bounded(r) /\ r.at = "send"
  BY <1>1, <1>2 DEF Bounded, LocalRecs
<1>4. x' = [x EXCEPT ![c] = r]
  BY <1>1 DEF Lock
<1>5. CallsOK'
  BY <1>3, <1>4, CallsStep DEF TypeInv, Lock
<1> QED
  BY <1>5 DEF TypeInv, Lock, line, dspv, LinkOK, StreamOK, MemoryOK

\* The fields of a caller that is in an exchange.
LEMMA Fields ==
  ASSUME CallsOK, NEW c \in Callers
  PROVE  /\ x[c] \in LocalRecs /\ Bounded(x[c])
         /\ x[c].cmd \in Commands /\ x[c].block \in 1..Blocks[x[c].cmd]
         /\ x[c].attempt \in 1..Attempts
         /\ x[c].got \in Seq(Commands \X Nat)
         /\ x[c].resend \in Nat /\ x[c].size \in Nat /\ x[c].last \in Nat
         /\ Exchanging(c) => lock = c
         /\ x[c].at # "idle" => Len(x[c].got) <= x[c].size
  BY DEF CallsOK, Bounded, LocalRecs

LEMMA AtResendOK ==
  ASSUME CallsOK, NEW c \in Callers, x[c].at # "idle",
         NEW at \in {"send", "reply", "receive"}, NEW n \in Nat
  PROVE  /\ Bounded([x[c] EXCEPT !.at = at, !.resend = n])
         /\ Bounded([x[c] EXCEPT !.resend = n])
<1> DEFINE r == [x[c] EXCEPT !.at = at, !.resend = n]
           s == [x[c] EXCEPT !.resend = n]
<1>1. r \in LocalRecs /\ s \in LocalRecs
  BY Fields DEF LocalRecs
<1>2. /\ r.block = x[c].block /\ r.cmd = x[c].cmd
      /\ r.attempt = x[c].attempt /\ r.got = x[c].got /\ r.size = x[c].size
      /\ s.block = x[c].block /\ s.cmd = x[c].cmd
      /\ s.attempt = x[c].attempt /\ s.got = x[c].got /\ s.size = x[c].size
  BY Fields DEF LocalRecs
<1>3. Bounded(r)
  BY <1>1, <1>2, Fields DEF Bounded
<1>4. Bounded(s)
  BY <1>1, <1>2, Fields DEF Bounded
<1> QED
  BY <1>3, <1>4

LEMMA SendType ==
  ASSUME TypeInv, NEW c \in Callers, Send(c)
  PROVE  TypeInv'
<1>1. CallsOK /\ x[c].at = "send" /\ lock = c
  BY Fields DEF TypeInv, Send, Exchanging
<1>2. CallsOK'
  BY <1>1, AtResendOK, KeepOK DEF Send
<1>3. OrderOf(x[c]) \in Orders
  BY <1>1, Fields, OrderOfOK
<1>4. LinkOK'
  BY <1>3 DEF TypeInv, LinkOK, Send
<1> QED
  BY <1>2, <1>4 DEF TypeInv, Send, dspv, StreamOK, MemoryOK

LEMMA SendFailsType ==
  ASSUME TypeInv, NEW c \in Callers, SendFails(c)
  PROVE  TypeInv'
<1>1. CallsOK /\ x[c].at = "send" /\ lock = c
  BY Fields DEF TypeInv, SendFails, Exchanging
<1>2. ASSUME Keep(c, [x[c] EXCEPT !.resend = @ + 1]) PROVE CallsOK'
  <2>1. x[c].resend + 1 \in Nat
    BY <1>1, Fields
  <2> QED
    BY <1>1, <1>2, <2>1, AtResendOK, KeepOK
<1>3. ASSUME GiveUp(c, x[c]) PROVE CallsOK'
  BY <1>1, <1>3, Fields, GiveUpOK
<1>4. CallsOK'
  BY <1>2, <1>3 DEF SendFails
<1>5. OrderOf(x[c]) \in Orders
  BY <1>1, Fields, OrderOfOK
<1>6. LinkOK'
  BY <1>5 DEF TypeInv, LinkOK, SendFails
<1> QED
  BY <1>4, <1>6 DEF TypeInv, SendFails, dspv, StreamOK, MemoryOK

LEMMA ReadKeepsLink ==
  ASSUME LinkOK, Read, order' \in Orders \union {NoOrder}, bell' \in BOOLEAN
  PROVE  LinkOK'
  BY DEF LinkOK, Read

LEMMA SayType ==
  ASSUME LinkOK, StreamOK, Read, UNCHANGED <<stream, garbled, repeated>>,
         \/ Say("ack") \/ SayUnheard("ack")
         \/ Say("nack") \/ SayUnheard("nack")
         \/ UNCHANGED <<order, bell, unheard>>
  PROVE  LinkOK' /\ StreamOK'
<1>1. order' \in Orders \union {NoOrder} /\ bell' \in BOOLEAN
  BY Kinds DEF LinkOK, Say, SayUnheard
<1>2. unheard' = unheard \/ unheard' = (stream # Silent)
  BY DEF Say, SayUnheard
<1>3. unheard' \in BOOLEAN /\ (unheard' => stream' # Silent)
  <2>1. CASE unheard' = unheard
    BY <2>1 DEF StreamOK
  <2>2. CASE unheard' = (stream # Silent)
    BY <2>2
  <2> QED
    BY <1>2, <2>1, <2>2
<1> QED
  BY <1>1, <1>3, ReadKeepsLink DEF StreamOK

LEMMA ReplyType ==
  ASSUME TypeInv, NEW c \in Callers, Reply(c)
  PROVE  TypeInv'
<1>1. CallsOK /\ x[c].at = "reply" /\ lock = c
  BY Fields DEF TypeInv, Reply, Exchanging
<1>2. \/ NextBlock(c, x[c]) \/ GiveUp(c, x[c])
      \/ Keep(c, [x[c] EXCEPT !.at = "send", !.resend = @ + 1])
  BY DEF Reply
<1>3. ASSUME NextBlock(c, x[c]) PROVE CallsOK'
  BY <1>1, <1>3, Fields, NextBlockOK
<1>4. ASSUME GiveUp(c, x[c]) PROVE CallsOK'
  BY <1>1, <1>4, Fields, GiveUpOK
<1>5. ASSUME Keep(c, [x[c] EXCEPT !.at = "send", !.resend = @ + 1])
      PROVE  CallsOK'
  <2>1. x[c].resend + 1 \in Nat
    BY <1>1, Fields
  <2> QED
    BY <1>1, <1>5, <2>1, AtResendOK, KeepOK
<1>6. LinkOK'
  BY ReadKeepsLink DEF TypeInv, LinkOK, Reply
<1> QED
  BY <1>2, <1>3, <1>4, <1>5, <1>6 DEF TypeInv, Reply, dspv, StreamOK, MemoryOK

LEMMA TimeOutType ==
  ASSUME TypeInv, NEW c \in Callers, TimeOut(c)
  PROVE  TypeInv'
<1>1. CallsOK /\ lock = c
  BY Fields DEF TypeInv, TimeOut, Exchanging
<1>2. CallsOK'
  BY <1>1, Fields, GiveUpOK DEF TimeOut
<1> QED
  BY <1>2 DEF TypeInv, TimeOut, line, dspv, LinkOK, StreamOK, MemoryOK

LEMMA ReceiveBadType ==
  ASSUME TypeInv, NEW c \in Callers, ReceiveBad(c)
  PROVE  TypeInv'
<1>1. CallsOK /\ x[c].at = "receive" /\ lock = c
  BY Fields DEF TypeInv, ReceiveBad, Exchanging
<1>2. \/ GiveUp(c, x[c])
      \/ Keep(c, [x[c] EXCEPT !.resend = @ + 1])
  BY DEF ReceiveBad
<1>3. ASSUME GiveUp(c, x[c]) PROVE CallsOK'
  BY <1>1, <1>3, Fields, GiveUpOK
<1>4. ASSUME Keep(c, [x[c] EXCEPT !.resend = @ + 1]) PROVE CallsOK'
  <2>1. x[c].resend + 1 \in Nat
    BY <1>1, Fields
  <2> QED
    BY <1>1, <1>4, <2>1, AtResendOK, KeepOK
<1>5. LinkOK' /\ StreamOK'
  BY SayType DEF TypeInv, ReceiveBad
<1> QED
  BY <1>2, <1>3, <1>4, <1>5 DEF TypeInv, ReceiveBad, MemoryOK

\* A good block in the answer area, and its number.
LEMMA ArrivedOK ==
  ASSUME LinkOK, answer.kind = "data"
  PROVE  /\ answer.cmd \in Reads /\ answer.cmd \in Commands
         /\ answer.block \in 1..MaxBlocks
         /\ No(answer.cmd, answer.block) \in Nat
         /\ answer = [kind |-> "data", cmd |-> answer.cmd,
                      block |-> answer.block]
<1>1. answer \in [kind : {"data"}, cmd : Reads, block : 1..MaxBlocks]
  BY DEF LinkOK, Answers, NoAnswer
<1>2. /\ answer.cmd \in Reads /\ answer.block \in 1..MaxBlocks
      /\ answer = [kind |-> "data", cmd |-> answer.cmd,
                   block |-> answer.block]
  BY <1>1
<1>3. answer.cmd \in Commands
  BY <1>2 DEF Commands
<1>4. No(answer.cmd, answer.block) \in Nat
  BY <1>2, <1>3, BlocksOK DEF No, FinalNo
<1> QED
  BY <1>2, <1>3, <1>4

Taken(c, size, got, n) ==
  [x[c] EXCEPT !.size = size, !.got = got, !.last = n]

LEMMA TakenOK ==
  ASSUME CallsOK, NEW c \in Callers, NEW size \in Nat,
         NEW got \in Seq(Commands \X Nat), NEW n \in Nat
  PROVE  LET r == Taken(c, size, got, n)
         IN  /\ r.cmd = x[c].cmd /\ r.block = x[c].block
             /\ r.attempt = x[c].attempt /\ r.got = got
             /\ r.size = size /\ r.last = n /\ r.resend = x[c].resend
             /\ r.at = x[c].at
             /\ Len(got) <= size => Bounded(r)
<1> DEFINE r == Taken(c, size, got, n)
<1>1. /\ r.cmd = x[c].cmd /\ r.block = x[c].block
      /\ r.attempt = x[c].attempt /\ r.got = got
      /\ r.size = size /\ r.last = n /\ r.resend = x[c].resend
      /\ r.at = x[c].at /\ r \in LocalRecs
  BY Fields DEF LocalRecs, Taken
<1>2. Len(got) <= size => Bounded(r)
  BY <1>1, Fields DEF Bounded
<1> QED
  BY <1>1, <1>2

LEMMA ReceiveBlockType ==
  ASSUME TypeInv, NEW c \in Callers, ReceiveBlock(c)
  PROVE  TypeInv'
<1> DEFINE b    == Block(answer.cmd, answer.block)
           n    == No(b[1], b[2])
           size == IF x[c].size = 0 THEN Blocks[b[1]] ELSE x[c].size
           got  == IF n = x[c].last THEN x[c].got ELSE Append(x[c].got, b)
           r    == Taken(c, size, got, n)
<1>1. CallsOK /\ x[c].at = "receive" /\ lock = c
  BY Fields DEF TypeInv, ReceiveBlock, Exchanging
<1>2. b \in Commands \X Nat /\ b[1] \in Commands /\ n \in Nat
  <2>1. answer.cmd \in Commands /\ answer.block \in 1..MaxBlocks
        /\ No(answer.cmd, answer.block) \in Nat
    BY ArrivedOK DEF TypeInv, ReceiveBlock
  <2>2. b[1] = answer.cmd /\ b[2] = answer.block
    BY DEF Block
  <2>3. answer.block \in Nat
    BY <2>1, BlocksOK
  <2> QED
    BY <2>1, <2>2, <2>3 DEF Block
<1>3. size \in Nat /\ got \in Seq(Commands \X Nat)
  <2>1. size \in Nat
    BY <1>1, <1>2, Fields, BlocksOK
  <2>2. x[c].got \in Seq(Commands \X Nat)
    BY <1>1, Fields
  <2>3. Append(x[c].got, b) \in Seq(Commands \X Nat)
    BY <1>2, <2>2, AppendProperties
  <2> QED
    BY <2>1, <2>2, <2>3
<1>4. Len(got) \in Nat
  BY <1>3, LenProperties
<1> HIDE DEF b, n, size, got
<1>5. /\ r.cmd = x[c].cmd /\ r.block = x[c].block
      /\ r.attempt = x[c].attempt /\ r.got = got
      /\ Len(got) <= size => Bounded(r)
  <2>1. CallsOK /\ n \in Nat /\ size \in Nat /\ got \in Seq(Commands \X Nat)
    BY <1>1, <1>2, <1>3
  <2> QED
    BY <2>1, TakenOK
<1> HIDE DEF r
<1>6. \/ GiveUp(c, x[c])
      \/ GiveUp(c, r)
      \/ ~(Len(got) > size) /\ (Keep(c, r) \/ Return(c, r, TRUE))
  BY DEF ReceiveBlock, Taken, b, n, size, got, r
<1>7. ASSUME GiveUp(c, x[c]) PROVE CallsOK'
  BY <1>1, <1>7, Fields, GiveUpOK
<1>8. ASSUME GiveUp(c, r) PROVE CallsOK'
  BY <1>1, <1>3, <1>5, <1>8, Fields, GiveUpOK
<1>9. ASSUME ~(Len(got) > size), Keep(c, r) \/ Return(c, r, TRUE)
      PROVE  CallsOK'
  <2>1. Len(got) <= size
    BY <1>3, <1>4, <1>9
  <2>2. Bounded(r)
    BY <1>5, <2>1
  <2>3. ASSUME Keep(c, r) PROVE CallsOK'
    BY <1>1, <2>2, <2>3, KeepOK
  <2>4. ASSUME Return(c, r, TRUE) PROVE CallsOK'
    BY <1>1, <1>3, <1>5, <2>4, Fields, ReturnOK
  <2> QED
    BY <1>9, <2>3, <2>4
<1>10. LinkOK' /\ StreamOK'
  <2>1. \/ Say("ack") \/ SayUnheard("ack")
        \/ UNCHANGED <<order, bell, unheard>>
    BY DEF ReceiveBlock
  <2> QED
    BY <2>1, SayType DEF TypeInv, ReceiveBlock
<1> QED
  BY <1>6, <1>7, <1>8, <1>9, <1>10 DEF TypeInv, ReceiveBlock, MemoryOK

LEMMA ReceiveBareType ==
  ASSUME TypeInv, NEW c \in Callers, ReceiveBare(c)
  PROVE  TypeInv'
<1> DEFINE r == [x[c] EXCEPT !.last = BareNo]
<1>1. CallsOK /\ x[c].at = "receive" /\ lock = c
  BY Fields DEF TypeInv, ReceiveBare, Exchanging
<1>2. GiveUp(c, x[c]) \/ Keep(c, r)
  BY DEF ReceiveBare
<1>3. ASSUME GiveUp(c, x[c]) PROVE CallsOK'
  BY <1>1, <1>3, Fields, GiveUpOK
<1>4. ASSUME Keep(c, r) PROVE CallsOK'
  <2>0. BareNo \in Nat
    BY DEF BareNo
  <2>1. r \in LocalRecs
    BY <1>1, <2>0, Fields DEF LocalRecs
  <2>2. /\ r.block = x[c].block /\ r.cmd = x[c].cmd
        /\ r.attempt = x[c].attempt /\ r.got = x[c].got /\ r.size = x[c].size
    BY <1>1, Fields DEF LocalRecs
  <2>3. Bounded(r)
    BY <1>1, <2>1, <2>2, Fields DEF Bounded
  <2> QED
    BY <1>1, <1>4, <2>3, KeepOK
<1>5. LinkOK' /\ StreamOK'
  <2>1. \/ Say("ack") \/ SayUnheard("ack")
        \/ UNCHANGED <<order, bell, unheard>>
    BY DEF ReceiveBare
  <2> QED
    BY <2>1, SayType DEF TypeInv, ReceiveBare
<1> QED
  BY <1>2, <1>3, <1>4, <1>5 DEF TypeInv, ReceiveBare, MemoryOK
-----------------------------------------------------------------------------
\* The DSP's steps keep the types.
LEMMA SilentOK ==
  Silent \in Streams \union {Silent} /\ 0 \in 0..Garbles /\ 0 \in 0..Repeats
  BY BoundAssumption

LEMMA HearsType ==
  ASSUME TypeInv, NEW kinds, Hears(kinds), StreamOK', MemoryOK',
         answer' \in Answers \union {NoAnswer}, ring' \in BOOLEAN
  PROVE  TypeInv'
<1>1. LinkOK'
  BY DEF LinkOK, Hears
<1>2. CallsOK'
  BY DEF TypeInv, CallsOK, Hears, Exchanging
<1> QED
  BY <1>1, <1>2 DEF TypeInv

\* A block the ARM has written: its number and its command.
LEMMA WrittenOK ==
  ASSUME LinkOK, order.kind = "write"
  PROVE  order.cmd \in Writes /\ order.block \in Nat /\ 1 <= order.block
<1>1. order \in [kind : {"write"}, cmd : Writes, block : 1..MaxBlocks]
  BY DEF LinkOK, Orders, NoOrder
<1>2. order.cmd \in Writes /\ order.block \in 1..MaxBlocks
  BY <1>1
<1>3. order.block \in Nat /\ 1 <= order.block
  BY <1>2, MaxNat
<1> QED
  BY <1>2, <1>3

LEMMA AskedOK ==
  ASSUME LinkOK, order.kind = "read"
  PROVE  <<order.cmd, 1>> \in Streams /\ order.cmd \in Reads
<1>1. order.cmd \in Reads
  BY DEF LinkOK, Orders, NoOrder
<1>2. order.cmd \in Commands
  BY <1>1 DEF Commands
<1>3. 1 \in 1..MaxBlocks
  BY <1>2, BlocksOK
<1> QED
  BY <1>1, <1>2, <1>3, First1 DEF Streams

LEMMA DspWriteType ==
  ASSUME TypeInv, DspWrite
  PROVE  TypeInv'
<1>1. LinkOK /\ order.kind = "write" /\ Hears({"write"})
  BY DEF TypeInv, DspWrite, Hears
<1>2. memory' \in Seq(Writes \X Nat)
  <2> DEFINE b == Block(order.cmd, order.block)
  <2>1. b \in Writes \X Nat /\ memory \in Seq(Writes \X Nat)
    BY <1>1, WrittenOK DEF Block, TypeInv, MemoryOK
  <2>2. memory' = memory \/ memory' = Stored(b)
    BY DEF DspWrite
  <2> HIDE DEF b
  <2>3. <<b>> \in Seq(Writes \X Nat) /\ Append(memory, b) \in Seq(Writes \X Nat)
    BY <2>1, AppendProperties
  <2>4. Stored(b) \in Seq(Writes \X Nat)
    BY <2>1, <2>3 DEF Stored
  <2> QED
    BY <2>1, <2>2, <2>4
<1>3. answer' \in Answers \union {NoAnswer} /\ ring' \in BOOLEAN
  <2>1. PICK k \in {"ack", "nack", "crcbad", "other"} : Answer([kind |-> k])
    BY DEF DspWrite
  <2> QED
    BY <1>1, <2>1, Kinds, AnswerOK DEF LinkOK
<1>4. StreamOK'
  BY SilentOK DEF DspWrite, Hears, StreamOK
<1> QED
  BY <1>1, <1>2, <1>3, <1>4, HearsType DEF MemoryOK

LEMMA DspReadType ==
  ASSUME TypeInv, DspRead
  PROVE  TypeInv'
<1>1. /\ LinkOK /\ order.kind = "read" /\ Hears({"read"})
      /\ answer \in Answers \union {NoAnswer} /\ ring \in BOOLEAN
  BY DEF TypeInv, DspRead, Hears, LinkOK
<1>2. CASE stream' = <<order.cmd, 1>> /\ AnswerBlock(stream', 0)
  <2>1. stream' \in Streams
    BY <1>1, <1>2, AskedOK
  <2>2. /\ answer' \in Answers \union {NoAnswer} /\ ring' \in BOOLEAN
        /\ garbled' \in 0..Garbles
    BY <1>1, <1>2, <2>1, SilentOK, AnswerBlockOK
  <2>3. StreamOK'
    BY <2>1, <2>2, SilentOK DEF DspRead, Hears, StreamOK
  <2> QED
    BY <1>1, <2>2, <2>3, HearsType DEF DspRead, TypeInv, MemoryOK
<1>3. CASE stream' = Silent /\ Answer([kind |-> "nack"]) /\ garbled' = 0
  <2>1. answer' \in Answers \union {NoAnswer} /\ ring' \in BOOLEAN
    BY <1>1, <1>3, Kinds, AnswerOK
  <2>2. StreamOK'
    BY <1>3, SilentOK DEF DspRead, Hears, StreamOK
  <2> QED
    BY <1>1, <2>1, <2>2, HearsType DEF DspRead, TypeInv, MemoryOK
<1> QED
  BY <1>2, <1>3 DEF DspRead

\* The block after the one the DSP is at.
LEMMA OnwardOK ==
  ASSUME NEW s \in Streams, s[2] # Blocks[s[1]]
  PROVE  /\ [s EXCEPT ![2] = @ + 1] = <<s[1], s[2] + 1>>
         /\ [s EXCEPT ![2] = @ + 1] \in Streams
<1>1. /\ s[1] \in Reads /\ s[1] \in Commands
      /\ s[2] \in Nat /\ 1 <= s[2] /\ s[2] <= Blocks[s[1]]
      /\ s = <<s[1], s[2]>>
  BY DataOK
<1>2. s[2] + 1 \in 1..Blocks[s[1]] /\ s[2] + 1 \in 1..MaxBlocks
  BY <1>1, BlocksOK
<1>3. [s EXCEPT ![2] = @ + 1] = <<s[1], s[2] + 1>>
  BY <1>1
<1>4. <<s[1], s[2] + 1>> \in Streams
  BY <1>1, <1>2 DEF Streams
<1> QED
  BY <1>3, <1>4

LEMMA DspNextType ==
  ASSUME TypeInv, DspNext
  PROVE  TypeInv'
<1>1. /\ LinkOK /\ Hears({"ack"})
      /\ answer \in Answers \union {NoAnswer} /\ ring \in BOOLEAN
      /\ stream \in Streams \union {Silent} /\ garbled \in 0..Garbles
      /\ repeated \in 0..Repeats
  BY DEF TypeInv, DspNext, LinkOK, StreamOK
<1>2. CASE stream = Silent \/ stream[2] = Blocks[stream[1]]
  <2>1. StreamOK'
    BY <1>2, SilentOK DEF DspNext, Hears, StreamOK
  <2>2. answer' = answer /\ ring' = ring /\ memory' = memory
    BY <1>2 DEF DspNext
  <2> QED
    BY <1>1, <2>1, <2>2, HearsType DEF TypeInv, MemoryOK
<1>3. CASE ~(stream = Silent \/ stream[2] = Blocks[stream[1]])
  <2>1. stream \in Streams /\ stream[2] # Blocks[stream[1]]
    BY <1>1, <1>3
  <2>2. /\ stream' = [stream EXCEPT ![2] = @ + 1]
        /\ AnswerBlock(stream', garbled) /\ repeated' = repeated
        /\ memory' = memory /\ unheard' = FALSE
    BY <1>3 DEF DspNext, Hears
  <2>3. stream' \in Streams
    BY <2>1, <2>2, OnwardOK
  <2>4. /\ answer' \in Answers \union {NoAnswer} /\ ring' \in BOOLEAN
        /\ garbled' \in 0..Garbles
    BY <1>1, <2>2, <2>3, AnswerBlockOK
  <2>5. StreamOK'
    BY <1>1, <2>2, <2>3, <2>4 DEF StreamOK
  <2> QED
    BY <1>1, <2>2, <2>4, <2>5, HearsType DEF TypeInv, MemoryOK
<1> QED
  BY <1>2, <1>3

LEMMA DspAgainType ==
  ASSUME TypeInv, DspAgain
  PROVE  TypeInv'
<1>1. /\ LinkOK /\ Hears({"nack"}) /\ memory' = memory
      /\ answer \in Answers \union {NoAnswer} /\ ring \in BOOLEAN
      /\ stream \in Streams \union {Silent} /\ garbled \in 0..Garbles
      /\ stream' = stream /\ repeated' = repeated /\ unheard' = FALSE
  BY DEF TypeInv, DspAgain, LinkOK, StreamOK, Hears
<1>2. /\ answer' \in Answers \union {NoAnswer} /\ ring' \in BOOLEAN
      /\ garbled' \in 0..Garbles
  BY <1>1, AnswerBlockOK DEF DspAgain
<1>3. StreamOK'
  BY <1>1, <1>2 DEF TypeInv, StreamOK
<1> QED
  BY <1>1, <1>2, <1>3, HearsType DEF TypeInv, MemoryOK

LEMMA DspRepeatType ==
  ASSUME TypeInv, DspRepeat
  PROVE  TypeInv'
<1>1. /\ answer \in Answers \union {NoAnswer} /\ ring \in BOOLEAN
      /\ stream \in Streams /\ garbled \in 0..Garbles
      /\ AnswerBlock(stream, garbled)
  BY DEF TypeInv, DspRepeat, LinkOK, StreamOK
<1>2. /\ answer' \in Answers \union {NoAnswer} /\ ring' \in BOOLEAN
      /\ garbled' \in 0..Garbles
  BY <1>1, AnswerBlockOK
<1>3. repeated' \in 0..Repeats
  BY BoundAssumption DEF TypeInv, StreamOK, DspRepeat
<1> QED
  BY <1>2, <1>3 DEF TypeInv, DspRepeat, CallsOK, Exchanging, LinkOK, StreamOK,
                    MemoryOK
-----------------------------------------------------------------------------
LEMMA TypeInit ==
  ASSUME Init
  PROVE  TypeInv
<1> DEFINE k == CHOOSE k \in Commands : TRUE
<1>1. k \in Commands
  BY CommandAssumption
<1> HIDE DEF k
<1>2. /\ Locals("idle", k) \in LocalRecs /\ Bounded(Locals("idle", k))
      /\ Locals("idle", k).at = "idle"
  BY <1>1, LocalsBounded DEF Locals
<1>3. CallsOK
  BY <1>2 DEF Init, CallsOK, Exchanging, k
<1>4. LinkOK /\ StreamOK
  BY SilentOK DEF Init, LinkOK, StreamOK
<1>5. MemoryOK
  BY EmptySeq DEF Init, MemoryOK
<1> QED
  BY <1>3, <1>4, <1>5 DEF TypeInv

LEMMA TypeNext ==
  ASSUME TypeInv, [Next]_vars
  PROVE  TypeInv'
<1>1. ASSUME NEW c \in Callers, NEW k \in Commands, Call(c, k)
      PROVE  TypeInv'
  BY <1>1, CallType
<1>2. ASSUME NEW c \in Callers, Lock(c) PROVE TypeInv'
  BY <1>2, LockType
<1>3. ASSUME NEW c \in Callers, Exchange(c) PROVE TypeInv'
  BY <1>3, SendType, SendFailsType, ReplyType, ReceiveBadType,
     ReceiveBlockType, ReceiveBareType, TimeOutType DEF Exchange
<1>4. ASSUME Dsp PROVE TypeInv'
  BY <1>4, DspWriteType, DspReadType, DspNextType, DspAgainType,
     DspRepeatType DEF Dsp
<1>5. ASSUME UNCHANGED vars PROVE TypeInv'
  BY <1>5 DEF TypeInv, CallsOK, Exchanging, LinkOK, StreamOK, MemoryOK, vars,
              line, dspv
<1> QED
  BY <1>1, <1>2, <1>3, <1>4, <1>5 DEF Next

\* The locals of every call, the two areas of the link and the DSP's image
\* have their types, a call keeps within its command's blocks and its tries,
\* and only the holder of _ram_lock exchanges anything with the DSP: however
\* many threads call it and whatever faults there are.
THEOREM TypeCorrect == Spec => []TypeOK
<1>1. TypeInv => TypeOK
  BY DEF TypeInv, CallsOK, Bounded, LocalRecs, Exchanging, LinkOK, StreamOK,
         MemoryOK, TypeOK
<1> QED
  BY TypeInit, TypeNext, <1>1, PTL DEF Spec
-----------------------------------------------------------------------------
(* A read that succeeds is whole. The invariant says where the answer of a *)
(* read is: how far the DSP is, what the caller has taken of it, and that  *)
(* nothing of it is left on the link when nobody waits for it.             *)

\* The first blocks of a command, and no longer answer in the DSP.
First(k, m) == [i \in 1..m |-> Block(k, i)]
AtEnd       == stream = Silent \/ stream[2] = Blocks[stream[1]]

Awaited == \E c \in Callers : x[c].at \in {"reply", "receive"}

Unread(c) == x[c].got = <<>> /\ x[c].size = 0 /\ x[c].last = NoNo

Fresh(c) == x[c].at \in {"lock", "send", "reply"} => Unread(c)

\* Nobody waits: the DSP has at most the ACK of a last block to hear.
Quiet == ~Awaited => ~ring /\ (bell => order.kind = "ack" /\ AtEnd)

Replying(c) ==
  x[c].at = "reply" =>
    /\ x[c].cmd \in Writes
    /\ bell => ~ring /\ order = OrderOf(x[c])

\* The caller holds the first m blocks of a command.
Holds(c, k, m) ==
  /\ x[c].got = First(k, m)
  /\ x[c].size = IF m = 0 THEN 0 ELSE Blocks[k]
  /\ x[c].last = IF m = 0 THEN NoNo ELSE No(k, m)

\* The answer area, when it rings, holds nothing but the block s or a bad one.
Carries(r, a, s) ==
  r => a.kind = "bad" \/ a = [kind |-> "data", cmd |-> s[1], block |-> s[2]]

\* The bad block that is on its way to the ARM.
Waste(r, a) == IF r /\ a.kind = "bad" THEN 1 ELSE 0

\* The DSP is at block j, of which the caller may have heard.
Follows(c, j, m) ==
  /\ stream = <<x[c].cmd, j>>
  /\ m \in {j - 1, j} /\ m < Blocks[x[c].cmd]
  /\ Holds(c, x[c].cmd, m)
  /\ bell => order.kind \in {"ack", "nack"} /\ (order.kind = "ack" => m = j)
  /\ Carries(ring, answer, stream)
  /\ x[c].resend + Waste(ring, answer) <= garbled

Refused(c) ==
  /\ stream = Silent
  /\ x[c].got = <<>> /\ x[c].size = 0 /\ x[c].resend = 0
  /\ bell => order.kind = "ack"
  /\ ring => answer.kind = "nack"

Asked(c) ==
  /\ bell /\ order = OrderOf(x[c])
  /\ Unread(c) /\ x[c].resend = 0

Receiving(c) ==
  x[c].at = "receive" =>
    /\ x[c].cmd \in Reads
    /\ bell => ~ring
    /\ Asked(c) \/ Refused(c) \/ \E j \in Nat, m \in Nat : Follows(c, j, m)

Delivered(c) ==
  x[c].at = "idle" /\ x[c].ok /\ x[c].cmd \in Reads
    => x[c].got = Image(x[c].cmd)

CallInv(c) == Fresh(c) /\ Replying(c) /\ Receiving(c) /\ Delivered(c)

ReadInv == Quiet /\ \A c \in Callers : CallInv(c)

InTime == "late" \notin Faults /\ Garbles <= 3
-----------------------------------------------------------------------------
LEMMA FirstOK ==
  ASSUME NEW k \in Commands, NEW m \in Nat
  PROVE  /\ First(k, m) \in Seq(Commands \X Nat) /\ Len(First(k, m)) = m
         /\ First(k, 0) = <<>>
         /\ Append(First(k, m), Block(k, m + 1)) = First(k, m + 1)
         /\ First(k, Blocks[k]) = Image(k)
         /\ m # 0 => First(k, m) # <<>> /\ First(k, m)[m] = Block(k, m)
<1>1. \A i \in Nat : First(k, i) \in Seq(Commands \X Nat)
  <2>1. TAKE i \in Nat
  <2>2. First(k, i) \in [1..i -> Commands \X Nat]
    BY DEF First, Block
  <2> QED
    BY <2>2, SeqDef
<1>2. \A i \in Nat : Len(First(k, i)) = i
  <2>1. TAKE i \in Nat
  <2>2. DOMAIN First(k, i) = 1..i
    BY DEF First
  <2>3. Len(First(k, i)) \in Nat /\ DOMAIN First(k, i) = 1..Len(First(k, i))
    BY <1>1, LenProperties
  <2> QED
    BY <2>2, <2>3
<1>3. First(k, 0) = <<>>
  BY <1>1, <1>2, EmptySeq
<1>4. Append(First(k, m), Block(k, m + 1)) = First(k, m + 1)
  <2> DEFINE s == Append(First(k, m), Block(k, m + 1))
             t == First(k, m + 1)
  <2>1. Block(k, m + 1) \in Commands \X Nat
    BY DEF Block
  <2>2. s \in Seq(Commands \X Nat) /\ Len(s) = m + 1
    <3> DEFINE f == First(k, m)
               b == Block(k, m + 1)
    <3>1. f \in Seq(Commands \X Nat) /\ Len(f) = m /\ b \in Commands \X Nat
      BY <1>1, <1>2, <2>1
    <3> HIDE DEF f, b
    <3>2. /\ Append(f, b) \in Seq(Commands \X Nat)
          /\ Len(Append(f, b)) = m + 1
      BY <3>1, AppendProperties
    <3> QED
      BY <3>2 DEF f, b
  <2>3. t \in Seq(Commands \X Nat) /\ Len(t) = m + 1
    BY <1>1, <1>2
  <2>4. ASSUME NEW i \in 1..(m + 1) PROVE s[i] = t[i]
    <3>1. t[i] = Block(k, i)
      BY DEF First
    <3>2. CASE i = m + 1
      BY <1>1, <1>2, <2>1, <3>1, <3>2, AppendProperties
    <3>3. CASE i # m + 1
      <4>1. i \in 1..m
        BY <3>3
      <4>2. s[i] = First(k, m)[i]
        BY <1>1, <1>2, <2>1, <4>1, AppendProperties
      <4>3. First(k, m)[i] = Block(k, i)
        BY <4>1 DEF First
      <4> QED
        BY <3>1, <4>2, <4>3
    <3> QED
      BY <3>2, <3>3
  <2> HIDE DEF s, t
  <2>5. s = t
    BY <2>2, <2>3, <2>4, SeqEqual
  <2> QED
    BY <2>5 DEF s, t
<1>5. First(k, Blocks[k]) = Image(k)
  BY DEF First, Image
<1>6. m # 0 => First(k, m) # <<>> /\ First(k, m)[m] = Block(k, m)
  <2>1. ASSUME m # 0 PROVE First(k, m)[m] = Block(k, m)
    BY <2>1 DEF First
  <2>2. ASSUME m # 0 PROVE First(k, m) # <<>>
    BY <1>1, <1>2, <2>2, EmptySeq
  <2> QED
    BY <2>1, <2>2
<1> QED
  BY <1>1, <1>2, <1>3, <1>4, <1>5, <1>6

LEMMA NumbersOK ==
  ASSUME NEW k \in Commands, NEW j \in Nat, j <= Blocks[k]
  PROVE  /\ j < Blocks[k] => No(k, j) # FinalNo
         /\ j = Blocks[k] => No(k, j) = FinalNo
         /\ 1 <= j => No(k, j) # NoNo
         /\ 1 <= j => No(k, j) # No(k, j - 1)
<1>1. /\ Blocks[k] \in Nat /\ Blocks[k] < FinalNo
      /\ FinalNo \in Nat /\ NoNo \in Nat /\ FinalNo < NoNo
  BY BlocksOK, Marks
<1>2. No(k, j) = IF j = Blocks[k] THEN FinalNo ELSE j - 1
  BY DEF No
<1>3. No(k, j - 1) = IF j - 1 = Blocks[k] THEN FinalNo ELSE j - 2
  BY DEF No
<1> QED
  BY <1>1, <1>2, <1>3
-----------------------------------------------------------------------------
\* Only the holder of the lock exchanges: what the others have said stands.
LEMMA OthersKeep ==
  ASSUME TypeInv, NEW c \in Callers, NEW d \in Callers, lock = c, d # c,
         x'[d] = x[d], CallInv(d)
  PROVE  CallInv(d)' /\ x[d].at \notin {"send", "reply", "receive"}
<1>1. x[d].at \notin {"send", "reply", "receive"}
  BY DEF TypeInv, CallsOK, Exchanging
<1>2. Fresh(d)' /\ Delivered(d)'
  BY DEF CallInv, Fresh, Delivered, Unread
<1>3. Replying(d)' /\ Receiving(d)'
  BY <1>1 DEF Replying, Receiving
<1> QED
  BY <1>1, <1>2, <1>3 DEF CallInv

\* The caller has stopped waiting, and left nothing on the link.
Stops(c) ==
  /\ x[c].at \in {"send", "idle"}
  /\ x[c].at = "send" => Unread(c)
  /\ Delivered(c)

LEMMA StopStep ==
  ASSUME TypeInv, ReadInv, NEW c \in Callers, lock = c,
         \A d \in Callers \ {c} : x'[d] = x[d],
         Stops(c)',
         ~ring', bell' => order'.kind = "ack" /\ AtEnd'
  PROVE  ReadInv'
<1>1. Quiet'
  BY DEF Quiet
<1>2. CallInv(c)'
  BY DEF Stops, CallInv, Fresh, Replying, Receiving
<1>3. \A d \in Callers \ {c} : CallInv(d)'
  BY OthersKeep DEF ReadInv
<1> QED
  BY <1>1, <1>2, <1>3 DEF ReadInv

\* The caller waits for the rest of its answer.
LEMMA WaitStep ==
  ASSUME TypeInv, ReadInv, NEW c \in Callers, lock = c,
         \A d \in Callers \ {c} : x'[d] = x[d],
         x[c].at = "receive", x'[c].at = "receive", x'[c].cmd = x[c].cmd,
         ~ring',
         Refused(c)' \/ \E j \in Nat, m \in Nat : Follows(c, j, m)'
  PROVE  ReadInv'
<1>1. Quiet'
  BY DEF Quiet, Awaited
<1>2. x[c].cmd \in Reads
  BY DEF ReadInv, CallInv, Receiving
<1>3. CallInv(c)'
  BY <1>2 DEF CallInv, Fresh, Replying, Receiving, Delivered
<1>4. \A d \in Callers \ {c} : CallInv(d)'
  BY OthersKeep DEF ReadInv
<1> QED
  BY <1>1, <1>3, <1>4 DEF ReadInv

LEMMA Others ==
  ASSUME CallsOK, NEW c \in Callers, NEW r, x' = [x EXCEPT ![c] = r]
  PROVE  x'[c] = r /\ \A d \in Callers \ {c} : x'[d] = x[d]
  BY DEF CallsOK

LEMMA ReturnStops ==
  ASSUME CallsOK, NEW c \in Callers, NEW r, NEW ok \in BOOLEAN,
         Return(c, r, ok),
         ok /\ r.cmd \in Reads => r.got = Image(r.cmd)
  PROVE  /\ Stops(c)' /\ \A d \in Callers \ {c} : x'[d] = x[d]
         /\ x'[c].at = "idle" /\ x'[c].ok = ok /\ x'[c].cmd = r.cmd
<1> DEFINE t == [Locals("idle", r.cmd) EXCEPT !.got = r.got, !.ok = ok]
<1>1. x'[c] = t /\ \A d \in Callers \ {c} : x'[d] = x[d]
  BY Others DEF Return
<1>2. t.at = "idle" /\ t.cmd = r.cmd /\ t.got = r.got /\ t.ok = ok
  BY DEF Locals
<1> HIDE DEF t
<1> QED
  BY <1>1, <1>2 DEF Stops, Delivered

\* A new try, of block or read: the caller has taken nothing of it.
Again(k, i, n) == [Locals("send", k) EXCEPT !.block = i, !.attempt = n]

LEMMA KeepStops ==
  ASSUME CallsOK, NEW c \in Callers, NEW k, NEW i, NEW n,
         Keep(c, Again(k, i, n))
  PROVE  /\ Stops(c)' /\ \A d \in Callers \ {c} : x'[d] = x[d]
         /\ x'[c].at = "send" /\ x'[c].cmd = k /\ x'[c].block = i
<1> DEFINE t == Again(k, i, n)
<1>1. x'[c] = t /\ \A d \in Callers \ {c} : x'[d] = x[d]
  BY Others DEF Keep
<1>2. /\ t.at = "send" /\ t.cmd = k /\ t.block = i
      /\ t.got = <<>> /\ t.size = 0 /\ t.last = NoNo
  BY DEF Locals, Again
<1> HIDE DEF t
<1> QED
  BY <1>1, <1>2 DEF Stops, Delivered, Unread

LEMMA GiveUpStops ==
  ASSUME CallsOK, NEW c \in Callers, NEW r, GiveUp(c, r)
  PROVE  /\ Stops(c)' /\ \A d \in Callers \ {c} : x'[d] = x[d]
         /\ x'[c].cmd = r.cmd
         /\ \/ x'[c].at = "send" /\ x'[c].block = r.block
            \/ x'[c].at = "idle" /\ x'[c].ok = FALSE
<1>1. CASE r.attempt < Attempts
  <2>1. Keep(c, Again(r.cmd, r.block, r.attempt + 1))
    BY <1>1 DEF GiveUp, Again
  <2> QED
    BY <2>1, KeepStops
<1>2. CASE ~(r.attempt < Attempts)
  <2>1. Return(c, r, FALSE)
    BY <1>2 DEF GiveUp
  <2> QED
    BY <2>1, ReturnStops
<1> QED
  BY <1>1, <1>2

LEMMA NextBlockStops ==
  ASSUME CallsOK, NEW c \in Callers, NEW r, r.cmd \notin Reads,
         NextBlock(c, r)
  PROVE  /\ Stops(c)' /\ \A d \in Callers \ {c} : x'[d] = x[d]
         /\ x'[c].cmd = r.cmd
         /\ \/ /\ r.block < Blocks[r.cmd]
               /\ x'[c].at = "send" /\ x'[c].block = r.block + 1
            \/ /\ ~(r.block < Blocks[r.cmd])
               /\ x'[c].at = "idle" /\ x'[c].ok = TRUE
<1>1. CASE r.block < Blocks[r.cmd]
  <2> DEFINE t == [Locals("send", r.cmd) EXCEPT !.block = r.block + 1]
  <2>1. x' = [x EXCEPT ![c] = t]
    BY <1>1 DEF NextBlock, Keep
  <2>2. /\ t.at = "send" /\ t.cmd = r.cmd /\ t.block = r.block + 1
        /\ t.got = <<>> /\ t.size = 0 /\ t.last = NoNo
    BY DEF Locals
  <2> HIDE DEF t
  <2>3. x'[c] = t /\ \A d \in Callers \ {c} : x'[d] = x[d]
    BY <2>1, Others
  <2> QED
    BY <1>1, <2>2, <2>3 DEF Stops, Delivered, Unread
<1>2. CASE ~(r.block < Blocks[r.cmd])
  <2>1. Return(c, r, TRUE)
    BY <1>2 DEF NextBlock
  <2> QED
    BY <1>2, <2>1, ReturnStops
<1> QED
  BY <1>1, <1>2
-----------------------------------------------------------------------------
\* The ARM's steps.

\* A caller that was not waiting and is not waiting now; the link is still.
LEMMA AsideStep ==
  ASSUME ReadInv, NEW c \in Callers, UNCHANGED <<line, dspv>>,
         \A d \in Callers \ {c} : x'[d] = x[d],
         x[c].at \in {"idle", "lock"}, x'[c].at \in {"lock", "send"},
         Unread(c)'
  PROVE  ReadInv'
<1>1. Quiet'
  <2>1. Awaited => Awaited'
    BY DEF Awaited
  <2> QED
    BY <2>1 DEF ReadInv, Quiet, AtEnd, line, dspv
<1>2. CallInv(c)'
  BY DEF CallInv, Fresh, Replying, Receiving, Delivered
<1>3. ASSUME NEW d \in Callers \ {c} PROVE CallInv(d)'
  <2>1. CallInv(d) /\ x'[d] = x[d]
    BY <1>3 DEF ReadInv
  <2>2. Fresh(d)' /\ Delivered(d)' /\ Replying(d)'
    BY <2>1 DEF CallInv, Fresh, Unread, Delivered, Replying, line
  <2>3. Asked(d) => Asked(d)'
    BY <2>1 DEF Asked, Unread, line
  <2>4. Refused(d) => Refused(d)'
    BY <2>1 DEF Refused, line, dspv
  <2>5. ASSUME NEW j, NEW m, Follows(d, j, m) PROVE Follows(d, j, m)'
    BY <2>1, <2>5 DEF Follows, Holds, Carries, Waste, line, dspv
  <2>6. Receiving(d)'
    BY <2>1, <2>3, <2>4, <2>5 DEF CallInv, Receiving, line
  <2> QED
    BY <2>2, <2>6 DEF CallInv
<1> QED
  BY <1>1, <1>2, <1>3 DEF ReadInv

LEMMA CallRead ==
  ASSUME TypeInv, ReadInv, NEW c \in Callers, NEW k \in Commands, Call(c, k)
  PROVE  ReadInv'
<1>1. /\ x'[c] = Locals("lock", k)
      /\ \A d \in Callers \ {c} : x'[d] = x[d]
  BY Others DEF Call, TypeInv
<1>2. x'[c].at = "lock" /\ Unread(c)'
  BY <1>1 DEF Unread, Locals
<1> QED
  BY <1>1, <1>2, AsideStep DEF Call

LEMMA LockRead ==
  ASSUME TypeInv, ReadInv, NEW c \in Callers, Lock(c)
  PROVE  ReadInv'
<1>1. CallsOK /\ x[c].at = "lock" /\ Unread(c)
  BY DEF TypeInv, ReadInv, CallInv, Fresh, Lock
<1>2. \A d \in Callers \ {c} : x'[d] = x[d]
  BY <1>1 DEF Lock, CallsOK
<1>3. x'[c].at = "send" /\ Unread(c)'
  BY <1>1, Fields DEF Lock, CallsOK, Unread, LocalRecs
<1> QED
  BY <1>1, <1>2, <1>3, AsideStep DEF Lock

LEMMA AwaitedBy ==
  ASSUME TypeInv, NEW c \in Callers, x[c].at = "send"
  PROVE  ~Awaited /\ lock = c
  BY DEF TypeInv, CallsOK, Exchanging, Awaited

LEMMA SendRead ==
  ASSUME InTime, TypeInv, ReadInv, NEW c \in Callers, Send(c)
  PROVE  ReadInv'
<1> DEFINE at == IF x[c].cmd \in Writes THEN "reply" ELSE "receive"
           r == [x[c] EXCEPT !.at = at, !.resend = 0]
<1>1. CallsOK /\ x[c].at = "send" /\ lock = c /\ ~Awaited /\ Unread(c)
  BY AwaitedBy DEF TypeInv, Send, ReadInv, CallInv, Fresh
<1>2. ~ring /\ ~ring'
  BY <1>1 DEF ReadInv, Quiet, Send
<1>3. x'[c] = r /\ \A d \in Callers \ {c} : x'[d] = x[d]
  BY <1>1, Others DEF Send, Keep
<1>4. /\ r.at = at /\ r.resend = 0 /\ r.cmd = x[c].cmd
      /\ r.block = x[c].block /\ r.got = x[c].got /\ r.size = x[c].size
      /\ r.last = x[c].last /\ x[c].cmd \in Commands
  BY <1>1, Fields DEF LocalRecs
<1> HIDE DEF r
<1>5. bell' /\ order' = OrderOf(x[c]) /\ OrderOf(x'[c]) = OrderOf(x[c])
  BY <1>3, <1>4 DEF Send, OrderOf
<1>6. Unread(c)'
  BY <1>1, <1>3, <1>4 DEF Unread
<1>7. CallInv(c)'
  <2>1. CASE x[c].cmd \in Writes
    <3>1. x'[c].at = "reply" /\ x'[c].cmd \in Writes
      BY <1>3, <1>4, <2>1
    <3> QED
      BY <1>2, <1>5, <1>6, <3>1
         DEF CallInv, Fresh, Replying, Receiving, Delivered
  <2>2. CASE x[c].cmd \notin Writes
    <3>1. x'[c].at = "receive" /\ x'[c].cmd \in Reads /\ x'[c].resend = 0
      BY <1>3, <1>4, <2>2 DEF Commands
    <3>2. Asked(c)'
      BY <1>5, <1>6, <3>1 DEF Asked
    <3> QED
      BY <1>2, <3>1, <3>2 DEF CallInv, Fresh, Replying, Receiving, Delivered
  <2> QED
    BY <2>1, <2>2
<1>8. \A d \in Callers \ {c} : CallInv(d)'
  BY <1>1, <1>3, OthersKeep DEF ReadInv
<1>9. Quiet'
  <2>1. x'[c].at \in {"reply", "receive"}
    BY <1>3, <1>4
  <2> QED
    BY <2>1 DEF Quiet, Awaited
<1> QED
  BY <1>7, <1>8, <1>9 DEF ReadInv

LEMMA SendFailsRead ==
  ASSUME InTime, TypeInv, ReadInv, NEW c \in Callers, SendFails(c)
  PROVE  ReadInv'
<1>1. CallsOK /\ x[c].at = "send" /\ lock = c /\ ~Awaited /\ Unread(c)
  BY AwaitedBy DEF TypeInv, SendFails, ReadInv, CallInv, Fresh
<1>2. ~ring' /\ ~bell'
  BY <1>1 DEF ReadInv, Quiet, SendFails, InTime, Prompt
<1>3. ASSUME Keep(c, [x[c] EXCEPT !.resend = @ + 1])
      PROVE  Stops(c)' /\ \A d \in Callers \ {c} : x'[d] = x[d]
  <2> DEFINE r == [x[c] EXCEPT !.resend = @ + 1]
  <2>1. x'[c] = r /\ \A d \in Callers \ {c} : x'[d] = x[d]
    BY <1>1, <1>3, Others DEF Keep
  <2>2. /\ r.at = "send" /\ r.got = x[c].got /\ r.size = x[c].size
        /\ r.last = x[c].last
    BY <1>1, Fields DEF LocalRecs
  <2> HIDE DEF r
  <2> QED
    BY <1>1, <2>1, <2>2 DEF Stops, Unread, Delivered
<1>4. Stops(c)' /\ \A d \in Callers \ {c} : x'[d] = x[d]
  BY <1>1, <1>3, GiveUpStops DEF SendFails
<1> QED
  BY <1>1, <1>2, <1>4, StopStep

LEMMA ReplyRead ==
  ASSUME TypeInv, ReadInv, NEW c \in Callers, Reply(c)
  PROVE  ReadInv'
<1>1. /\ CallsOK /\ x[c].at = "reply" /\ lock = c
      /\ Unread(c) /\ x[c].cmd \in Writes /\ ring /\ ~bell
  BY Fields DEF TypeInv, Reply, Read, Exchanging, ReadInv, CallInv, Fresh,
                Replying
<1>2. ~ring' /\ ~bell'
  BY <1>1 DEF Reply, Read
<1>3. x[c].cmd \notin Reads
  BY <1>1, CommandAssumption
<1>4. \/ NextBlock(c, x[c]) \/ GiveUp(c, x[c])
      \/ Keep(c, [x[c] EXCEPT !.at = "send", !.resend = @ + 1])
  BY DEF Reply
<1>5. ASSUME Keep(c, [x[c] EXCEPT !.at = "send", !.resend = @ + 1])
      PROVE  Stops(c)' /\ \A d \in Callers \ {c} : x'[d] = x[d]
  <2> DEFINE r == [x[c] EXCEPT !.at = "send", !.resend = @ + 1]
  <2>1. x'[c] = r /\ \A d \in Callers \ {c} : x'[d] = x[d]
    BY <1>1, <1>5, Others DEF Keep
  <2>2. /\ r.at = "send" /\ r.got = x[c].got /\ r.size = x[c].size
        /\ r.last = x[c].last
    BY <1>1, Fields DEF LocalRecs
  <2> HIDE DEF r
  <2> QED
    BY <1>1, <2>1, <2>2 DEF Stops, Unread, Delivered
<1>6. Stops(c)' /\ \A d \in Callers \ {c} : x'[d] = x[d]
  BY <1>1, <1>3, <1>4, <1>5, GiveUpStops, NextBlockStops
<1> QED
  BY <1>1, <1>2, <1>6, StopStep

\* Nobody waits in vain while the DSP has something to say.
LEMMA TimeOutRead ==
  ASSUME InTime, TypeInv, ReadInv, NEW c \in Callers, TimeOut(c)
  PROVE  ReadInv'
<1>1. CallsOK /\ lock = c
  BY Fields DEF TypeInv, TimeOut, Exchanging
<1>2. ~ring' /\ ~bell'
  BY DEF InTime, TimeOut, DspBusy, line
<1>3. Stops(c)' /\ \A d \in Callers \ {c} : x'[d] = x[d]
  BY <1>1, GiveUpStops DEF TimeOut
<1> QED
  BY <1>1, <1>2, <1>3, StopStep

\* An answer has come to a caller that waits for one: the DSP has nothing
\* else to hear, and the answer is a refusal or the block it is at.
LEMMA Arrived ==
  ASSUME TypeInv, ReadInv, NEW c \in Callers, x[c].at = "receive", ring
  PROVE  /\ CallsOK /\ lock = c /\ ~bell
         /\ x[c].cmd \in Reads /\ x[c].cmd \in Commands
         /\ \/ Refused(c) /\ answer.kind = "nack"
            \/ \E j \in Nat, m \in Nat : Follows(c, j, m)
<1>1. CallsOK /\ lock = c /\ x[c].cmd \in Commands
  BY Fields DEF TypeInv, Exchanging
<1>2. x[c].cmd \in Reads /\ ~bell
  BY DEF ReadInv, CallInv, Receiving
<1>3. ~Asked(c)
  BY <1>2 DEF Asked
<1>4. Refused(c) \/ \E j \in Nat, m \in Nat : Follows(c, j, m)
  BY <1>3 DEF ReadInv, CallInv, Receiving
<1>5. Refused(c) => answer.kind = "nack"
  BY DEF Refused
<1> QED
  BY <1>1, <1>2, <1>4, <1>5

\* The block the DSP is at is one of the command's.
LEMMA FollowsOK ==
  ASSUME TypeInv, NEW c \in Callers, NEW j \in Nat, NEW m \in Nat,
         Follows(c, j, m)
  PROVE  /\ stream \in Streams /\ stream[1] = x[c].cmd /\ stream[2] = j
         /\ 1 <= j /\ j <= Blocks[x[c].cmd]
<1>1. stream = <<x[c].cmd, j>>
  BY DEF Follows
<1>2. stream[1] = x[c].cmd /\ stream[2] = j
  BY <1>1
<1>3. stream # Silent
  BY <1>1 DEF Silent
<1>4. stream \in Streams
  BY <1>3 DEF TypeInv, StreamOK
<1>5. stream[2] \in Nat /\ 1 <= stream[2] /\ stream[2] <= Blocks[stream[1]]
  BY <1>4, DataOK
<1> QED
  BY <1>2, <1>4, <1>5

LEMMA ReceiveBadRead ==
  ASSUME InTime, TypeInv, ReadInv, NEW c \in Callers, ReceiveBad(c)
  PROVE  ReadInv'
<1>1. /\ x[c].at = "receive" /\ ring /\ answer.kind = "bad" /\ ~ring'
      /\ UNCHANGED <<stream, garbled>>
  BY DEF ReceiveBad, Read
<1>2. CallsOK /\ lock = c /\ ~bell
  BY <1>1, Arrived
<1>3. PICK j \in Nat, m \in Nat : Follows(c, j, m)
  BY <1>1, Arrived
<1>4. x[c].resend \in Nat /\ x[c].resend + 1 <= garbled /\ garbled \in Nat
  <2>1. x[c].resend \in Nat /\ garbled \in Nat
    BY <1>2, Fields, BoundAssumption DEF TypeInv, StreamOK
  <2>2. Waste(ring, answer) = 1
    BY <1>1 DEF Waste
  <2> QED
    BY <1>3, <2>1, <2>2 DEF Follows
<1>5. x[c].resend # 3
  <2>1. garbled <= Garbles /\ Garbles <= 3 /\ Garbles \in Nat
    BY BoundAssumption DEF TypeInv, StreamOK, InTime
  <2> QED
    BY <1>4, <2>1
<1>6. ASSUME GiveUp(c, x[c]), SayUnheard("nack") PROVE ReadInv'
  <2>1. ~bell'
    BY <1>2, <1>6 DEF SayUnheard
  <2> QED
    BY <1>1, <1>2, <1>6, <2>1, GiveUpStops, StopStep
<1>7. ASSUME Keep(c, [x[c] EXCEPT !.resend = @ + 1]), Say("nack")
      PROVE  ReadInv'
  <2> DEFINE r == [x[c] EXCEPT !.resend = @ + 1]
  <2>1. x'[c] = r /\ \A d \in Callers \ {c} : x'[d] = x[d]
    BY <1>2, <1>7, Others DEF Keep
  <2>2. /\ r.at = x[c].at /\ r.cmd = x[c].cmd /\ r.got = x[c].got
        /\ r.size = x[c].size /\ r.last = x[c].last
        /\ r.resend = x[c].resend + 1
    BY <1>2, Fields DEF LocalRecs
  <2> HIDE DEF r
  <2>3. Holds(c, x[c].cmd, m)'
    BY <1>3, <2>1, <2>2 DEF Follows, Holds
  <2>4. Waste(ring', answer') = 0 /\ Carries(ring', answer', stream')
    BY <1>1 DEF Waste, Carries
  <2>5. x'[c].resend + 0 <= garbled'
    BY <1>1, <1>4, <2>1, <2>2
  <2>6. order'.kind = "nack"
    BY <1>7 DEF Say
  <2>7. Follows(c, j, m)'
    BY <1>1, <1>3, <2>1, <2>2, <2>3, <2>4, <2>5, <2>6 DEF Follows, Holds
  <2> QED
    BY <1>1, <1>2, <2>1, <2>2, <2>7, WaitStep
<1> QED
  BY <1>5, <1>6, <1>7 DEF ReceiveBad

\* A refusal is a frame without data: acknowledged, it changes nothing.
LEMMA ReceiveBareRead ==
  ASSUME TypeInv, ReadInv, NEW c \in Callers, ReceiveBare(c)
  PROVE  ReadInv'
<1> DEFINE r == [x[c] EXCEPT !.last = BareNo]
<1>1. /\ x[c].at = "receive" /\ ring /\ ~ring' /\ stream' = stream
      /\ answer.kind \in {"ack", "nack", "crcbad", "other"}
  BY DEF ReceiveBare, Read
<1>2. CallsOK /\ lock = c
  BY <1>1, Arrived
<1>3. Refused(c)
  <2>1. ASSUME NEW j \in Nat, NEW m \in Nat, Follows(c, j, m) PROVE FALSE
    BY <1>1, <2>1 DEF Follows, Carries
  <2> QED
    BY <1>1, <2>1, Arrived
<1>4. Keep(c, r) /\ (bell' => order'.kind = "ack")
  <2>1. x[c].got = <<>> /\ (bell => order.kind = "ack") /\ ~bell
    BY <1>1, <1>3, Arrived DEF Refused
  <2> QED
    BY <2>1 DEF ReceiveBare, Say, SayUnheard
<1>5. x'[c] = r /\ \A d \in Callers \ {c} : x'[d] = x[d]
  BY <1>2, <1>4, Others DEF Keep
<1>6. /\ r.at = x[c].at /\ r.cmd = x[c].cmd /\ r.got = x[c].got
      /\ r.size = x[c].size /\ r.resend = x[c].resend
  BY <1>2, Fields DEF LocalRecs
<1> HIDE DEF r
<1>7. Refused(c)'
  BY <1>1, <1>3, <1>4, <1>5, <1>6 DEF Refused
<1> QED
  BY <1>1, <1>2, <1>5, <1>6, <1>7, WaitStep

\* A good block is the one the DSP is at: kept if the caller had not heard of
\* it, and the last one completes the answer.
LEMMA ReceiveBlockRead ==
  ASSUME TypeInv, ReadInv, NEW c \in Callers, ReceiveBlock(c)
  PROVE  ReadInv'
<1> DEFINE k    == x[c].cmd
           b    == Block(answer.cmd, answer.block)
           n    == No(b[1], b[2])
           size == IF x[c].size = 0 THEN Blocks[b[1]] ELSE x[c].size
           got  == IF n = x[c].last THEN x[c].got ELSE Append(x[c].got, b)
           r    == Taken(c, size, got, n)
<1>1. /\ x[c].at = "receive" /\ ring /\ answer.kind = "data" /\ ~ring'
      /\ UNCHANGED <<stream, garbled>>
  BY DEF ReceiveBlock, Read
<1>2. CallsOK /\ lock = c /\ ~bell /\ k \in Commands
  BY <1>1, Arrived
<1>3. PICK j \in Nat, m \in Nat : Follows(c, j, m)
  BY <1>1, Arrived
<1>4. /\ stream[1] = k /\ stream[2] = j /\ stream \in Streams
      /\ 1 <= j /\ j <= Blocks[k] /\ Blocks[k] \in Nat
  BY <1>2, <1>3, FollowsOK, BlocksOK
<1>5. b = Block(k, j) /\ n = No(k, j) /\ b[1] = k
  <2>1. answer.cmd = k /\ answer.block = j
    BY <1>1, <1>3, <1>4 DEF Follows, Carries
  <2> QED
    BY <2>1 DEF Block
<1>6. m \in {j - 1, j} /\ m < Blocks[k] /\ Holds(c, k, m)
  BY <1>3 DEF Follows
<1> HIDE DEF b, n
<1>7. size = Blocks[k]
  BY <1>4, <1>5, <1>6 DEF Holds
<1>8. n = x[c].last <=> m = j
  <2>1. No(k, j) # NoNo /\ No(k, j) # No(k, j - 1)
    BY <1>2, <1>4, NumbersOK
  <2>2. CASE m = j
    <3>1. m # 0
      BY <1>4, <2>2
    <3> QED
      BY <1>5, <1>6, <2>2, <3>1 DEF Holds
  <2>3. CASE m = j - 1 /\ m # 0
    <3>1. m # j
      BY <2>3
    <3> QED
      BY <1>5, <1>6, <2>1, <2>3, <3>1 DEF Holds
  <2>4. CASE m = j - 1 /\ m = 0
    <3>1. m # j
      BY <2>4
    <3> QED
      BY <1>5, <1>6, <2>1, <2>4, <3>1 DEF Holds
  <2> QED
    BY <1>6, <2>2, <2>3, <2>4
<1>9. got = First(k, j)
  <2>1. CASE m = j
    BY <1>6, <1>8, <2>1 DEF Holds
  <2>2. CASE m = j - 1 /\ m # j
    <3>1. m + 1 = j
      BY <2>2
    <3>2. Append(First(k, m), Block(k, m + 1)) = First(k, m + 1)
      BY <1>2, FirstOK
    <3> QED
      BY <1>5, <1>6, <1>8, <2>2, <3>1, <3>2 DEF Holds
  <2> QED
    BY <1>4, <1>6, <2>1, <2>2
<1>10. got \in Seq(Commands \X Nat) /\ Len(got) = j
  BY <1>2, <1>9, FirstOK
<1>11. n \in Nat /\ size \in Nat
  BY <1>1, <1>4, <1>7, ArrivedOK DEF n, b, Block, TypeInv
<1> HIDE DEF size, got
<1>12. /\ r.cmd = k /\ r.got = got /\ r.size = size /\ r.last = n
       /\ r.resend = x[c].resend /\ r.at = x[c].at
  <2>1. CallsOK /\ n \in Nat /\ size \in Nat /\ got \in Seq(Commands \X Nat)
    BY <1>2, <1>10, <1>11
  <2> QED
    BY <2>1, TakenOK
<1> HIDE DEF r
<1>13. ~(Len(got) > size) /\ (n # FinalNo <=> j < Blocks[k])
  <2>1. /\ j < Blocks[k] => No(k, j) # FinalNo
        /\ j = Blocks[k] => No(k, j) = FinalNo
    BY <1>2, <1>4, NumbersOK
  <2>2. ~(Len(got) > size)
    BY <1>4, <1>7, <1>10
  <2>3. n # FinalNo <=> j < Blocks[k]
    BY <1>4, <1>5, <2>1
  <2> QED
    BY <2>2, <2>3
<1>14. bell' => order'.kind = "ack"
  <2>1. \/ Say("ack") \/ SayUnheard("ack")
        \/ UNCHANGED <<order, bell, unheard>>
    BY DEF ReceiveBlock
  <2>2. order'.kind = "ack" \/ bell' = bell
    BY <2>1 DEF Say, SayUnheard
  <2> QED
    BY <1>2, <2>2
<1>15. CASE j < Blocks[k]
  <2>1. Keep(c, r)
    BY <1>13, <1>15 DEF ReceiveBlock, Taken, b, n, size, got, r
  <2>2. x'[c] = r /\ \A d \in Callers \ {c} : x'[d] = x[d]
    BY <1>2, <2>1, Others DEF Keep
  <2>3. j # 0
    BY <1>4
  <2>4. Holds(c, k, j)'
    BY <1>5, <1>7, <1>9, <1>12, <2>2, <2>3 DEF Holds
  <2>5. /\ Waste(ring', answer') = 0 /\ Carries(ring', answer', stream')
        /\ Waste(ring, answer) = 0
    BY <1>1 DEF Waste, Carries
  <2>6. x[c].resend + 0 <= garbled
    BY <1>3, <2>5 DEF Follows
  <2>7. Follows(c, j, j)'
    BY <1>1, <1>3, <1>12, <1>14, <1>15, <2>2, <2>4, <2>5, <2>6
       DEF Follows, Holds
  <2> QED
    BY <1>1, <1>2, <1>12, <2>2, <2>7, WaitStep
<1>16. CASE j = Blocks[k]
  <2>1. ~(n # FinalNo) /\ Len(got) >= Blocks[b[1]]
    BY <1>4, <1>5, <1>10, <1>13, <1>16
  <2>2. Return(c, r, TRUE)
    BY <1>13, <2>1 DEF ReceiveBlock, Taken, b, n, size, got, r
  <2>3. r.got = Image(k)
    BY <1>2, <1>9, <1>12, <1>16, FirstOK
  <2>4. Stops(c)' /\ \A d \in Callers \ {c} : x'[d] = x[d]
    BY <1>2, <1>12, <2>2, <2>3, ReturnStops
  <2>5. AtEnd'
    BY <1>1, <1>4, <1>16 DEF AtEnd
  <2> QED
    BY <1>1, <1>2, <1>14, <2>4, <2>5, StopStep
<1> QED
  BY <1>4, <1>15, <1>16
-----------------------------------------------------------------------------
\* The DSP's steps.
LEMMA DspStep ==
  ASSUME ReadInv, UNCHANGED <<lock, x>>, Quiet',
         \A c \in Callers : Replying(c)' /\ Receiving(c)'
  PROVE  ReadInv'
<1>1. \A c \in Callers : Fresh(c)' /\ Delivered(c)'
  BY DEF ReadInv, CallInv, Fresh, Delivered, Unread
<1> QED
  BY <1>1 DEF ReadInv, CallInv

\* What a DSP that was quiet has sent.
LEMMA AnswerSent ==
  ASSUME NEW a, Answer(a), ~ring, ring'
  PROVE  answer' = a
  BY DEF Answer

LEMMA BlockSent ==
  ASSUME NEW s, NEW n \in Nat, NEW g \in Nat, AnswerBlock(s, g),
         Carries(ring, answer, s), n + Waste(ring, answer) <= g
  PROVE  Carries(ring', answer', s) /\ n + Waste(ring', answer') <= garbled'
<1> DEFINE a == [kind |-> "data", cmd |-> s[1], block |-> s[2]]
           bad == [kind |-> "bad"]
<1>0. a.kind # "bad" /\ bad.kind = "bad"
  OBVIOUS
<1> HIDE DEF a, bad
<1>1. /\ Waste(ring, answer) = 0 \/ Waste(ring, answer) = 1
      /\ Waste(ring', answer') = 0 \/ Waste(ring', answer') = 1
  BY DEF Waste
<1>2. ASSUME answer' = answer, ring' = ring, garbled' = g \/ garbled' = g + 1
      PROVE  Carries(ring', answer', s) /\ n + Waste(ring', answer') <= garbled'
  <2>1. /\ Carries(ring', answer', s)
        /\ Waste(ring', answer') = Waste(ring, answer)
    BY <1>2 DEF Carries, Waste
  <2> QED
    BY <1>1, <1>2, <2>1
<1>3. ASSUME answer' = a, ring' = TRUE, garbled' = g
      PROVE  Carries(ring', answer', s) /\ n + Waste(ring', answer') <= garbled'
  <2>1. Carries(ring', answer', s) /\ Waste(ring', answer') = 0
    BY <1>0, <1>3 DEF Carries, Waste, a
  <2> QED
    BY <1>1, <1>3, <2>1
<1>4. ASSUME answer' = bad, ring' = TRUE, garbled' = g + 1
      PROVE  Carries(ring', answer', s) /\ n + Waste(ring', answer') <= garbled'
  <2>1. Carries(ring', answer', s)
    BY <1>0, <1>4 DEF Carries
  <2>2. n <= g
    BY <1>1
  <2>3. n + Waste(ring', answer') <= g + 1
    BY <1>1, <2>2
  <2> QED
    BY <1>4, <2>1, <2>3
<1>5. CASE Answer(a) /\ garbled' = g
  BY <1>2, <1>3, <1>5 DEF Answer
<1>6. CASE Answer(bad) /\ garbled' = g + 1
  BY <1>2, <1>4, <1>6 DEF Answer
<1> QED
  BY <1>5, <1>6 DEF AnswerBlock, a, bad

\* Somebody waits for what the DSP hears, except for an ACK at the end.
LEMMA HeardQuiet ==
  ASSUME ReadInv, UNCHANGED <<lock, x>>, bell, ~bell',
         order.kind = "ack" /\ AtEnd => ring' = ring
  PROVE  Quiet'
<1>1. Awaited' <=> Awaited
  BY DEF Awaited
<1> QED
  BY <1>1 DEF ReadInv, Quiet

LEMMA HeardReplying ==
  ASSUME ReadInv, UNCHANGED <<lock, x>>, ~bell', NEW c \in Callers
  PROVE  Replying(c)'
  BY DEF ReadInv, CallInv, Replying

LEMMA OrderOfKind ==
  ASSUME NEW r
  PROVE  /\ OrderOf(r).kind \in {"write", "read"} /\ OrderOf(r).cmd = r.cmd
         /\ r.cmd \in Writes => OrderOf(r).kind = "write"
         /\ r.cmd \notin Writes => OrderOf(r).kind = "read"
  BY DEF OrderOf

\* What a waiting caller has asked of the DSP that it now hears.
LEMMA HeardReceiving ==
  ASSUME TypeInv, ReadInv, bell, NEW c \in Callers, x[c].at = "receive"
  PROVE  /\ x[c].cmd \in Reads /\ ~ring /\ order.kind # "write"
         /\ order.kind = "read" => Asked(c)
         /\ order.kind = "ack" =>
              \/ Refused(c)
              \/ \E j \in Nat : j < Blocks[x[c].cmd] /\ Follows(c, j, j)
         /\ order.kind = "nack" =>
              \E j \in Nat, m \in Nat : Follows(c, j, m)
<1>1. /\ x[c].cmd \in Reads /\ ~ring
      /\ Asked(c) \/ Refused(c) \/ \E j \in Nat, m \in Nat : Follows(c, j, m)
  BY DEF ReadInv, CallInv, Receiving
<1>2. CASE Asked(c)
  <2>1. x[c].cmd \notin Writes
    BY <1>1, CommandAssumption
  <2>2. order.kind = "read"
    BY <1>2, <2>1, OrderOfKind DEF Asked
  <2> QED
    BY <1>1, <1>2, <2>2
<1>3. CASE Refused(c)
  BY <1>1, <1>3 DEF Refused
<1>4. ASSUME NEW j \in Nat, NEW m \in Nat, Follows(c, j, m)
      PROVE  /\ order.kind \in {"ack", "nack"}
             /\ order.kind = "ack" => m = j /\ j < Blocks[x[c].cmd]
  BY <1>4 DEF Follows
<1> QED
  BY <1>1, <1>2, <1>3, <1>4

LEMMA DspWriteRead ==
  ASSUME TypeInv, ReadInv, DspWrite
  PROVE  ReadInv'
<1>1. bell /\ ~bell' /\ order.kind = "write" /\ UNCHANGED <<lock, x>>
  BY DEF DspWrite, Hears
<1>2. ASSUME NEW c \in Callers PROVE Receiving(c)'
  BY <1>1, HeardReceiving DEF Receiving
<1> QED
  BY <1>1, <1>2, HeardQuiet, HeardReplying, DspStep

LEMMA DspReadRead ==
  ASSUME TypeInv, ReadInv, DspRead
  PROVE  ReadInv'
<1>1. bell /\ ~bell' /\ order.kind = "read" /\ UNCHANGED <<lock, x>>
  BY DEF DspRead, Hears
<1>2. ASSUME NEW c \in Callers, x[c].at = "receive"
      PROVE  Refused(c)' \/ Follows(c, 1, 0)'
  <2>1. Asked(c) /\ ~ring /\ x[c].cmd \in Reads /\ x[c].cmd \in Commands
    BY <1>1, <1>2, HeardReceiving, Fields DEF TypeInv
  <2>2. order.cmd = x[c].cmd /\ Unread(c) /\ x[c].resend = 0
    BY <2>1, OrderOfKind DEF Asked
  <2>3. CASE stream' = <<order.cmd, 1>> /\ AnswerBlock(stream', 0)
    <3> DEFINE s == stream'
    <3>1. s[1] = x[c].cmd /\ s[2] = 1 /\ s = <<x[c].cmd, 1>>
      BY <2>2, <2>3
    <3> HIDE DEF s
    <3>2. Carries(ring, answer, s) /\ 0 + Waste(ring, answer) <= 0
      BY <2>1 DEF Carries, Waste
    <3>3. 0 + Waste(ring', answer') <= garbled' /\ Carries(ring', answer', s)
      <4>1. AnswerBlock(s, 0)
        BY <2>3 DEF s
      <4> QED
        BY <3>2, <4>1, BlockSent
    <3>5. Holds(c, x[c].cmd, 0)'
      BY <1>1, <2>1, <2>2, FirstOK DEF Unread, Holds
    <3> QED
      BY <1>1, <2>1, <2>2, <3>1, <3>3, <3>5, BlocksOK
         DEF Follows, Holds, s
  <2>4. CASE stream' = Silent /\ Answer([kind |-> "nack"]) /\ garbled' = 0
    <3>1. ring' => answer'.kind = "nack"
      BY <2>1, <2>4, AnswerSent
    <3> QED
      BY <1>1, <2>2, <2>4, <3>1 DEF Refused, Unread
  <2> QED
    BY <2>3, <2>4 DEF DspRead
<1>3. ASSUME NEW c \in Callers PROVE Receiving(c)'
  <2>1. x[c].at = "receive" => x[c].cmd \in Reads
    BY <1>1, HeardReceiving
  <2> QED
    BY <1>1, <1>2, <2>1 DEF Receiving
<1> QED
  BY <1>1, <1>3, HeardQuiet, HeardReplying, DspStep

LEMMA DspNextRead ==
  ASSUME TypeInv, ReadInv, DspNext
  PROVE  ReadInv'
<1>1. bell /\ ~bell' /\ order.kind = "ack" /\ UNCHANGED <<lock, x>>
  BY DEF DspNext, Hears
<1>2. AtEnd => ring' = ring /\ stream' = Silent
  BY DEF DspNext, AtEnd
<1>3. ASSUME NEW c \in Callers, x[c].at = "receive"
      PROVE  Refused(c)' \/ \E i \in Nat, m \in Nat : Follows(c, i, m)'
  <2>1. CASE Refused(c)
    <3>1. AtEnd /\ ~ring
      BY <1>1, <1>3, <2>1, HeardReceiving DEF AtEnd, Refused
    <3> QED
      BY <1>1, <1>2, <2>1, <3>1 DEF Refused
  <2>2. ASSUME NEW j \in Nat, j < Blocks[x[c].cmd], Follows(c, j, j)
        PROVE  Follows(c, j + 1, j)'
    <3>1. /\ stream \in Streams /\ stream[1] = x[c].cmd /\ stream[2] = j
          /\ 1 <= j /\ ~ring
      BY <1>1, <1>3, <2>2, FollowsOK, HeardReceiving
    <3>2. stream[2] # Blocks[stream[1]] /\ stream # Silent
      <4>1. Blocks[x[c].cmd] \in Nat
        BY <3>1, DataOK, BlocksOK
      <4>2. j # Blocks[x[c].cmd]
        BY <2>2, <4>1
      <4> QED
        BY <3>1, <4>2, DataOK
    <3>3. stream' = <<x[c].cmd, j + 1>>
      <4>1. stream' = [stream EXCEPT ![2] = @ + 1]
        BY <3>2 DEF DspNext
      <4> QED
        BY <3>1, <3>2, <4>1, OnwardOK
    <3>4. x[c].resend \in Nat /\ garbled \in Nat
      BY Fields, BoundAssumption DEF TypeInv, StreamOK
    <3>5. x[c].resend + 0 <= garbled
      <4>1. Waste(ring, answer) = 0
        BY <3>1 DEF Waste
      <4> QED
        BY <2>2, <4>1 DEF Follows
    <3>6. /\ Carries(ring', answer', stream')
          /\ x[c].resend + Waste(ring', answer') <= garbled'
      <4> DEFINE s == stream'
      <4>1. AnswerBlock(s, garbled)
        BY <3>2 DEF DspNext
      <4> HIDE DEF s
      <4>2. Carries(ring, answer, s)
        BY <3>1 DEF Carries
      <4>3. Waste(ring, answer) = 0
        BY <3>1 DEF Waste
      <4>4. x[c].resend + Waste(ring, answer) <= garbled
        BY <3>5, <4>3
      <4>5. /\ Carries(ring', answer', s)
            /\ x[c].resend + Waste(ring', answer') <= garbled'
        BY <3>4, <4>1, <4>2, <4>4, BlockSent
      <4> QED
        BY <4>5 DEF s
    <3>7. Holds(c, x[c].cmd, j)'
      BY <1>1, <2>2 DEF Follows, Holds
    <3>8. j \in {(j + 1) - 1, j + 1}
      OBVIOUS
    <3> QED
      BY <1>1, <2>2, <3>3, <3>6, <3>7, <3>8 DEF Follows, Holds
  <2>3. \A j \in Nat : j + 1 \in Nat
    OBVIOUS
  <2> QED
    BY <1>1, <1>3, <2>1, <2>2, <2>3, HeardReceiving
<1>4. ASSUME NEW c \in Callers PROVE Receiving(c)'
  <2>1. x[c].at = "receive" => x[c].cmd \in Reads
    BY <1>1, HeardReceiving
  <2> QED
    BY <1>1, <1>3, <2>1 DEF Receiving
<1> QED
  BY <1>1, <1>2, <1>4, HeardQuiet, HeardReplying, DspStep

\* The block again, for a caller that has not, or only now, heard of it.
LEMMA AgainFollows ==
  ASSUME TypeInv, NEW c \in Callers, NEW j \in Nat, NEW m \in Nat,
         Follows(c, j, m), AnswerBlock(stream, garbled), ~bell',
         UNCHANGED <<x, stream>>
  PROVE  Follows(c, j, m)'
<1>1. x[c].resend \in Nat /\ garbled \in Nat
  BY Fields, BoundAssumption DEF TypeInv, StreamOK
<1>2. /\ Carries(ring, answer, stream)
      /\ x[c].resend + Waste(ring, answer) <= garbled
  BY DEF Follows
<1>3. /\ Carries(ring', answer', stream)
      /\ x[c].resend + Waste(ring', answer') <= garbled'
  BY <1>1, <1>2, BlockSent
<1>4. Holds(c, x[c].cmd, m)'
  BY DEF Follows, Holds
<1> QED
  BY <1>3, <1>4 DEF Follows, Holds

LEMMA DspAgainRead ==
  ASSUME TypeInv, ReadInv, DspAgain
  PROVE  ReadInv'
<1>1. /\ bell /\ ~bell' /\ order.kind = "nack" /\ UNCHANGED <<lock, x, stream>>
      /\ stream # Silent => AnswerBlock(stream, garbled)
  BY DEF DspAgain, Hears
<1>2. ASSUME NEW c \in Callers, x[c].at = "receive"
      PROVE  \E j \in Nat, m \in Nat : Follows(c, j, m)'
  <2>1. PICK j \in Nat, m \in Nat : Follows(c, j, m)
    BY <1>1, <1>2, HeardReceiving
  <2>2. stream # Silent
    BY <2>1, FollowsOK, DataOK
  <2>3. Follows(c, j, m)'
    BY <1>1, <2>1, <2>2, AgainFollows
  <2> QED
    BY <2>3
<1>3. ASSUME NEW c \in Callers PROVE Receiving(c)'
  <2>1. x[c].at = "receive" => x[c].cmd \in Reads
    BY <1>1, HeardReceiving
  <2> QED
    BY <1>1, <1>2, <2>1 DEF Receiving
<1> QED
  BY <1>1, <1>3, HeardQuiet, HeardReplying, DspStep

LEMMA DspRepeatRead ==
  ASSUME InTime, TypeInv, ReadInv, DspRepeat
  PROVE  ReadInv'
<1>1. /\ unheard /\ ~bell /\ ~bell' /\ UNCHANGED <<lock, x, stream>>
      /\ AnswerBlock(stream, garbled) /\ stream # Silent
      /\ \E c \in Callers : x[c].at = "receive"
  BY DEF DspRepeat, InTime, TypeInv, StreamOK
<1>2. Quiet'
  BY <1>1 DEF Quiet, Awaited
<1>3. ASSUME NEW c \in Callers, x[c].at = "receive"
      PROVE  \E j \in Nat, m \in Nat : Follows(c, j, m)'
  <2>1. ~Asked(c) /\ ~Refused(c)
    BY <1>1 DEF Asked, Refused
  <2>2. PICK j \in Nat, m \in Nat : Follows(c, j, m)
    BY <1>3, <2>1 DEF ReadInv, CallInv, Receiving
  <2>3. Follows(c, j, m)'
    BY <1>1, <2>2, AgainFollows
  <2> QED
    BY <2>3
<1>4. ASSUME NEW c \in Callers PROVE Receiving(c)'
  BY <1>1, <1>3 DEF ReadInv, CallInv, Receiving
<1> QED
  BY <1>1, <1>2, <1>4, HeardReplying, DspStep
-----------------------------------------------------------------------------
LEMMA ReadInit ==
  ASSUME Init
  PROVE  ReadInv
<1> DEFINE k == CHOOSE k \in Commands : TRUE
<1>1. x = [c \in Callers |-> Locals("idle", k)] /\ ~bell /\ ~ring
  BY DEF Init
<1> HIDE DEF k
<1>2. Locals("idle", k).at = "idle" /\ ~Locals("idle", k).ok
  BY DEF Locals
<1>3. \A c \in Callers : x[c] = Locals("idle", k)
  BY <1>1
<1>4. \A c \in Callers : x[c].at = "idle" /\ ~x[c].ok
  BY <1>2, <1>3
<1> QED
  BY <1>1, <1>4 DEF ReadInv, Quiet, CallInv, Fresh, Replying, Receiving,
                    Delivered

LEMMA ReadStutter ==
  ASSUME ReadInv, UNCHANGED vars
  PROVE  ReadInv'
  BY DEF ReadInv, Quiet, Awaited, AtEnd, CallInv, Fresh, Replying, Receiving,
         Delivered, Asked, Refused, Follows, Holds, Unread, vars, line, dspv

LEMMA ReadNext ==
  ASSUME InTime, TypeInv, ReadInv, [Next]_vars
  PROVE  ReadInv'
<1>1. ASSUME NEW c \in Callers, NEW k \in Commands, Call(c, k)
      PROVE  ReadInv'
  BY <1>1, CallRead
<1>2. ASSUME NEW c \in Callers, Lock(c) PROVE ReadInv'
  BY <1>2, LockRead
<1>3. ASSUME NEW c \in Callers, Exchange(c) PROVE ReadInv'
  BY <1>3, SendRead, SendFailsRead, ReplyRead, ReceiveBadRead,
     ReceiveBlockRead, ReceiveBareRead, TimeOutRead DEF Exchange
<1>4. ASSUME Dsp PROVE ReadInv'
  BY <1>4, DspWriteRead, DspReadRead, DspNextRead, DspAgainRead,
     DspRepeatRead DEF Dsp
<1> QED
  BY <1>1, <1>2, <1>3, <1>4, ReadStutter DEF Next

\* dsp_read_data returns a success only with every block of its own command,
\* in order and none twice, although no answer names the command it belongs
\* to, blocks are lost, repeated or bad, and the DSP may refuse the command:
\* as long as the DSP has answered before the ARM gives up waiting, and sends
\* no more bad blocks than the code asks for again.
THEOREM ReadsAreWhole == InTime => (Spec => []ReadIsWhole)
<1>1. ReadInv => ReadIsWhole
  BY DEF ReadInv, CallInv, Delivered, ReadIsWhole
<1>2. ASSUME InTime PROVE Spec => []ReadIsWhole
  BY <1>1, <1>2, TypeInit, TypeNext, ReadInit, ReadNext, PTL DEF Spec
<1> QED
  BY <1>2
-----------------------------------------------------------------------------
(* A write that succeeds is in the DSP. The invariant says how far the     *)
(* image in the DSP is when a block is sent, and when its ACK has come.    *)

FromFirst(c) == x[c].at = "lock" => x[c].block = 1

Written(c) ==
  x[c].at \in {"send", "reply"} /\ x[c].cmd \in Writes /\ x[c].block > 1
    => memory \in {First(x[c].cmd, x[c].block - 1),
                   First(x[c].cmd, x[c].block)}

Acknowledged(c) ==
  x[c].at = "reply" /\ ring =>
    /\ answer.kind # "crcbad"
    /\ answer.kind = "ack" => memory = First(x[c].cmd, x[c].block)

ImageInv(c) == FromFirst(c) /\ Written(c) /\ Acknowledged(c)

WriteInv == \A c \in Callers : ImageInv(c)

Honest == InTime /\ "crc" \notin Faults

LEMMA StoredFirst ==
  ASSUME NEW k \in Commands, NEW i \in Nat, 1 <= i,
         i > 1 => memory \in {First(k, i - 1), First(k, i)}
  PROVE  Stored(Block(k, i)) = First(k, i)
<1> DEFINE b == Block(k, i)
<1>1. b[2] = i /\ b = <<k, i>> /\ b \in Commands \X Nat
  BY DEF Block
<1>2. i # 0
  OBVIOUS
<1>3. First(k, i) \in Seq(Commands \X Nat) /\ Len(First(k, i)) = i
  BY FirstOK
<1>4. First(k, i) # <<>> /\ First(k, i)[i] = b
  BY <1>2, FirstOK
<1>5. CASE i = 1
  <2>1. /\ First(k, 1) \in Seq(Commands \X Nat) /\ Len(First(k, 1)) = 1
        /\ First(k, 1)[1] = b
    BY <1>5, <1>3, <1>4
  <2> HIDE DEF b
  <2>2. <<b>> \in Seq(Commands \X Nat) /\ Len(<<b>>) = 1 /\ <<b>>[1] = b
    BY <1>1
  <2>3. <<b>> = First(k, 1)
    <3>1. \A j \in 1..Len(<<b>>) : <<b>>[j] = First(k, 1)[j]
      BY <2>1, <2>2
    <3> QED
      BY <2>1, <2>2, <3>1, SeqEqual
  <2> QED
    BY <1>1, <1>5, <2>3 DEF Stored, b
<1>6. CASE i # 1 /\ memory = First(k, i - 1)
  <2> DEFINE m == i - 1
  <2>1. m \in Nat /\ m # 0 /\ m + 1 = i /\ m # i
    BY <1>6
  <2> HIDE DEF m
  <2>2. /\ Len(memory) = m /\ memory # <<>> /\ memory[m] = Block(k, m)
        /\ Append(memory, Block(k, m + 1)) = First(k, m + 1)
    BY <1>6, <2>1, FirstOK DEF m
  <2>3. Block(k, m) # b
    BY <2>1 DEF Block
  <2> QED
    BY <1>1, <1>6, <2>1, <2>2, <2>3 DEF Stored
<1>7. CASE i # 1 /\ memory = First(k, i)
  <2>1. Len(memory) = i /\ memory # <<>> /\ memory[i] = b
    BY <1>7, <1>3, <1>4
  <2> QED
    BY <1>1, <1>7, <2>1 DEF Stored
<1>8. i # 1 => i > 1
  OBVIOUS
<1> QED
  BY <1>5, <1>6, <1>7, <1>8

\* The steps of a caller that leave the image as it is.
LEMMA OthersWrite ==
  ASSUME TypeInv, WriteInv, NEW c \in Callers, lock = c,
         \A d \in Callers \ {c} : x'[d] = x[d], ImageInv(c)'
  PROVE  WriteInv'
<1>1. ASSUME NEW d \in Callers \ {c} PROVE ImageInv(d)'
  <2>1. x[d].at \notin {"send", "reply", "receive"}
    BY DEF TypeInv, CallsOK, Exchanging
  <2> QED
    BY <2>1 DEF WriteInv, ImageInv, FromFirst, Written, Acknowledged
<1> QED
  BY <1>1 DEF WriteInv

LEMMA StopWrite ==
  ASSUME NEW c \in Callers, x'[c].at \in {"send", "idle"},
         memory' = memory, x'[c].cmd = x[c].cmd,
         \/ x'[c].at = "idle"
         \/ x[c].cmd \notin Writes
         \/ x'[c].block = x[c].block /\ Written(c)
            /\ x[c].at \in {"send", "reply"}
  PROVE  ImageInv(c)'
  BY DEF ImageInv, FromFirst, Written, Acknowledged

LEMMA AsideWrite ==
  ASSUME WriteInv, NEW c \in Callers, UNCHANGED <<line, dspv>>,
         \A d \in Callers \ {c} : x'[d] = x[d],
         x'[c].at \in {"lock", "send"}, x'[c].block = 1
  PROVE  WriteInv'
<1>1. ~(1 > 1)
  OBVIOUS
<1>2. ImageInv(c)'
  BY <1>1 DEF ImageInv, FromFirst, Written, Acknowledged
<1>3. ASSUME NEW d \in Callers \ {c} PROVE ImageInv(d)'
  BY DEF WriteInv, ImageInv, FromFirst, Written, Acknowledged, line, dspv
<1> QED
  BY <1>2, <1>3 DEF WriteInv

LEMMA CallWrite ==
  ASSUME TypeInv, WriteInv, NEW c \in Callers, NEW k \in Commands, Call(c, k)
  PROVE  WriteInv'
<1>1. /\ x'[c] = Locals("lock", k)
      /\ \A d \in Callers \ {c} : x'[d] = x[d]
  BY Others DEF Call, TypeInv
<1>2. x'[c].at = "lock" /\ x'[c].block = 1
  BY <1>1 DEF Locals
<1> QED
  BY <1>1, <1>2, AsideWrite DEF Call

LEMMA LockWrite ==
  ASSUME TypeInv, WriteInv, NEW c \in Callers, Lock(c)
  PROVE  WriteInv'
<1>1. CallsOK /\ x[c].at = "lock" /\ x[c].block = 1
  BY DEF TypeInv, WriteInv, ImageInv, FromFirst, Lock
<1>2. \A d \in Callers \ {c} : x'[d] = x[d]
  BY <1>1 DEF Lock, CallsOK
<1>3. x'[c].at = "send" /\ x'[c].block = 1
  BY <1>1, Fields DEF Lock, CallsOK, LocalRecs
<1> QED
  BY <1>1, <1>2, <1>3, AsideWrite DEF Lock

LEMMA SendWrite ==
  ASSUME TypeInv, ReadInv, WriteInv, NEW c \in Callers, Send(c)
  PROVE  WriteInv'
<1> DEFINE at == IF x[c].cmd \in Writes THEN "reply" ELSE "receive"
           r == [x[c] EXCEPT !.at = at, !.resend = 0]
<1>1. CallsOK /\ x[c].at = "send" /\ lock = c /\ ~Awaited /\ ImageInv(c)
  BY AwaitedBy DEF TypeInv, Send, WriteInv
<1>2. ~ring' /\ memory' = memory
  BY <1>1 DEF ReadInv, Quiet, Send, dspv
<1>3. x'[c] = r /\ \A d \in Callers \ {c} : x'[d] = x[d]
  BY <1>1, Others DEF Send, Keep
<1>4. r.at = at /\ r.cmd = x[c].cmd /\ r.block = x[c].block
  BY <1>1, Fields DEF LocalRecs
<1> HIDE DEF r
<1>5. x'[c].at \in {"reply", "receive"}
  BY <1>3, <1>4
<1>6. ImageInv(c)'
  BY <1>1, <1>2, <1>3, <1>4, <1>5
     DEF ImageInv, FromFirst, Written, Acknowledged
<1> QED
  BY <1>1, <1>3, <1>6, OthersWrite

LEMMA SendFailsWrite ==
  ASSUME TypeInv, WriteInv, NEW c \in Callers, SendFails(c)
  PROVE  WriteInv'
<1>1. /\ CallsOK /\ x[c].at = "send" /\ lock = c /\ Written(c)
      /\ memory' = memory
  BY AwaitedBy DEF TypeInv, SendFails, WriteInv, ImageInv, dspv
<1>2. ASSUME Keep(c, [x[c] EXCEPT !.resend = @ + 1])
      PROVE  /\ \A d \in Callers \ {c} : x'[d] = x[d]
             /\ x'[c].at = "send" /\ x'[c].cmd = x[c].cmd
             /\ x'[c].block = x[c].block
  <2> DEFINE r == [x[c] EXCEPT !.resend = @ + 1]
  <2>1. x'[c] = r /\ \A d \in Callers \ {c} : x'[d] = x[d]
    BY <1>1, <1>2, Others DEF Keep
  <2>2. r.at = "send" /\ r.cmd = x[c].cmd /\ r.block = x[c].block
    BY <1>1, Fields DEF LocalRecs
  <2> HIDE DEF r
  <2> QED
    BY <2>1, <2>2
<1>3. /\ \A d \in Callers \ {c} : x'[d] = x[d]
      /\ x'[c].cmd = x[c].cmd
      /\ \/ x'[c].at = "send" /\ x'[c].block = x[c].block
         \/ x'[c].at = "idle"
  BY <1>1, <1>2, GiveUpStops DEF SendFails
<1>4. ImageInv(c)'
  BY <1>1, <1>3, StopWrite
<1> QED
  BY <1>1, <1>3, <1>4, OthersWrite

\* A block counts as accepted only when the DSP has it.
LEMMA ReplyWrite ==
  ASSUME Honest, TypeInv, ReadInv, WriteInv, NEW c \in Callers, Reply(c)
  PROVE  /\ WriteInv'
         /\ x'[c].at = "idle" /\ x'[c].ok => memory = Image(x[c].cmd)
<1>1. /\ CallsOK /\ x[c].at = "reply" /\ lock = c /\ memory' = memory
      /\ x[c].cmd \in Writes /\ x[c].cmd \in Commands /\ ring
      /\ Written(c) /\ Acknowledged(c)
  BY Fields DEF TypeInv, Reply, Read, Exchanging, ReadInv, CallInv, Replying,
                WriteInv, ImageInv, dspv
<1>2. x[c].cmd \notin Reads
  BY <1>1, CommandAssumption
<1>3. ASSUME answer.kind \in {"ack", "crcbad"}, NextBlock(c, x[c])
      PROVE  /\ WriteInv'
             /\ x'[c].at = "idle" /\ x'[c].ok => memory = Image(x[c].cmd)
  <2>1. memory = First(x[c].cmd, x[c].block)
    BY <1>1, <1>3 DEF Acknowledged
  <2>2. /\ \A d \in Callers \ {c} : x'[d] = x[d]
        /\ x'[c].cmd = x[c].cmd
        /\ \/ x'[c].at = "send" /\ x'[c].block = x[c].block + 1
           \/ x'[c].at = "idle" /\ ~(x[c].block < Blocks[x[c].cmd])
    BY <1>1, <1>2, <1>3, NextBlockStops
  <2>3. CASE x'[c].at = "send" /\ x'[c].block = x[c].block + 1
    <3>1. (x[c].block + 1) - 1 = x[c].block
      BY <1>1, Fields, BlocksOK
    <3>2. ImageInv(c)'
      BY <1>1, <2>1, <2>2, <2>3, <3>1
         DEF ImageInv, FromFirst, Written, Acknowledged
    <3> QED
      BY <1>1, <2>2, <2>3, <3>2, OthersWrite
  <2>4. CASE x'[c].at = "idle" /\ ~(x[c].block < Blocks[x[c].cmd])
    <3>1. x[c].block = Blocks[x[c].cmd]
      BY <1>1, <2>4, Fields, BlocksOK
    <3>2. memory = Image(x[c].cmd)
      BY <2>1, <3>1 DEF First, Image
    <3>3. ImageInv(c)'
      BY <1>1, <2>2, <2>4, StopWrite
    <3> QED
      BY <1>1, <2>2, <3>2, <3>3, OthersWrite
  <2> QED
    BY <2>2, <2>3, <2>4
<1>4. ASSUME GiveUp(c, x[c])
      PROVE  /\ WriteInv'
             /\ x'[c].at = "idle" /\ x'[c].ok => memory = Image(x[c].cmd)
  <2>1. /\ \A d \in Callers \ {c} : x'[d] = x[d]
        /\ x'[c].cmd = x[c].cmd
        /\ \/ x'[c].at = "send" /\ x'[c].block = x[c].block
           \/ x'[c].at = "idle" /\ x'[c].ok = FALSE
    BY <1>1, <1>4, GiveUpStops
  <2>2. ImageInv(c)'
    BY <1>1, <2>1, StopWrite
  <2> QED
    BY <1>1, <2>1, <2>2, OthersWrite
<1>5. ASSUME Keep(c, [x[c] EXCEPT !.at = "send", !.resend = @ + 1])
      PROVE  /\ WriteInv'
             /\ x'[c].at = "idle" /\ x'[c].ok => memory = Image(x[c].cmd)
  <2> DEFINE r == [x[c] EXCEPT !.at = "send", !.resend = @ + 1]
  <2>1. x'[c] = r /\ \A d \in Callers \ {c} : x'[d] = x[d]
    BY <1>1, <1>5, Others DEF Keep
  <2>2. r.at = "send" /\ r.cmd = x[c].cmd /\ r.block = x[c].block
    BY <1>1, Fields DEF LocalRecs
  <2> HIDE DEF r
  <2>3. ImageInv(c)'
    BY <1>1, <2>1, <2>2, StopWrite
  <2> QED
    BY <1>1, <2>1, <2>2, <2>3, OthersWrite
<1>6. \/ answer.kind \in {"ack", "crcbad"} /\ NextBlock(c, x[c])
      \/ GiveUp(c, x[c])
      \/ Keep(c, [x[c] EXCEPT !.at = "send", !.resend = @ + 1])
  BY DEF Reply
<1> QED
  BY <1>3, <1>4, <1>5, <1>6

LEMMA TimeOutWrite ==
  ASSUME TypeInv, ReadInv, WriteInv, NEW c \in Callers, TimeOut(c)
  PROVE  /\ WriteInv'
         /\ x'[c].at = "idle" => x'[c].ok = FALSE
<1>1. /\ CallsOK /\ x[c].at \in {"reply", "receive"} /\ lock = c
      /\ memory' = memory /\ Written(c)
      /\ x[c].at = "receive" => x[c].cmd \notin Writes
  BY Fields, CommandAssumption DEF TypeInv, TimeOut, Exchanging, WriteInv,
     ImageInv, ReadInv, CallInv, Receiving, dspv
<1>2. /\ \A d \in Callers \ {c} : x'[d] = x[d]
      /\ x'[c].cmd = x[c].cmd
      /\ \/ x'[c].at = "send" /\ x'[c].block = x[c].block
         \/ x'[c].at = "idle" /\ x'[c].ok = FALSE
  BY <1>1, GiveUpStops DEF TimeOut
<1>3. ImageInv(c)'
  BY <1>1, <1>2, StopWrite
<1> QED
  BY <1>1, <1>2, <1>3, OthersWrite

\* A caller that reads keeps the image as it is.
LEMMA ReadingWrite ==
  ASSUME TypeInv, WriteInv, NEW c \in Callers, lock = c,
         \A d \in Callers \ {c} : x'[d] = x[d],
         x'[c].at \in {"send", "idle", "receive"}, x'[c].cmd \in Reads
  PROVE  WriteInv'
<1>1. x'[c].cmd \notin Writes
  BY CommandAssumption
<1>2. ImageInv(c)'
  BY <1>1 DEF ImageInv, FromFirst, Written, Acknowledged
<1> QED
  BY <1>2, OthersWrite

LEMMA ReceiveWrite ==
  ASSUME TypeInv, ReadInv, WriteInv, NEW c \in Callers,
         ReceiveBad(c) \/ ReceiveBare(c) \/ ReceiveBlock(c)
  PROVE  WriteInv'
<1>1. x[c].at = "receive" /\ ring
  BY DEF ReceiveBad, ReceiveBare, ReceiveBlock, Read
<1>2. CallsOK /\ lock = c /\ x[c].cmd \in Reads
  BY <1>1, Arrived
<1>3. ASSUME NEW r, r.at = "receive", r.cmd = x[c].cmd,
             Keep(c, r) \/ Return(c, r, TRUE) \/ GiveUp(c, r)
      PROVE  WriteInv'
  <2>1. ASSUME Keep(c, r) PROVE WriteInv'
    <3>1. x'[c] = r /\ \A d \in Callers \ {c} : x'[d] = x[d]
      BY <1>2, <2>1, Others DEF Keep
    <3> QED
      BY <1>2, <1>3, <3>1, ReadingWrite
  <2>2. ASSUME GiveUp(c, r) PROVE WriteInv'
    <3>1. /\ \A d \in Callers \ {c} : x'[d] = x[d]
          /\ x'[c].cmd = r.cmd /\ x'[c].at \in {"send", "idle"}
      BY <1>2, <2>2, GiveUpStops
    <3> QED
      BY <1>2, <1>3, <3>1, ReadingWrite
  <2>3. ASSUME Return(c, r, TRUE) PROVE WriteInv'
    <3> DEFINE t == [Locals("idle", r.cmd) EXCEPT !.got = r.got, !.ok = TRUE]
    <3>1. x'[c] = t /\ \A d \in Callers \ {c} : x'[d] = x[d]
      BY <1>2, <2>3, Others DEF Return
    <3>2. t.at = "idle" /\ t.cmd = r.cmd
      BY DEF Locals
    <3> HIDE DEF t
    <3> QED
      BY <1>2, <1>3, <3>1, <3>2, ReadingWrite
  <2> QED
    BY <1>3, <2>1, <2>2, <2>3
<1>4. CASE ReceiveBad(c)
  <2> DEFINE r == [x[c] EXCEPT !.resend = @ + 1]
  <2>1. GiveUp(c, x[c]) \/ Keep(c, r)
    BY <1>4 DEF ReceiveBad
  <2>2. r.at = "receive" /\ r.cmd = x[c].cmd
    BY <1>1, <1>2, Fields DEF LocalRecs
  <2> HIDE DEF r
  <2> QED
    BY <1>1, <1>3, <2>1, <2>2
<1>5. CASE ReceiveBare(c)
  <2> DEFINE r == [x[c] EXCEPT !.last = BareNo]
  <2>1. GiveUp(c, x[c]) \/ Keep(c, r)
    BY <1>5 DEF ReceiveBare
  <2>2. r.at = "receive" /\ r.cmd = x[c].cmd
    BY <1>1, <1>2, Fields DEF LocalRecs
  <2> HIDE DEF r
  <2> QED
    BY <1>1, <1>3, <2>1, <2>2
<1>6. CASE ReceiveBlock(c)
  <2> DEFINE b    == Block(answer.cmd, answer.block)
             n    == No(b[1], b[2])
             size == IF x[c].size = 0 THEN Blocks[b[1]] ELSE x[c].size
             got  == IF n = x[c].last THEN x[c].got ELSE Append(x[c].got, b)
             r    == [x[c] EXCEPT !.size = size, !.got = got, !.last = n]
  <2> HIDE DEF b, n, size, got
  <2>1. r.at = "receive" /\ r.cmd = x[c].cmd
    BY <1>1, <1>2, Fields DEF LocalRecs
  <2> HIDE DEF r
  <2>2. GiveUp(c, x[c]) \/ GiveUp(c, r) \/ Keep(c, r) \/ Return(c, r, TRUE)
    BY <1>6 DEF ReceiveBlock, b, n, size, got, r
  <2> QED
    BY <1>1, <1>3, <2>1, <2>2
<1> QED
  BY <1>4, <1>5, <1>6

\* The DSP's steps: only what a caller at "reply" has sent changes the image.
LEMMA DspWriteWrite ==
  ASSUME Honest, TypeInv, ReadInv, WriteInv, DspWrite
  PROVE  WriteInv'
<1>1. /\ bell /\ order.kind = "write" /\ UNCHANGED <<lock, x>>
      /\ order.block \in Nat /\ 1 <= order.block
  BY WrittenOK DEF DspWrite, Hears, TypeInv
<1>2. ASSUME NEW c \in Callers, x[c].at = "send" PROVE FALSE
  <2>1. Awaited
    BY <1>1 DEF ReadInv, Quiet
  <2> QED
    BY <1>2, <2>1, AwaitedBy
<1>3. ASSUME NEW c \in Callers, x[c].at = "reply"
      PROVE  Written(c)' /\ Acknowledged(c)'
  <2> DEFINE k == x[c].cmd
             i == x[c].block
  <2>1. k \in Writes /\ ~ring /\ order = OrderOf(x[c]) /\ k \in Commands
    BY <1>1, <1>3, Fields DEF ReadInv, CallInv, Replying, TypeInv
  <2>2. order.cmd = k /\ order.block = i
    BY <2>1 DEF OrderOf
  <2>3. i \in Nat /\ 1 <= i
    BY <1>1, <2>2
  <2>4. i > 1 => memory \in {First(k, i - 1), First(k, i)}
    BY <1>3, <2>1 DEF WriteInv, ImageInv, Written
  <2>5. x'[c].cmd = k /\ x'[c].block = i /\ x'[c].at = "reply"
    BY <1>1, <1>3
  <2> HIDE DEF k, i
  <2>6. CASE Answer([kind |-> "ack"]) /\ memory' = Stored(Block(k, i))
    <3>1. memory' = First(k, i)
      BY <2>1, <2>3, <2>4, <2>6, StoredFirst
    <3>2. ring' => answer'.kind = "ack"
      BY <2>1, <2>6, AnswerSent
    <3> QED
      BY <2>5, <3>1, <3>2 DEF Written, Acknowledged
  <2>7. ASSUME NEW g, g \in {"nack", "other"}, Answer([kind |-> g]),
               memory' = memory
        PROVE  Written(c)' /\ Acknowledged(c)'
    <3>1. ring' => answer'.kind = g
      BY <2>1, <2>7, AnswerSent
    <3> QED
      BY <2>4, <2>5, <2>7, <3>1 DEF Written, Acknowledged
  <2>8. \/ Answer([kind |-> "ack"]) /\ memory' = Stored(Block(k, i))
        \/ \E g \in {"nack", "other"} :
             Answer([kind |-> g]) /\ memory' = memory
    BY <2>2 DEF DspWrite, Honest
  <2> QED
    BY <2>6, <2>7, <2>8
<1>4. ASSUME NEW c \in Callers PROVE ImageInv(c)'
  <2>1. FromFirst(c)'
    BY <1>1 DEF WriteInv, ImageInv, FromFirst
  <2>2. CASE x[c].at = "reply"
    BY <1>3, <2>1, <2>2 DEF ImageInv
  <2>3. CASE x[c].at # "reply"
    BY <1>1, <1>2, <2>1, <2>3 DEF ImageInv, Written, Acknowledged
  <2> QED
    BY <2>2, <2>3
<1> QED
  BY <1>4 DEF WriteInv

LEMMA DspReadingWrite ==
  ASSUME TypeInv, ReadInv, WriteInv, Honest,
         DspRead \/ DspNext \/ DspAgain \/ DspRepeat
  PROVE  WriteInv'
<1>1. UNCHANGED <<lock, x, memory>>
  BY DEF DspRead, DspNext, DspAgain, DspRepeat, Hears
<1>2. ASSUME NEW c \in Callers, x[c].at = "reply" PROVE FALSE
  <2>1. CASE DspRepeat
    <3>1. PICK d \in Callers : x[d].at = "receive"
      BY <2>1 DEF DspRepeat, Honest, InTime
    <3> QED
      BY <1>2, <3>1 DEF TypeInv, CallsOK, Exchanging
  <2>2. CASE DspRead \/ DspNext \/ DspAgain
    <3>1. bell /\ order.kind \in {"read", "ack", "nack"}
      BY <2>2 DEF DspRead, DspNext, DspAgain, Hears
    <3>2. x[c].cmd \in Writes /\ order = OrderOf(x[c])
      BY <1>2, <3>1 DEF ReadInv, CallInv, Replying
    <3>3. order.kind = "write"
      BY <3>2, OrderOfKind
    <3> QED
      BY <3>1, <3>3
  <2> QED
    BY <2>1, <2>2
<1>3. ASSUME NEW c \in Callers PROVE ImageInv(c)'
  BY <1>1, <1>2 DEF WriteInv, ImageInv, FromFirst, Written, Acknowledged
<1> QED
  BY <1>3 DEF WriteInv
-----------------------------------------------------------------------------
LEMMA WriteInit ==
  ASSUME Init
  PROVE  WriteInv
<1> DEFINE k == CHOOSE k \in Commands : TRUE
<1>1. x = [c \in Callers |-> Locals("idle", k)]
  BY DEF Init
<1> HIDE DEF k
<1>2. Locals("idle", k).at = "idle"
  BY DEF Locals
<1>3. \A c \in Callers : x[c].at = "idle"
  BY <1>1, <1>2
<1> QED
  BY <1>3 DEF WriteInv, ImageInv, FromFirst, Written, Acknowledged

LEMMA WriteNext ==
  ASSUME Honest, TypeInv, ReadInv, WriteInv, [Next]_vars
  PROVE  WriteInv'
<1>1. ASSUME NEW c \in Callers, NEW k \in Commands, Call(c, k)
      PROVE  WriteInv'
  BY <1>1, CallWrite
<1>2. ASSUME NEW c \in Callers, Lock(c) PROVE WriteInv'
  BY <1>2, LockWrite
<1>3. ASSUME NEW c \in Callers, Exchange(c) PROVE WriteInv'
  BY <1>3, SendWrite, SendFailsWrite, ReplyWrite, ReceiveWrite, TimeOutWrite
     DEF Exchange
<1>4. ASSUME Dsp PROVE WriteInv'
  BY <1>4, DspWriteWrite, DspReadingWrite DEF Dsp
<1>5. ASSUME UNCHANGED vars PROVE WriteInv'
  BY <1>5 DEF WriteInv, ImageInv, FromFirst, Written, Acknowledged, vars,
              line, dspv
<1> QED
  BY <1>1, <1>2, <1>3, <1>4, <1>5 DEF Next

\* The call that ends with a success is the one whose last block the DSP has
\* just acknowledged.
LEMMA WriteEnds ==
  ASSUME Honest, TypeInv, ReadInv, WriteInv, [Next]_vars,
         NEW c \in Callers, x[c].at = "reply", x'[c].at = "idle", x'[c].ok
  PROVE  memory = Image(x[c].cmd)
<1>1. CallsOK /\ lock = c /\ NoOne # c
  BY CallerAssumption DEF TypeInv, CallsOK, Exchanging
<1>2. x'[c] # x[c]
  OBVIOUS
<1>3. ASSUME NEW d \in Callers, NEW k \in Commands, Call(d, k) PROVE FALSE
  <2>1. d # c
    BY <1>3 DEF Call
  <2> QED
    BY <1>1, <1>2, <1>3, <2>1 DEF Call, CallsOK
<1>4. ASSUME NEW d \in Callers, Lock(d) PROVE FALSE
  BY <1>1, <1>4 DEF Lock
<1>5. ASSUME NEW d \in Callers, Exchange(d)
      PROVE  memory = Image(x[c].cmd)
  <2>1. x[d].at \in {"send", "reply", "receive"}
    BY <1>5 DEF Exchange, Send, SendFails, Reply, ReceiveBad, ReceiveBlock,
                ReceiveBare, TimeOut
  <2>2. d = c
    BY <1>1, <2>1 DEF CallsOK, Exchanging
  <2>3. Reply(c) \/ TimeOut(c)
    BY <1>5, <2>2 DEF Exchange, Send, SendFails, ReceiveBad, ReceiveBlock,
                      ReceiveBare
  <2> QED
    BY <2>3, ReplyWrite, TimeOutWrite
<1>6. ASSUME Dsp PROVE FALSE
  BY <1>2, <1>6 DEF Dsp, DspWrite, DspRead, DspNext, DspAgain, DspRepeat, Hears
<1>7. ASSUME UNCHANGED vars PROVE FALSE
  BY <1>2, <1>7 DEF vars
<1> QED
  BY <1>3, <1>4, <1>5, <1>6, <1>7 DEF Next

\* dsp_write_data and dsp_write_ctrl return a success only when the DSP has
\* the image of that very command, whole, however often blocks were resent,
\* refused or not acknowledged: as long as the DSP answers in time and does
\* not answer TX_PC_CRC_BAD, which the code takes for an ACK.
THEOREM WritesAreWhole == Honest => (Spec => WriteIsWhole)
<1>1. ASSUME Honest, TypeInv, ReadInv, WriteInv, [Next]_vars
      PROVE  \A c \in Callers :
               /\ x[c].at = "reply" /\ x'[c].at = "idle" /\ x'[c].ok
               => memory = Image(x[c].cmd)
  BY <1>1, WriteEnds
<1>2. Honest => InTime
  BY DEF Honest
<1>3. ASSUME Honest PROVE Spec => WriteIsWhole
  BY <1>1, <1>2, <1>3, TypeInit, TypeNext, ReadInit, ReadNext, WriteInit,
     WriteNext, PTL DEF Spec, WriteIsWhole
<1> QED
  BY <1>3
-----------------------------------------------------------------------------
(* The link is the mailbox its callers rely on. Between the start and the  *)
(* end of an exchange they see nothing of it: blocks, answers and tries    *)
(* are stutters, except for a block that reaches the DSP.                  *)

LEMMA SeenOK ==
  ASSUME NEW r
  PROVE  /\ r.at # "idle" => Seen(r) = Mailbox!Under(r.cmd)
         /\ r.at = "idle" /\ r.ok = FALSE
              => Seen(r) = Mailbox!Ended(r.cmd, FALSE, <<>>)
         /\ r.at = "idle" /\ r.ok = TRUE
              => Seen(r) = Mailbox!Ended(r.cmd, TRUE,
                             IF r.cmd \in Reads THEN r.got ELSE <<>>)
         /\ Seen(r).cmd = r.cmd /\ (Seen(r).active <=> r.at # "idle")
BY DEF Seen, Mailbox!Under, Mailbox!Ended

LEMMA PartOK ==
  ASSUME NEW k, NEW m
  PROVE  Mailbox!Part(k, m) = First(k, m) /\ Mailbox!Whole(k) = Image(k)
BY DEF Mailbox!Part, Mailbox!Whole, First, Image, Block

LEMMA SeenBy ==
  ASSUME NEW c \in Callers
  PROVE  /\ Calls[c] = Seen(x[c]) /\ Calls[c].cmd = x[c].cmd
         /\ Calls[c].active <=> x[c].at # "idle"
BY SeenOK DEF Calls

\* One caller moves, the others see nothing.
LEMMA CallsMove ==
  ASSUME NEW c \in Callers, \A d \in Callers \ {c} : x'[d] = x[d]
  PROVE  Calls' = [Calls EXCEPT ![c] = Seen(x'[c])]
<1>1. Calls' = [d \in Callers |-> Seen(x'[d])]
  BY DEF Calls
<1>2. \A d \in Callers \ {c} : Seen(x'[d]) = Calls[d]
  BY DEF Calls
<1>3. [Calls EXCEPT ![c] = Seen(x'[c])]
      = [d \in Callers |-> IF d = c THEN Seen(x'[c]) ELSE Calls[d]]
  BY DEF Calls
<1> HIDE DEF Calls
<1> QED
  BY <1>1, <1>2, <1>3

LEMMA CallsSame ==
  ASSUME NEW c \in Callers, \A d \in Callers \ {c} : x'[d] = x[d],
         x'[c].cmd = x[c].cmd, x[c].at # "idle", x'[c].at # "idle"
  PROVE  Calls' = Calls
<1>1. Seen(x'[c]) = Seen(x[c])
  BY DEF Seen
<1>2. \A d \in Callers : Seen(x'[d]) = Seen(x[d])
  BY <1>1
<1> QED
  BY <1>2 DEF Calls

\* What a step of an exchange does to the lock: only its end gives it back.
Moved(c) ==
  /\ \A d \in Callers \ {c} : x'[d] = x[d]
  /\ x'[c].cmd = x[c].cmd
  /\ \/ x'[c].at # "idle" /\ lock' = lock
     \/ x'[c].at = "idle" /\ lock' = NoOne

LEMMA KeepMoves ==
  ASSUME CallsOK, NEW c \in Callers, NEW r, r.at # "idle",
         r.cmd = x[c].cmd, Keep(c, r)
  PROVE  Moved(c)
<1>1. x'[c] = r /\ \A d \in Callers \ {c} : x'[d] = x[d]
  BY Others DEF Keep
<1> QED
  BY <1>1 DEF Moved, Keep

LEMMA ReturnMoves ==
  ASSUME CallsOK, NEW c \in Callers, NEW r, NEW ok, r.cmd = x[c].cmd,
         Return(c, r, ok)
  PROVE  Moved(c) /\ x'[c].ok = ok
<1> DEFINE t == [Locals("idle", r.cmd) EXCEPT !.got = r.got, !.ok = ok]
<1>1. x'[c] = t /\ \A d \in Callers \ {c} : x'[d] = x[d]
  BY Others DEF Return
<1>2. t.at = "idle" /\ t.cmd = r.cmd /\ t.ok = ok
  BY DEF Locals
<1> HIDE DEF t
<1> QED
  BY <1>1, <1>2 DEF Moved, Return

LEMMA GiveUpMoves ==
  ASSUME CallsOK, NEW c \in Callers, NEW r, r.cmd = x[c].cmd, GiveUp(c, r)
  PROVE  Moved(c) /\ (x'[c].at = "idle" => x'[c].ok = FALSE)
<1>1. CASE r.attempt < Attempts
  <2> DEFINE t == Again(r.cmd, r.block, r.attempt + 1)
  <2>1. Keep(c, t)
    BY <1>1 DEF GiveUp, Again
  <2>2. t.at = "send" /\ t.cmd = r.cmd
    BY DEF Locals, Again
  <2>3. x'[c] = t
    BY <2>1, Others DEF Keep
  <2> HIDE DEF t
  <2> QED
    BY <2>1, <2>2, <2>3, KeepMoves
<1>2. CASE ~(r.attempt < Attempts)
  <2>1. Return(c, r, FALSE)
    BY <1>2 DEF GiveUp
  <2> QED
    BY <2>1, ReturnMoves
<1> QED
  BY <1>1, <1>2

LEMMA NextBlockMoves ==
  ASSUME CallsOK, NEW c \in Callers, NEW r, r.cmd = x[c].cmd,
         NextBlock(c, r)
  PROVE  Moved(c)
<1>1. CASE r.block < Blocks[r.cmd]
  <2> DEFINE t == [Locals("send", r.cmd) EXCEPT !.block = r.block + 1]
  <2>1. Keep(c, t)
    BY <1>1 DEF NextBlock
  <2>2. t.at = "send" /\ t.cmd = r.cmd
    BY DEF Locals
  <2> HIDE DEF t
  <2> QED
    BY <2>1, <2>2, KeepMoves
<1>2. CASE ~(r.block < Blocks[r.cmd])
  <2>1. Return(c, r, TRUE)
    BY <1>2 DEF NextBlock
  <2> QED
    BY <2>1, ReturnMoves
<1> QED
  BY <1>1, <1>2

LEMMA SendMoves ==
  ASSUME TypeInv, NEW c \in Callers, Send(c) \/ SendFails(c)
  PROVE  Moved(c) /\ (x'[c].at = "idle" => x'[c].ok = FALSE)
<1> DEFINE at == IF x[c].cmd \in Writes THEN "reply" ELSE "receive"
           r == [x[c] EXCEPT !.at = at, !.resend = 0]
           t == [x[c] EXCEPT !.resend = @ + 1]
<1>1. CallsOK /\ x[c].at = "send"
  BY DEF TypeInv, Send, SendFails
<1>2. Keep(c, r) \/ Keep(c, t) \/ GiveUp(c, x[c])
  BY DEF Send, SendFails
<1>3. /\ r.at # "idle" /\ r.cmd = x[c].cmd
      /\ t.at # "idle" /\ t.cmd = x[c].cmd
  BY <1>1, Fields DEF LocalRecs
<1> HIDE DEF r, t
<1>4. ASSUME NEW q, q.at # "idle", q.cmd = x[c].cmd, Keep(c, q)
      PROVE  Moved(c) /\ x'[c].at # "idle"
  <2>1. x'[c] = q
    BY <1>1, <1>4, Others DEF Keep
  <2> QED
    BY <1>1, <1>4, <2>1, KeepMoves
<1> QED
  BY <1>1, <1>2, <1>3, <1>4, GiveUpMoves

LEMMA ReplyMoves ==
  ASSUME TypeInv, NEW c \in Callers, Reply(c)
  PROVE  Moved(c)
<1> DEFINE r == [x[c] EXCEPT !.at = "send", !.resend = @ + 1]
<1>1. CallsOK /\ x[c].at = "reply"
  BY DEF TypeInv, Reply
<1>2. NextBlock(c, x[c]) \/ GiveUp(c, x[c]) \/ Keep(c, r)
  BY DEF Reply
<1>3. r.at # "idle" /\ r.cmd = x[c].cmd
  BY <1>1, Fields DEF LocalRecs
<1> HIDE DEF r
<1> QED
  BY <1>1, <1>2, <1>3, NextBlockMoves, GiveUpMoves, KeepMoves

LEMMA ReceiveMoves ==
  ASSUME TypeInv, NEW c \in Callers,
         ReceiveBad(c) \/ ReceiveBare(c) \/ ReceiveBlock(c)
  PROVE  Moved(c)
<1>1. CallsOK /\ x[c].at = "receive"
  BY DEF TypeInv, ReceiveBad, ReceiveBare, ReceiveBlock
<1>2. CASE ReceiveBad(c)
  <2> DEFINE r == [x[c] EXCEPT !.resend = @ + 1]
  <2>1. GiveUp(c, x[c]) \/ Keep(c, r)
    BY <1>2 DEF ReceiveBad
  <2>2. r.at # "idle" /\ r.cmd = x[c].cmd
    BY <1>1, Fields DEF LocalRecs
  <2> HIDE DEF r
  <2> QED
    BY <1>1, <2>1, <2>2, GiveUpMoves, KeepMoves
<1>3. CASE ReceiveBare(c)
  <2> DEFINE r == [x[c] EXCEPT !.last = BareNo]
  <2>1. GiveUp(c, x[c]) \/ Keep(c, r)
    BY <1>3 DEF ReceiveBare
  <2>2. r.at # "idle" /\ r.cmd = x[c].cmd
    BY <1>1, Fields DEF LocalRecs
  <2> HIDE DEF r
  <2> QED
    BY <1>1, <2>1, <2>2, GiveUpMoves, KeepMoves
<1>4. CASE ReceiveBlock(c)
  <2> DEFINE b    == Block(answer.cmd, answer.block)
             n    == No(b[1], b[2])
             size == IF x[c].size = 0 THEN Blocks[b[1]] ELSE x[c].size
             got  == IF n = x[c].last THEN x[c].got ELSE Append(x[c].got, b)
             r    == [x[c] EXCEPT !.size = size, !.got = got, !.last = n]
  <2> HIDE DEF b, n, size, got
  <2>1. r.at # "idle" /\ r.cmd = x[c].cmd
    BY <1>1, Fields DEF LocalRecs
  <2> HIDE DEF r
  <2>2. GiveUp(c, x[c]) \/ GiveUp(c, r) \/ Keep(c, r) \/ Return(c, r, TRUE)
    BY <1>4 DEF ReceiveBlock, b, n, size, got, r
  <2> QED
    BY <1>1, <2>1, <2>2, GiveUpMoves, KeepMoves, ReturnMoves
<1> QED
  BY <1>2, <1>3, <1>4

\* A step of an exchange is seen only as its end, and only a success is seen
\* with its data.
LEMMA EndSeen ==
  ASSUME TypeInv, NEW c \in Callers, lock = c, Moved(c), memory' = memory,
         x[c].at # "idle", x'[c].at = "idle", x'[c].ok \in BOOLEAN,
         x'[c].ok /\ x'[c].cmd \in Writes => memory = Image(x'[c].cmd),
         Delivered(c)'
  PROVE  Mailbox!Succeed(c) \/ Mailbox!Fail(c)
<1> DEFINE k == x[c].cmd
<1>1. /\ lock' = NoOne /\ x'[c].cmd = k
      /\ Calls[c].cmd = k /\ Calls' = [Calls EXCEPT ![c] = Seen(x'[c])]
  BY CallsMove, SeenBy DEF Moved
<1>2. CASE x'[c].ok = TRUE
  <2>1. k \in Writes => memory = Mailbox!Whole(k)
    BY <1>1, <1>2, PartOK
  <2>2. k \in Reads => x'[c].got = Mailbox!Whole(k)
    BY <1>1, <1>2, PartOK DEF Delivered
  <2>3. Seen(x'[c]) = Mailbox!Ended(k, TRUE,
                        IF k \in Reads THEN x'[c].got ELSE <<>>)
    BY <1>1, <1>2, SeenOK
  <2>4. Seen(x'[c]) = Mailbox!Ended(k, TRUE,
                        IF k \in Reads THEN Mailbox!Whole(k) ELSE <<>>)
    BY <2>2, <2>3
  <2> QED
    BY <1>1, <2>1, <2>4 DEF Mailbox!Succeed
<1>3. CASE x'[c].ok = FALSE
  <2>1. Seen(x'[c]) = Mailbox!Ended(k, FALSE, <<>>)
    BY <1>1, <1>3, SeenOK
  <2> QED
    BY <1>1, <2>1 DEF Mailbox!Fail
<1> QED
  BY <1>2, <1>3

LEMMA ExchangeSeen ==
  ASSUME Honest, TypeInv, ReadInv, WriteInv, TypeInv', ReadInv',
         NEW c \in Callers, Exchange(c)
  PROVE  [Mailbox!Next]_(Mailbox!vars)
<1>1. /\ x[c].at \in {"send", "reply", "receive"} /\ memory' = memory
      /\ CallsOK
  BY DEF Exchange, Send, SendFails, Reply, ReceiveBad, ReceiveBlock,
         ReceiveBare, TimeOut, dspv, TypeInv
<1>2. lock = c
  BY <1>1 DEF TypeInv, CallsOK, Exchanging
<1>3. Moved(c)
  <2>1. CASE TimeOut(c)
    BY <1>1, <2>1, GiveUpMoves DEF TimeOut
  <2> QED
    BY <2>1, SendMoves, ReplyMoves, ReceiveMoves DEF Exchange
<1>4. CASE x'[c].at # "idle"
  <2>1. Calls' = Calls /\ lock' = lock
    BY <1>1, <1>3, <1>4, CallsSame DEF Moved
  <2> QED
    BY <1>1, <2>1 DEF Mailbox!vars
<1>5. CASE x'[c].at = "idle"
  <2>1. Delivered(c)' /\ x'[c].ok \in BOOLEAN
    <3>1. Delivered(c)'
      BY DEF ReadInv, CallInv
    <3>2. x'[c].ok \in BOOLEAN
      BY DEF TypeInv, CallsOK, LocalRecs
    <3> QED
      BY <3>1, <3>2
  <2>2. x'[c].ok /\ x'[c].cmd \in Writes => memory = Image(x'[c].cmd)
    <3>1. x'[c].cmd = x[c].cmd
      BY <1>3 DEF Moved
    <3>2. CASE x[c].at = "send"
      <4>1. Send(c) \/ SendFails(c)
        BY <3>2 DEF Exchange, Reply, ReceiveBad, ReceiveBlock, ReceiveBare,
                    TimeOut
      <4> QED
        BY <1>5, <4>1, SendMoves
    <3>3. CASE x[c].at = "reply"
      <4>1. Reply(c) \/ TimeOut(c)
        BY <3>3 DEF Exchange, Send, SendFails, ReceiveBad, ReceiveBlock,
                    ReceiveBare
      <4> QED
        BY <1>5, <3>1, <4>1, ReplyWrite, TimeOutWrite
    <3>4. CASE x[c].at = "receive"
      <4>1. x[c].cmd \in Reads
        BY <3>4 DEF ReadInv, CallInv, Receiving
      <4> QED
        BY <3>1, <4>1, CommandAssumption
    <3> QED
      BY <1>1, <3>2, <3>3, <3>4
  <2>3. Mailbox!Succeed(c) \/ Mailbox!Fail(c)
    BY <1>1, <1>2, <1>3, <1>5, <2>1, <2>2, EndSeen
  <2> QED
    BY <2>3 DEF Mailbox!Next
<1> QED
  BY <1>4, <1>5

LEMMA CallSeen ==
  ASSUME TypeInv, NEW c \in Callers, NEW k \in Commands, Call(c, k)
  PROVE  Mailbox!Begin(c, k)
<1>1. CallsOK /\ x[c].at = "idle" /\ UNCHANGED <<lock, memory>>
  BY DEF TypeInv, Call, dspv
<1>2. x'[c] = Locals("lock", k) /\ \A d \in Callers \ {c} : x'[d] = x[d]
  BY <1>1, Others DEF Call
<1>3. Calls' = [Calls EXCEPT ![c] = Seen(x'[c])]
  BY <1>2, CallsMove
<1>4. x'[c].at # "idle" /\ x'[c].cmd = k
  BY <1>2 DEF Locals
<1>5. Seen(x'[c]) = Mailbox!Under(k)
  BY <1>4, SeenOK
<1> QED
  BY <1>1, <1>3, <1>5, SeenBy DEF Mailbox!Begin

LEMMA LockSeen ==
  ASSUME TypeInv, NEW c \in Callers, Lock(c)
  PROVE  Mailbox!Enter(c)
<1>1. /\ CallsOK /\ x[c].at = "lock" /\ lock = NoOne /\ lock' = c
      /\ memory' = memory
  BY DEF TypeInv, Lock, dspv
<1>2. \A d \in Callers \ {c} : x'[d] = x[d]
  BY <1>1 DEF Lock, CallsOK
<1>3. x'[c].at = "send" /\ x'[c].cmd = x[c].cmd
  BY <1>1, Fields DEF Lock, CallsOK, LocalRecs
<1>4. Calls' = Calls
  BY <1>1, <1>2, <1>3, CallsSame
<1> QED
  BY <1>1, <1>4, SeenBy DEF Mailbox!Enter

\* The DSP keeps a block only for the caller that waits for its ACK.
LEMMA DspWriteSeen ==
  ASSUME Honest, TypeInv, ReadInv, WriteInv, DspWrite
  PROVE  [Mailbox!Next]_(Mailbox!vars)
<1>1. bell /\ order.kind = "write" /\ UNCHANGED <<lock, x>>
  BY DEF DspWrite, Hears
<1>2. Calls' = Calls
  BY <1>1 DEF Calls
<1>3. PICK c \in Callers : x[c].at \in {"reply", "receive"}
  BY <1>1 DEF ReadInv, Quiet, Awaited
<1>4. x[c].at = "reply"
  BY <1>1, <1>3, HeardReceiving
<1> DEFINE k == x[c].cmd
           i == x[c].block
<1>5. /\ lock = c /\ k \in Writes /\ k \in Commands
      /\ order = OrderOf(x[c])
  BY <1>1, <1>4, Fields DEF ReadInv, CallInv, Replying, TypeInv, CallsOK,
                            Exchanging
<1>6. order.cmd = k /\ order.block = i
  BY <1>5 DEF OrderOf
<1>7. i \in Nat /\ 1 <= i /\ i \in 1..Blocks[k]
  <2>1. order.block \in Nat /\ 1 <= order.block
    BY <1>1, WrittenOK DEF TypeInv
  <2>2. i \in 1..Blocks[k]
    BY DEF TypeInv, CallsOK, Bounded
  <2> QED
    BY <1>6, <2>1, <2>2
<1>8. i > 1 => memory \in {First(k, i - 1), First(k, i)}
  BY <1>4, <1>5 DEF WriteInv, ImageInv, Written
<1>9. Calls[c].cmd = k
  BY SeenBy
<1> HIDE DEF k, i
<1>10. memory' = memory \/ memory' = First(k, i)
  <2>1. memory' = memory \/ memory' = Stored(Block(k, i))
    BY <1>6 DEF DspWrite
  <2> QED
    BY <1>5, <1>7, <1>8, <2>1, StoredFirst
<1>11. CASE memory' = memory
  BY <1>1, <1>2, <1>11 DEF Mailbox!vars
<1>12. CASE memory' = First(k, i) /\ memory' # memory
  <2>1. i > 1 => memory = Mailbox!Part(k, i - 1)
    BY <1>8, <1>12, PartOK
  <2>2. memory' = Mailbox!Part(k, i)
    BY <1>12, PartOK
  <2>3. Mailbox!Store(c)
    BY <1>1, <1>2, <1>5, <1>7, <1>9, <2>1, <2>2 DEF Mailbox!Store
  <2> QED
    BY <2>3 DEF Mailbox!Next
<1> QED
  BY <1>10, <1>11, <1>12

LEMMA DspSeen ==
  ASSUME Honest, TypeInv, ReadInv, WriteInv, Dsp
  PROVE  [Mailbox!Next]_(Mailbox!vars)
<1>1. CASE DspWrite
  BY <1>1, DspWriteSeen
<1>2. CASE DspRead \/ DspNext \/ DspAgain \/ DspRepeat
  <2>1. UNCHANGED <<lock, x, memory>>
    BY <1>2 DEF DspRead, DspNext, DspAgain, DspRepeat, Hears
  <2> QED
    BY <2>1 DEF Calls, Mailbox!vars
<1> QED
  BY <1>1, <1>2 DEF Dsp

LEMMA InitSeen ==
  ASSUME Init
  PROVE  Mailbox!Init
<1> DEFINE k == CHOOSE k \in Commands : TRUE
<1>1. k \in Commands
  BY CommandAssumption
<1>2. x = [c \in Callers |-> Locals("idle", k)] /\ lock = NoOne /\ memory = <<>>
  BY DEF Init
<1> HIDE DEF k
<1>3. /\ Locals("idle", k).at = "idle" /\ Locals("idle", k).ok = FALSE
      /\ Locals("idle", k).cmd = k
  BY DEF Locals
<1>4. Seen(Locals("idle", k)) = Mailbox!Ended(k, FALSE, <<>>)
  BY <1>3, SeenOK
<1>5. Calls = [c \in Callers |-> Mailbox!Ended(k, FALSE, <<>>)]
  BY <1>2, <1>4 DEF Calls
<1> QED
  BY <1>1, <1>2, <1>5 DEF Mailbox!Init, Commands

LEMMA NextSeen ==
  ASSUME Honest, TypeInv, ReadInv, WriteInv, TypeInv', ReadInv', [Next]_vars
  PROVE  [Mailbox!Next]_(Mailbox!vars)
<1>1. ASSUME NEW c \in Callers, NEW k \in Commands, Call(c, k)
      PROVE  Mailbox!Next
  BY <1>1, CallSeen DEF Mailbox!Next, Commands
<1>2. ASSUME NEW c \in Callers, Lock(c) PROVE Mailbox!Next
  BY <1>2, LockSeen DEF Mailbox!Next
<1>3. ASSUME NEW c \in Callers, Exchange(c)
      PROVE  [Mailbox!Next]_(Mailbox!vars)
  BY <1>3, ExchangeSeen
<1>4. ASSUME Dsp PROVE [Mailbox!Next]_(Mailbox!vars)
  BY <1>4, DspSeen
<1>5. ASSUME UNCHANGED vars PROVE UNCHANGED Mailbox!vars
  BY <1>5 DEF vars, dspv, Calls, Mailbox!vars
<1> QED
  BY <1>1, <1>2, <1>3, <1>4, <1>5 DEF Next

\* DSPComm gives its callers a DSP that one call at a time uses: it keeps the
\* blocks of the write that uses it in order, from the first, nothing else
\* changes what it keeps, and a call that succeeds has its whole image there
\* or brings its whole answer. Interrupts, areas, answers, resends and tries
\* are not seen, under the conditions the two theorems above need.
THEOREM ImplementsMailbox == Honest => (Spec => ActsAsMailbox)
<1>1. Honest => InTime
  BY DEF Honest
<1>2. ASSUME Honest PROVE Spec => ActsAsMailbox
  BY <1>1, <1>2, TypeInit, TypeNext, ReadInit, ReadNext, WriteInit,
     WriteNext, InitSeen, NextSeen, PTL
     DEF Spec, ActsAsMailbox, Mailbox!Spec
<1> QED
  BY <1>2
=============================================================================
