-------------------------------- MODULE DspLink --------------------------------
(***************************************************************************)
(* The link to the protection DSP (DSPComm of libdtudsp/dspcomm.cpp).  ARM *)
(* and DSP share one command area and one answer area; each rings the other*)
(* when it has written.  A caller of dsp_write_ctrl, dsp_write_data or     *)
(* dsp_read_data holds _ram_lock for its whole exchange, sends a block or a*)
(* read command, waits, and reads whatever the answer area holds: no answer*)
(* names the command it belongs to.  The DSP is outside this repository:   *)
(* its steps say what dspcomm.cpp expects of it, and Faults, Garbles and   *)
(* Repeats what may go wrong.  A block counts as one unit of length, and a *)
(* bad block is one CheckRecvMsg refuses for its zero length.              *)
(***************************************************************************)
EXTENDS Naturals, Sequences

CONSTANTS
  Callers,   \* threads that call the DSP: tasks of every source, dsp_run
  NoOne,     \* no caller: the lock is free
  Reads,     \* commands of dsp_read_data
  Writes,    \* commands of dsp_write_ctrl (one block) and dsp_write_data
  Blocks,    \* blocks of data of a command
  Retry,     \* nRetry of a write command: 3 for a control, 9 for data
  Attempts,  \* tries of a block or of a read: 3
  Faults,    \* the faults below that may happen
  Garbles,   \* bad blocks in one answer of the DSP, at most
  Repeats    \* times the DSP repeats an answer it heard no reply to, at most

MaxBlocks == 65520   \* 0xFFF0: CheckRecvMsg takes no greater block number
Commands  == Reads \union Writes
AllFaults == {"deaf",     \* an interrupt to the DSP fails (SendToDsp)
              "mute",     \* an answer of the DSP is lost
              "refuse",   \* the DSP answers TX_PC_NACK
              "crc",      \* the DSP answers TX_PC_CRC_BAD, keeping nothing
              "wrong",    \* the DSP answers a write with something else
              "late"}     \* the DSP answers when the ARM has stopped waiting

ASSUME CallerAssumption  == NoOne \notin Callers
ASSUME CommandAssumption ==
  /\ Commands # {} /\ Reads \intersect Writes = {}
  /\ Blocks \in [Commands -> 1..MaxBlocks]
  /\ Retry \in [Writes -> Nat]
ASSUME BoundAssumption ==
  /\ Attempts \in Nat \ {0} /\ Garbles \in Nat /\ Repeats \in Nat
  /\ Faults \subseteq AllFaults

\* Block numbers: 0xFFFC marks the last block, 0xFFFE a frame without data,
\* 0xFFFF is no number yet.
FinalNo == 65532
BareNo  == 65534
NoNo    == 65535
No(k, i) == IF i = Blocks[k] THEN FinalNo ELSE i - 1

Block(k, i) == <<k, i>>
Image(k)    == [i \in 1..Blocks[k] |-> Block(k, i)]
Streams     == {s \in Reads \X (1..MaxBlocks) : s[2] \in 1..Blocks[s[1]]}
Silent      == <<>>

Orders  == [kind : {"write"}, cmd : Writes, block : 1..MaxBlocks]
             \union [kind : {"read"}, cmd : Reads]
             \union [kind : {"ack", "nack"}]
NoOrder == [kind |-> "none"]
Answers == [kind : {"data"}, cmd : Reads, block : 1..MaxBlocks]
             \union [kind : {"ack", "nack", "crcbad", "other", "bad"}]
NoAnswer == [kind |-> "none"]

VARIABLES
  lock,      \* the holder of _ram_lock
  x,         \* x[c]: locals of the call c is in, or of its last one
  order,     \* the command area, ARM to DSP
  bell,      \* the DSP has an interrupt to serve
  answer,    \* the answer area, DSP to ARM
  ring,      \* the ARM's interrupt queue is not empty
  stream,    \* the read answer the DSP is in and its block, or Silent
  unheard,   \* the DSP's block was not replied to: it may repeat it
  garbled,   \* bad blocks sent in this stream
  repeated,  \* repetitions made in this stream
  memory     \* the blocks of the last image written to the DSP

line == <<order, bell, answer, ring>>
dspv == <<stream, unheard, garbled, repeated, memory>>
vars == <<lock, x, line, dspv>>

Locals(at, k) ==
  [at |-> at, cmd |-> k, block |-> 1, attempt |-> 1, resend |-> 0,
   got |-> <<>>, size |-> 0, last |-> NoNo, ok |-> FALSE]

TypeOK ==
  /\ lock \in Callers \union {NoOne}
  /\ \A c \in Callers :
       /\ x[c].at \in {"idle", "lock", "send", "reply", "receive"}
       /\ x[c].cmd \in Commands
       /\ x[c].block \in 1..Blocks[x[c].cmd]
       /\ x[c].attempt \in 1..Attempts
       /\ x[c].resend \in Nat /\ x[c].size \in Nat /\ x[c].ok \in BOOLEAN
       /\ x[c].at # "idle" => Len(x[c].got) <= x[c].size
       /\ x[c].at \in {"send", "reply", "receive"} => lock = c
  /\ order \in Orders \union {NoOrder} /\ bell \in BOOLEAN
  /\ answer \in Answers \union {NoAnswer} /\ ring \in BOOLEAN
  /\ stream \in Streams \union {Silent} /\ unheard \in BOOLEAN
  /\ garbled \in 0..Garbles /\ repeated \in 0..Repeats
  /\ memory \in Seq(Writes \X Nat)

Init ==
  /\ lock = NoOne
  /\ x = [c \in Callers |-> Locals("idle", CHOOSE k \in Commands : TRUE)]
  /\ order = NoOrder /\ bell = FALSE
  /\ answer = NoAnswer /\ ring = FALSE
  /\ stream = Silent /\ unheard = FALSE
  /\ garbled = 0 /\ repeated = 0
  /\ memory = <<>>
-----------------------------------------------------------------------------
Keep(c, r) == x' = [x EXCEPT ![c] = r] /\ UNCHANGED lock

Return(c, r, ok) ==
  /\ x' = [x EXCEPT ![c] =
             [Locals("idle", r.cmd) EXCEPT !.got = r.got, !.ok = ok]]
  /\ lock' = NoOne

\* Mutant: the tries are not counted.
GiveUp_Forever(c, r) ==
  Keep(c, [Locals("send", r.cmd) EXCEPT !.block = r.block])

\* Mutant: one try more than the type allows.
GiveUp_OneMore(c, r) ==
  IF r.attempt <= Attempts
  THEN Keep(c, [Locals("send", r.cmd) EXCEPT !.block = r.block,
                                             !.attempt = r.attempt + 1])
  ELSE Return(c, r, FALSE)

\* Mutant: a block given up is left out.
GiveUp_NextBlock(c, r) ==
  IF r.attempt < Attempts
  THEN Keep(c, [Locals("send", r.cmd) EXCEPT !.block = r.block,
                                             !.attempt = r.attempt + 1])
  ELSE IF r.block < Blocks[r.cmd] /\ r.cmd \in Writes
  THEN Keep(c, [Locals("send", r.cmd) EXCEPT !.block = r.block + 1])
  ELSE Return(c, r, FALSE)

\* A try that failed: the block, or the whole read, is tried again.
GiveUp(c, r) ==
  IF r.attempt < Attempts
  THEN Keep(c, [Locals("send", r.cmd) EXCEPT !.block = r.block,
                                             !.attempt = r.attempt + 1])
  ELSE Return(c, r, FALSE)

\* Mutant: the last block is not sent.
NextBlock_NotLast(c, r) ==
  IF r.block + 1 < Blocks[r.cmd]
  THEN Keep(c, [Locals("send", r.cmd) EXCEPT !.block = r.block + 1])
  ELSE Return(c, r, TRUE)

\* A block that was accepted.
NextBlock(c, r) ==
  IF r.block < Blocks[r.cmd]
  THEN Keep(c, [Locals("send", r.cmd) EXCEPT !.block = r.block + 1])
  ELSE Return(c, r, TRUE)

\* ReadFromDsp: an answer is read once, all pending interrupts are drained.
Read == ring /\ ring' = FALSE /\ answer' = NoAnswer

\* The ARM's ACK or NACK of a block, and one whose interrupt fails.
Say(kind) ==
  /\ order' = [kind |-> kind]
  /\ bell' = TRUE
  /\ UNCHANGED unheard
SayUnheard(kind) ==
  /\ "deaf" \in Faults
  /\ order' = [kind |-> kind]
  /\ unheard' = (stream # Silent)
  /\ UNCHANGED bell

Call(c, k) ==
  /\ x[c].at = "idle"
  /\ x' = [x EXCEPT ![c] = Locals("lock", k)]
  /\ UNCHANGED <<lock, line, dspv>>

\* Mutant: the exchange begins without the lock.
Lock_Free(c) ==
  /\ x[c].at = "lock"
  /\ lock' = c
  /\ x' = [x EXCEPT ![c].at = "send"]
  /\ UNCHANGED <<line, dspv>>

Lock(c) ==
  /\ x[c].at = "lock"
  /\ lock = NoOne
  /\ lock' = c
  /\ x' = [x EXCEPT ![c].at = "send"]
  /\ UNCHANGED <<line, dspv>>

\* Unless it may be late, the DSP has served its last interrupt, such as the
\* ACK of the exchange before, when the ARM next writes the command area.
Prompt == "late" \in Faults \/ ~bell

\* SendToDsp of a block or of a read command.
OrderOf(r) ==
  IF r.cmd \in Writes
  THEN [kind |-> "write", cmd |-> r.cmd, block |-> r.block]
  ELSE [kind |-> "read", cmd |-> r.cmd]

Send(c) ==
  /\ x[c].at = "send" /\ Prompt
  /\ order' = OrderOf(x[c])
  /\ bell' = TRUE
  /\ Keep(c, [x[c] EXCEPT
       !.at = IF x[c].cmd \in Writes THEN "reply" ELSE "receive",
       !.resend = 0])
  /\ UNCHANGED <<answer, ring, dspv>>

\* The area is written, the interrupt fails: a write is resent nRetry times.
SendFails(c) ==
  /\ "deaf" \in Faults
  /\ x[c].at = "send" /\ Prompt
  /\ order' = OrderOf(x[c])
  /\ IF x[c].cmd \in Writes /\ x[c].resend < Retry[x[c].cmd]
     THEN Keep(c, [x[c] EXCEPT !.resend = @ + 1])
     ELSE GiveUp(c, x[c])
  /\ UNCHANGED <<bell, answer, ring, dspv>>

\* try_execute_write reads the answer: SelfCheck takes a CRC_BAD for an ACK.
Reply(c) ==
  /\ x[c].at = "reply"
  /\ Read
  /\ CASE answer.kind \in {"ack", "crcbad"} -> NextBlock(c, x[c])
       [] answer.kind = "nack" -> GiveUp(c, x[c])
       [] OTHER -> IF x[c].resend + 1 > Retry[x[c].cmd]
                   THEN GiveUp(c, x[c])
                   ELSE Keep(c, [x[c] EXCEPT !.at = "send", !.resend = @ + 1])
  /\ UNCHANGED <<order, bell, dspv>>

\* try_execute_read answers NACK to a bad block; the fourth ends the try.
ReceiveBad(c) ==
  /\ x[c].at = "receive"
  /\ Read /\ answer.kind = "bad"
  /\ \/ /\ Say("nack")
        /\ IF x[c].resend = 3 THEN GiveUp(c, x[c])
           ELSE Keep(c, [x[c] EXCEPT !.resend = @ + 1])
     \/ SayUnheard("nack") /\ GiveUp(c, x[c])
  /\ UNCHANGED <<stream, garbled, repeated, memory>>

\* A good block: kept unless its number is that of the block before it, then
\* acknowledged. A block that does not fit the buffer throws.
ReceiveBlock(c) ==
  /\ x[c].at = "receive"
  /\ Read /\ answer.kind = "data"
  /\ LET b    == Block(answer.cmd, answer.block)
         n    == No(b[1], b[2])
         size == IF x[c].size = 0 THEN Blocks[b[1]] ELSE x[c].size
         got  == IF n = x[c].last THEN x[c].got ELSE Append(x[c].got, b)
         r    == [x[c] EXCEPT !.size = size, !.got = got, !.last = n]
     IN  IF Len(got) > size
         THEN GiveUp(c, x[c]) /\ UNCHANGED <<order, bell, unheard>>
         ELSE /\ Say("ack") \/ SayUnheard("ack")
              /\ IF n # FinalNo THEN Keep(c, r)
                 ELSE IF Len(got) >= Blocks[b[1]] THEN Return(c, r, TRUE)
                 ELSE GiveUp(c, r)
  /\ UNCHANGED <<stream, garbled, repeated, memory>>

\* A frame without data, such as a refusal, passes the check and is
\* acknowledged; the data of the block before it is set again, if it fits.
ReceiveBare(c) ==
  /\ x[c].at = "receive"
  /\ Read /\ answer.kind \in {"ack", "nack", "crcbad", "other"}
  /\ IF x[c].last # BareNo /\ x[c].got # <<>> /\ Len(x[c].got) = x[c].size
     THEN GiveUp(c, x[c]) /\ UNCHANGED <<order, bell, unheard>>
     ELSE /\ Say("ack") \/ SayUnheard("ack")
          /\ Keep(c, [x[c] EXCEPT !.last = BareNo])
  /\ UNCHANGED <<stream, garbled, repeated, memory>>

DspBusy == bell \/ (unheard /\ repeated < Repeats)

\* ReadFromDsp polls three times and finds no interrupt. Unless the DSP may be
\* late, it has nothing to answer then.
TimeOut(c) ==
  /\ x[c].at \in {"reply", "receive"}
  /\ ~ring
  /\ "late" \in Faults \/ ~DspBusy
  /\ GiveUp(c, x[c])
  /\ UNCHANGED <<line, dspv>>
-----------------------------------------------------------------------------
(* The DSP.                                                                *)

\* Every answer may be lost on its way.
Answer(a) ==
  \/ answer' = a /\ ring' = TRUE
  \/ "mute" \in Faults /\ UNCHANGED <<answer, ring>>

AnswerBlock(s, g) ==
  \/ /\ Answer([kind |-> "data", cmd |-> s[1], block |-> s[2]])
     /\ garbled' = g
  \/ g < Garbles /\ Answer([kind |-> "bad"]) /\ garbled' = g + 1

Hears(kinds) ==
  /\ bell /\ order.kind \in kinds
  /\ bell' = FALSE /\ order' = NoOrder
  /\ unheard' = FALSE
  /\ UNCHANGED <<lock, x>>

\* The DSP's memory: the first block begins an image, a repeated one is known.
Stored(b) ==
  IF b[2] = 1 THEN <<b>>
  ELSE IF memory # <<>> /\ memory[Len(memory)] = b THEN memory
  ELSE Append(memory, b)

DspWrite ==
  /\ Hears({"write"})
  /\ \/ /\ Answer([kind |-> "ack"])
        /\ memory' = Stored(Block(order.cmd, order.block))
     \/ \E f \in Faults \intersect {"refuse", "crc", "wrong"} :
          /\ Answer([kind |-> CASE f = "refuse" -> "nack"
                                [] f = "crc" -> "crcbad"
                                [] f = "wrong" -> "other"])
          /\ UNCHANGED memory
  /\ stream' = Silent /\ garbled' = 0 /\ repeated' = 0

DspRead ==
  /\ Hears({"read"})
  /\ \/ stream' = <<order.cmd, 1>> /\ AnswerBlock(stream', 0)
     \/ /\ "refuse" \in Faults
        /\ stream' = Silent /\ Answer([kind |-> "nack"]) /\ garbled' = 0
  /\ repeated' = 0
  /\ UNCHANGED memory

\* The ARM's reply to a block: the next one, or the same again.
DspNext ==
  /\ Hears({"ack"})
  /\ IF stream = Silent \/ stream[2] = Blocks[stream[1]]
     THEN /\ stream' = Silent /\ garbled' = 0 /\ repeated' = 0
          /\ UNCHANGED <<answer, ring>>
     ELSE /\ stream' = [stream EXCEPT ![2] = @ + 1]
          /\ AnswerBlock(stream', garbled)
          /\ UNCHANGED repeated
  /\ UNCHANGED memory

DspAgain ==
  /\ Hears({"nack"})
  /\ IF stream = Silent THEN UNCHANGED <<answer, ring, garbled>>
     ELSE AnswerBlock(stream, garbled)
  /\ UNCHANGED <<stream, repeated, memory>>

\* No reply came: the block is repeated, while the ARM listens or too late.
DspRepeat ==
  /\ unheard /\ ~bell /\ repeated < Repeats
  /\ "late" \in Faults \/ \E c \in Callers : x[c].at = "receive"
  /\ unheard' = FALSE
  /\ repeated' = repeated + 1
  /\ AnswerBlock(stream, garbled)
  /\ UNCHANGED <<lock, x, order, bell, stream, memory>>
-----------------------------------------------------------------------------
Exchange(c) == \/ Send(c) \/ SendFails(c) \/ Reply(c) \/ ReceiveBad(c)
               \/ ReceiveBlock(c) \/ ReceiveBare(c) \/ TimeOut(c)

Dsp == DspWrite \/ DspRead \/ DspNext \/ DspAgain \/ DspRepeat

Next == \/ \E c \in Callers, k \in Commands : Call(c, k)
        \/ \E c \in Callers : Lock(c) \/ Exchange(c)
        \/ Dsp

Spec == Init /\ [][Next]_vars

\* The holder of the lock runs and the DSP answers. Nobody need make a call,
\* and a mutex promises no waiting caller its turn.
FairSpec == Spec /\ WF_vars(Dsp) /\ \A c \in Callers : WF_vars(Exchange(c))
-----------------------------------------------------------------------------
\* dsp_read_data returns a success only with the whole answer of its own
\* command: every block, in order, none twice, none of another command's.
ReadIsWhole ==
  \A c \in Callers :
    x[c].at = "idle" /\ x[c].ok /\ x[c].cmd \in Reads
      => x[c].got = Image(x[c].cmd)

\* dsp_write_data and dsp_write_ctrl return a success only when the DSP has
\* the image of that very command, whole.
WriteIsWhole ==
  [][\A c \in Callers :
       /\ x[c].at = "reply" /\ x'[c].at = "idle" /\ x'[c].ok
       => memory = Image(x[c].cmd)]_vars

\* A call as its caller sees it.
Seen(r) ==
  LET ok == r.at = "idle" /\ r.ok
  IN  [active |-> r.at # "idle", cmd |-> r.cmd, ok |-> ok,
       data |-> IF ok /\ r.cmd \in Reads THEN r.got ELSE <<>>]

Calls == [c \in Callers |-> Seen(x[c])]

Mailbox == INSTANCE DspMailbox WITH user <- lock, calls <- Calls, image <- memory

\* Callers see a DSP that one call at a time uses: a write changes what it
\* holds block after block, nothing else changes it, and a success is whole.
ActsAsMailbox == Mailbox!Spec

\* A call ends, however often it is refused, unheard or unanswered: _ram_lock
\* is released for the others.
LockReleased == \A c \in Callers : lock = c ~> lock # c
=============================================================================
