------------------------------ MODULE DspMailbox ------------------------------
(***************************************************************************)
(* What callers of the DSP may rely on, without interrupts, areas, answers *)
(* and retries: one call at a time uses the DSP; what the DSP holds changes*)
(* only by the write that uses it, block after block from the first; a call*)
(* that succeeds has left its whole image there or brings its whole answer.*)
(* DspLink implements this as long as the DSP answers in time.             *)
(***************************************************************************)
EXTENDS Naturals, Sequences

CONSTANTS Callers, NoOne, Reads, Writes, Blocks

VARIABLES user,   \* the caller that uses the DSP, or NoOne
          calls,  \* calls[c]: the call c is in, or its last one and its result
          image   \* what the last writes left in the DSP

vars == <<user, calls, image>>

\* The first m blocks of a command's data.
Part(k, m) == [i \in 1..m |-> <<k, i>>]
Whole(k)   == Part(k, Blocks[k])

Under(k)         == [active |-> TRUE, cmd |-> k, ok |-> FALSE, data |-> <<>>]
Ended(k, ok, d)  == [active |-> FALSE, cmd |-> k, ok |-> ok, data |-> d]

Init ==
  /\ user = NoOne /\ image = <<>>
  /\ \E k \in Reads \union Writes : calls = [c \in Callers |-> Ended(k, FALSE, <<>>)]

Begin(c, k) ==
  /\ ~calls[c].active
  /\ calls' = [calls EXCEPT ![c] = Under(k)]
  /\ UNCHANGED <<user, image>>

Enter(c) ==
  /\ calls[c].active /\ user = NoOne
  /\ user' = c
  /\ UNCHANGED <<calls, image>>

\* The next block of a write, or its first one again after a failure.
Store(c) ==
  /\ user = c /\ calls[c].cmd \in Writes
  /\ \E m \in 1..Blocks[calls[c].cmd] :
       /\ m > 1 => image = Part(calls[c].cmd, m - 1)
       /\ image' = Part(calls[c].cmd, m)
  /\ UNCHANGED <<user, calls>>

Succeed(c) ==
  LET k == calls[c].cmd
  IN  /\ user = c
      /\ k \in Writes => image = Whole(k)
      /\ user' = NoOne
      /\ calls' = [calls EXCEPT ![c] =
                     Ended(k, TRUE, IF k \in Reads THEN Whole(k) ELSE <<>>)]
      /\ UNCHANGED image

Fail(c) ==
  /\ user = c
  /\ user' = NoOne
  /\ calls' = [calls EXCEPT ![c] = Ended(calls[c].cmd, FALSE, <<>>)]
  /\ UNCHANGED image

Next == \E c \in Callers :
          \/ \E k \in Reads \union Writes : Begin(c, k)
          \/ Enter(c) \/ Store(c) \/ Succeed(c) \/ Fail(c)

Spec == Init /\ [][Next]_vars
=============================================================================
