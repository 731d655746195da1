------------------------------ MODULE BoundedLogs ------------------------------
(***************************************************************************)
(* What tables of reports promise their readers: a report is added behind  *)
(* all others, the oldest give way when there are more than Capacity, never*)
(* others and never earlier, and a clearing removes them all.              *)
(***************************************************************************)
EXTENDS Naturals, Sequences

CONSTANTS Tables, Capacity
VARIABLE log

Init == log = [t \in Tables |-> <<>>]

\* A table becomes s, the others stay.
Becomes(t, s) == log' = [log EXCEPT ![t] = s]

Add(t) ==
  /\ log'[t] # <<>>
  /\ Becomes(t, Append(log[t], log'[t][Len(log'[t])]))

DropOldest(t) ==
  /\ Len(log[t]) > Capacity[t]
  /\ Becomes(t, SubSeq(log[t], Len(log[t]) - Capacity[t] + 1, Len(log[t])))

Clear(t) == Becomes(t, <<>>)

Next == \E t \in Tables : Add(t) \/ DropOldest(t) \/ Clear(t)

Spec == Init /\ [][Next]_log
=============================================================================
