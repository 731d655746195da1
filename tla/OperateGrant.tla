---------------------------- MODULE OperateGrant ----------------------------
(***************************************************************************)
(* What the terminal promises about a remote operation, without its        *)
(* threads and flags: a client may operate a point only on a grant it was  *)
(* given by a preset of its own, one grant operates at most once, and a    *)
(* grant may lapse at any moment (timeout, cancel, disconnection, another  *)
(* client's preset).  RemoteControl implements this specification.         *)
(***************************************************************************)
EXTENDS Naturals

CONSTANTS Clients, Points

VARIABLES grant,     \* the pairs <<client, point>> that may still operate
          recorded,  \* presets recorded for each client and point
          executed   \* operations sent for each client and point

vars == <<grant, recorded, executed>>

Init ==
  /\ grant = {}
  /\ recorded = [c \in Clients |-> [p \in Points |-> 0]]
  /\ executed = [c \in Clients |-> [p \in Points |-> 0]]

\* A preset gives its client a grant; grants of others may lapse with it.
Grant(c, p) ==
  /\ \E lapsed \in SUBSET grant : grant' = (grant \ lapsed) \union {<<c, p>>}
  /\ recorded' = [recorded EXCEPT ![c][p] = @ + 1]
  /\ UNCHANGED executed

Lapse ==
  /\ \E lapsed \in SUBSET grant : grant' = grant \ lapsed
  /\ UNCHANGED <<recorded, executed>>

\* The operation uses the grant up.
Operate(c, p) ==
  /\ <<c, p>> \in grant
  /\ grant' = grant \ {<<c, p>>}
  /\ executed' = [executed EXCEPT ![c][p] = @ + 1]
  /\ UNCHANGED recorded

Next == Lapse \/ \E c \in Clients, p \in Points : Grant(c, p) \/ Operate(c, p)

Spec == Init /\ [][Next]_vars
=============================================================================
