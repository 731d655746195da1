------------------------------ MODULE MCSettings ------------------------------
(***************************************************************************)
(* Settings for TLC: preset frames of one item, or of a good and a bad one.*)
(***************************************************************************)
EXTENDS Settings

CONSTANTS t1, t2, p1, p2

Good == {i \in Items : i.kind = "good"}
Bad  == {[kind |-> k, param |-> p1, value |-> 0] : k \in {"locked", "wrong"}}

MCFrames ==
  {<<i>> : i \in Good \union Bad} \union {<<i, j>> : i \in Good, j \in Bad}

MCPlainFrames == {<<j, i>> : i \in Good, j \in {b \in Bad : b.kind = "wrong"}}

ShortFrames == {<<i>> : i \in Good}
=============================================================================
