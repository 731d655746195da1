------------------------------ MODULE MCDspLink ------------------------------
(***************************************************************************)
(* Commands for TLC: a control, settings of two blocks, a self check of one*)
(* block and a fault recording of two.                                     *)
(***************************************************************************)
EXTENDS DspLink, TLC

CONSTANTS t1, t2, ctrl, fix, check, fault

MCBlocks == (ctrl :> 1) @@ (fix :> 2) @@ (check :> 1) @@ (fault :> 2)
MCRetry  == (ctrl :> 1) @@ (fix :> 2)
=============================================================================
