----------------------------- MODULE MCEventPath -----------------------------
(***************************************************************************)
(* A report of events and one of recordings with files, each full at one or*)
(* two rows.                                                               *)
(***************************************************************************)
EXTENDS EventPath, TLC

CONSTANTS soe, trans

MCCapacity == (soe :> 2) @@ (trans :> 1)
=============================================================================
