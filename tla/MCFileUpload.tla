----------------------------- MODULE MCFileUpload -----------------------------
(***************************************************************************)
(* Two masters, a configuration and a file of another name, the public unit*)
(* and two bay units whose settings stand in two pieces of the             *)
(* configuration.                                                          *)
(***************************************************************************)
EXTENDS FileUpload, TLC

CONSTANTS m1, m2, pub, u1, u2

MCPart == (pub :> 2) @@ (u1 :> 1) @@ (u2 :> 2)
=============================================================================
