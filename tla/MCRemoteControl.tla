--------------------------- MODULE MCRemoteControl ---------------------------
(***************************************************************************)
(* RemoteControl for TLC.  The masters are 104 connections, told apart by  *)
(* their address only; the maintenance tool gives no connection, so its    *)
(* address is that of a cleared point.                                     *)
(***************************************************************************)
EXTENDS RemoteControl

CONSTANTS m1, m2, tool, p1

MCFrom == [c \in Clients |-> IF c = tool THEN "TOOL" ELSE "104"]
MCConn == [c \in Clients |-> IF c = tool THEN NoConn ELSE c]
=============================================================================
