----------------------------- MODULE MCSyncQueue -----------------------------
(* Two types of job that have a command and a mistyped one. *)
EXTENDS SyncQueue

CONSTANTS orders, pricing, mistyped

MCCommands == {orders, pricing, mistyped}
MCKnown == MCCommands \ {mistyped}
=============================================================================
