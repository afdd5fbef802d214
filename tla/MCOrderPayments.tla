--------------------------- MODULE MCOrderPayments ---------------------------
(* One payment of two units, one session that serves staff, for TLC. *)
EXTENDS OrderPayments
=============================================================================
