---------------------------- MODULE MCStocksLedger ----------------------------
(* The serial warehouse against the ledger, for TLC. *)
EXTENDS StocksLedger

MCOrders == {{l} : l \in Line}
MCInitialStocks == [s \in Stock |-> IF s = 1 THEN 2 ELSE 0]
=============================================================================
