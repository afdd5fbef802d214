------------------------------- MODULE MCStocks -------------------------------
(* Two stocks and two orders of one line each, for TLC. *)
EXTENDS Stocks, TLC

MCOrders == {{l} : l \in Line}
MCInitialStocks == [s \in Stock |-> IF s = 1 THEN 2 ELSE 0]
MCSessionSymmetry == Permutations(Sessions)
=============================================================================
