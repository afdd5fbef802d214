----------------------------- MODULE StocksLedger -----------------------------
(***************************************************************************)
(* Stocks as an implementation of StockLedger: with calls of allocate_stock *)
(* that do not overlap, the two tables keep the ledger.                    *)
(***************************************************************************)
EXTENDS Stocks

Ledger == INSTANCE StockLedger
  WITH InitialOnHand <- SumTo(InitialStocks, NumStocks),
       onHand        <- SumTo(wh.quantity, NumStocks),
       reserved      <- [l \in Line |-> LineTotal(wh, l)],
       covered       <- \A s \in Stock : Headroom(wh, s) >= 0

\* Every request is one entry of the ledger or none: spread over any number of
\* stocks, a reservation is never made of goods promised to another line, a
\* fulfilment never ships them, and a request that raises leaves no trace.
\* Staff's steps are counts by hand, and no request passes for one.
KeepsLedger ==
  /\ Ledger!Init
  /\ [][IF Staff THEN Ledger!Recount ELSE Ledger!Request]_(Ledger!ledger)

=============================================================================
