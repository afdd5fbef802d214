----------------------------- MODULE MCOrderSync -----------------------------
(* One warehouse, as Planet Caravan has, and one or two orders. *)
EXTENDS OrderSync, TLC

\* Two items for the first order, one for the second, of the three there are.
MCOrdered == [l \in Line |-> IF l = 1 THEN 2 ELSE 1]
MCInitialQuantity == [s \in Stock |-> 3]
=============================================================================
