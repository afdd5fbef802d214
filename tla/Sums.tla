-------------------------------- MODULE Sums --------------------------------
(***************************************************************************)
(* Sums over an initial segment 1 .. n of the naturals, the shape of every *)
(* SQL Sum() the warehouse and order code computes over rows numbered by   *)
(* primary key.  Written as a recursive function so that its laws can be   *)
(* proved (WarehouseProofs).                                               *)
(***************************************************************************)
EXTENDS Integers

\* f[1] + ... + f[n]
SumTo(f, n) ==
  LET g[i \in Nat] == IF i = 0 THEN 0 ELSE g[i - 1] + f[i] IN g[n]
=============================================================================
