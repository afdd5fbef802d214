------------------------- MODULE MCCheckoutCompletion -------------------------
(* Two checkouts of one customer, for TLC. *)
EXTENDS CheckoutCompletion, TLC

CONSTANTS ann

MCCustomerOf == [k \in Checkouts |-> ann]
MCSymmetry == Permutations(Checkouts) \union Permutations(Sessions)
=============================================================================
