-------------------------- MODULE MCOrderFulfillment --------------------------
(* An order of two lines, the second of a variant that is not tracked. *)
EXTENDS OrderFulfillment, TLC

MCTracked == {1}

\* Two of the first line and one of the second.
MCOrdered == [l \in Line |-> IF l = 1 THEN 2 ELSE 1]

\* The second warehouse has no stock of the first line's variant.
MCInitialSplit == [l \in Line |-> [s \in Stock |-> IF s = 1 THEN 2 ELSE l - 1]]

Request(first, second) ==
  [w \in Stock |-> [l \in Line |->
     IF l \in (IF w = 1 THEN first ELSE second) THEN 1 ELSE 0]]

\* An item; one of each line, from two warehouses; more of a line than was
\* ordered, from two; and an item from the warehouse that does not have it.
MCRequests == {Request({1}, {}), Request({1}, {2}), Request({2}, {2}), Request({}, {1})}

MCSessionSymmetry == Permutations(Sessions)
=============================================================================
