----------------------------- MODULE MCDraftOrders -----------------------------
(* Two variants; the draft has a line of each, and one more key of the first. *)
EXTENDS DraftOrders, TLC

CONSTANTS mug, pin

MCVariants == {mug, pin}
MCVariantOf == [l \in Line |-> IF l \in {1, 3} THEN mug ELSE pin]
MCFirstLines == {1, 2}
MCInitialQuantity ==
  [v \in Variants |-> [s \in Stock |-> IF v = mug THEN s ELSE Positive(2 - s)]]

MCSymmetry == Permutations(Sessions)
=============================================================================
