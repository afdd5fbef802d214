-------------------------------- MODULE Payment --------------------------------
(***************************************************************************)
(* One row of payment_payment with its payment_transaction rows, and what  *)
(* the code of saleor/payment computes from them.  No variables: a row is a *)
(* record of the fields that decide something, the transactions are a      *)
(* sequence in the order of their primary keys.                            *)
(*                                                                         *)
(* Amounts are whole units of the currency.  A token is the reference the  *)
(* payment provider gave to an operation.                                  *)
(***************************************************************************)
EXTENDS Integers, Sequences

CONSTANT Total  \* Payment.total

ASSUME TotalAssumption == Total \in Nat \ {0}

ChargeStatus == {"not-charged", "pending", "partially-charged", "fully-charged",
                 "partially-refunded", "fully-refunded", "cancelled"}

TransactionKind == {"auth", "capture", "capture_failed", "action_to_confirm", "void",
                    "pending", "refund", "refund_ongoing", "refund_failed",
                    "refund_reversed", "cancel"}

PaymentRow == [active : BOOLEAN, toConfirm : BOOLEAN,
               status : ChargeStatus, captured : Int]

Row(active, toConfirm, status, captured) ==
  [active |-> active, toConfirm |-> toConfirm, status |-> status, captured |-> captured]

\* create_payment.
NewPayment == Row(TRUE, FALSE, "not-charged", 0)

Transaction == [kind : TransactionKind, success : BOOLEAN, action : BOOLEAN,
                token : Nat, amount : Nat]

\* create_transaction, for an operation that needs nothing more of the customer.
Txn(kind, success, token, amount) ==
  [kind |-> kind, success |-> success, action |-> FALSE, token |-> token, amount |-> amount]

-----------------------------------------------------------------------------
\* The queries on Payment.transactions.
Succeeded(txns, kinds) == {n \in DOMAIN txns : txns[n].success /\ txns[n].kind \in kinds}
Completed(txns, kinds) == {n \in Succeeded(txns, kinds) : ~ txns[n].action}
Of(txns, kinds, token) == {n \in DOMAIN txns : txns[n].kind \in kinds /\ txns[n].token = token}

\* .last(): the one with the greatest primary key.
Last(txns, ids) == txns[CHOOSE n \in ids : \A m \in ids : m <= n]

\* get_transaction(..) and `transaction.is_success'.
SeenAsSuccess(txns, kind, token) ==
  Of(txns, {kind}, token) # {} /\ Last(txns, Of(txns, {kind}, token)).success

IsAuthorized(txns) == Completed(txns, {"auth"}) # {}
CanCapture(p) == p.active /\ p.status = "not-charged"
CanVoid(p, txns) == p.active /\ p.status = "not-charged" /\ IsAuthorized(txns)

\* Bug: the rest of a payment that was refunded in part is forgotten.
CanRefundCharged(p) == p.active /\ p.status \in {"partially-charged", "fully-charged"}

CanRefund(p) ==
  p.active /\ p.status \in {"partially-charged", "fully-charged", "partially-refunded"}

-----------------------------------------------------------------------------
\* gateway_postprocess of a transaction that it has not processed before.  The
\* is_active of a capture is set in memory and not among the saved fields.

ChargeStatusOf(captured) == IF captured >= Total THEN "fully-charged" ELSE "partially-charged"

AfterCapture(p, amount) ==
  Row(p.active, FALSE, ChargeStatusOf(p.captured + amount), p.captured + amount)

AfterRefund(p, amount) ==
  IF p.captured - amount <= 0
    THEN Row(FALSE, FALSE, "fully-refunded", p.captured - amount)
    ELSE Row(p.active, FALSE, "partially-refunded", p.captured - amount)

AfterCaptureFailed(p, amount) ==
  IF p.status \in {"partially-charged", "fully-charged"}
    THEN Row(p.active, FALSE,
             IF p.captured - amount <= 0 THEN "not-charged" ELSE "partially-charged",
             p.captured - amount)
    ELSE Row(p.active, FALSE, p.status, p.captured)

Postprocessed(p, t) ==
  CASE ~ t.success -> p
    [] t.success /\ t.action -> Row(p.active, TRUE, p.status, p.captured)
    [] OTHER ->
         CASE t.kind \in {"capture", "refund_reversed"} -> AfterCapture(p, t.amount)
           [] t.kind = "refund" -> AfterRefund(p, t.amount)
           [] t.kind = "capture_failed" -> AfterCaptureFailed(p, t.amount)
           [] t.kind = "void" -> Row(FALSE, FALSE, p.status, p.captured)
           [] t.kind = "pending" -> Row(p.active, FALSE, "pending", p.captured)
           [] t.kind = "cancel" -> Row(p.active, FALSE, "cancelled", p.captured)
           [] OTHER -> Row(p.active, FALSE, p.status, p.captured)
=============================================================================
