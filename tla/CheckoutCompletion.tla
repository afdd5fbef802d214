--------------------------- MODULE CheckoutCompletion ---------------------------
(***************************************************************************)
(* Completing a checkout: CheckoutComplete of the customer, and the order   *)
(* that Adyen's notification or the customer's return from the bank makes   *)
(* of a checkout on its own.  Both run complete_checkout in one database    *)
(* transaction, which locks the checkout, the voucher and the payment in    *)
(* turn and keeps them until it ends; a session here is such a transaction. *)
(* What it has written is in its record until it commits.                  *)
(*                                                                         *)
(* The checkouts have the same voucher, gift card and product.  A payment   *)
(* is made with Adyen, which captures at once (adyen-auto-capture); amounts *)
(* of one payment are counted in charges.  An answer that is still pending  *)
(* is left to OrderPayments, and the sum that allocate_stock compares is   *)
(* taken to be fresh (Stocks has what happens when it is not).             *)
(***************************************************************************)
EXTENDS Integers, Sequences, FiniteSets, FiniteSetsExt

CONSTANTS Checkouts,
          CustomerOf,      \* [Checkouts -> e-mail address]
          Price,           \* of a checkout, with the voucher's discount
          Balances,        \* what may be on the gift card
          Stocks,          \* how many of the product there may be
          UsageLimits,     \* Voucher.usage_limit
          Sessions,        \* database sessions
          MaxPayments,     \* bounds: payments created,
          MaxCharges,      \* charges of one payment,
          MaxRefunds,      \* refunds asked of one before no more calls are made,
          MaxCrashes       \* sessions that die

ASSUME CheckoutAssumption ==
  /\ Price \in Nat /\ MaxCharges \in Nat /\ MaxCrashes \in Nat
  /\ Balances \subseteq Nat /\ Stocks \subseteq Nat /\ UsageLimits \subseteq Nat

VARIABLES checkouts,  \* the Checkout rows there are
          payments,   \* the Payment rows, in the order of their keys
          orders,     \* the Order rows
          voucher,    \* the Voucher row, with the e-mail addresses in VoucherCustomer
          balance,    \* GiftCard.current_balance
          stock,      \* what is left to allocate
          adyen,      \* Adyen's side of each payment
          session,
          crashes

goods == <<orders, checkouts, balance, stock>>
vars == <<goods, payments, voucher, adyen, session, crashes>>

PaymentRow == [checkout : Checkouts, total : 0 .. Price, active : BOOLEAN,
               toConfirm : BOOLEAN,
               confirmed : BOOLEAN,    \* a successful ACTION_TO_CONFIRM transaction
               captured : Int,
               refunded : BOOLEAN]     \* charge_status is FULLY_REFUNDED

\* action: the customer is to confirm the payment with the bank.
\* cut: the session that charged it ended without a commit.
\* told: the notification has been handled.
Account == [action : BOOLEAN, taken : 0 .. MaxCharges, asked : Nat, returned : Nat,
            told : BOOLEAN, cut : BOOLEAN]

Step == {"create", "notified", "locked", "priced", "counted", "charged", "undo"}
Idle == [step |-> "idle"]

TypeOK ==
  /\ checkouts \subseteq Checkouts
  /\ payments \in Seq(PaymentRow)
  /\ orders \in Seq([checkout : Checkouts, total : 0 .. Price, card : 0 .. Price])
  /\ voucher.used \in 0 .. voucher.limit
  /\ voucher.customers \subseteq {CustomerOf[k] : k \in Checkouts}
  /\ balance \in Nat
  /\ stock \in Nat
  /\ adyen \in [DOMAIN payments -> Account]
  /\ \A c \in Sessions : session[c] = Idle \/ session[c].step \in Step
  /\ crashes \in 0 .. MaxCrashes

Init ==
  /\ checkouts = Checkouts
  /\ payments = <<>>
  /\ orders = <<>>
  /\ \E limit \in UsageLimits, once \in BOOLEAN :
       voucher = [used |-> 0, limit |-> limit, once |-> once, customers |-> {}]
  /\ balance \in Balances
  /\ stock \in Stocks
  /\ adyen = <<>>
  /\ session = [c \in Sessions |-> Idle]
  /\ crashes = 0

-----------------------------------------------------------------------------
Positive(n) == Max({0, n})

\* checkout_total less get_total_gift_cards_balance.
Due == Positive(Price - balance)

Active(k) == {p \in DOMAIN payments : payments[p].checkout = k /\ payments[p].active}
LastActive(k) == Max({0} \union Active(k))
IsFullyPaid(k) == MapThenSumSet(LAMBDA p : payments[p].total, Active(k)) >= Due

CanRefund(row) == row.active /\ row.captured > 0 /\ ~ row.refunded

\* Row locks: a session keeps each of its own until it ends.
Busy(c) == session[c] # Idle
\* Bug: the checkout is read without a lock.
NobodyHolds(k) == FALSE
CheckoutHeld(k) ==
  \E c \in Sessions : /\ Busy(c)
                      /\ session[c].step \notin {"create", "notified"}
                      /\ session[c].checkout = k
VoucherHeld == \E c \in Sessions : Busy(c) /\ session[c].voucher
PaymentHeld(p) == \E c \in Sessions : Busy(c) /\ session[c].locked /\ session[c].payment = p

Goes(c, s) == session' = [session EXCEPT ![c] = s]
Ends(c) == Goes(c, Idle)

\* by: who runs complete_checkout, the customer or a handler of Adyen's messages.
NewSession(step, by, k, p) ==
  [step |-> step, by |-> by, checkout |-> k, payment |-> p,
   locked |-> FALSE, voucher |-> FALSE, uses |-> 0, added |-> FALSE,
   total |-> 0, saw |-> balance, took |-> FALSE,
   undoes |-> FALSE, confirms |-> FALSE, notified |-> FALSE]

-----------------------------------------------------------------------------
\* CheckoutPaymentCreate, in autocommit: first the other payments are
\* deactivated, which waits for those that are locked ...
CancelActivePayments(c, k) ==
  /\ ~ Busy(c)
  /\ k \in checkouts
  /\ Len(payments) < MaxPayments
  /\ \A d \in Sessions : Busy(d) => session[d].step # "create"
  /\ \A p \in Active(k) : ~ PaymentHeld(p)
  /\ payments' = [p \in DOMAIN payments |->
                    [payments[p] EXCEPT !.active = @ /\ p \notin Active(k)]]
  /\ Goes(c, [NewSession("create", "customer", k, 0) EXCEPT !.total = Due])
  /\ UNCHANGED <<goods, voucher, adyen, crashes>>

\* ... and then one is created, which waits for the lock on the checkout that the
\* new row refers to, and fails if it is gone.
CreatePayment(c) ==
  LET k == session[c].checkout
      row == [checkout |-> k, total |-> session[c].total, active |-> TRUE,
              toConfirm |-> FALSE, confirmed |-> FALSE, captured |-> 0, refunded |-> FALSE]
      account == [action |-> FALSE, taken |-> 0, asked |-> 0, returned |-> 0,
                  told |-> FALSE, cut |-> FALSE]
  IN  /\ Busy(c) /\ session[c].step = "create"
      /\ ~ CheckoutHeld(k)
      /\ IF k \in checkouts
           THEN /\ payments' = Append(payments, row)
                /\ adyen' = Append(adyen, account)
           ELSE UNCHANGED <<payments, adyen>>
      /\ Ends(c)
      /\ UNCHANGED <<goods, voucher, crashes>>

-----------------------------------------------------------------------------
\* complete_checkout.  Where it calls payment_refund_or_void before it fails:
Undoes(s) == [s EXCEPT !.step = "undo", !.undoes = TRUE]

\* With the checkout locked: the payment, and clean_checkout_payment.
Prepared(s) ==
  LET t == [s EXCEPT !.step = "locked", !.payment = LastActive(s.checkout)]
  IN  IF IsFullyPaid(s.checkout) THEN t ELSE Undoes(t)

WithinBound(k) == \A p \in Active(k) : adyen[p].asked < MaxRefunds

\* CheckoutComplete.
Complete(c, k) ==
  /\ ~ Busy(c)
  /\ WithinBound(k)
  /\ k \in checkouts
  /\ ~ CheckoutHeld(k)
  /\ Goes(c, Prepared(NewSession("locked", "customer", k, 0)))
  /\ UNCHANGED <<goods, payments, voucher, adyen, crashes>>

\* get_checkout of the handlers, which have locked the payment first.
LockCheckout(c) ==
  /\ Busy(c) /\ session[c].step = "notified"
  /\ ~ CheckoutHeld(session[c].checkout)
  /\ Goes(c, Prepared(session[c]))
  /\ UNCHANGED <<goods, payments, voucher, adyen, crashes>>

\* _prepare_order_data up to the voucher; the gift card's balance and the stock
\* are read without a lock.
PrepareOrderData(c) ==
  LET s == session[c]
  IN  /\ Busy(c) /\ s.step = "locked"
      /\ Goes(c, IF stock >= 1
                   THEN [s EXCEPT !.step = "priced", !.total = Due, !.saw = balance]
                   ELSE Undoes(s))
      /\ UNCHANGED <<goods, payments, voucher, adyen, crashes>>

\* VoucherQuerySet.active.
IsActive(v) == v.used < v.limit

\* _get_voucher_data_for_order: the use is counted before the customer is looked up.
UseVoucher(c) ==
  LET s == session[c]
      counted == [s EXCEPT !.voucher = TRUE, !.uses = 1]
  IN  /\ Busy(c) /\ s.step = "priced"
      /\ ~ VoucherHeld
      /\ Goes(c, CASE ~ IsActive(voucher) -> Undoes(s)
                   [] OTHER ->
                        IF voucher.once /\ CustomerOf[s.checkout] \in voucher.customers
                          THEN Undoes(counted)
                          ELSE [counted EXCEPT !.step = "counted", !.added = voucher.once])
      /\ UNCHANGED <<goods, payments, voucher, adyen, crashes>>

\* What the session wrote of the voucher and of the payment is committed.
Commits(s) ==
  /\ voucher' = [voucher EXCEPT !.used = @ + s.uses,
                   !.customers = @ \union (IF s.added THEN {CustomerOf[s.checkout]} ELSE {})]
  /\ payments' = IF s.locked
                   THEN [payments EXCEPT
                           ![s.payment].confirmed = @ \/ s.confirms,
                           ![s.payment].toConfirm = @ /\ ~ s.took,
                           ![s.payment].captured = @ + (IF s.took THEN 1 ELSE 0)]
                   ELSE payments

\* release_voucher_usage.
\* Bug: a use that was counted stays counted.
Kept(s) == s
\* Bug: it is released twice.
ReleasedTwice(s) == [s EXCEPT !.uses = -1, !.added = FALSE]
Released(s) == [s EXCEPT !.uses = 0, !.added = FALSE]

\* _process_payment locks the payment: nobody else has it.
Processes(c) ==
  LET s == session[c]
  IN  /\ Busy(c) /\ s.step = "counted" /\ s.payment # 0
      /\ s.locked \/ ~ PaymentHeld(s.payment)

\* confirm finds an ACTION_TO_CONFIRM transaction; otherwise, and in
\* process_payment, Adyen is asked, which takes payment data.
IsConfirmed(s) ==
  /\ payments[s.payment].toConfirm
  /\ payments[s.payment].confirmed \/ s.confirms

\* The money was taken: by Adyen's answer now, or when the customer confirmed.
Charge(c) ==
  LET s == session[c]
      p == s.payment
      done(took) == [s EXCEPT !.step = "charged", !.locked = TRUE, !.took = took]
  IN  /\ Processes(c)
      /\ \/ /\ IsConfirmed(s)
            /\ Goes(c, done(payments[p].captured = 0))
            /\ UNCHANGED adyen
         \/ /\ ~ IsConfirmed(s) /\ s.by = "customer"
            /\ payments[p].toConfirm /\ ~ adyen[p].action /\ adyen[p].taken > 0
            /\ Goes(c, done(TRUE))
            /\ UNCHANGED adyen
         \/ /\ ~ IsConfirmed(s) /\ s.by = "customer"
            /\ payments[p].toConfirm => adyen[p].action
            /\ adyen[p].taken < MaxCharges
            /\ Goes(c, done(TRUE))
            /\ adyen' = [adyen EXCEPT ![p].taken = @ + 1, ![p].action = FALSE]
      /\ UNCHANGED <<goods, payments, voucher, crashes>>

\* Adyen refuses, or has been sent no payment data: the use of the voucher is
\* released, and the payment is left alone (but by create_order, see Undo).
RefusePayment(c) ==
  LET s == session[c]
  IN  /\ Processes(c)
      /\ ~ IsConfirmed(s)
      /\ Goes(c, [Released(s) EXCEPT !.step = "undo", !.locked = TRUE])
      /\ \/ UNCHANGED adyen
         \/ s.by = "customer" /\ adyen' = [adyen EXCEPT ![s.payment].action = FALSE]
      /\ UNCHANGED <<goods, payments, voucher, crashes>>

\* The customer has to confirm: no order yet, and the use stays counted.
RequireAction(c) ==
  LET s == session[c]
      p == s.payment
  IN  /\ Processes(c)
      /\ ~ IsConfirmed(s) /\ s.by = "customer"
      /\ payments[p].toConfirm => adyen[p].action
      /\ adyen[p].taken < MaxCharges
      /\ adyen' = [adyen EXCEPT ![p].action = TRUE]
      /\ voucher' = [voucher EXCEPT !.used = @ + s.uses,
                       !.customers = @ \union (IF s.added THEN {CustomerOf[s.checkout]} ELSE {})]
      /\ payments' = [payments EXCEPT ![p].toConfirm = TRUE]
      /\ Ends(c)
      /\ UNCHANGED <<goods, crashes>>

\* A gift card or a voucher pays for everything and there is no payment: the
\* AttributeError is not caught, and the transaction commits on errors.
FailWithoutPayment(c) ==
  /\ Busy(c) /\ session[c].step = "counted" /\ session[c].payment = 0
  /\ Commits(session[c])
  /\ Ends(c)
  /\ UNCHANGED <<goods, adyen, crashes>>

Told(s) == [adyen EXCEPT ![s.payment].told = @ \/ s.notified]

\* add_gift_card_to_order.
\* Bug: a card that does not cover the price is not used.
CardPartIfEnough(b) == IF b >= Price THEN Price ELSE 0
CardPart(b) == Min({Price, b})

\* _create_order.
Ordered(k) == \E i \in DOMAIN orders : orders[i].checkout = k

CreateOrder(c) ==
  LET s == session[c]
  IN  /\ Busy(c) /\ s.step = "charged"
      /\ IF Ordered(s.checkout)
           THEN UNCHANGED <<orders, stock, balance>>
           ELSE /\ stock >= 1
                /\ orders' = Append(orders, [checkout |-> s.checkout, total |-> s.total,
                                             card |-> CardPart(balance)])
                /\ stock' = stock - 1
                /\ balance' = balance - CardPart(balance)
      /\ checkouts' = checkouts \ {s.checkout}
      /\ Commits(s)
      /\ adyen' = Told(s)
      /\ Ends(c)
      /\ UNCHANGED crashes

SoldOut(c) ==
  LET s == session[c]
  IN  /\ Busy(c) /\ s.step = "charged"
      /\ ~ Ordered(s.checkout) /\ stock < 1
      /\ Goes(c, Undoes(Released(s)))
      /\ UNCHANGED <<goods, payments, voucher, adyen, crashes>>

\* Bug: the handlers look at the payment afresh.
RefundFresh(s) ==
  LET row == payments[s.payment]
      now == [row EXCEPT !.captured = @ + (IF s.took THEN 1 ELSE 0)]
      calls == (IF s.undoes THEN 1 ELSE 0) + (IF s.by = "adyen" THEN 1 ELSE 0)
  IN  IF CanRefund(now) THEN calls * now.captured ELSE 0

\* Bug: what was charged is kept.
NoRefund(s) == 0

\* payment_refund_or_void, which asks for all that was captured.  The handlers
\* call it again, on the payment as they had read it.  Nothing can be voided:
\* Adyen captures at once, so that there is no AUTH transaction.
Refund(s) ==
  LET row  == payments[s.payment]
      all  == row.captured + (IF s.took THEN 1 ELSE 0)
  IN  (IF s.undoes /\ CanRefund([row EXCEPT !.captured = all]) THEN all ELSE 0)
        + (IF s.by = "adyen" /\ CanRefund(row) THEN all ELSE 0)

Fails(c) ==
  LET s == session[c]
  IN  /\ Busy(c) /\ s.step = "undo"
      /\ IF s.payment = 0
           THEN UNCHANGED adyen
           ELSE /\ Refund(s) > 0 /\ ~ s.locked => ~ PaymentHeld(s.payment)
                /\ adyen' = [Told(s) EXCEPT ![s.payment].asked = @ + Refund(s)]
      /\ Commits(s)
      /\ Ends(c)
      /\ UNCHANGED <<goods, crashes>>

-----------------------------------------------------------------------------
\* handle_authorization, for a checkout that has no order: the payment is locked,
\* the notification recorded if there is no CAPTURE transaction, and the order made.
Notified(c, p) ==
  LET k == payments[p].checkout
  IN  /\ ~ Busy(c)
      /\ WithinBound(k)
      /\ adyen[p].taken > 0
      /\ ~ PaymentHeld(p)
      /\ payments[p].active /\ k \in checkouts /\ ~ payments[p].refunded
      /\ Goes(c, [NewSession("notified", "adyen", k, p) EXCEPT
                    !.locked = TRUE, !.notified = TRUE,
                    !.confirms = payments[p].captured = 0])
      /\ UNCHANGED <<goods, payments, voucher, adyen, crashes>>

\* For one that has: a charge the shop does not know is booked.
Booked(p) ==
  /\ adyen[p].taken > 0
  /\ ~ PaymentHeld(p)
  /\ ~ (payments[p].active /\ payments[p].checkout \in checkouts /\ ~ payments[p].refunded)
  /\ payments' = IF payments[p].active /\ payments[p].captured < adyen[p].taken
                   THEN [payments EXCEPT ![p].captured = @ + 1, ![p].toConfirm = FALSE]
                   ELSE payments
  /\ adyen' = [adyen EXCEPT ![p].told = TRUE]
  /\ UNCHANGED <<goods, voucher, session, crashes>>

\* handle_additional_actions: the customer is back from the bank, and Adyen is
\* asked how it went.
Return(c, p) ==
  /\ ~ Busy(c)
  /\ adyen[p].action
  /\ payments[p].active /\ payments[p].checkout \in checkouts
  /\ ~ PaymentHeld(p)
  /\ \/ /\ adyen[p].taken < MaxCharges
        /\ adyen' = [adyen EXCEPT ![p].taken = @ + 1, ![p].action = FALSE]
        /\ Goes(c, [NewSession("notified", "adyen", payments[p].checkout, p) EXCEPT
                      !.locked = TRUE, !.confirms = TRUE])
     \/ /\ adyen' = [adyen EXCEPT ![p].action = FALSE]
        /\ UNCHANGED session
  /\ UNCHANGED <<goods, payments, voucher, crashes>>

\* The customer confirms without coming back, or does not.
Authenticate(p) ==
  /\ adyen[p].action
  /\ \/ /\ adyen[p].taken < MaxCharges
        /\ adyen' = [adyen EXCEPT ![p].taken = @ + 1, ![p].action = FALSE]
     \/ adyen' = [adyen EXCEPT ![p].action = FALSE]
  /\ UNCHANGED <<goods, payments, voucher, session, crashes>>

\* Adyen gives back what it can, and handle_refund books it.
Owing(p) == Min({adyen[p].asked, adyen[p].taken}) - adyen[p].returned

RefundDone(p) ==
  LET left == payments[p].captured - Owing(p)
  IN  /\ Owing(p) > 0
      /\ ~ PaymentHeld(p)
      /\ adyen' = [adyen EXCEPT ![p].returned = @ + Owing(p)]
      /\ payments' = IF payments[p].active
                       THEN [payments EXCEPT ![p].captured = left, ![p].toConfirm = FALSE,
                               ![p].refunded = left <= 0, ![p].active = left > 0]
                       ELSE payments
      /\ UNCHANGED <<goods, voucher, session, crashes>>

-----------------------------------------------------------------------------
\* Who keeps session c waiting.
BlockedBy(c) ==
  LET s == session[c]
      wants == CASE s.step \in {"create", "notified"} -> "checkout"
                 [] s.step = "priced" -> "voucher"
                 [] s.step \in {"counted", "undo"} /\ s.payment # 0 /\ ~ s.locked -> "payment"
                 [] OTHER -> "nothing"
  IN  {d \in Sessions \ {c} :
         /\ Busy(d)
         /\ CASE wants = "checkout" -> /\ session[d].step \notin {"create", "notified"}
                                       /\ session[d].checkout = s.checkout
              [] wants = "voucher"  -> session[d].voucher
              [] wants = "payment"  -> session[d].locked /\ session[d].payment = s.payment
              [] OTHER -> FALSE}

Deadlocked(c) == Busy(c) /\ \E d \in BlockedBy(c) : c \in BlockedBy(d)

\* The database rolls one of the two back, or the process dies.
Abort(c) ==
  LET s == session[c]
  IN  /\ Busy(c)
      /\ \/ Deadlocked(c) /\ UNCHANGED crashes
         \/ crashes < MaxCrashes /\ crashes' = crashes + 1
      /\ Ends(c)
      /\ adyen' = IF s.took /\ s.by = "customer" /\ ~ payments[s.payment].toConfirm
                    THEN [adyen EXCEPT ![s.payment].cut = TRUE]
                    ELSE adyen
      /\ UNCHANGED <<goods, payments, voucher>>

Proceed(c) ==
  \/ CreatePayment(c)
  \/ LockCheckout(c)
  \/ PrepareOrderData(c)
  \/ UseVoucher(c)
  \/ Charge(c)
  \/ RefusePayment(c)
  \/ RequireAction(c)
  \/ FailWithoutPayment(c)
  \/ CreateOrder(c)
  \/ SoldOut(c)
  \/ Fails(c)
  \/ Abort(c)

Next ==
  \/ \E c \in Sessions :
       \/ \E k \in Checkouts : CancelActivePayments(c, k) \/ Complete(c, k)
       \/ \E p \in DOMAIN payments : Notified(c, p) \/ Return(c, p)
       \/ Proceed(c)
  \/ \E p \in DOMAIN payments : Booked(p) \/ Authenticate(p) \/ RefundDone(p)

Spec == Init /\ [][Next]_vars
-----------------------------------------------------------------------------
\* The uses counted are those of the orders, unless a call counts one and ends
\* without an order: because the customer has to confirm the payment, because the
\* customer has used the voucher before (discount/utils.py:41), or because there
\* is no payment.
UsesFollowOrders ==
  [][voucher'.used - voucher.used # Len(orders') - Len(orders) =>
       \E c \in Sessions :
         \/ RequireAction(c)
         \/ FailWithoutPayment(c)
         \/ /\ Fails(c)
            /\ voucher.once /\ CustomerOf[session[c].checkout] \in voucher.customers]_vars

\* A checkout has one order, and the voucher is not used for more orders than its
\* limit; stock and the gift card's balance are never negative.
OrdersWithinLimits ==
  /\ TypeOK
  /\ \A i, j \in DOMAIN orders : orders[i].checkout = orders[j].checkout => i = j
  /\ Len(orders) <= voucher.used

\* An order's total and its part of the gift card make its price, unless another
\* order has taken from the card since this one read its balance.
ShortOnlyIfCardSpent ==
  [][\A c \in Sessions :
       CreateOrder(c) =>
         LET order == orders'[Len(orders')]
         IN  order.total + order.card = Price \/ balance < session[c].saw]_vars

\* Adyen takes the money of a payment once, unless its answer was lost with the
\* transaction: then the customer's next call, and it alone, charges again.
ChargedOnce == \A p \in DOMAIN payments : adyen[p].taken > 1 => adyen[p].cut

\* The first time a refund is asked for, it is of what was taken and not more,
\* although the handlers ask a second time: they go by the payment as it was
\* before it was charged.  (When the same checkout is completed again before the
\* refund is booked, it is asked for again.)
FirstRefundIsExact ==
  [][\A p \in DOMAIN adyen :
       adyen[p].asked = 0 => adyen'[p].asked <= adyen'[p].taken]_vars

Settled(p) ==
  /\ adyen[p].told
  /\ \A c \in Sessions : ~ Busy(c)
  /\ Owing(p) = 0

\* Why complete_checkout refuses the checkout of payment p for good.
Refusable(p) ==
  \/ stock < 1
  \/ ~ IsActive(voucher)
  \/ voucher.once /\ CustomerOf[payments[p].checkout] \in voucher.customers
  \/ payments[p].total < Due

\* Money that Adyen has taken, told of and not given back has its order, unless
\* another payment replaced this one, the answer of Adyen was lost with the
\* transaction, or the checkout was refused after the money was taken: then
\* nothing is refunded, because it was not recorded as captured.
MoneyHasItsOrder ==
  \A p \in DOMAIN payments :
    Settled(p) /\ adyen[p].taken > adyen[p].returned =>
      \/ payments[p].checkout \notin checkouts /\ payments[p].captured > 0
      \/ ~ payments[p].active
      \/ adyen[p].cut
      \/ payments[p].captured = 0 /\ Refusable(p)

\* A voucher that is valid once per customer is refused to a customer who has an
\* order with it.
RefusedOnlyAfterOrder ==
  \A c \in Sessions :
    Busy(c) /\ session[c].step = "undo" /\ session[c].uses = 1 =>
      \E i \in DOMAIN orders : CustomerOf[orders[i].checkout] = CustomerOf[session[c].checkout]
=============================================================================
