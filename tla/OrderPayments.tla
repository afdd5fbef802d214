----------------------------- MODULE OrderPayments -----------------------------
(***************************************************************************)
(* The payment of a placed order: staff capture, refund and void it through *)
(* the Adyen plugin, Adyen carries the requests out later and tells the     *)
(* shop by notifications, which may come late, twice or out of order.      *)
(*                                                                         *)
(* A mutation reads the payment, and the functions of gateway.py then lock *)
(* its row for one transaction, which the call to Adyen is part of.  A      *)
(* webhook takes the same lock.  So what happens under the lock is one      *)
(* step, and what was read before it may be stale.                         *)
(*                                                                         *)
(* Adyen itself is not part of the repository.  It is modelled by what the *)
(* webhook handlers expect of it: it accepts a request, decides on it      *)
(* later, keeps its own account of the money, and sends a notification of  *)
(* each decision at least once.                                            *)
(***************************************************************************)
EXTENDS Payment, Sums, FiniteSets

CONSTANTS Sessions,       \* database sessions that serve staff requests
          MaxRequests,    \* how many requests staff make of Adyen
          MaxFailures,    \* how many captures and refunds fail after their success
          MaxRepeats      \* how many notifications are delivered a second time

ASSUME PaymentsAssumption ==
  /\ MaxRequests \in Nat
  /\ MaxFailures \in Nat
  /\ MaxRepeats \in Nat

VARIABLES payment,      \* the Payment row
          txns,         \* its Transaction rows
          canceled,     \* the order's status is CANCELED
          autoCapture,  \* adyen-auto-capture in the plugin's configuration
          session,      \* the mutation each session is in the middle of
          asked,        \* how many requests Adyen has been sent
          requests,     \* those it has not decided on
          held,         \* the customer's money Adyen holds for the shop
          open,         \* the authorisation can still be captured or cancelled
          sent,         \* the notifications Adyen has sent, in order
          delivered,    \* how often each has been delivered
          failures      \* captures and refunds that failed after their success

shop == <<payment, txns, canceled, autoCapture>>
adyen == <<requests, held, open, sent, failures>>
vars == <<shop, session, asked, adyen, delivered>>

Amount == 1 .. Total
Operation == {"capture", "refund", "void"}
Request == [kind : Operation, ref : Nat, amount : Nat]
Event == {"AUTHORISATION", "CANCELLATION", "CAPTURE", "CAPTURE_FAILED", "PENDING",
          "REFUND", "REFUND_FAILED", "REFUNDED_REVERSED"}
Notification == [event : Event, success : BOOLEAN, ref : Nat, amount : Nat]

Idle == [step |-> "idle"]
Session == {Idle} \union [step : {"read"}, op : Operation, amount : Amount]

TypeOK ==
  /\ payment \in PaymentRow
  /\ txns \in Seq(Transaction)
  /\ canceled \in BOOLEAN
  /\ autoCapture \in BOOLEAN
  /\ session \in [Sessions -> Session]
  /\ asked \in 0 .. MaxRequests
  /\ requests \subseteq Request
  /\ held \in 0 .. Total
  /\ open \in BOOLEAN
  /\ sent \in Seq(Notification)
  /\ delivered \in [DOMAIN sent -> 0 .. 2]
  /\ failures \in 0 .. MaxFailures

Note(event, success, ref, amount) ==
  [event |-> event, success |-> success, ref |-> ref, amount |-> amount]

\* process_payment's answer was PENDING, or the money was authorised (with
\* auto-capture: captured) under Adyen's reference 0.
Init ==
  /\ autoCapture \in BOOLEAN
  /\ \/ /\ txns = <<Txn("pending", TRUE, 0, Total)>>
        /\ held = 0
        /\ open = FALSE
        /\ sent = <<Note("PENDING", TRUE, 0, Total)>>
     \/ /\ txns = <<Txn(IF autoCapture THEN "capture" ELSE "auth", TRUE, 0, Total)>>
        /\ held = IF autoCapture THEN Total ELSE 0
        /\ open = ~ autoCapture
        /\ sent = <<Note("AUTHORISATION", TRUE, 0, Total)>>
  /\ payment = Postprocessed(NewPayment, txns[1])
  /\ canceled = FALSE
  /\ session = [c \in Sessions |-> Idle]
  /\ asked = 0
  /\ requests = {}
  /\ delivered = <<0>>
  /\ failures = 0

-----------------------------------------------------------------------------
\* OrderCapture, OrderRefund, OrderVoid and PaymentCapture, PaymentRefund,
\* PaymentVoid up to require_active_payment.  Void asks for no amount.
Read(c, op, amount) ==
  /\ session[c] = Idle
  /\ payment.active
  /\ op = "void" => amount = Total
  /\ session' = [session EXCEPT ![c] = [step |-> "read", op |-> op, amount |-> amount]]
  /\ UNCHANGED <<shop, asked, adyen, delivered>>

\* The conditions the functions of gateway.py check on the row they have locked.
MayRun(op, amount) ==
  CASE op = "capture" -> /\ CanCapture(payment)
                         /\ amount <= Total - payment.captured
                         /\ Succeeded(txns, {"auth"}) # {}
    [] op = "refund"  -> /\ amount <= payment.captured
                         /\ CanRefund(payment)
                         /\ Succeeded(txns, {"capture"}) # {}
    [] op = "void"    -> Succeeded(txns, {"auth"}) # {}

\* What the plugin answers when Adyen has accepted the request.
KindOf(op) == CASE op = "capture" -> "capture"
                [] op = "refund"  -> "refund_ongoing"
                [] op = "void"    -> "void"

Recorded(t) ==
  /\ txns' = Append(txns, t)
  /\ payment' = Postprocessed(payment, t)

Ask(c) ==
  /\ session[c].step = "read"
  /\ MayRun(session[c].op, session[c].amount)
  /\ asked < MaxRequests
  /\ asked' = asked + 1
  /\ requests' = requests \union
       {[kind |-> session[c].op, ref |-> asked + 1, amount |-> session[c].amount]}
  /\ session' = [session EXCEPT ![c] = Idle]
  /\ UNCHANGED <<canceled, autoCapture, held, open, sent, delivered, failures>>

\* capture, refund and void.
Operate(c) ==
  /\ Ask(c)
  /\ Recorded(Txn(KindOf(session[c].op), TRUE, asked + 1, session[c].amount))

\* Adyen has the request, but the transaction that made it is rolled back.
LoseCommit(c) ==
  /\ Ask(c)
  /\ UNCHANGED <<payment, txns>>

\* The call fails: the failed transaction is committed, under the old token.
OperateFailed(c) ==
  LET s == session[c]
      past == Last(txns, Succeeded(txns, {IF s.op = "refund" THEN "capture" ELSE "auth"}))
  IN  /\ s.step = "read"
      /\ MayRun(s.op, s.amount)
      /\ asked < MaxRequests
      /\ asked' = asked + 1
      /\ Recorded(Txn(s.op, FALSE, past.token, s.amount))
      /\ session' = [session EXCEPT ![c] = Idle]
      /\ UNCHANGED <<canceled, autoCapture, adyen, delivered>>

Refuse(c) ==
  /\ session[c].step = "read"
  /\ ~ MayRun(session[c].op, session[c].amount)
  /\ session' = [session EXCEPT ![c] = Idle]
  /\ UNCHANGED <<shop, asked, adyen, delivered>>

-----------------------------------------------------------------------------
\* Adyen decides, and sends the notification.
Notify(event, success, ref, amount) ==
  /\ sent' = Append(sent, Note(event, success, ref, amount))
  /\ delivered' = Append(delivered, 0)

\* The pending authorisation succeeds or not.
Authorise(success) ==
  /\ txns[1].kind = "pending"
  /\ \A n \in DOMAIN sent : sent[n].event # "AUTHORISATION"
  /\ Notify("AUTHORISATION", success, 0, Total)
  /\ held' = IF success /\ autoCapture THEN Total ELSE held
  /\ open' = (success /\ ~ autoCapture)
  /\ UNCHANGED <<shop, session, asked, requests, failures>>

CarryOut(r) ==
  /\ \/ /\ r.kind = "capture" /\ open
        /\ held' = held + r.amount
        /\ open' = FALSE
        /\ Notify("CAPTURE", TRUE, r.ref, r.amount)
     \/ /\ r.kind = "refund" /\ r.amount <= held
        /\ held' = held - r.amount
        /\ Notify("REFUND", TRUE, r.ref, r.amount)
        /\ UNCHANGED open
     \/ /\ r.kind = "void" /\ open
        /\ open' = FALSE
        /\ Notify("CANCELLATION", TRUE, r.ref, r.amount)
        /\ UNCHANGED held
  /\ requests' = requests \ {r}
  /\ UNCHANGED <<shop, session, asked, failures>>

TurnDown(r) ==
  /\ Notify(CASE r.kind = "capture" -> "CAPTURE"
              [] r.kind = "refund"  -> "REFUND"
              [] r.kind = "void"    -> "CANCELLATION", FALSE, r.ref, r.amount)
  /\ requests' = requests \ {r}
  /\ UNCHANGED <<shop, session, asked, held, open, failures>>

Undoing == {"CAPTURE_FAILED", "REFUND_FAILED", "REFUNDED_REVERSED"}

\* A capture or a refund that had succeeded fails at the bank.
Fail(n) ==
  LET s == sent[n]
  IN  /\ failures < MaxFailures
      /\ s.success
      /\ \/ s.event = "CAPTURE" /\ s.amount <= held
            /\ held' = held - s.amount
            /\ Notify("CAPTURE_FAILED", TRUE, s.ref, s.amount)
         \/ s.event = "REFUND"
            /\ held' = held + s.amount
            /\ \E event \in {"REFUND_FAILED", "REFUNDED_REVERSED"} :
                 Notify(event, TRUE, s.ref, s.amount)
      /\ \A m \in DOMAIN sent : sent[m].event \in Undoing => sent[m].ref # s.ref
      /\ failures' = failures + 1
      /\ UNCHANGED <<shop, session, asked, requests, open>>

-----------------------------------------------------------------------------
\* The webhook handlers.  Nothing is changed:
Ignored == UNCHANGED <<payment, txns, canceled>>

\* A transaction is recorded and the payment updated; the order is left alone.
Booked(t) == Recorded(t) /\ UNCHANGED canceled

\* handle_authorization, for a payment that has its order.
HandleAuthorization(n) ==
  LET kind == IF autoCapture THEN "capture" ELSE "auth"
  IN  IF \E m \in Completed(txns, {"auth", "capture"}) : txns[m].token = n.ref
        THEN Ignored
        ELSE Booked(Txn(kind, n.success, n.ref, n.amount))

\* handle_capture: only the first capture of a payment counts.
\* Bug: every capture notification counts.
HandleCaptureAlways(n) == Booked(Txn("capture", n.success, n.ref, n.amount))

HandleCapture(n) ==
  IF Completed(txns, {"capture"}) = {}
    THEN Booked(Txn("capture", n.success, n.ref, n.amount))
    ELSE /\ txns' = Append(txns, Txn("capture", n.success, n.ref, n.amount))
         /\ UNCHANGED <<payment, canceled>>

\* handle_failed_capture, handle_pending and handle_refund.
\* Bug: what has been seen already is booked again.
HandleEachTime(kind, n) == Booked(Txn(kind, n.success, n.ref, n.amount))

HandleOnce(kind, n) ==
  IF SeenAsSuccess(txns, kind, n.ref)
    THEN Ignored
    ELSE Booked(Txn(kind, n.success, n.ref, n.amount))

\* handle_reversed_refund.
HandleReversedRefund(n) ==
  IF Of(txns, {"refund_reversed"}, n.ref) # {}
    THEN Ignored
    ELSE Booked(Txn("refund_reversed", n.success, n.ref, n.amount))

\* handle_failed_refund: the last thing known of this refund decides.
HandleFailedRefund(n) ==
  LET known == Of(txns, {"refund_ongoing", "refund", "refund_failed"}, n.ref)
      last  == Completed(txns, {"auth", "capture"})
      kind  == IF last = {} THEN "capture" ELSE Last(txns, last).kind
      failed == Txn("refund_failed", n.success, n.ref, n.amount)
      undone == IF Last(txns, known).kind = "refund"
                  THEN Txn("capture", n.success, n.ref, n.amount)
                  ELSE Txn(kind, n.success, n.ref, 0)
  IN  IF known = {} \/ Last(txns, known).kind = "refund_failed"
        THEN Ignored
        ELSE /\ txns' = txns \o <<failed, undone>>
             /\ payment' = Postprocessed(payment, undone)
             /\ UNCHANGED canceled

\* handle_cancellation, which also cancels the order, whatever became of it.
HandleCancellation(n) ==
  IF SeenAsSuccess(txns, "cancel", n.ref)
    THEN Ignored
    ELSE /\ Recorded(Txn("cancel", n.success, n.ref, n.amount))
         /\ canceled' = (canceled \/ n.success)

Handle(n) ==
  CASE n.event = "AUTHORISATION"  -> HandleAuthorization(n)
    [] n.event = "CAPTURE"        -> HandleCapture(n)
    [] n.event = "CAPTURE_FAILED" -> HandleOnce("capture_failed", n)
    [] n.event = "PENDING"        -> HandleOnce("pending", n)
    [] n.event = "REFUND"         -> HandleOnce("refund", n)
    [] n.event = "REFUND_FAILED"  -> HandleFailedRefund(n)
    [] n.event = "REFUNDED_REVERSED" -> HandleReversedRefund(n)
    [] n.event = "CANCELLATION"   -> HandleCancellation(n)

\* get_payment finds an inactive payment only for a cancellation.
\* Bug: it always does.
FoundInactive(n) == TRUE

Found(n) == payment.active \/ n.event = "CANCELLATION"

Repeated == {i \in DOMAIN sent : delivered[i] = 2}

Deliver(i) ==
  /\ \/ delivered[i] = 0
     \/ delivered[i] = 1 /\ Cardinality(Repeated) < MaxRepeats
  /\ delivered' = [delivered EXCEPT ![i] = @ + 1]
  /\ IF Found(sent[i]) THEN Handle(sent[i]) ELSE Ignored
  /\ UNCHANGED <<autoCapture, session, asked, adyen>>

Staff(c) ==
  \/ \E op \in Operation, amount \in Amount : Read(c, op, amount)
  \/ Operate(c)
  \/ LoseCommit(c)
  \/ OperateFailed(c)
  \/ Refuse(c)

Adyen ==
  \/ \E success \in BOOLEAN : Authorise(success)
  \/ \E r \in requests : CarryOut(r) \/ TurnDown(r)
  \/ \E n \in DOMAIN sent : Fail(n)

Next ==
  \/ \E c \in Sessions : Staff(c)
  \/ Adyen
  \/ \E i \in DOMAIN sent : Deliver(i)

Spec == Init /\ [][Next]_vars
-----------------------------------------------------------------------------
\* What the books still have to make of what Adyen has decided or will decide.
Captured(ref) == \E n \in Succeeded(txns, {"capture"}) : txns[n].token = ref

Effect(n) ==
  CASE n.event = "AUTHORISATION" ->
         IF n.success /\ autoCapture /\ ~ Captured(n.ref) THEN n.amount ELSE 0
    [] n.event = "CAPTURE" ->
         IF n.success = Captured(n.ref) THEN 0
         ELSE IF n.success THEN n.amount ELSE - n.amount
    [] n.event = "REFUND" -> IF n.success THEN - n.amount ELSE 0
    [] n.event = "CAPTURE_FAILED" -> - n.amount
    [] n.event \in {"REFUND_FAILED", "REFUNDED_REVERSED"} -> n.amount
    [] OTHER -> 0

\* How much of captured_amount is a capture, requested under this reference and
\* booked at once, that Adyen has still to decide on.
BookedAhead(ref) ==
  LET r == CHOOSE r \in requests : r.kind = "capture" /\ r.ref = ref
  IN  IF Captured(ref) /\ \E q \in requests : q.kind = "capture" /\ q.ref = ref
        THEN r.amount ELSE 0

Outstanding(i) == IF delivered[i] = 0 THEN Effect(sent[i]) ELSE 0

ToBook == SumTo([i \in DOMAIN sent |-> Outstanding(i)], Len(sent))
Ahead == SumTo([ref \in 1 .. asked |-> BookedAhead(ref)], asked)

\* How far captured_amount is from Adyen's account once everything that is
\* under way has been booked.
Drift == payment.captured - held + ToBook - Ahead

\* A failed attempt of staff to refund is recorded under the token of the last
\* capture, and that may be the one that undid refund n.
AttemptUnder(ref) ==
  \E m \in Of(txns, {"refund"}, ref) : ~ txns[m].success

\* The notification comes before the one of what it undoes, or again after it.
OutOfTurn(i) ==
  LET known == Of(txns, {"refund_ongoing", "refund", "refund_failed"}, sent[i].ref)
  IN  /\ sent[i].event = "REFUND_FAILED"
      /\ \/ delivered[i] > 0
         \/ known = {}
         \/ Last(txns, known).kind # "refund"

\* Whatever staff and Adyen do, and however notifications are held up, repeated
\* or reordered, the books leave Adyen's account only in these steps:
\*  - a notification finds the payment inactive (webhooks.py:72);
\*  - Adyen turns down a capture that was booked when it was requested
\*    (plugin.py:546): handle_capture does not take it back;
\*  - a capture whose request was rolled back succeeds after another was booked
\*    (webhooks.py:290-298);
\*  - a capture fails when some of it was refunded (utils.py:297-307);
\*  - a failed refund is told of before the refund, or again (webhooks.py:405-452);
\*  - a refund is told of again after staff have tried and failed to refund what
\*    its failure gave back (webhooks.py:367, gateway.py:266-272).
DriftNeeds ==
  [][Drift' # Drift =>
       \E i \in DOMAIN sent :
         LET n == sent[i]
         IN  /\ Deliver(i)
             /\ \/ ~ Found(n)
                \/ n.event = "CAPTURE" /\ ~ n.success /\ Captured(n.ref)
                \/ n.event = "CAPTURE" /\ n.success /\ ~ Captured(n.ref)
                     /\ Completed(txns, {"capture"}) # {}
                \/ n.event = "CAPTURE_FAILED"
                     /\ payment.status \notin {"partially-charged", "fully-charged"}
                \/ OutOfTurn(i)
                \/ n.event = "REFUND" /\ delivered[i] > 0 /\ AttemptUnder(n.ref)]_vars

\* A refund that fails after it was booked gives back what it took
\* (test_handle_failed_refund_with_transaction_refund).  It does not when it had
\* refunded everything: the payment is inactive and is not found.
FailedRefundComesBack ==
  [][\A i \in DOMAIN sent :
       Deliver(i) /\ sent[i].event = "REFUND_FAILED" /\ ~ OutOfTurn(i) =>
         payment'.captured = payment.captured + sent[i].amount]_vars

\* Nothing makes a payment active again, and the books of an inactive one stand
\* still: the captures and reversals that should revive it (utils.py:273) are not
\* saved as active, and are not booked at all when they come to an inactive one.
InactiveIsFrozen ==
  [][~ payment.active => ~ payment'.active /\ payment'.captured = payment.captured]_vars

\* A notification that comes again changes nothing on the payment or the order,
\* but for the two that DriftNeeds names.
RepeatsChangeNothing ==
  [][\A i \in DOMAIN sent :
         /\ delivered[i] > 0
         /\ Deliver(i)
         /\ ~ OutOfTurn(i)
         /\ ~ (sent[i].event = "REFUND" /\ AttemptUnder(sent[i].ref))
       => UNCHANGED <<payment, canceled>>]_vars

\* Nothing is under way.
Settled == requests = {} /\ \A i \in DOMAIN sent : delivered[i] > 0

\* When nothing is under way, money that Adyen holds can be refunded by staff,
\* unless the payment was voided, or fully refunded by a refund that then failed.
\* The amounts of the payment and of what Adyen holds stay within the total.
MoneyWithinReach ==
  /\ TypeOK
  /\ Settled /\ held > 0 =>
       \/ CanRefund(payment)
       \/ Succeeded(txns, {"void"}) # {}
       \/ payment.status = "fully-refunded"

=============================================================================
