-------------------------- MODULE OrderPaymentsProofs --------------------------
(***************************************************************************)
(* Theorems of OrderPayments, for any number of sessions, requests,        *)
(* failures and repeated notifications, and any total.                     *)
(***************************************************************************)
EXTENDS OrderPayments, SequenceTheorems, WellFoundedInduction, TLAPS

USE TotalAssumption, PaymentsAssumption DEF TotalAssumption, PaymentsAssumption

\* Every non-empty set of naturals has a least element.
LEMMA LeastNat ==
  ASSUME NEW T \in SUBSET Nat, T # {}
  PROVE  \E x \in T : \A y \in T : x <= y
<1>1. PICK x \in T : \A y \in T : ~ (<<y, x>> \in OpToRel(<, Nat))
  BY NatLessThanWellFounded, WFMin
<1>2. \A y \in T : ~ (y < x)
  BY <1>1 DEF OpToRel
<1>3. \A y \in T : x <= y
  BY <1>2, T \subseteq Nat, x \in T, SMT
<1> QED BY <1>3

-----------------------------------------------------------------------------
(* The laws of SumTo, as WarehouseProofs proves them for the warehouse.     *)

\* A set that holds 0 and is closed under successor holds every natural.
LEMMA NatSetInduction ==
  ASSUME NEW T, 0 \in T, \A n \in Nat : n \in T => n + 1 \in T
  PROVE  Nat \subseteq T
<1> SUFFICES ASSUME Nat \ T # {} PROVE FALSE
  OBVIOUS
<1>1. PICK x \in Nat \ T : \A y \in Nat \ T : x <= y
  BY LeastNat
<1>2. x # 0 /\ x - 1 \in Nat /\ x - 1 \in T
  BY <1>1
<1> QED BY <1>1, <1>2

\* g lists the partial sums of f up to n.
IsSum(g, f, n) == g = [i \in 0 .. n |-> IF i = 0 THEN 0 ELSE g[i - 1] + f[i]]

\* By induction on n: extend the list by one entry.
LEMMA PartialSumExists ==
  ASSUME NEW f, NEW n \in Nat PROVE \E g : IsSum(g, f, n)
<1> DEFINE T == {m \in Nat : \E g : IsSum(g, f, m)}
<1>1. 0 \in T
  <2> DEFINE z == [i \in 0 .. 0 |-> 0]
  <2>1. IsSum(z, f, 0)
    BY DEF IsSum
  <2> QED BY <2>1
<1>2. ASSUME NEW m \in Nat, m \in T PROVE m + 1 \in T
  <2>1. PICK g : IsSum(g, f, m)
    BY <1>2
  <2> DEFINE h == [i \in 0 .. m + 1 |-> IF i = m + 1 THEN g[m] + f[m + 1] ELSE g[i]]
  <2>2. ASSUME NEW i \in 0 .. m + 1
        PROVE  h[i] = IF i = 0 THEN 0 ELSE h[i - 1] + f[i]
    BY <2>1 DEF IsSum
  <2>3. IsSum(h, f, m + 1)
    BY <2>2 DEF IsSum
  <2> HIDE DEF h
  <2> QED BY <2>3
<1> HIDE DEF T
<1>3. Nat \subseteq T
  BY <1>1, <1>2, NatSetInduction
<1> QED BY <1>3 DEF T

\* Two lists of partial sums agree where both are defined.
LEMMA PartialSumUnique ==
  ASSUME NEW f, NEW m \in Nat, NEW n \in Nat, NEW g, NEW h,
         IsSum(g, f, m), IsSum(h, f, n), NEW k \in Nat, k <= m, k <= n
  PROVE  g[k] = h[k]
<1> DEFINE T == {i \in Nat : i <= m /\ i <= n => g[i] = h[i]}
<1>1. 0 \in T
  BY DEF IsSum
<1>2. ASSUME NEW i \in Nat, i \in T PROVE i + 1 \in T
  <2> SUFFICES ASSUME i + 1 <= m, i + 1 <= n PROVE g[i + 1] = h[i + 1]
    OBVIOUS
  <2>1. g[i] = h[i]
    BY <1>2
  <2>2. g[i + 1] = g[i] + f[i + 1] /\ h[i + 1] = h[i] + f[i + 1]
    BY DEF IsSum
  <2> QED BY <2>1, <2>2
<1>3. Nat \subseteq T
  <2> HIDE DEF T
  <2> QED BY <1>1, <1>2, NatSetInduction
<1> QED BY <1>3

\* The recursive function SumTo is the value of.
SumFcn(f) == CHOOSE g : g = [i \in Nat |-> IF i = 0 THEN 0 ELSE g[i - 1] + f[i]]

\* It satisfies its own recursion equation: such a function exists, assembled
\* from the lists of partial sums.
LEMMA SumFcnDef ==
  ASSUME NEW f
  PROVE  SumFcn(f) = [i \in Nat |-> IF i = 0 THEN 0 ELSE SumFcn(f)[i - 1] + f[i]]
<1> DEFINE p(n) == CHOOSE g : IsSum(g, f, n)
           s == [i \in Nat |-> p(i)[i]]
<1>1. ASSUME NEW n \in Nat PROVE IsSum(p(n), f, n)
  BY PartialSumExists
<1> HIDE DEF p
<1>2. ASSUME NEW i \in Nat PROVE s[i] = IF i = 0 THEN 0 ELSE s[i - 1] + f[i]
  <2>1. CASE i = 0
    BY <1>1, <2>1 DEF IsSum
  <2>2. CASE i # 0
    <3>1. i - 1 \in Nat
      BY <2>2
    <3>2. p(i)[i] = p(i)[i - 1] + f[i]
      BY <1>1, <2>2 DEF IsSum
    <3>3. p(i)[i - 1] = p(i - 1)[i - 1]
      <4>1. IsSum(p(i), f, i) /\ IsSum(p(i - 1), f, i - 1)
        BY <1>1, <3>1
      <4> QED BY <4>1, <3>1, PartialSumUnique
    <3> QED BY <2>2, <3>1, <3>2, <3>3
  <2> QED BY <2>1, <2>2
<1>3. s = [i \in Nat |-> IF i = 0 THEN 0 ELSE s[i - 1] + f[i]]
  BY <1>2
<1> HIDE DEF s
<1> QED BY <1>3 DEF SumFcn

\* SumTo is the recursive function, applied.
LEMMA SumToIsSumFcn ==
  ASSUME NEW f, NEW n PROVE SumTo(f, n) = SumFcn(f)[n]
BY DEF SumTo, SumFcn

\* The empty sum.
LEMMA SumToZero == ASSUME NEW f PROVE SumTo(f, 0) = 0
<1>1. SumFcn(f)[0] = 0
  BY SumFcnDef
<1> QED BY <1>1, SumToIsSumFcn

\* One more term.
LEMMA SumToStep ==
  ASSUME NEW f, NEW n \in Nat
  PROVE  SumTo(f, n + 1) = SumTo(f, n) + f[n + 1]
<1>1. SumFcn(f)[n + 1] = SumFcn(f)[n] + f[n + 1]
  BY SumFcnDef
<1> QED BY <1>1, SumToIsSumFcn

\* A sum of naturals is a natural, one of integers an integer.
LEMMA SumToType ==
  ASSUME NEW n \in Nat, NEW f, NEW S \in {Nat, Int}, \A i \in 1 .. n : f[i] \in S
  PROVE  SumTo(f, n) \in S
<1> DEFINE T == {k \in Nat : k <= n => SumTo(f, k) \in S}
<1>1. 0 \in T
  BY SumToZero
<1>2. ASSUME NEW k \in Nat, k \in T PROVE k + 1 \in T
  <2> SUFFICES ASSUME k + 1 <= n PROVE SumTo(f, k + 1) \in S
    OBVIOUS
  <2>1. SumTo(f, k) \in S /\ f[k + 1] \in S
    BY <1>2
  <2> QED BY <2>1, SumToStep
<1>3. Nat \subseteq T
  <2> HIDE DEF T
  <2> QED BY <1>1, <1>2, NatSetInduction
<1> QED BY <1>3

\* A sum depends only on its terms.
LEMMA SumToEqual ==
  ASSUME NEW n \in Nat, NEW f, NEW g, \A i \in 1 .. n : f[i] = g[i]
  PROVE  SumTo(f, n) = SumTo(g, n)
<1> DEFINE T == {k \in Nat : k <= n => SumTo(f, k) = SumTo(g, k)}
<1>1. 0 \in T
  BY SumToZero
<1>2. ASSUME NEW k \in Nat, k \in T PROVE k + 1 \in T
  <2> SUFFICES ASSUME k + 1 <= n PROVE SumTo(f, k + 1) = SumTo(g, k + 1)
    OBVIOUS
  <2>1. SumTo(f, k) = SumTo(g, k) /\ f[k + 1] = g[k + 1]
    BY <1>2
  <2> QED BY <2>1, SumToStep
<1>3. Nat \subseteq T
  <2> HIDE DEF T
  <2> QED BY <1>1, <1>2, NatSetInduction
<1> QED BY <1>3

\* Changing one term changes the sum by the difference.
ChangesOne(f, g, n, j) ==
  /\ \A i \in 1 .. n : f[i] \in Int /\ g[i] \in Int
  /\ \A i \in 1 .. n : i # j => g[i] = f[i]

LEMMA SumToChangeOne ==
  ASSUME NEW n \in Nat, NEW f, NEW g, NEW j \in 1 .. n, ChangesOne(f, g, n, j)
  PROVE  SumTo(g, n) = SumTo(f, n) + g[j] - f[j]
<1>0. /\ \A i \in 1 .. n : f[i] \in Int /\ g[i] \in Int
      /\ \A i \in 1 .. n : i # j => g[i] = f[i]
  BY DEF ChangesOne
<1> DEFINE T == {k \in Nat : k <= n =>
                   SumTo(g, k) = SumTo(f, k) + (IF j <= k THEN g[j] - f[j] ELSE 0)}
<1>1. 0 \in T
  BY SumToZero
<1>2. ASSUME NEW k \in Nat, k \in T PROVE k + 1 \in T
  <2> SUFFICES ASSUME k + 1 <= n
               PROVE  SumTo(g, k + 1) =
                        SumTo(f, k + 1) + (IF j <= k + 1 THEN g[j] - f[j] ELSE 0)
    OBVIOUS
  <2>1. SumTo(g, k) = SumTo(f, k) + (IF j <= k THEN g[j] - f[j] ELSE 0)
    BY <1>2
  <2>2. SumTo(f, k) \in Int /\ SumTo(g, k) \in Int
    BY <1>0, SumToType
  <2>3. SumTo(f, k + 1) = SumTo(f, k) + f[k + 1] /\ SumTo(g, k + 1) = SumTo(g, k) + g[k + 1]
    BY SumToStep
  <2>4. f[k + 1] \in Int /\ g[k + 1] \in Int /\ (k + 1 # j => g[k + 1] = f[k + 1])
    BY <1>0
  <2> HIDE DEF T
  <2>5. j \in Int /\ k \in Int
    OBVIOUS
  <2>6. CASE k + 1 = j
    <3>1. ~ (j <= k) /\ j <= k + 1
      BY <2>5, <2>6
    <3> QED BY <2>1, <2>2, <2>3, <2>4, <2>6, <3>1
  <2>7. CASE k + 1 # j
    <3>1. j <= k <=> j <= k + 1
      BY <2>5, <2>7
    <3>2. f[j] \in Int /\ g[j] \in Int
      BY <1>0
    <3> QED BY <2>1, <2>2, <2>3, <2>4, <2>7, <3>1, <3>2
  <2> QED BY <2>6, <2>7
<1>3. Nat \subseteq T
  <2> HIDE DEF T
  <2> QED BY <1>1, <1>2, NatSetInduction
<1>4. n \in T
  BY <1>3
<1>5. SumTo(f, n) \in Int /\ f[j] \in Int /\ g[j] \in Int
  BY <1>0, SumToType
<1> QED BY <1>4, <1>5

-----------------------------------------------------------------------------
(* The invariant that the answers to repeated notifications rest on.       *)

\* The notifications that only come of a success.
Certain == {"CAPTURE_FAILED", "PENDING"}

\* The payment and its transactions, as far as their types are needed.
Types ==
  /\ txns \in Seq(Transaction)
  /\ canceled \in BOOLEAN
  /\ session \in [Sessions -> Session]
  /\ asked \in Nat
  /\ requests \subseteq Request
  /\ sent \in Seq(Notification)
  /\ delivered \in [DOMAIN sent -> Nat]

\* A reference is of one request, and once Adyen has told of a cancellation the
\* request is no longer under way: it cannot be both done and refused.
References ==
  /\ \A r \in requests : r.ref \in 1 .. asked
  /\ \A q, r \in requests : q.ref = r.ref => q = r
  /\ \A n \in DOMAIN sent : sent[n].event = "CANCELLATION" =>
       /\ sent[n].ref \in 1 .. asked
       /\ \A r \in requests : r.ref # sent[n].ref
       /\ \A m \in DOMAIN sent : sent[m].event = "CANCELLATION" /\ sent[m].ref = sent[n].ref
            => sent[m].success = sent[n].success
  /\ \A n \in DOMAIN sent : sent[n].event \in Certain => sent[n].success

\* Where the transactions come from that a handler looks for by their success.
TxnFrom(t) ==
  /\ t.kind \in {"capture_failed", "pending"} => t.success
  /\ t.kind = "cancel" =>
       \E n \in DOMAIN sent : /\ sent[n].event = "CANCELLATION"
                              /\ sent[n].ref = t.token
                              /\ sent[n].success = t.success

Origins == \A m \in DOMAIN txns : TxnFrom(txns[m])

\* The transaction by which a handler knows that it has handled n.
Known(n) ==
  CASE n.event = "AUTHORISATION" ->
         \E m \in Completed(txns, {"auth", "capture"}) : txns[m].token = n.ref
    [] n.event = "CAPTURE" -> Completed(txns, {"capture"}) # {}
    [] n.event = "CAPTURE_FAILED" -> Of(txns, {"capture_failed"}, n.ref) # {}
    [] n.event = "PENDING" -> Of(txns, {"pending"}, n.ref) # {}
    [] n.event = "REFUND" -> Of(txns, {"refund"}, n.ref) # {}
    [] n.event = "REFUNDED_REVERSED" -> Of(txns, {"refund_reversed"}, n.ref) # {}
    [] n.event = "CANCELLATION" -> Of(txns, {"cancel"}, n.ref) # {}
    [] OTHER -> TRUE

\* What was delivered of a payment that is still active is known.
Remembered ==
  \A i \in DOMAIN sent :
    delivered[i] > 0 /\ sent[i].success /\ Found(sent[i]) => Known(sent[i])

IInv == Types /\ References /\ Origins /\ Remembered

-----------------------------------------------------------------------------
(* The last of some transactions.                                          *)

LEMMA LastIsOne ==
  ASSUME NEW q \in Seq(Transaction), NEW ids \in SUBSET DOMAIN q, ids # {}
  PROVE  \E n \in ids : Last(q, ids) = q[n]
<1> DEFINE distances == {d \in Nat : Len(q) - d \in ids}
<1>1. \A n \in ids : n \in Nat /\ n <= Len(q) /\ Len(q) - n \in distances
  OBVIOUS
<1>2. \E d \in distances : \A e \in distances : d <= e
  <2>1. distances # {}
    <3>1. PICK n \in ids : TRUE
      OBVIOUS
    <3> QED BY <1>1, <3>1
  <2>2. distances \in SUBSET Nat
    OBVIOUS
  <2> HIDE DEF distances
  <2> QED BY <2>1, <2>2, LeastNat
<1>3. PICK d \in Nat : Len(q) - d \in ids /\ \A e \in distances : d <= e
  BY <1>2
<1>4. \A m \in ids : m <= Len(q) - d
  <2>1. Len(q) \in Nat
    OBVIOUS
  <2> HIDE DEF distances
  <2> QED BY <1>1, <1>3, <2>1
<1>5. \E n \in ids : \A m \in ids : m <= n
  BY <1>3, <1>4
<1> QED BY <1>5 DEF Last

\* If every transaction of a kind and token succeeded, the last one did.
LEMMA AllSucceeded ==
  ASSUME NEW q \in Seq(Transaction), NEW kind, NEW token,
         Of(q, {kind}, token) # {}, \A m \in Of(q, {kind}, token) : q[m].success
  PROVE  SeenAsSuccess(q, kind, token)
<1>1. Of(q, {kind}, token) \in SUBSET DOMAIN q
  BY DEF Of
<1>2. PICK n \in Of(q, {kind}, token) : Last(q, Of(q, {kind}, token)) = q[n]
  BY <1>1, LastIsOne
<1> QED BY <1>2 DEF SeenAsSuccess

-----------------------------------------------------------------------------
(* The books of an inactive payment.                                       *)

\* What the payment becomes of a transaction that did not succeed.
LEMMA FailureChangesNothing ==
  ASSUME NEW p, NEW t, ~ t.success
  PROVE  Postprocessed(p, t) = p
BY DEF Postprocessed

\* Voiding and cancelling leave the amounts alone and revive nothing.
LEMMA WithoutMoney ==
  ASSUME NEW p, NEW kind \in {"void", "cancel"},
         NEW success, NEW token, NEW amount
  PROVE  LET q == Postprocessed(p, Txn(kind, success, token, amount))
         IN  q.captured = p.captured /\ (q.active => p.active)
BY DEF Postprocessed, Txn, Row

LEMMA FrozenStep ==
  ASSUME Types, [Next]_vars, ~ payment.active
  PROVE  ~ payment'.active /\ payment'.captured = payment.captured
<1>1. CASE payment' = payment
  BY <1>1
<1>2. ASSUME NEW c \in Sessions, Operate(c)
      PROVE  ~ payment'.active /\ payment'.captured = payment.captured
  <2>1. session[c].op = "void"
    <3>1. session[c].op \in Operation
      BY <1>2 DEF Operate, Ask, Types, Session, Idle
    <3> QED BY <1>2, <3>1 DEF Operate, Ask, MayRun, CanCapture, CanRefund, Operation
  <2>2. payment' = Postprocessed(payment, Txn("void", TRUE, asked + 1, session[c].amount))
    BY <1>2, <2>1 DEF Operate, Recorded, KindOf
  <2> QED BY <2>2, WithoutMoney
<1>3. ASSUME NEW c \in Sessions, OperateFailed(c)
      PROVE  payment' = payment
  BY <1>3, FailureChangesNothing DEF OperateFailed, Recorded, Txn
<1>4. ASSUME NEW i \in DOMAIN sent, Deliver(i)
      PROVE  ~ payment'.active /\ payment'.captured = payment.captured
  <2>1. CASE ~ Found(sent[i])
    BY <1>4, <2>1 DEF Deliver, Ignored
  <2>2. CASE Found(sent[i])
    <3>1. HandleCancellation(sent[i])
      BY <1>4, <2>2 DEF Deliver, Found, Handle
    <3> QED BY <3>1, WithoutMoney DEF HandleCancellation, Ignored, Recorded
  <2> QED BY <2>1, <2>2
<1>5. ASSUME NEW c \in Sessions, Staff(c)
      PROVE  payment' = payment \/ Operate(c) \/ OperateFailed(c)
  BY <1>5 DEF Staff, Read, LoseCommit, Refuse, shop
<1>6. ASSUME Adyen
      PROVE  payment' = payment
  BY <1>6 DEF Adyen, Authorise, CarryOut, TurnDown, Fail, shop
<1> QED BY <1>1, <1>2, <1>3, <1>4, <1>5, <1>6 DEF Next, vars, shop

-----------------------------------------------------------------------------
(* The invariant.                                                          *)

LEMMA InitIInv == Init => IInv
<1> SUFFICES ASSUME Init PROVE IInv
  OBVIOUS
<1>1. \E t \in Transaction, n \in Notification :
        /\ txns = <<t>> /\ sent = <<n>>
        /\ t.kind \in {"pending", "capture", "auth"} /\ t.success
        /\ n.event \in {"PENDING", "AUTHORISATION"} /\ n.success
  <2>1. CASE txns = <<Txn("pending", TRUE, 0, Total)>> /\ sent = <<Note("PENDING", TRUE, 0, Total)>>
    <3>1. /\ Txn("pending", TRUE, 0, Total) \in Transaction
          /\ Note("PENDING", TRUE, 0, Total) \in Notification
      BY DEF Txn, Note, Transaction, Notification, TransactionKind, Event
    <3> QED BY <2>1, <3>1 DEF Txn, Note
  <2>2. ASSUME NEW kind \in {"capture", "auth"},
               txns = <<Txn(kind, TRUE, 0, Total)>>, sent = <<Note("AUTHORISATION", TRUE, 0, Total)>>
        PROVE  \E t \in Transaction, n \in Notification :
                 /\ txns = <<t>> /\ sent = <<n>>
                 /\ t.kind \in {"pending", "capture", "auth"} /\ t.success
                 /\ n.event \in {"PENDING", "AUTHORISATION"} /\ n.success
    <3>1. /\ Txn(kind, TRUE, 0, Total) \in Transaction
          /\ Note("AUTHORISATION", TRUE, 0, Total) \in Notification
      BY DEF Txn, Note, Transaction, Notification, TransactionKind, Event
    <3> QED BY <2>2, <3>1 DEF Txn, Note
  <2> QED BY <2>1, <2>2 DEF Init
<1> PICK t \in Transaction, n \in Notification :
        /\ txns = <<t>> /\ sent = <<n>>
        /\ t.kind \in {"pending", "capture", "auth"} /\ t.success
        /\ n.event \in {"PENDING", "AUTHORISATION"} /\ n.success
  BY <1>1
<1>2. Types
  <2>1. /\ canceled = FALSE /\ asked = 0 /\ requests = {} /\ delivered = <<0>>
        /\ session \in [Sessions -> Session]
    BY DEF Init, Session
  <2>2. <<0>> \in [1 .. 1 -> Nat]
    OBVIOUS
  <2>3. txns \in Seq(Transaction) /\ sent \in Seq(Notification) /\ DOMAIN sent = 1 .. 1
    OBVIOUS
  <2> QED BY <2>1, <2>2, <2>3 DEF Types
<1>3. References
  BY DEF Init, References, Certain
<1>4. Origins
  <2>1. \A m \in DOMAIN txns : txns[m] = t
    OBVIOUS
  <2>2. TxnFrom(t)
    BY DEF TxnFrom
  <2> QED BY <2>1, <2>2 DEF Origins
<1>5. Remembered
  BY DEF Init, Remembered
<1> QED BY <1>2, <1>3, <1>4, <1>5 DEF IInv

\* What may happen to the transactions: some are added.
Grows ==
  /\ txns' \in Seq(Transaction)
  /\ Len(txns) <= Len(txns')
  /\ \A m \in DOMAIN txns : txns'[m] = txns[m]

LEMMA KnownStays ==
  ASSUME NEW n, Known(n), txns \in Seq(Transaction), Grows
  PROVE  Known(n)'
<1>1. \A m \in DOMAIN txns : m \in DOMAIN txns' /\ txns'[m] = txns[m]
  BY DEF Grows
<1>2. \A kinds : Completed(txns, kinds) \subseteq Completed(txns', kinds)
  BY <1>1 DEF Completed, Succeeded
<1>3. \A kinds, token : Of(txns, kinds, token) \subseteq Of(txns', kinds, token)
  BY <1>1 DEF Of
<1>4. \A kinds : Completed(txns, kinds) \subseteq DOMAIN txns
  BY DEF Completed, Succeeded
<1> QED BY <1>1, <1>2, <1>3, <1>4 DEF Known

LEMMA NothingAdded ==
  ASSUME txns \in Seq(Transaction), txns' = txns
  PROVE  Grows
BY DEF Grows

LEMMA OneAdded ==
  ASSUME txns \in Seq(Transaction), NEW t \in Transaction, txns' = Append(txns, t)
  PROVE  /\ Grows
         /\ DOMAIN txns' = DOMAIN txns \union {Len(txns) + 1}
         /\ txns'[Len(txns) + 1] = t
BY DEF Grows

LEMMA TwoAdded ==
  ASSUME txns \in Seq(Transaction), NEW t \in Transaction, NEW u \in Transaction,
         txns' = txns \o <<t, u>>
  PROVE  /\ Grows
         /\ DOMAIN txns' = DOMAIN txns \union {Len(txns) + 1, Len(txns) + 2}
         /\ txns'[Len(txns) + 1] = t
         /\ txns'[Len(txns) + 2] = u
BY DEF Grows

\* gateway_postprocess never makes a payment active.
LEMMA NeverRevived ==
  ASSUME NEW p, NEW t, Postprocessed(p, t).active
  PROVE  p.active
<1>1. \A status, captured : ~ Row(FALSE, FALSE, status, captured).active
  BY DEF Row
<1>2. \A confirm, status, captured : Row(p.active, confirm, status, captured).active = p.active
  BY DEF Row
<1> QED BY <1>1, <1>2 DEF Postprocessed, AfterCapture, AfterRefund, AfterCaptureFailed

\* Steps of staff: nothing is sent or delivered.
LEMMA StaffStep ==
  ASSUME IInv, UNCHANGED <<canceled, sent, delivered>>, payment'.active => payment.active,
         Grows, \A m \in DOMAIN txns' : m \in DOMAIN txns \/ TxnFrom(txns'[m]),
         session' \in [Sessions -> Session], asked' \in Nat, asked <= asked',
         requests' \subseteq Request,
         \A r \in requests' : r.ref \in 1 .. asked' /\ (r \in requests \/ r.ref > asked),
         \A q, r \in requests' : q.ref = r.ref => q = r
  PROVE  IInv'
<1>1. Types'
  BY DEF IInv, Types, Grows
<1>2. References'
  BY DEF IInv, Types, References
<1>3. Origins'
  BY DEF IInv, Origins, TxnFrom, Grows
<1>4. Remembered'
  BY KnownStays DEF IInv, Types, Remembered, Found
<1> QED BY <1>1, <1>2, <1>3, <1>4 DEF IInv

\* Steps of Adyen: it sends notification n.
LEMMA SendStep ==
  ASSUME IInv, UNCHANGED <<payment, txns, canceled, session, asked>>,
         NEW n \in Notification, sent' = Append(sent, n), delivered' = Append(delivered, 0),
         requests' \subseteq requests,
         n.event \in Certain => n.success,
         n.event = "CANCELLATION" => \E r \in requests \ requests' : r.ref = n.ref
  PROVE  IInv'
<1>1. /\ sent' \in Seq(Notification)
      /\ DOMAIN sent' = DOMAIN sent \union {Len(sent) + 1}
      /\ \A i \in DOMAIN sent : sent'[i] = sent[i]
      /\ sent'[Len(sent) + 1] = n
      /\ Len(sent) + 1 \notin DOMAIN sent
  BY DEF IInv, Types
<1>2. /\ delivered' \in [DOMAIN sent' -> Nat]
      /\ \A i \in DOMAIN sent : delivered'[i] = delivered[i]
      /\ delivered'[Len(sent) + 1] = 0
  <2>1. delivered \in Seq(Nat) /\ DOMAIN delivered = DOMAIN sent
    <3>1. DOMAIN sent = 1 .. Len(sent) /\ Len(sent) \in Nat
      BY DEF IInv, Types
    <3>2. delivered \in [1 .. Len(sent) -> Nat]
      BY <3>1 DEF IInv, Types
    <3> QED BY <3>1, <3>2
  <2>2. Len(delivered) = Len(sent) /\ Len(sent) \in Nat
    BY <2>1 DEF IInv, Types
  <2>3. /\ delivered' \in Seq(Nat)
        /\ Len(delivered') = Len(sent) + 1
        /\ \A i \in 1 .. Len(delivered) : delivered'[i] = delivered[i]
        /\ delivered'[Len(sent) + 1] = 0
    BY <2>1, <2>2, AppendProperties
  <2>4. /\ DOMAIN delivered' = DOMAIN sent'
        /\ \A i \in DOMAIN delivered' : delivered'[i] \in Nat
    BY <1>1, <2>2, <2>3
  <2>5. delivered' \in [1 .. Len(delivered') -> Nat]
    BY <2>3, LenProperties
  <2>6. DOMAIN sent' = 1 .. Len(delivered') /\ DOMAIN sent = 1 .. Len(delivered)
    BY <2>1, <2>3, <2>4
  <2> QED BY <2>1, <2>2, <2>3, <2>5, <2>6
<1>3. Types'
  BY <1>1, <1>2 DEF IInv, Types
<1>4. References'
  BY <1>1 DEF IInv, Types, References, Certain
<1>5. Origins'
  BY <1>1 DEF IInv, Origins, TxnFrom
<1>6. Remembered'
  <2>1. \A i \in DOMAIN sent : Known(sent[i]) => Known(sent[i])'
    BY <1>1, KnownStays, NothingAdded DEF IInv, Types
  <2> QED BY <1>1, <1>2, <2>1 DEF IInv, Remembered, Found
<1> QED BY <1>3, <1>4, <1>5, <1>6 DEF IInv

-----------------------------------------------------------------------------
(* The handlers.                                                           *)

LEMMA TxnFields ==
  ASSUME NEW kind \in TransactionKind, NEW success \in BOOLEAN, NEW token \in Nat,
         NEW amount \in Nat, NEW t, t = Txn(kind, success, token, amount)
  PROVE  /\ t \in Transaction
         /\ t.kind = kind /\ t.success = success /\ t.token = token /\ ~ t.action
BY DEF Txn, Transaction

LEMMA NoteFields ==
  ASSUME NEW n \in Notification
  PROVE  n.event \in Event /\ n.success \in BOOLEAN /\ n.ref \in Nat /\ n.amount \in Nat
BY DEF Notification

\* All that a handler may do to the tables.
Adds ==
  /\ Grows
  /\ \A m \in DOMAIN txns' : m \in DOMAIN txns \/ TxnFrom(txns'[m])
  /\ payment'.active => payment.active

LEMMA RecordedAdds ==
  ASSUME IInv, NEW t \in Transaction, TxnFrom(t), Recorded(t)
  PROVE  Adds /\ \E m \in DOMAIN txns' : txns'[m] = t
<1>1. Grows /\ \A m \in DOMAIN txns' : m \in DOMAIN txns \/ txns'[m] = t
  BY OneAdded DEF IInv, Types, Recorded
<1>2. \E m \in DOMAIN txns' : txns'[m] = t
  BY OneAdded DEF IInv, Types, Recorded
<1>3. payment'.active => payment.active
  BY NeverRevived DEF Recorded
<1> QED BY <1>1, <1>2, <1>3 DEF Adds

LEMMA IgnoredAdds ==
  ASSUME IInv, Ignored
  PROVE  Adds
BY NothingAdded DEF IInv, Types, Ignored, Adds

\* A handler that books a transaction of its kind will know it.
LEMMA BookedKnown ==
  ASSUME IInv, NEW n \in Notification, NEW kind \in TransactionKind,
         LET t == Txn(kind, n.success, n.ref, n.amount)
         IN  TxnFrom(t) /\ Recorded(t)
  PROVE  /\ Adds
         /\ \E m \in Of(txns', {kind}, n.ref) :
              txns'[m].success = n.success /\ ~ txns'[m].action
<1> DEFINE t == Txn(kind, n.success, n.ref, n.amount)
<1>1. /\ t \in Transaction
      /\ t.kind = kind /\ t.success = n.success /\ t.token = n.ref /\ ~ t.action
  BY TxnFields, NoteFields
<1> HIDE DEF t
<1>2. TxnFrom(t) /\ Recorded(t)
  BY DEF t
<1> QED BY <1>1, <1>2, RecordedAdds DEF Of

\* Kinds that no handler looks for by their success.
LEMMA PlainTxn ==
  ASSUME NEW t, t.kind \notin {"capture_failed", "pending", "cancel"}
  PROVE  TxnFrom(t)
BY DEF TxnFrom

LEMMA AuthorizationAdds ==
  ASSUME IInv, NEW n \in Notification, n.event = "AUTHORISATION", HandleAuthorization(n)
  PROVE  Adds /\ canceled' = canceled /\ (n.success => Known(n)')
<1> DEFINE kind == IF autoCapture THEN "capture" ELSE "auth"
<1>1. CASE \E m \in Completed(txns, {"auth", "capture"}) : txns[m].token = n.ref
  BY <1>1, IgnoredAdds, KnownStays DEF HandleAuthorization, Ignored, Known, Adds, IInv, Types
<1>2. CASE Booked(Txn(kind, n.success, n.ref, n.amount))
  <2>1. kind \in {"capture", "auth"} /\ kind \in TransactionKind
    BY DEF TransactionKind
  <2> HIDE DEF kind
  <2>2. TxnFrom(Txn(kind, n.success, n.ref, n.amount))
    BY <2>1, PlainTxn DEF Txn
  <2>3. Adds /\ \E m \in Of(txns', {kind}, n.ref) :
                  txns'[m].success = n.success /\ ~ txns'[m].action
    BY <1>2, <2>1, <2>2, BookedKnown DEF Booked
  <2> QED BY <1>2, <2>1, <2>3 DEF Booked, Of, Known, Completed, Succeeded
<1> QED BY <1>1, <1>2 DEF HandleAuthorization

LEMMA CaptureAdds ==
  ASSUME IInv, NEW n \in Notification, n.event = "CAPTURE", HandleCapture(n)
  PROVE  Adds /\ canceled' = canceled /\ (n.success => Known(n)')
<1> DEFINE t == Txn("capture", n.success, n.ref, n.amount)
<1>0. "capture" \in TransactionKind
  BY DEF TransactionKind
<1>1. t \in Transaction /\ TxnFrom(t)
  BY <1>0, TxnFields, NoteFields, PlainTxn
<1>2. CASE Booked(t)
  <2>1. Adds /\ \E m \in Of(txns', {"capture"}, n.ref) :
                  txns'[m].success = n.success /\ ~ txns'[m].action
    BY <1>0, <1>1, <1>2, BookedKnown DEF Booked
  <2> QED BY <1>2, <2>1 DEF Booked, Of, Known, Completed, Succeeded
<1>3. CASE /\ Completed(txns, {"capture"}) # {}
           /\ txns' = Append(txns, t)
           /\ UNCHANGED <<payment, canceled>>
  <2> HIDE DEF t
  <2>1. Grows /\ \A m \in DOMAIN txns' : m \in DOMAIN txns \/ txns'[m] = t
    BY <1>1, <1>3, OneAdded DEF IInv, Types
  <2>2. Known(n)
    BY <1>3 DEF Known
  <2> QED BY <1>1, <1>3, <2>1, <2>2, KnownStays DEF Adds, IInv, Types
<1> QED BY <1>2, <1>3 DEF HandleCapture

\* The kind of transaction under which HandleOnce looks for and books n.
OnceKind(n) == CASE n.event = "CAPTURE_FAILED" -> "capture_failed"
                 [] n.event = "PENDING" -> "pending"
                 [] n.event = "REFUND" -> "refund"

LEMMA OnceAdds ==
  ASSUME IInv, NEW n \in Notification, n.event \in {"CAPTURE_FAILED", "PENDING", "REFUND"},
         n.event \in Certain => n.success, HandleOnce(OnceKind(n), n)
  PROVE  Adds /\ canceled' = canceled /\ (n.success => Known(n)')
<1> DEFINE kind == OnceKind(n)
<1>1. /\ kind \in TransactionKind /\ kind # "cancel"
      /\ kind \in {"capture_failed", "pending"} => n.success
      /\ Known(n) <=> Of(txns, {kind}, n.ref) # {}
      /\ Known(n)' <=> Of(txns', {kind}, n.ref) # {}
  BY DEF OnceKind, TransactionKind, Certain, Known
<1> HIDE DEF kind
<1>2. CASE SeenAsSuccess(txns, kind, n.ref)
  <2>1. Known(n)
    BY <1>1, <1>2 DEF SeenAsSuccess
  <2> QED BY <1>2, <2>1, IgnoredAdds, KnownStays DEF HandleOnce, Ignored, Adds, IInv, Types, kind
<1>3. CASE Booked(Txn(kind, n.success, n.ref, n.amount))
  <2>1. TxnFrom(Txn(kind, n.success, n.ref, n.amount))
    BY <1>1, TxnFields, NoteFields DEF TxnFrom
  <2> QED BY <1>1, <1>3, <2>1, BookedKnown DEF Booked
<1> QED BY <1>2, <1>3 DEF HandleOnce, kind

LEMMA ReversedRefundAdds ==
  ASSUME IInv, NEW n \in Notification, n.event = "REFUNDED_REVERSED", HandleReversedRefund(n)
  PROVE  Adds /\ canceled' = canceled /\ (n.success => Known(n)')
<1>1. CASE Of(txns, {"refund_reversed"}, n.ref) # {}
  <2>1. Known(n)
    BY <1>1 DEF Known
  <2> QED BY <1>1, <2>1, IgnoredAdds, KnownStays
          DEF HandleReversedRefund, Ignored, Adds, IInv, Types
<1>2. CASE Booked(Txn("refund_reversed", n.success, n.ref, n.amount))
  <2>1. "refund_reversed" \in TransactionKind
    BY DEF TransactionKind
  <2>2. TxnFrom(Txn("refund_reversed", n.success, n.ref, n.amount))
    BY PlainTxn DEF Txn
  <2> QED BY <1>2, <2>1, <2>2, BookedKnown DEF Booked, Known
<1> QED BY <1>1, <1>2 DEF HandleReversedRefund

LEMMA FailedRefundAdds ==
  ASSUME IInv, NEW n \in Notification, n.event = "REFUND_FAILED", HandleFailedRefund(n)
  PROVE  Adds /\ canceled' = canceled /\ (n.success => Known(n)')
<1>1. Known(n)'
  BY DEF Known
<1>2. CASE Ignored
  BY <1>1, <1>2, IgnoredAdds DEF Ignored
<1>3. CASE ~ Ignored
  <2> DEFINE known == Of(txns, {"refund_ongoing", "refund", "refund_failed"}, n.ref)
             last  == Completed(txns, {"auth", "capture"})
             given == IF last = {} THEN "capture" ELSE Last(txns, last).kind
             failed == Txn("refund_failed", n.success, n.ref, n.amount)
             undone == IF Last(txns, known).kind = "refund"
                         THEN Txn("capture", n.success, n.ref, n.amount)
                         ELSE Txn(given, n.success, n.ref, 0)
  <2>1. /\ txns' = txns \o <<failed, undone>>
        /\ payment' = Postprocessed(payment, undone)
        /\ canceled' = canceled
    BY <1>3 DEF HandleFailedRefund
  <2>2. given \in {"auth", "capture"}
    <3>1. last \in SUBSET DOMAIN txns /\ \A m \in last : txns[m].kind \in {"auth", "capture"}
      BY DEF Completed, Succeeded
    <3> HIDE DEF last
    <3> QED BY <3>1, LastIsOne DEF IInv, Types
  <2> HIDE DEF given, known
  <2>3. PICK kind \in {"auth", "capture"}, amount \in {0, n.amount} :
          undone = Txn(kind, n.success, n.ref, amount)
    BY <2>2
  <2>4. failed \in Transaction /\ undone \in Transaction /\ TxnFrom(failed) /\ TxnFrom(undone)
    <3>1. "refund_failed" \in TransactionKind /\ kind \in TransactionKind
      BY DEF TransactionKind
    <3>2. amount \in Nat
      BY NoteFields
    <3> HIDE DEF undone
    <3>3. failed \in Transaction /\ failed.kind = "refund_failed"
      BY <3>1, TxnFields, NoteFields
    <3>4. TxnFrom(failed)
      BY <3>3, PlainTxn
    <3>5. Txn(kind, n.success, n.ref, amount) \in Transaction
          /\ TxnFrom(Txn(kind, n.success, n.ref, amount))
      BY <3>1, <3>2, TxnFields, NoteFields, PlainTxn
    <3> QED BY <2>3, <3>3, <3>4, <3>5
  <2> HIDE DEF failed, undone
  <2>5. Grows /\ \A m \in DOMAIN txns' : m \in DOMAIN txns \/ TxnFrom(txns'[m])
    BY <2>1, <2>4, TwoAdded DEF IInv, Types
  <2>6. payment'.active => payment.active
    BY <2>1, NeverRevived
  <2> QED BY <1>1, <2>1, <2>5, <2>6 DEF Adds
<1> QED BY <1>2, <1>3

LEMMA CancellationAdds ==
  ASSUME IInv, NEW i \in DOMAIN sent, NEW n \in Notification, n = sent[i],
         n.event = "CANCELLATION", HandleCancellation(n)
  PROVE  Adds /\ canceled' \in BOOLEAN /\ (n.success => Known(n)')
<1>1. CASE SeenAsSuccess(txns, "cancel", n.ref)
  <2>1. Known(n)
    BY <1>1 DEF SeenAsSuccess, Known
  <2> QED BY <1>1, <2>1, IgnoredAdds, KnownStays
          DEF HandleCancellation, Ignored, Adds, IInv, Types
<1>2. CASE Recorded(Txn("cancel", n.success, n.ref, n.amount))
  <2>1. "cancel" \in TransactionKind
    BY DEF TransactionKind
  <2>2. TxnFrom(Txn("cancel", n.success, n.ref, n.amount))
    BY <2>1, TxnFields, NoteFields DEF TxnFrom
  <2>3. Adds /\ Known(n)'
    BY <1>2, <2>1, <2>2, BookedKnown DEF Known
  <2>4. canceled' \in BOOLEAN
    BY NoteFields DEF HandleCancellation, Ignored, IInv, Types
  <2> QED BY <2>3, <2>4
<1> QED BY <1>1, <1>2 DEF HandleCancellation

LEMMA HandleAdds ==
  ASSUME IInv, NEW i \in DOMAIN sent, NEW n \in Notification, n = sent[i], Handle(n)
  PROVE  Adds /\ canceled' \in BOOLEAN /\ (n.success => Known(n)')
<1>1. canceled \in BOOLEAN
  BY DEF IInv, Types
<1>2. n.event \in Certain => n.success
  BY DEF IInv, References
<1>3. CASE n.event = "AUTHORISATION"
  BY <1>1, <1>3, AuthorizationAdds DEF Handle
<1>4. CASE n.event = "CAPTURE"
  BY <1>1, <1>4, CaptureAdds DEF Handle
<1>5. CASE n.event \in {"CAPTURE_FAILED", "PENDING", "REFUND"}
  <2>1. HandleOnce(OnceKind(n), n)
    BY <1>5 DEF Handle, OnceKind
  <2> QED BY <1>1, <1>2, <1>5, <2>1, OnceAdds
<1>6. CASE n.event = "REFUND_FAILED"
  BY <1>1, <1>6, FailedRefundAdds DEF Handle
<1>7. CASE n.event = "REFUNDED_REVERSED"
  BY <1>1, <1>7, ReversedRefundAdds DEF Handle
<1>8. CASE n.event = "CANCELLATION"
  BY <1>8, CancellationAdds DEF Handle
<1> QED BY <1>3, <1>4, <1>5, <1>6, <1>7, <1>8, NoteFields DEF Event

-----------------------------------------------------------------------------
(* Every step.                                                             *)

LEMMA DeliverStep ==
  ASSUME IInv, NEW i \in DOMAIN sent, Deliver(i)
  PROVE  IInv'
<1>1. PICK n \in Notification : n = sent[i]
  BY DEF IInv, Types
<1>2. UNCHANGED <<session, asked, requests, sent>>
  BY DEF Deliver, adyen
<1>3. delivered' = [delivered EXCEPT ![i] = @ + 1] /\ delivered' \in [DOMAIN sent -> Nat]
  BY DEF Deliver, IInv, Types
<1>4. /\ Adds /\ canceled' \in BOOLEAN
      /\ Found(n) /\ n.success => Known(n)'
  <2>1. CASE Found(n)
    BY <1>1, <2>1, HandleAdds DEF Deliver
  <2>2. CASE ~ Found(n)
    BY <1>1, <2>2, IgnoredAdds DEF Deliver, Ignored, IInv, Types
  <2> QED BY <2>1, <2>2
<1>5. Types'
  BY <1>2, <1>3, <1>4 DEF IInv, Types, Adds, Grows
<1>6. References'
  BY <1>2 DEF IInv, References
<1>7. Origins'
  BY <1>2, <1>4 DEF IInv, Origins, TxnFrom, Adds, Grows
<1>8. Remembered'
  <2>1. ASSUME NEW j \in DOMAIN sent, delivered'[j] > 0, sent[j].success, Found(sent[j])'
        PROVE  Known(sent[j])'
    <3>1. PICK k \in Notification : k = sent[j]
      BY DEF IInv, Types
    <3>2. Found(k)
      BY <1>2, <1>4, <2>1, <3>1 DEF Found, Adds
    <3>3. CASE j = i
      BY <1>1, <1>2, <1>4, <2>1, <3>1, <3>2, <3>3
    <3>4. CASE j # i
      <4>1. Known(k)
        BY <1>3, <2>1, <3>1, <3>2, <3>4 DEF IInv, Types, Remembered
      <4> QED BY <1>2, <1>4, <3>1, <4>1, KnownStays DEF IInv, Types, Adds
    <3> QED BY <3>3, <3>4
  <2> QED BY <1>2, <2>1 DEF Remembered
<1> QED BY <1>5, <1>6, <1>7, <1>8 DEF IInv

\* Asking Adyen for something, whether or not the request is remembered.
LEMMA AskStep ==
  ASSUME IInv, NEW c \in Sessions, Ask(c)
  PROVE  /\ session' \in [Sessions -> Session]
         /\ asked' \in Nat /\ asked < asked'
         /\ requests' \subseteq Request
         /\ \A r \in requests' : r.ref \in 1 .. asked' /\ (r \in requests \/ r.ref > asked)
         /\ \A q, r \in requests' : q.ref = r.ref => q = r
         /\ UNCHANGED <<canceled, sent, delivered>>
         /\ session[c].op \in Operation /\ session[c].amount \in Nat
<1>1. session[c].op \in Operation /\ session[c].amount \in Nat
  BY DEF IInv, Types, Session, Idle, Ask, Amount
<1>2. PICK r \in Request :
        /\ r.ref = asked + 1
        /\ requests' = requests \union {r}
  <2> DEFINE r == [kind |-> session[c].op, ref |-> asked + 1, amount |-> session[c].amount]
  <2>1. r \in Request /\ r.ref = asked + 1
    BY <1>1 DEF IInv, Types, Request
  <2> QED BY <2>1 DEF Ask
<1>3. asked' = asked + 1 /\ asked \in Nat /\ requests \subseteq Request
  BY DEF Ask, IInv, Types
<1>4. session' \in [Sessions -> Session]
  BY DEF Ask, IInv, Types, Session
<1>5. \A q \in requests : q.ref \in 1 .. asked
  BY DEF IInv, References
<1>6. \A q, s \in requests : q.ref = s.ref => q = s
  BY DEF IInv, References
<1>7. \A q \in requests : q.ref # r.ref
  BY <1>2, <1>3, <1>5
<1>8. \A q, s \in requests' : q.ref = s.ref => q = s
  BY <1>2, <1>6, <1>7
<1>9. \A q \in requests' : q.ref \in 1 .. asked' /\ (q \in requests \/ q.ref > asked)
  BY <1>2, <1>3, <1>5
<1> QED BY <1>1, <1>2, <1>3, <1>4, <1>8, <1>9 DEF Ask

\* A transaction of such a kind, whatever came of it.
LEMMA PlainIsTxn ==
  ASSUME NEW kind \in TransactionKind \ {"capture_failed", "pending", "cancel"},
         NEW success \in BOOLEAN, NEW token \in Nat, NEW amount \in Nat
  PROVE  /\ Txn(kind, success, token, amount) \in Transaction
         /\ TxnFrom(Txn(kind, success, token, amount))
<1>1. /\ Txn(kind, success, token, amount) \in Transaction
      /\ Txn(kind, success, token, amount).kind = kind
  BY TxnFields
<1> QED BY <1>1, PlainTxn

LEMMA OperateStep ==
  ASSUME IInv, NEW c \in Sessions, Operate(c)
  PROVE  IInv'
<1>1. PICK kind \in TransactionKind \ {"capture_failed", "pending", "cancel"},
           success \in BOOLEAN, amount \in Nat :
             Recorded(Txn(kind, success, asked + 1, amount))
  <2>1. session[c].op \in Operation /\ session[c].amount \in Nat
    BY AskStep DEF Operate
  <2>2. KindOf(session[c].op) \in TransactionKind \ {"capture_failed", "pending", "cancel"}
    BY <2>1 DEF KindOf, Operation, TransactionKind
  <2> QED BY <2>1, <2>2 DEF Operate
<1>2. asked + 1 \in Nat
  BY DEF IInv, Types
<1>3. /\ Txn(kind, success, asked + 1, amount) \in Transaction
      /\ TxnFrom(Txn(kind, success, asked + 1, amount))
  BY <1>2, PlainIsTxn
<1>4. Adds
  BY <1>1, <1>3, RecordedAdds
<1> QED BY <1>4, AskStep, StaffStep DEF Operate, Adds, IInv, Types

LEMMA OperateFailedStep ==
  ASSUME IInv, NEW c \in Sessions, OperateFailed(c)
  PROVE  IInv'
<1> DEFINE op == session[c].op
           ids == Succeeded(txns, {IF op = "refund" THEN "capture" ELSE "auth"})
           past == Last(txns, ids)
           Attempt(success) == Txn(op, success, past.token, session[c].amount)
           t == Attempt(FALSE)
<1>1. op \in Operation /\ session[c].amount \in Nat
  BY DEF IInv, Types, Session, Idle, OperateFailed, Amount
<1>2. past.token \in Nat
  <2>1. ids # {}
    BY <1>1 DEF OperateFailed, MayRun, Operation
  <2>2. ids \in SUBSET DOMAIN txns
    BY DEF Succeeded
  <2> HIDE DEF ids
  <2>3. txns \in Seq(Transaction)
    BY DEF IInv, Types
  <2>4. PICK n \in ids : past = txns[n]
    BY <2>1, <2>2, <2>3, LastIsOne
  <2>5. past \in Transaction
    BY <2>2, <2>3, <2>4
  <2> QED BY <2>5 DEF Transaction
<1>3. Recorded(t) /\ asked' = asked + 1 /\ UNCHANGED <<canceled, requests, sent, delivered>>
  BY DEF OperateFailed, adyen
<1>4. session' \in [Sessions -> Session]
  BY DEF OperateFailed, IInv, Types, Session
<1>5. op \in TransactionKind \ {"capture_failed", "pending", "cancel"}
  BY <1>1 DEF Operation, TransactionKind
<1> HIDE DEF past, op
<1>6. t \in Transaction /\ TxnFrom(t)
  <2>1. \A success \in BOOLEAN : Attempt(success) \in Transaction /\ TxnFrom(Attempt(success))
    BY <1>1, <1>2, <1>5, PlainIsTxn
  <2> QED BY <2>1
<1> HIDE DEF t
<1>7. Adds
  BY <1>3, <1>6, RecordedAdds
<1>8. \A r \in requests' : r.ref \in 1 .. asked' /\ r \in requests
  BY <1>3 DEF IInv, Types, References
<1> QED BY <1>3, <1>4, <1>7, <1>8, StaffStep DEF Adds, IInv, Types, References

\* Steps that leave everything but the session alone.
LEMMA SessionStep ==
  ASSUME IInv, UNCHANGED <<payment, txns, canceled, asked, requests, sent, delivered>>,
         session' \in [Sessions -> Session]
  PROVE  IInv'
BY StaffStep, NothingAdded DEF IInv, Types, References

LEMMA StaffKeepsIInv ==
  ASSUME IInv, NEW c \in Sessions, Staff(c)
  PROVE  IInv'
<1>1. CASE \E op \in Operation, amount \in Amount : Read(c, op, amount)
  <2>1. session' \in [Sessions -> Session]
    BY <1>1 DEF Read, IInv, Types, Session
  <2> QED BY <1>1, <2>1, SessionStep DEF Read, shop, adyen
<1>2. CASE Operate(c)
  BY <1>2, OperateStep
<1>3. CASE LoseCommit(c)
  BY <1>3, AskStep, StaffStep, NothingAdded DEF LoseCommit, IInv, Types
<1>4. CASE OperateFailed(c)
  BY <1>4, OperateFailedStep
<1>5. CASE Refuse(c)
  <2>1. session' \in [Sessions -> Session]
    BY <1>5 DEF Refuse, IInv, Types, Session
  <2> QED BY <1>5, <2>1, SessionStep DEF Refuse, shop, adyen
<1> QED BY <1>1, <1>2, <1>3, <1>4, <1>5 DEF Staff

LEMMA NoteIsOne ==
  ASSUME NEW event \in Event, NEW success \in BOOLEAN, NEW ref \in Nat, NEW amount \in Nat
  PROVE  /\ Note(event, success, ref, amount) \in Notification
         /\ Note(event, success, ref, amount).event = event
         /\ Note(event, success, ref, amount).success = success
         /\ Note(event, success, ref, amount).ref = ref
BY DEF Note, Notification

\* Adyen sends something that is not about a cancellation, and never a failure of
\* what only comes of a success.
LEMMA OtherNotice ==
  ASSUME IInv, UNCHANGED <<payment, txns, canceled, session, asked>>,
         requests' \subseteq requests,
         NEW event \in Event \ {"CANCELLATION"}, NEW success \in BOOLEAN,
         NEW ref \in Nat, NEW amount \in Nat,
         event \in Certain => success, Notify(event, success, ref, amount)
  PROVE  IInv'
<1>1. PICK n \in Notification :
        /\ n.event = event /\ n.success = success
        /\ sent' = Append(sent, n) /\ delivered' = Append(delivered, 0)
  BY NoteIsOne DEF Notify
<1> QED BY <1>1, SendStep

\* It sends what became of request r to void.
LEMMA VoidNotice ==
  ASSUME IInv, UNCHANGED <<payment, txns, canceled, session, asked>>,
         NEW r \in requests, requests' = requests \ {r},
         NEW success \in BOOLEAN, Notify("CANCELLATION", success, r.ref, r.amount)
  PROVE  IInv'
<1>1. r.ref \in Nat /\ r.amount \in Nat /\ "CANCELLATION" \in Event
  BY DEF IInv, Types, Request, Event
<1>2. PICK n \in Notification :
        /\ n.event = "CANCELLATION" /\ n.ref = r.ref
        /\ sent' = Append(sent, n) /\ delivered' = Append(delivered, 0)
  BY <1>1, NoteIsOne DEF Notify
<1>3. n.event \notin Certain
  BY <1>2 DEF Certain
<1>4. \E q \in requests \ requests' : q.ref = n.ref
  BY <1>2
<1> QED BY <1>2, <1>3, <1>4, SendStep

LEMMA AdyenKeepsIInv ==
  ASSUME IInv, Adyen
  PROVE  IInv'
<1>1. \A r \in requests : r.kind \in Operation /\ r.ref \in Nat /\ r.amount \in Nat
  BY DEF IInv, Types, Request
<1>2. ASSUME NEW success \in BOOLEAN, Authorise(success)
      PROVE  IInv'
  <2>1. "AUTHORISATION" \in Event \ {"CANCELLATION"} /\ "AUTHORISATION" \notin Certain
    BY DEF Event, Certain
  <2>2. Total \in Nat /\ 0 \in Nat
    OBVIOUS
  <2> QED BY <1>2, <2>1, <2>2, OtherNotice DEF Authorise, shop
<1>3. ASSUME NEW r \in requests, CarryOut(r)
      PROVE  IInv'
  <2>1. /\ UNCHANGED <<payment, txns, canceled, session, asked>>
        /\ requests' = requests \ {r}
    BY <1>3 DEF CarryOut, shop
  <2>2. CASE Notify("CAPTURE", TRUE, r.ref, r.amount)
    <3>1. "CAPTURE" \in Event \ {"CANCELLATION"}
      BY DEF Event
    <3> QED BY <1>1, <2>1, <2>2, <3>1, OtherNotice
  <2>3. CASE Notify("REFUND", TRUE, r.ref, r.amount)
    <3>1. "REFUND" \in Event \ {"CANCELLATION"}
      BY DEF Event
    <3> QED BY <1>1, <2>1, <2>3, <3>1, OtherNotice
  <2>4. CASE Notify("CANCELLATION", TRUE, r.ref, r.amount)
    BY <2>1, <2>4, VoidNotice
  <2> QED BY <1>3, <2>2, <2>3, <2>4 DEF CarryOut
<1>4. ASSUME NEW r \in requests, TurnDown(r)
      PROVE  IInv'
  <2>1. /\ UNCHANGED <<payment, txns, canceled, session, asked>>
        /\ requests' = requests \ {r}
    BY <1>4 DEF TurnDown, shop
  <2>2. CASE Notify("CANCELLATION", FALSE, r.ref, r.amount)
    BY <2>1, <2>2, VoidNotice
  <2>3. ASSUME NEW event \in {"CAPTURE", "REFUND"}, Notify(event, FALSE, r.ref, r.amount)
        PROVE  IInv'
    <3>1. event \in Event \ {"CANCELLATION"} /\ event \notin Certain
      BY DEF Event, Certain
    <3> QED BY <1>1, <2>1, <2>3, <3>1, OtherNotice
  <2> QED BY <1>1, <1>4, <2>2, <2>3 DEF TurnDown, Operation
<1>5. ASSUME NEW n \in DOMAIN sent, Fail(n)
      PROVE  IInv'
  <2>1. /\ UNCHANGED <<payment, txns, canceled, session, asked>>
        /\ requests' \subseteq requests
    BY <1>5 DEF Fail, shop
  <2>2. PICK s \in Notification : s = sent[n]
    BY DEF IInv, Types
  <2>3. PICK event \in {"CAPTURE_FAILED", "REFUND_FAILED", "REFUNDED_REVERSED"} :
          Notify(event, TRUE, s.ref, s.amount)
    BY <1>5, <2>2 DEF Fail
  <2>4. event \in Event \ {"CANCELLATION"}
    BY DEF Event
  <2>5. s.ref \in Nat /\ s.amount \in Nat
    BY NoteFields
  <2> QED BY <2>1, <2>3, <2>4, <2>5, OtherNotice
<1> QED BY <1>2, <1>3, <1>4, <1>5 DEF Adyen

LEMMA StepIInv == IInv /\ [Next]_vars => IInv'
<1> SUFFICES ASSUME IInv, [Next]_vars PROVE IInv'
  OBVIOUS
<1>1. CASE Next
  BY <1>1, StaffKeepsIInv, AdyenKeepsIInv, DeliverStep DEF Next
<1>2. CASE UNCHANGED vars
  <2>1. UNCHANGED <<payment, txns, canceled, asked, requests, sent, delivered, session>>
    BY <1>2 DEF vars, shop, adyen
  <2> QED BY <2>1, SessionStep DEF IInv, Types
<1> QED BY <1>1, <1>2

THEOREM Invariance == Spec => []IInv
BY InitIInv, StepIInv, PTL DEF Spec

\* Nothing revives a payment that was voided or fully refunded, and its amount
\* is final: captures, reversals and failed refunds are not booked on it.
THEOREM InactiveStaysFrozen == Spec => InactiveIsFrozen
<1>1. IInv /\ [Next]_vars =>
        [~ payment.active => ~ payment'.active /\ payment'.captured = payment.captured]_vars
  BY FrozenStep DEF IInv
<1> QED BY <1>1, Invariance, PTL DEF Spec, InactiveIsFrozen

-----------------------------------------------------------------------------
(* Notifications that come again.                                          *)

LEMMA FailureLeavesPayment ==
  ASSUME NEW kind, NEW success, ~ success, NEW token, NEW amount,
         Recorded(Txn(kind, success, token, amount))
  PROVE  payment' = payment
BY FailureChangesNothing DEF Recorded, Txn

\* Of a notification of a failure nothing changes, the first time or later.
LEMMA FailureStep ==
  ASSUME IInv, NEW n \in Notification, ~ n.success, n.event # "REFUND_FAILED", Handle(n)
  PROVE  UNCHANGED <<payment, canceled>>
<1>1. CASE n.event = "AUTHORISATION"
  BY <1>1, FailureLeavesPayment DEF Handle, HandleAuthorization, Ignored, Booked
<1>2. CASE n.event = "CAPTURE"
  BY <1>2, FailureLeavesPayment DEF Handle, HandleCapture, Booked
<1>3. CASE n.event \in {"CAPTURE_FAILED", "PENDING", "REFUND"}
  <2>1. HandleOnce(OnceKind(n), n)
    BY <1>3 DEF Handle, OnceKind
  <2> QED BY <2>1, FailureLeavesPayment DEF HandleOnce, Ignored, Booked
<1>4. CASE n.event = "REFUNDED_REVERSED"
  BY <1>4, FailureLeavesPayment DEF Handle, HandleReversedRefund, Ignored, Booked
<1>5. CASE n.event = "CANCELLATION"
  <2>1. HandleCancellation(n) /\ canceled \in BOOLEAN
    BY <1>5 DEF Handle, IInv, Types
  <2>2. payment' = payment
    BY <2>1, FailureLeavesPayment DEF HandleCancellation, Ignored
  <2>3. canceled' = canceled
    BY <2>1 DEF HandleCancellation, Ignored
  <2> QED BY <2>2, <2>3
<1> QED BY <1>1, <1>2, <1>3, <1>4, <1>5, NoteFields DEF Event

\* Nor of one of a success whose transaction is there, unless staff have failed
\* to refund under its reference.
LEMMA KnownStep ==
  ASSUME IInv, NEW i \in DOMAIN sent, NEW n \in Notification, n = sent[i],
         n.success, Known(n), n.event # "REFUND_FAILED",
         ~ (n.event = "REFUND" /\ AttemptUnder(n.ref)), Handle(n)
  PROVE  UNCHANGED <<payment, canceled>>
<1>1. CASE n.event = "AUTHORISATION"
  BY <1>1 DEF Handle, HandleAuthorization, Ignored, Known
<1>2. CASE n.event = "CAPTURE"
  BY <1>2 DEF Handle, HandleCapture, Known
<1>3. CASE n.event \in {"CAPTURE_FAILED", "PENDING", "REFUND"}
  <2> DEFINE kind == OnceKind(n)
  <2>1. HandleOnce(kind, n) /\ Of(txns, {kind}, n.ref) # {}
    BY <1>3 DEF Handle, OnceKind, Known
  <2>2. \A m \in Of(txns, {kind}, n.ref) : txns[m].success
    <3>1. CASE n.event = "REFUND"
      BY <3>1 DEF OnceKind, AttemptUnder
    <3>2. CASE n.event # "REFUND"
      <4>1. kind \in {"capture_failed", "pending"}
        BY <1>3, <3>2 DEF OnceKind
      <4> HIDE DEF kind
      <4> QED BY <4>1 DEF Of, IInv, Origins, TxnFrom
    <3> QED BY <3>1, <3>2
  <2> HIDE DEF kind
  <2>3. SeenAsSuccess(txns, kind, n.ref)
    BY <2>1, <2>2, AllSucceeded DEF IInv, Types
  <2> QED BY <2>1, <2>3 DEF HandleOnce, Ignored
<1>4. CASE n.event = "REFUNDED_REVERSED"
  BY <1>4 DEF Handle, HandleReversedRefund, Ignored, Known
<1>5. CASE n.event = "CANCELLATION"
  <2>1. HandleCancellation(n) /\ Of(txns, {"cancel"}, n.ref) # {}
    BY <1>5 DEF Handle, Known
  <2>2. ASSUME NEW m \in Of(txns, {"cancel"}, n.ref)
        PROVE  txns[m].success
    <3>1. PICK j \in DOMAIN sent : /\ sent[j].event = "CANCELLATION"
                                   /\ sent[j].ref = n.ref
                                   /\ sent[j].success = txns[m].success
      BY <2>2 DEF Of, IInv, Origins, TxnFrom
    <3>2. sent[j].success = sent[i].success
      BY <1>5, <3>1 DEF IInv, References
    <3> QED BY <3>1, <3>2
  <2>3. SeenAsSuccess(txns, "cancel", n.ref)
    BY <2>1, <2>2, AllSucceeded DEF IInv, Types
  <2> QED BY <2>1, <2>3 DEF HandleCancellation, Ignored
<1> QED BY <1>1, <1>2, <1>3, <1>4, <1>5, NoteFields DEF Event

LEMMA RepeatStep ==
  ASSUME IInv, NEW i \in DOMAIN sent, delivered[i] > 0, Deliver(i), ~ OutOfTurn(i),
         ~ (sent[i].event = "REFUND" /\ AttemptUnder(sent[i].ref))
  PROVE  UNCHANGED <<payment, canceled>>
<1>1. PICK n \in Notification : n = sent[i]
  BY DEF IInv, Types
<1>2. n.event # "REFUND_FAILED"
  BY <1>1 DEF OutOfTurn
<1>3. CASE ~ Found(n)
  BY <1>1, <1>3 DEF Deliver, Ignored
<1>4. CASE Found(n) /\ ~ n.success
  BY <1>1, <1>2, <1>4, FailureStep DEF Deliver
<1>5. CASE Found(n) /\ n.success
  <2>1. Known(n)
    BY <1>1, <1>5 DEF IInv, Remembered
  <2> QED BY <1>1, <1>2, <1>5, <2>1, KnownStep DEF Deliver
<1> QED BY <1>3, <1>4, <1>5

\* Adyen may send each notification as often as it likes: beyond the two cases
\* that RepeatsChangeNothing excepts, handling one twice is handling it once.
THEOREM RepeatsAreIgnored == Spec => RepeatsChangeNothing
<1>1. IInv /\ [Next]_vars =>
        [\A i \in DOMAIN sent :
             /\ delivered[i] > 0
             /\ Deliver(i)
             /\ ~ OutOfTurn(i)
             /\ ~ (sent[i].event = "REFUND" /\ AttemptUnder(sent[i].ref))
           => UNCHANGED <<payment, canceled>>]_vars
  BY RepeatStep
<1> QED BY <1>1, Invariance, PTL DEF Spec, RepeatsChangeNothing

-----------------------------------------------------------------------------
(* What Adyen's notifications say of each other and of the requests.       *)

Decision == {"CAPTURE", "REFUND", "CANCELLATION"}
Unasked == {"AUTHORISATION", "PENDING"}

\* What an undoing notification undoes.
Undone(event) == IF event = "CAPTURE_FAILED" THEN "CAPTURE" ELSE "REFUND"

\* Whose reference a notification bears.
Referring ==
  \A i \in DOMAIN sent : IF sent[i].event \in Unasked THEN sent[i].ref = 0
                                                      ELSE sent[i].ref \in 1 .. asked

\* Adyen decides once on a request, and each decision is undone once at most.
OneEach ==
  \A i, j \in DOMAIN sent :
    /\ sent[i].ref = sent[j].ref
    /\ \/ sent[i].event = sent[j].event
       \/ sent[i].event \in Decision /\ sent[j].event \in Decision
       \/ sent[i].event \in Undoing /\ sent[j].event \in Undoing
    => i = j

Decided ==
  \A i \in DOMAIN sent, r \in requests : sent[i].event \in Decision => sent[i].ref # r.ref

UndoesOne(n) ==
  /\ n.success
  /\ \E j \in DOMAIN sent : /\ sent[j].event = Undone(n.event) /\ sent[j].success
                            /\ sent[j].ref = n.ref /\ sent[j].amount = n.amount

Undoes == \A i \in DOMAIN sent : sent[i].event \in Undoing => UndoesOne(sent[i])

Notices == Referring /\ OneEach /\ Decided /\ Undoes

LEMMA InitNotices == Init => Notices
<1> SUFFICES ASSUME Init PROVE Notices
  OBVIOUS
<1>1. PICK event \in Unasked : sent = <<Note(event, TRUE, 0, Total)>>
  BY DEF Init, Unasked
<1>2. \A i \in DOMAIN sent : i = 1 /\ sent[i].event = event /\ sent[i].ref = 0
  BY <1>1 DEF Note
<1>3. event \notin Decision /\ event \notin Undoing
  BY DEF Unasked, Decision, Undoing
<1> QED BY <1>2, <1>3 DEF Notices, Referring, OneEach, Decided, Undoes

\* Nothing is sent, and a new request gets a new reference.
LEMMA QuietNotices ==
  ASSUME Types, Notices, sent' = sent, asked' \in Nat, asked <= asked',
         \A r \in requests' : r \in requests \/ r.ref > asked
  PROVE  Notices'
<1>1. Referring'
  BY DEF Types, Notices, Referring
<1>2. OneEach'
  BY DEF Notices, OneEach
<1>3. Decided'
  <2>1. \A i \in DOMAIN sent : sent[i].event \in Decision => sent[i].ref \in 1 .. asked
    BY DEF Notices, Referring, Decision, Unasked
  <2> QED BY <2>1 DEF Types, Notices, Decided
<1>4. Undoes'
  BY DEF Notices, Undoes, UndoesOne
<1> QED BY <1>1, <1>2, <1>3, <1>4 DEF Notices

\* Notification n is the last to be sent, and i is its number.
Sends(n, i) ==
  /\ i = Len(sent) + 1
  /\ sent' = Append(sent, n)
  /\ delivered' = Append(delivered, 0)

\* What may be told: once, of a request that is no longer pending or of one that
\* was granted.
MayTell(n) ==
  /\ IF n.event \in Unasked THEN n.ref = 0 ELSE n.ref \in 1 .. asked
  /\ \A j \in DOMAIN sent :
       sent[j].ref = n.ref =>
         /\ sent[j].event # n.event
         /\ ~ (sent[j].event \in Decision /\ n.event \in Decision)
         /\ ~ (sent[j].event \in Undoing /\ n.event \in Undoing)
  /\ n.event \in Decision => \A r \in requests' : r.ref # n.ref
  /\ n.event \in Undoing => UndoesOne(n)

\* What sending does to the two sequences.
Sent(n, i) ==
  /\ sent' \in Seq(Notification)
  /\ DOMAIN sent' = DOMAIN sent \union {i}
  /\ i \notin DOMAIN sent
  /\ \A j \in DOMAIN sent : sent'[j] = sent[j]
  /\ sent'[i] = n
  /\ \A j \in DOMAIN sent : delivered'[j] = delivered[j]
  /\ delivered'[i] = 0
  /\ Len(sent') = i /\ i \in Nat \ {0}

LEMMA SendsOne ==
  ASSUME Types, NEW n \in Notification, NEW i, Sends(n, i)
  PROVE  Sent(n, i)
<1>1. Len(sent) \in Nat /\ DOMAIN sent = 1 .. Len(sent)
  BY DEF Types
<1>2. delivered \in Seq(Nat) /\ Len(delivered) = Len(sent) /\ DOMAIN delivered = DOMAIN sent
  <2>1. delivered \in [1 .. Len(sent) -> Nat]
    BY <1>1 DEF Types
  <2> QED BY <1>1, <2>1
<1>3. /\ Len(delivered') = Len(sent) + 1
      /\ \A j \in 1 .. Len(delivered) : delivered'[j] = delivered[j]
      /\ delivered'[Len(sent) + 1] = 0
  BY <1>2, AppendProperties DEF Sends
<1>4. /\ sent' \in Seq(Notification)
      /\ Len(sent') = Len(sent) + 1
      /\ \A j \in 1 .. Len(sent) : sent'[j] = sent[j]
      /\ sent'[Len(sent) + 1] = n
  BY AppendProperties DEF Types, Sends
<1>5. DOMAIN sent' = DOMAIN sent \union {i} /\ i \notin DOMAIN sent
  BY <1>1, <1>4 DEF Sends
<1> QED BY <1>1, <1>2, <1>3, <1>4, <1>5 DEF Sends, Sent

LEMMA SendNotices ==
  ASSUME Types, Notices, NEW n \in Notification, NEW i, Sends(n, i), MayTell(n),
         UNCHANGED asked, requests' \subseteq requests
  PROVE  Notices'
<1>1. Sent(n, i)
  BY SendsOne
<1>2. Referring'
  BY <1>1 DEF Notices, Referring, Sent, MayTell
<1>3. OneEach'
  <2> SUFFICES ASSUME NEW j \in DOMAIN sent', NEW k \in DOMAIN sent',
                      sent'[j].ref = sent'[k].ref,
                      \/ sent'[j].event = sent'[k].event
                      \/ sent'[j].event \in Decision /\ sent'[k].event \in Decision
                      \/ sent'[j].event \in Undoing /\ sent'[k].event \in Undoing
               PROVE  j = k
    BY DEF OneEach, Decision, Undoing
  <2>1. CASE j \in DOMAIN sent /\ k \in DOMAIN sent
    BY <1>1, <2>1 DEF Notices, OneEach, Sent
  <2>2. CASE j = i /\ k \in DOMAIN sent
    BY <1>1, <2>2 DEF Sent, MayTell
  <2>3. CASE k = i /\ j \in DOMAIN sent
    BY <1>1, <2>3 DEF Sent, MayTell
  <2> QED BY <1>1, <2>1, <2>2, <2>3 DEF Sent
<1>4. Decided'
  BY <1>1 DEF Notices, Decided, Sent, MayTell
<1>5. Undoes'
  <2>1. \A m : UndoesOne(m) => UndoesOne(m)'
    BY <1>1 DEF UndoesOne, Sent
  <2> QED BY <1>1, <2>1 DEF Notices, Undoes, Sent, MayTell
<1> QED BY <1>2, <1>3, <1>4, <1>5 DEF Notices

\* The three things that Adyen tells of.
Authorising(n) ==
  /\ \A j \in DOMAIN sent : sent[j].event # "AUTHORISATION"
  /\ n.event = "AUTHORISATION" /\ n.ref = 0 /\ n.amount = Total
  /\ held' = IF n.success /\ autoCapture THEN Total ELSE held
  /\ open' = (n.success /\ ~ autoCapture)
  /\ requests' = requests

Deciding(n, r) ==
  /\ n.ref = r.ref /\ n.amount = r.amount
  /\ requests' = requests \ {r}
  /\ \/ /\ r.kind = "capture" /\ n.event = "CAPTURE"
        /\ IF n.success THEN open /\ ~ open' /\ held' = held + r.amount
                        ELSE UNCHANGED <<held, open>>
     \/ /\ r.kind = "refund" /\ n.event = "REFUND"
        /\ open' = open
        /\ IF n.success THEN r.amount <= held /\ held' = held - r.amount
                        ELSE held' = held
     \/ /\ r.kind = "void" /\ n.event = "CANCELLATION"
        /\ held' = held
        /\ IF n.success THEN open /\ ~ open' ELSE open' = open

Failing(n, k) ==
  /\ n.success /\ sent[k].success
  /\ n.ref = sent[k].ref /\ n.amount = sent[k].amount
  /\ \A j \in DOMAIN sent : sent[j].event \in Undoing => sent[j].ref # n.ref
  /\ UNCHANGED <<requests, open>>
  /\ \/ /\ sent[k].event = "CAPTURE" /\ n.event = "CAPTURE_FAILED"
        /\ n.amount <= held /\ held' = held - n.amount
     \/ /\ sent[k].event = "REFUND" /\ n.event \in {"REFUND_FAILED", "REFUNDED_REVERSED"}
        /\ held' = held + n.amount

\* A step in which Adyen sends n under number i.
Tells(n, i) ==
  /\ Sends(n, i)
  /\ UNCHANGED <<shop, session, asked>>
  /\ \/ Authorising(n)
     \/ \E r \in requests : Deciding(n, r)
     \/ \E k \in DOMAIN sent : Failing(n, k)

LEMMA AdyenTells ==
  ASSUME IInv, Adyen
  PROVE  \E n \in Notification : \E i : Tells(n, i)
<1>1. \A r \in requests : r.kind \in Operation /\ r.ref \in Nat /\ r.amount \in Nat
  BY DEF IInv, Types, Request
<1>2. ASSUME NEW success \in BOOLEAN, Authorise(success)
      PROVE  \E n \in Notification : \E i : Tells(n, i)
  <2>1. "AUTHORISATION" \in Event /\ Total \in Nat /\ 0 \in Nat
    BY DEF Event
  <2> DEFINE n == Note("AUTHORISATION", success, 0, Total)
  <2>2. /\ n \in Notification /\ Sends(n, Len(sent) + 1)
        /\ n.event = "AUTHORISATION" /\ n.success = success /\ n.ref = 0 /\ n.amount = Total
    <3>1. /\ n \in Notification
          /\ n.event = "AUTHORISATION" /\ n.success = success /\ n.ref = 0 /\ n.amount = Total
      BY <2>1 DEF Note, Notification
    <3>2. Sends(n, Len(sent) + 1)
      BY <1>2 DEF Authorise, Notify, Sends
    <3> QED BY <3>1, <3>2
  <2> HIDE DEF n
  <2>3. Authorising(n)
    BY <1>2, <2>2 DEF Authorise, Authorising
  <2> QED BY <1>2, <2>2, <2>3 DEF Authorise, Tells
<1>4. "CAPTURE" \in Event /\ "REFUND" \in Event /\ "CANCELLATION" \in Event
  BY DEF Event
<1>5. ASSUME NEW r \in requests, CarryOut(r)
      PROVE  \E n \in Notification : \E i : Tells(n, i)
  <2>1. requests' = requests \ {r} /\ UNCHANGED <<shop, session, asked>>
    BY <1>5 DEF CarryOut
  <2>2. CASE /\ r.kind = "capture" /\ open
             /\ held' = held + r.amount
             /\ open' = FALSE
             /\ Notify("CAPTURE", TRUE, r.ref, r.amount)
    <3> DEFINE n == Note("CAPTURE", TRUE, r.ref, r.amount)
    <3>1. /\ n \in Notification
          /\ n.event = "CAPTURE" /\ n.success /\ n.ref = r.ref /\ n.amount = r.amount
      BY <1>1, <1>4 DEF Note, Notification
    <3>2. Sends(n, Len(sent) + 1)
      BY <2>2 DEF Notify, Sends
    <3> HIDE DEF n
    <3>3. Deciding(n, r)
      BY <2>1, <2>2, <3>1 DEF Deciding
    <3> QED BY <2>1, <3>1, <3>2, <3>3 DEF Tells
  <2>3. CASE /\ r.kind = "refund" /\ r.amount <= held
             /\ held' = held - r.amount
             /\ Notify("REFUND", TRUE, r.ref, r.amount)
             /\ UNCHANGED open
    <3> DEFINE n == Note("REFUND", TRUE, r.ref, r.amount)
    <3>1. /\ n \in Notification
          /\ n.event = "REFUND" /\ n.success /\ n.ref = r.ref /\ n.amount = r.amount
      BY <1>1, <1>4 DEF Note, Notification
    <3>2. Sends(n, Len(sent) + 1)
      BY <2>3 DEF Notify, Sends
    <3> HIDE DEF n
    <3>3. Deciding(n, r)
      BY <2>1, <2>3, <3>1 DEF Deciding
    <3> QED BY <2>1, <3>1, <3>2, <3>3 DEF Tells
  <2>4. CASE /\ r.kind = "void" /\ open
             /\ open' = FALSE
             /\ Notify("CANCELLATION", TRUE, r.ref, r.amount)
             /\ UNCHANGED held
    <3> DEFINE n == Note("CANCELLATION", TRUE, r.ref, r.amount)
    <3>1. /\ n \in Notification
          /\ n.event = "CANCELLATION" /\ n.success /\ n.ref = r.ref /\ n.amount = r.amount
      BY <1>1, <1>4 DEF Note, Notification
    <3>2. Sends(n, Len(sent) + 1)
      BY <2>4 DEF Notify, Sends
    <3> HIDE DEF n
    <3>3. Deciding(n, r)
      BY <2>1, <2>4, <3>1 DEF Deciding
    <3> QED BY <2>1, <3>1, <3>2, <3>3 DEF Tells
  <2> QED BY <1>5, <2>2, <2>3, <2>4 DEF CarryOut
<1>6. ASSUME NEW r \in requests, TurnDown(r)
      PROVE  \E n \in Notification : \E i : Tells(n, i)
  <2>1. PICK event \in Decision :
          /\ Notify(event, FALSE, r.ref, r.amount)
          /\ event = CASE r.kind = "capture" -> "CAPTURE"
                       [] r.kind = "refund" -> "REFUND"
                       [] r.kind = "void" -> "CANCELLATION"
    BY <1>1, <1>6 DEF TurnDown, Decision, Operation
  <2> DEFINE n == Note(event, FALSE, r.ref, r.amount)
  <2>2. /\ n \in Notification /\ Sends(n, Len(sent) + 1)
        /\ n.event = event /\ ~ n.success /\ n.ref = r.ref /\ n.amount = r.amount
    <3>1. /\ n \in Notification
          /\ n.event = event /\ ~ n.success /\ n.ref = r.ref /\ n.amount = r.amount
      BY <1>1, <1>4 DEF Note, Notification, Decision
    <3>2. Sends(n, Len(sent) + 1)
      BY <2>1 DEF Notify, Sends
    <3> QED BY <3>1, <3>2
  <2> HIDE DEF n
  <2>3. requests' = requests \ {r} /\ UNCHANGED <<shop, session, asked, held, open>>
    BY <1>6 DEF TurnDown
  <2>4. Deciding(n, r)
    BY <1>1, <2>1, <2>2, <2>3 DEF Deciding, Operation
  <2> QED BY <2>2, <2>3, <2>4 DEF Tells
<1>7. ASSUME NEW k \in DOMAIN sent, Fail(k)
      PROVE  \E n \in Notification : \E i : Tells(n, i)
  <2>1. PICK s \in Notification : s = sent[k]
    BY DEF IInv, Types
  <2>2. PICK event \in Undoing :
          /\ Notify(event, TRUE, s.ref, s.amount)
          /\ \/ /\ s.event = "CAPTURE" /\ event = "CAPTURE_FAILED"
                /\ s.amount <= held /\ held' = held - s.amount
             \/ /\ s.event = "REFUND" /\ event # "CAPTURE_FAILED"
                /\ held' = held + s.amount
    BY <1>7, <2>1 DEF Fail, Undoing
  <2> DEFINE n == Note(event, TRUE, s.ref, s.amount)
  <2>3. /\ n \in Notification /\ Sends(n, Len(sent) + 1)
        /\ n.event = event /\ n.success /\ n.ref = s.ref /\ n.amount = s.amount
    <3>1. event \in Event /\ s.ref \in Nat /\ s.amount \in Nat
      BY NoteFields DEF Undoing, Event
    <3>2. /\ n \in Notification
          /\ n.event = event /\ n.success /\ n.ref = s.ref /\ n.amount = s.amount
      BY <3>1 DEF Note, Notification
    <3>3. Sends(n, Len(sent) + 1)
      BY <2>2 DEF Notify, Sends
    <3> QED BY <3>2, <3>3
  <2> HIDE DEF n
  <2>4. Failing(n, k)
    BY <1>7, <2>1, <2>2, <2>3 DEF Fail, Failing, Undoing
  <2> QED BY <1>7, <2>3, <2>4 DEF Fail, Tells
<1> QED BY <1>2, <1>5, <1>6, <1>7 DEF Adyen

LEMMA TellsMayTell ==
  ASSUME IInv, Notices, NEW n \in Notification, NEW i, Tells(n, i)
  PROVE  MayTell(n) /\ requests' \subseteq requests
<1>1. CASE Authorising(n)
  BY <1>1 DEF Authorising, MayTell, Unasked, Decision, Undoing
<1>2. ASSUME NEW r \in requests, Deciding(n, r)
      PROVE  MayTell(n) /\ requests' \subseteq requests
  <2>1. n.event \in Decision /\ n.event \notin Unasked /\ n.event \notin Undoing
    BY <1>2 DEF Deciding, Decision, Unasked, Undoing
  <2>2. n.ref \in 1 .. asked /\ \A q \in requests' : q.ref # n.ref
    BY <1>2 DEF Deciding, IInv, References
  <2>3. \A j \in DOMAIN sent : sent[j].ref = n.ref => sent[j].event \notin Decision
    BY <1>2 DEF Deciding, Notices, Decided
  <2> QED BY <1>2, <2>1, <2>2, <2>3 DEF Deciding, MayTell
<1>3. ASSUME NEW k \in DOMAIN sent, Failing(n, k)
      PROVE  MayTell(n) /\ requests' \subseteq requests
  <2>1. n.event \in Undoing /\ n.event \notin Unasked /\ n.event \notin Decision
    BY <1>3 DEF Failing, Decision, Unasked, Undoing
  <2>2. sent[k].event \notin Unasked
    BY <1>3 DEF Failing, Unasked
  <2>3. n.ref \in 1 .. asked
    BY <1>3, <2>2 DEF Failing, Notices, Referring
  <2>4. \A j \in DOMAIN sent : sent[j].ref = n.ref => sent[j].event \notin Undoing
    BY <1>3 DEF Failing
  <2>5. UndoesOne(n)
    <3>1. sent[k].event = Undone(n.event)
      BY <1>3 DEF Failing, Undone
    <3> QED BY <1>3, <3>1 DEF Failing, UndoesOne
  <2> QED BY <1>3, <2>1, <2>3, <2>4, <2>5 DEF Failing, MayTell
<1> QED BY <1>1, <1>2, <1>3 DEF Tells

\* What a step of staff does to the requests.
LEMMA StaffAsks ==
  ASSUME IInv, NEW c \in Sessions, Staff(c)
  PROVE  /\ asked' \in Nat /\ asked <= asked'
         /\ \A r \in requests' : r \in requests \/ r.ref > asked
         /\ UNCHANGED <<canceled, autoCapture, held, open, sent, delivered>>
<1>1. CASE Ask(c)
  <2>1. /\ asked' \in Nat /\ asked < asked' /\ asked \in Nat
        /\ \A r \in requests' : r \in requests \/ r.ref > asked
    BY <1>1, AskStep DEF IInv, Types
  <2>2. UNCHANGED <<canceled, autoCapture, held, open, sent, delivered>>
    BY <1>1 DEF Ask
  <2> QED BY <2>1, <2>2
<1>2. CASE OperateFailed(c)
  BY <1>2 DEF OperateFailed, adyen, IInv, Types
<1>3. CASE Refuse(c) \/ \E op \in Operation, amount \in Amount : Read(c, op, amount)
  BY <1>3 DEF Refuse, Read, shop, adyen, IInv, Types
<1> QED BY <1>1, <1>2, <1>3 DEF Staff, Operate, LoseCommit

LEMMA StepNotices ==
  ASSUME IInv, Notices, [Next]_vars
  PROVE  Notices'
<1>1. ASSUME NEW c \in Sessions, Staff(c)
      PROVE  Notices'
  BY <1>1, StaffAsks, QuietNotices DEF IInv
<1>2. CASE Adyen
  <2>0. PICK n \in Notification : \E j : Tells(n, j)
    BY <1>2, AdyenTells
  <2>1. PICK i : Tells(n, i)
    BY <2>0
  <2> QED BY <2>1, TellsMayTell, SendNotices DEF Tells, IInv
<1>3. ASSUME NEW i \in DOMAIN sent, Deliver(i)
      PROVE  Notices'
  BY <1>3, QuietNotices DEF Deliver, adyen, IInv, Types
<1>4. CASE UNCHANGED vars
  BY <1>4, QuietNotices DEF vars, adyen, IInv, Types
<1> QED BY <1>1, <1>2, <1>3, <1>4 DEF Next

-----------------------------------------------------------------------------
(* What the transactions say of the notifications.                         *)

Announced(event) == \E i \in DOMAIN sent : sent[i].event = event
Confirmed(event) == \E i \in DOMAIN sent : sent[i].event = event /\ sent[i].success
Heard(event, ref) ==
  \E i \in DOMAIN sent : sent[i].event = event /\ sent[i].ref = ref /\ delivered[i] > 0

Traced(t) ==
  /\ t.token \in 0 .. asked
  /\ ~ t.action
  /\ t.success /\ t.kind = "capture" /\ t.token = 0 => Announced("AUTHORISATION")
  /\ t.success /\ t.kind = "auth" => ~ autoCapture
  /\ t.kind = "capture_failed" => Heard("CAPTURE_FAILED", t.token)
  /\ t.success /\ t.kind = "refund" => Heard("REFUND", t.token)
  /\ t.kind = "refund_reversed" => Heard("REFUNDED_REVERSED", t.token)

Traces == \A m \in DOMAIN txns : Traced(txns[m])

LEMMA OnlyElement ==
  ASSUME NEW x
  PROVE  \A m \in DOMAIN <<x>> : <<x>>[m] = x
OBVIOUS

LEMMA InitTraces == Init => Traces
<1> SUFFICES ASSUME Init PROVE Traces
  OBVIOUS
<1>1. CASE /\ txns = <<Txn("pending", TRUE, 0, Total)>>
  <2>1. \A m \in DOMAIN txns : txns[m] = Txn("pending", TRUE, 0, Total)
    BY <1>1, OnlyElement
  <2>2. asked = 0
    BY DEF Init
  <2> QED BY <2>1, <2>2 DEF Traces, Traced, Txn
<1>2. ASSUME NEW kind, kind = IF autoCapture THEN "capture" ELSE "auth",
             txns = <<Txn(kind, TRUE, 0, Total)>>,
             sent = <<Note("AUTHORISATION", TRUE, 0, Total)>>
      PROVE  Traces
  <2>1. \A m \in DOMAIN txns : txns[m] = Txn(kind, TRUE, 0, Total)
    BY <1>2, OnlyElement
  <2>2. asked = 0
    BY DEF Init
  <2>3. Announced("AUTHORISATION")
    <3>1. 1 \in DOMAIN sent /\ sent[1].event = "AUTHORISATION"
      BY <1>2 DEF Note
    <3> QED BY <3>1 DEF Announced
  <2> HIDE <1>2
  <2>4. kind = "capture" \/ (kind = "auth" /\ ~ autoCapture)
    BY <1>2
  <2> QED BY <2>1, <2>2, <2>3, <2>4 DEF Traces, Traced, Txn
<1> QED BY <1>1, <1>2 DEF Init

\* Nothing that was announced or heard of is forgotten.
Forward ==
  /\ asked \in Nat /\ asked' \in Nat /\ asked <= asked'
  /\ autoCapture' = autoCapture
  /\ \A event : Announced(event) => Announced(event)'
  /\ \A event, ref : Heard(event, ref) => Heard(event, ref)'

LEMMA TracedStays ==
  ASSUME NEW t, Traced(t), Forward
  PROVE  Traced(t)'
<1>1. t.token \in 0 .. asked'
  BY DEF Traced, Forward
<1> QED BY <1>1 DEF Traced, Forward

LEMMA TracesGrow ==
  ASSUME Traces, Forward, Grows,
         \A m \in DOMAIN txns' : m \in DOMAIN txns \/ \E t : t = txns'[m] /\ Traced(t)'
  PROVE  Traces'
<1>1. ASSUME NEW m \in DOMAIN txns'
      PROVE  \E t : t = txns'[m] /\ Traced(t)'
  <2>1. CASE m \in DOMAIN txns
    <3>1. PICK t : t = txns[m]
      OBVIOUS
    <3>2. Traced(t)'
      BY <2>1, <3>1, TracedStays DEF Traces
    <3> QED BY <2>1, <3>1, <3>2 DEF Grows
  <2> QED BY <2>1
<1>2. \A m \in DOMAIN txns' : \E t : t = txns'[m] /\ Traced(t)'
  BY <1>1
<1> QED BY <1>2 DEF Traces

\* The transactions that a handler may add: they bear the reference of the
\* notification and succeed when it tells of a success.
OfKind(t, n, kind) ==
  t.kind = kind /\ t.success = n.success /\ t.token = n.ref /\ ~ t.action

KindsFor(n) ==
  CASE n.event = "AUTHORISATION" -> {IF autoCapture THEN "capture" ELSE "auth"}
    [] n.event = "CAPTURE" -> {"capture"}
    [] n.event = "CAPTURE_FAILED" -> {"capture_failed"}
    [] n.event = "PENDING" -> {"pending"}
    [] n.event = "REFUND" -> {"refund"}
    [] n.event = "REFUNDED_REVERSED" -> {"refund_reversed"}
    [] n.event = "CANCELLATION" -> {"cancel"}
    [] n.event = "REFUND_FAILED" -> {"refund_failed", "capture"}
         \union (IF Completed(txns, {"auth"}) # {} THEN {"auth"} ELSE {})

Books(n) ==
  /\ Grows
  /\ \A m \in DOMAIN txns' :
       m \in DOMAIN txns \/ \E kind \in KindsFor(n) : OfKind(txns'[m], n, kind)

LEMMA IgnoredBooks ==
  ASSUME IInv, NEW n, txns' = txns
  PROVE  Books(n)
BY NothingAdded DEF IInv, Types, Books

LEMMA AppendedBooks ==
  ASSUME IInv, NEW n \in Notification, NEW kind \in TransactionKind, kind \in KindsFor(n),
         txns' = Append(txns, Txn(kind, n.success, n.ref, n.amount))
  PROVE  Books(n)
<1>1. PICK t \in Transaction :
        /\ t = Txn(kind, n.success, n.ref, n.amount)
        /\ OfKind(t, n, kind)
  BY TxnFields, NoteFields DEF OfKind
<1>2. Grows /\ \A m \in DOMAIN txns' : m \in DOMAIN txns \/ txns'[m] = t
  BY <1>1, OneAdded DEF IInv, Types
<1> QED BY <1>1, <1>2 DEF Books

LEMMA FailedRefundBooks ==
  ASSUME IInv, NEW n \in Notification, n.event = "REFUND_FAILED", HandleFailedRefund(n)
  PROVE  Books(n)
<1>1. CASE Ignored
  BY <1>1, IgnoredBooks DEF Ignored
<1>2. CASE ~ Ignored
  <2> DEFINE known == Of(txns, {"refund_ongoing", "refund", "refund_failed"}, n.ref)
             last  == Completed(txns, {"auth", "capture"})
             given == IF last = {} THEN "capture" ELSE Last(txns, last).kind
             failed == Txn("refund_failed", n.success, n.ref, n.amount)
             undone == IF Last(txns, known).kind = "refund"
                         THEN Txn("capture", n.success, n.ref, n.amount)
                         ELSE Txn(given, n.success, n.ref, 0)
  <2>1. txns' = txns \o <<failed, undone>>
    BY <1>2 DEF HandleFailedRefund
  <2>2. given \in KindsFor(n) /\ given \in {"auth", "capture"}
    <3>1. last \in SUBSET DOMAIN txns /\ \A m \in last : txns[m].kind \in {"auth", "capture"}
      BY DEF Completed, Succeeded
    <3>2. \A m \in last : txns[m].kind = "auth" => m \in Completed(txns, {"auth"})
      BY DEF Completed, Succeeded
    <3> HIDE DEF last
    <3>3. CASE last = {}
      BY <3>3 DEF KindsFor
    <3>4. CASE last # {}
      <4>1. PICK m \in last : Last(txns, last) = txns[m]
        BY <3>1, <3>4, LastIsOne DEF IInv, Types
      <4> QED BY <3>1, <3>2, <3>4, <4>1 DEF KindsFor
    <3> QED BY <3>3, <3>4
  <2> HIDE DEF given, known
  <2>3. PICK kind \in {"auth", "capture"}, amount \in {0, n.amount} :
          undone = Txn(kind, n.success, n.ref, amount) /\ kind \in KindsFor(n)
    <3>1. "capture" \in KindsFor(n)
      BY DEF KindsFor
    <3> QED BY <2>2, <3>1
  <2>4. /\ failed \in Transaction /\ OfKind(failed, n, "refund_failed")
        /\ undone \in Transaction /\ OfKind(undone, n, kind)
    <3>1. "refund_failed" \in TransactionKind /\ kind \in TransactionKind
      BY DEF TransactionKind
    <3>2. amount \in Nat
      BY NoteFields
    <3> HIDE DEF undone
    <3> QED BY <2>3, <3>1, <3>2, TxnFields, NoteFields DEF OfKind
  <2>5. "refund_failed" \in KindsFor(n)
    BY DEF KindsFor
  <2> HIDE DEF failed, undone
  <2>6. Grows /\ \A m \in DOMAIN txns' : m \in DOMAIN txns \/ txns'[m] = failed \/ txns'[m] = undone
    BY <2>1, <2>4, TwoAdded DEF IInv, Types
  <2> QED BY <2>3, <2>4, <2>5, <2>6 DEF Books
<1> QED BY <1>1, <1>2

LEMMA HandleBooks ==
  ASSUME IInv, NEW n \in Notification, Handle(n)
  PROVE  Books(n)
<1>1. CASE n.event = "AUTHORISATION"
  <2> DEFINE kind == IF autoCapture THEN "capture" ELSE "auth"
  <2>1. kind \in TransactionKind /\ kind \in KindsFor(n)
    BY <1>1 DEF TransactionKind, KindsFor
  <2>2. txns' = txns \/ txns' = Append(txns, Txn(kind, n.success, n.ref, n.amount))
    BY <1>1 DEF Handle, HandleAuthorization, Ignored, Booked, Recorded
  <2> HIDE DEF kind
  <2> QED BY <2>1, <2>2, IgnoredBooks, AppendedBooks
<1>2. ASSUME NEW kind \in TransactionKind, kind \in KindsFor(n),
             txns' = txns \/ txns' = Append(txns, Txn(kind, n.success, n.ref, n.amount))
      PROVE  Books(n)
  BY <1>2, IgnoredBooks, AppendedBooks
<1>3. CASE n.event = "CAPTURE"
  <2>1. "capture" \in TransactionKind /\ "capture" \in KindsFor(n)
    BY <1>3 DEF TransactionKind, KindsFor
  <2> QED BY <1>2, <1>3, <2>1 DEF Handle, HandleCapture, Booked, Recorded
<1>4. CASE n.event \in {"CAPTURE_FAILED", "PENDING", "REFUND"}
  <2>1. OnceKind(n) \in TransactionKind /\ OnceKind(n) \in KindsFor(n)
    BY <1>4 DEF TransactionKind, KindsFor, OnceKind
  <2>2. HandleOnce(OnceKind(n), n)
    BY <1>4 DEF Handle, OnceKind
  <2> QED BY <1>2, <2>1, <2>2 DEF HandleOnce, Ignored, Booked, Recorded
<1>5. CASE n.event = "REFUND_FAILED"
  BY <1>5, FailedRefundBooks DEF Handle
<1>6. CASE n.event = "REFUNDED_REVERSED"
  <2>1. "refund_reversed" \in TransactionKind /\ "refund_reversed" \in KindsFor(n)
    BY <1>6 DEF TransactionKind, KindsFor
  <2> QED BY <1>2, <1>6, <2>1 DEF Handle, HandleReversedRefund, Ignored, Booked, Recorded
<1>7. CASE n.event = "CANCELLATION"
  <2>1. "cancel" \in TransactionKind /\ "cancel" \in KindsFor(n)
    BY <1>7 DEF TransactionKind, KindsFor
  <2> QED BY <1>2, <1>7, <2>1 DEF Handle, HandleCancellation, Ignored, Recorded
<1> QED BY <1>1, <1>3, <1>4, <1>5, <1>6, <1>7, NoteFields DEF Event

\* Delivering a notification adds only what its handler books.
LEMMA DeliverBooks ==
  ASSUME IInv, NEW i \in DOMAIN sent, NEW n \in Notification, n = sent[i], Deliver(i)
  PROVE  Books(n)
<1>1. CASE Found(n)
  BY <1>1, HandleBooks DEF Deliver
<1>2. CASE ~ Found(n)
  BY <1>2, IgnoredBooks DEF Deliver, Ignored
<1> QED BY <1>1, <1>2

\* How often a notification was delivered.
LEMMA DeliverCounts ==
  ASSUME IInv, NEW i \in DOMAIN sent, Deliver(i)
  PROVE  /\ delivered' \in [DOMAIN sent -> Nat]
         /\ delivered'[i] = delivered[i] + 1
         /\ \A j \in DOMAIN sent : j # i => delivered'[j] = delivered[j]
         /\ UNCHANGED <<autoCapture, session, asked, requests, held, open, sent, failures>>
BY DEF Deliver, adyen, IInv, Types

LEMMA StaffForward ==
  ASSUME IInv, NEW c \in Sessions, Staff(c)
  PROVE  Forward
<1>1. /\ asked \in Nat /\ asked' \in Nat /\ asked <= asked'
      /\ UNCHANGED <<autoCapture, sent, delivered>>
  BY StaffAsks DEF IInv, Types
<1> QED BY <1>1 DEF Forward, Announced, Heard

LEMMA TellsForward ==
  ASSUME IInv, NEW n \in Notification, NEW i, Tells(n, i)
  PROVE  Forward
<1>1. Sent(n, i)
  BY SendsOne DEF IInv, Tells
<1>2. asked \in Nat /\ UNCHANGED <<asked, autoCapture>>
  BY DEF Tells, shop, IInv, Types
<1> QED BY <1>1, <1>2 DEF Forward, Announced, Heard, Sent

LEMMA DeliverForward ==
  ASSUME IInv, NEW i \in DOMAIN sent, NEW n, n = sent[i], Deliver(i)
  PROVE  Forward /\ Heard(n.event, n.ref)'
<1>1. /\ \A j \in DOMAIN sent : delivered[j] > 0 => delivered'[j] > 0
      /\ delivered'[i] > 0
  <2>1. \A j \in DOMAIN sent : delivered[j] \in Nat
    BY DEF IInv, Types
  <2>2. /\ delivered'[i] = delivered[i] + 1
        /\ \A j \in DOMAIN sent : j # i => delivered'[j] = delivered[j]
    BY DeliverCounts
  <2> QED BY <2>1, <2>2
<1>2. asked \in Nat /\ UNCHANGED <<asked, autoCapture, sent>>
  BY DeliverCounts DEF IInv, Types
<1> QED BY <1>1, <1>2 DEF Forward, Announced, Heard

\* What staff record of a request: it succeeds under a new reference, or it fails.
Attempts(t) ==
  /\ t \in Transaction /\ ~ t.action
  /\ t.token \in 0 .. asked + 1
  /\ t.success => t.token = asked + 1 /\ t.kind \in {"capture", "refund_ongoing", "void"}
  /\ t.kind \notin {"capture_failed", "refund_reversed"}

LEMMA OperateRecords ==
  ASSUME IInv, NEW c \in Sessions, Operate(c)
  PROVE  \E t \in Transaction :
           /\ Attempts(t) /\ Recorded(t) /\ t.success
           /\ t.kind = KindOf(session[c].op) /\ t.amount = session[c].amount
<1> DEFINE kind == KindOf(session[c].op)
<1>1. session[c].op \in Operation /\ session[c].amount \in Nat /\ asked + 1 \in Nat
  BY AskStep DEF Operate, IInv, Types
<1>2. kind \in {"capture", "refund_ongoing", "void"} /\ kind \in TransactionKind
  BY <1>1 DEF KindOf, Operation, TransactionKind
<1> HIDE DEF kind
<1>3. PICK t \in Transaction : t = Txn(kind, TRUE, asked + 1, session[c].amount)
  BY <1>1, <1>2 DEF Txn, Transaction
<1>4. /\ ~ t.action /\ t.success /\ t.kind = kind /\ t.token = asked + 1
      /\ t.amount = session[c].amount
  BY <1>3 DEF Txn
<1>5. Recorded(t)
  BY <1>3 DEF Operate, kind
<1>6. Attempts(t)
  BY <1>1, <1>2, <1>4 DEF Attempts
<1> QED BY <1>4, <1>5, <1>6 DEF kind

LEMMA OperateFailedRecords ==
  ASSUME IInv, Traces, NEW c \in Sessions, OperateFailed(c)
  PROVE  \E t \in Transaction : Attempts(t) /\ Recorded(t) /\ ~ t.success
<1> DEFINE op == session[c].op
           ids == Succeeded(txns, {IF op = "refund" THEN "capture" ELSE "auth"})
           past == Last(txns, ids)
<1>1. op \in Operation /\ session[c].amount \in Nat /\ asked \in Nat
  BY DEF IInv, Types, Session, Idle, OperateFailed, Amount
<1>2. past.token \in 0 .. asked
  <2>1. ids # {}
    BY <1>1 DEF OperateFailed, MayRun, Operation
  <2>2. ids \in SUBSET DOMAIN txns
    BY DEF Succeeded
  <2> HIDE DEF ids
  <2>3. txns \in Seq(Transaction)
    BY DEF IInv, Types
  <2>4. PICK n \in ids : past = txns[n]
    BY <2>1, <2>2, <2>3, LastIsOne
  <2> QED BY <2>2, <2>4 DEF Traces, Traced
<1>3. op \in TransactionKind /\ op \in {"capture", "refund", "void"}
  BY <1>1 DEF Operation, TransactionKind
<1> HIDE DEF past
<1>4. PICK t \in Transaction : t = Txn(op, FALSE, past.token, session[c].amount)
  <2> HIDE DEF op
  <2>1. past.token \in Nat
    BY <1>1, <1>2
  <2> QED BY <1>1, <1>3, <2>1 DEF Txn, Transaction
<1>5. ~ t.action /\ ~ t.success /\ t.kind = op /\ t.token = past.token
  BY <1>4 DEF Txn
<1>6. Recorded(t)
  BY <1>4 DEF OperateFailed, past
<1> HIDE DEF op
<1>7. Attempts(t)
  BY <1>1, <1>2, <1>3, <1>5 DEF Attempts
<1> QED BY <1>5, <1>6, <1>7

LEMMA StaffTraces ==
  ASSUME IInv, Traces, NEW c \in Sessions, Staff(c)
  PROVE  Traces'
<1>1. ASSUME NEW t \in Transaction, Attempts(t), Recorded(t), asked' = asked + 1
      PROVE  Traces'
  <2>1. Grows /\ \A m \in DOMAIN txns' : m \in DOMAIN txns \/ txns'[m] = t
    BY <1>1, OneAdded DEF IInv, Types, Recorded
  <2>2. Traced(t)'
    BY <1>1 DEF Attempts, Traced, IInv, Types
  <2> QED BY <2>1, <2>2, StaffForward, TracesGrow
<1>2. CASE Operate(c)
  BY <1>1, <1>2, OperateRecords DEF Operate, Ask
<1>3. CASE OperateFailed(c)
  BY <1>1, <1>3, OperateFailedRecords DEF OperateFailed
<1>4. CASE txns' = txns
  BY <1>4, NothingAdded, StaffForward, TracesGrow DEF IInv, Types
<1> QED BY <1>2, <1>3, <1>4 DEF Staff, Read, LoseCommit, Refuse, shop

LEMMA DeliverTraces ==
  ASSUME IInv, Notices, Traces, NEW i \in DOMAIN sent, Deliver(i)
  PROVE  Traces'
<1>1. PICK n \in Notification : n = sent[i]
  BY DEF IInv, Types
<1>2. Books(n) /\ Forward /\ Heard(n.event, n.ref)'
  BY <1>1, DeliverBooks, DeliverForward
<1>3. /\ n.ref \in 0 .. asked'
      /\ n.event \notin Unasked => n.ref # 0
      /\ UNCHANGED <<autoCapture, sent>>
  BY <1>1, DeliverCounts DEF Notices, Referring, IInv, Types
<1>4. ASSUME NEW t, NEW kind \in KindsFor(n), OfKind(t, n, kind)
      PROVE  Traced(t)'
  <2>1. Completed(txns, {"auth"}) # {} => ~ autoCapture
    BY DEF Completed, Succeeded, Traces, Traced
  <2>2. n.event = "AUTHORISATION" => Announced("AUTHORISATION")'
    BY <1>1, <1>3 DEF Announced
  <2>3. kind = "capture" => n.ref # 0 \/ n.event = "AUTHORISATION"
    BY <1>3, NoteFields DEF KindsFor, Unasked, Event
  <2>4. kind = "auth" => ~ autoCapture
    BY <2>1, NoteFields DEF KindsFor, Event
  <2>5. kind \in {"capture_failed", "refund", "refund_reversed"} =>
          n.event = CASE kind = "capture_failed" -> "CAPTURE_FAILED"
                      [] kind = "refund" -> "REFUND"
                      [] kind = "refund_reversed" -> "REFUNDED_REVERSED"
    BY NoteFields DEF KindsFor, Event
  <2> QED BY <1>2, <1>3, <1>4, <2>2, <2>3, <2>4, <2>5 DEF OfKind, Traced
<1>5. \A m \in DOMAIN txns' : m \in DOMAIN txns \/ \E t : t = txns'[m] /\ Traced(t)'
  BY <1>2, <1>4 DEF Books
<1> QED BY <1>2, <1>5, TracesGrow DEF Books

LEMMA StepTraces ==
  ASSUME IInv, Notices, Traces, [Next]_vars
  PROVE  Traces'
<1>1. ASSUME NEW c \in Sessions, Staff(c)
      PROVE  Traces'
  BY <1>1, StaffTraces
<1>2. CASE Adyen
  <2>0. PICK n \in Notification : \E j : Tells(n, j)
    BY <1>2, AdyenTells
  <2>1. PICK i : Tells(n, i)
    BY <2>0
  <2> QED BY <2>1, TellsForward, NothingAdded, TracesGrow DEF Tells, shop, IInv, Types
<1>3. ASSUME NEW i \in DOMAIN sent, Deliver(i)
      PROVE  Traces'
  BY <1>3, DeliverTraces
<1>4. CASE UNCHANGED vars
  <2>1. Forward
    BY <1>4 DEF vars, shop, adyen, Forward, Announced, Heard, IInv, Types
  <2> QED BY <1>4, <2>1, NothingAdded, TracesGrow DEF vars, shop, IInv, Types
<1> QED BY <1>1, <1>2, <1>3, <1>4 DEF Next

BooksInv == IInv /\ Notices /\ Traces

-----------------------------------------------------------------------------
(* The two sums of Drift, and what a step makes of them.                   *)

LEMMA EffectInt ==
  ASSUME NEW n \in Notification
  PROVE  Effect(n) \in Int
<1>1. n.amount \in Int /\ 0 - n.amount \in Int /\ 0 \in Int
  BY NoteFields
<1> QED BY <1>1, NoteFields DEF Effect, Event

LEMMA OutstandingInt == Types => \A i \in DOMAIN sent : Outstanding(i) \in Int
<1> SUFFICES ASSUME Types, NEW i \in DOMAIN sent PROVE Outstanding(i) \in Int
  OBVIOUS
<1>1. PICK n \in Notification : n = sent[i]
  BY DEF Types
<1> QED BY <1>1, EffectInt DEF Outstanding

LEMMA OutstandingIntNext == Types' => (\A i \in DOMAIN sent : Outstanding(i) \in Int)'
BY OutstandingInt, PTL

LEMMA ToBookInt ==
  ASSUME Types
  PROVE  ToBook \in Int
<1>1. DOMAIN sent = 1 .. Len(sent) /\ Len(sent) \in Nat
  BY DEF Types
<1> DEFINE f == [i \in DOMAIN sent |-> Outstanding(i)]
<1>2. \A i \in 1 .. Len(sent) : f[i] \in Int
  BY <1>1, OutstandingInt
<1>3. ToBook = SumTo(f, Len(sent))
  BY DEF ToBook
<1> HIDE DEF f
<1> QED BY <1>1, <1>2, <1>3, SumToType

\* The notifications are as they were.
LEMMA ToBookSame ==
  ASSUME Types, sent' = sent, \A i \in DOMAIN sent : Outstanding(i)' = Outstanding(i)
  PROVE  ToBook' = ToBook
<1> DEFINE f == [i \in DOMAIN sent |-> Outstanding(i)]
           g == [i \in DOMAIN sent' |-> Outstanding(i)']
<1>1. DOMAIN sent = 1 .. Len(sent) /\ Len(sent) \in Nat
  BY DEF Types
<1>2. \A i \in 1 .. Len(sent) : f[i] = g[i]
  BY <1>1
<1>3. ToBook = SumTo(f, Len(sent)) /\ ToBook' = SumTo(g, Len(sent))
  BY DEF ToBook
<1> HIDE DEF f, g
<1> QED BY <1>1, <1>2, <1>3, SumToEqual

\* Only notification i has a new effect.
OnlyEffectOf(i) ==
  i \in DOMAIN sent /\ \A j \in DOMAIN sent : j # i => Outstanding(j)' = Outstanding(j)

LEMMA ToBookOne ==
  ASSUME Types, Types', sent' = sent, NEW i, OnlyEffectOf(i)
  PROVE  ToBook' = ToBook + Outstanding(i)' - Outstanding(i)
<1> DEFINE f == [j \in DOMAIN sent |-> Outstanding(j)]
           g == [j \in DOMAIN sent' |-> Outstanding(j)']
<1>1. DOMAIN sent = 1 .. Len(sent) /\ Len(sent) \in Nat /\ DOMAIN sent' = DOMAIN sent
  BY DEF Types
<1>2. \A j \in 1 .. Len(sent) : f[j] \in Int
  BY <1>1, OutstandingInt
<1>3. (\A j \in DOMAIN sent : Outstanding(j) \in Int)'
  BY OutstandingIntNext
<1>4. \A j \in 1 .. Len(sent) : g[j] \in Int
  BY <1>1, <1>3
<1>5. \A j \in 1 .. Len(sent) : j # i => g[j] = f[j]
  BY <1>1 DEF OnlyEffectOf
<1>6. ToBook = SumTo(f, Len(sent)) /\ ToBook' = SumTo(g, Len(sent))
  BY DEF ToBook
<1>7. f[i] = Outstanding(i) /\ g[i] = Outstanding(i)' /\ i \in 1 .. Len(sent)
  BY <1>1 DEF OnlyEffectOf
<1> HIDE DEF f, g
<1>8. ChangesOne(f, g, Len(sent), i)
  BY <1>2, <1>4, <1>5 DEF ChangesOne
<1>9. SumTo(g, Len(sent)) = SumTo(f, Len(sent)) + g[i] - f[i]
  BY <1>1, <1>7, <1>8, SumToChangeOne
<1> QED BY <1>6, <1>7, <1>9

\* Notification n is added.
LEMMA ToBookMore ==
  ASSUME Types, NEW n \in Notification, NEW i, Sends(n, i),
         \A j \in DOMAIN sent : Outstanding(j)' = Outstanding(j)
  PROVE  ToBook' = ToBook + Outstanding(i)'
<1> DEFINE f == [j \in DOMAIN sent |-> Outstanding(j)]
           g == [j \in DOMAIN sent' |-> Outstanding(j)']
<1>1. /\ DOMAIN sent = 1 .. Len(sent) /\ Len(sent) \in Nat
      /\ DOMAIN sent' = DOMAIN sent \union {i} /\ Len(sent') = Len(sent) + 1 /\ i = Len(sent) + 1
  BY SendsOne DEF Types, Sends, Sent
<1>2. \A j \in 1 .. Len(sent) : f[j] = g[j]
  BY <1>1
<1>3. ToBook = SumTo(f, Len(sent)) /\ ToBook' = SumTo(g, Len(sent'))
  BY DEF ToBook
<1>4. g[Len(sent) + 1] = Outstanding(i)'
  <2>1. g[i] = Outstanding(i)'
    BY <1>1
  <2> QED BY <1>1, <2>1
<1> HIDE DEF f, g
<1>5. SumTo(g, Len(sent) + 1) = SumTo(g, Len(sent)) + g[Len(sent) + 1]
  BY <1>1, SumToStep
<1>6. SumTo(f, Len(sent)) = SumTo(g, Len(sent))
  BY <1>1, <1>2, SumToEqual
<1> QED BY <1>1, <1>3, <1>4, <1>5, <1>6

\* A pending request to capture.
Requested(ref, r) == r \in requests /\ r.kind = "capture" /\ r.ref = ref

LEMMA BookedAheadIs ==
  ASSUME Types, References, NEW ref, NEW r, Requested(ref, r)
  PROVE  BookedAhead(ref) = IF Captured(ref) THEN r.amount ELSE 0
<1>1. r \in requests /\ r.kind = "capture" /\ r.ref = ref
  BY DEF Requested
<1>2. \A q \in requests : q.ref = ref => q = r
  BY <1>1 DEF References
<1>3. (CHOOSE q \in requests : q.kind = "capture" /\ q.ref = ref) = r
  BY <1>1, <1>2
<1> QED BY <1>1, <1>3 DEF BookedAhead

LEMMA NotBookedAhead ==
  ASSUME NEW ref, \A r \in requests : ~ Requested(ref, r)
  PROVE  BookedAhead(ref) = 0
BY DEF BookedAhead, Requested

LEMMA BookedAheadInt == Types /\ References => \A ref : BookedAhead(ref) \in Int
<1> SUFFICES ASSUME Types, References, NEW ref PROVE BookedAhead(ref) \in Int
  OBVIOUS
<1>1. CASE \E r \in requests : Requested(ref, r)
  <2>1. PICK r \in requests : Requested(ref, r)
    BY <1>1
  <2>2. r.amount \in Int
    BY DEF Types, Request
  <2> QED BY <2>1, <2>2, BookedAheadIs
<1>2. CASE \A r \in requests : ~ Requested(ref, r)
  BY <1>2, NotBookedAhead
<1> QED BY <1>1, <1>2

LEMMA BookedAheadIntNext == (Types /\ References)' => (\A ref : BookedAhead(ref) \in Int)'
BY BookedAheadInt, PTL

LEMMA AheadInt ==
  ASSUME Types, References
  PROVE  Ahead \in Int
<1> DEFINE f == [ref \in 1 .. asked |-> BookedAhead(ref)]
<1>1. \A ref \in 1 .. asked : f[ref] \in Int
  BY BookedAheadInt
<1>2. Ahead = SumTo(f, asked) /\ asked \in Nat
  BY DEF Ahead, Types
<1> HIDE DEF f
<1> QED BY <1>1, <1>2, SumToType

LEMMA AheadSame ==
  ASSUME Types, asked' = asked, \A ref \in 1 .. asked : BookedAhead(ref)' = BookedAhead(ref)
  PROVE  Ahead' = Ahead
<1> DEFINE f == [ref \in 1 .. asked |-> BookedAhead(ref)]
           g == [ref \in 1 .. asked' |-> BookedAhead(ref)']
<1>1. \A ref \in 1 .. asked : f[ref] = g[ref]
  OBVIOUS
<1>2. Ahead = SumTo(f, asked) /\ Ahead' = SumTo(g, asked) /\ asked \in Nat
  BY DEF Ahead, Types
<1> HIDE DEF f, g
<1> QED BY <1>1, <1>2, SumToEqual

\* One reference has a new amount.
LEMMA AheadOne ==
  ASSUME Types, References, Types', References', asked' = asked, NEW ref \in 1 .. asked,
         \A k \in 1 .. asked : k # ref => BookedAhead(k)' = BookedAhead(k)
  PROVE  Ahead' = Ahead + BookedAhead(ref)' - BookedAhead(ref)
<1> DEFINE f == [k \in 1 .. asked |-> BookedAhead(k)]
           g == [k \in 1 .. asked' |-> BookedAhead(k)']
<1>1. \A k \in 1 .. asked : f[k] \in Int
  BY BookedAheadInt
<1>2. (\A k : BookedAhead(k) \in Int)'
  BY BookedAheadIntNext
<1>3. \A k \in 1 .. asked : g[k] \in Int /\ (k # ref => g[k] = f[k])
  BY <1>2
<1>4. Ahead = SumTo(f, asked) /\ Ahead' = SumTo(g, asked) /\ asked \in Nat
  BY DEF Ahead, Types
<1>5. f[ref] = BookedAhead(ref) /\ g[ref] = BookedAhead(ref)'
  OBVIOUS
<1> HIDE DEF f, g
<1>6. ChangesOne(f, g, asked, ref)
  BY <1>1, <1>3 DEF ChangesOne
<1>7. SumTo(g, asked) = SumTo(f, asked) + g[ref] - f[ref]
  BY <1>4, <1>6, SumToChangeOne
<1> QED BY <1>4, <1>5, <1>7

\* One more reference was given out.
LEMMA AheadMore ==
  ASSUME Types, NEW ref, ref = asked + 1, asked' = ref,
         \A k \in 1 .. asked : BookedAhead(k)' = BookedAhead(k)
  PROVE  Ahead' = Ahead + BookedAhead(ref)'
<1> DEFINE f == [k \in 1 .. asked |-> BookedAhead(k)]
           g == [k \in 1 .. asked' |-> BookedAhead(k)']
<1>1. asked \in Nat /\ ref \in 1 .. asked' /\ 1 .. asked \subseteq 1 .. asked'
  BY DEF Types
<1>2. \A k \in 1 .. asked : f[k] = g[k]
  BY <1>1
<1>3. Ahead = SumTo(f, asked) /\ Ahead' = SumTo(g, asked')
  BY DEF Ahead
<1>4. g[ref] = BookedAhead(ref)'
  BY <1>1
<1> HIDE DEF f, g
<1>5. SumTo(g, asked + 1) = SumTo(g, asked) + g[asked + 1]
  BY <1>1, SumToStep
<1>6. SumTo(f, asked) = SumTo(g, asked)
  BY <1>1, <1>2, SumToEqual
<1> QED BY <1>3, <1>4, <1>5, <1>6

-----------------------------------------------------------------------------
(* The money that Adyen holds.                                             *)

\* A refund that has not failed, and what all of those have paid back.
Standing(i) ==
  /\ sent[i].event = "REFUND" /\ sent[i].success
  /\ \A k \in DOMAIN sent : sent[k].event \in Undoing => sent[k].ref # sent[i].ref

PaidBack(i) == IF Standing(i) THEN sent[i].amount ELSE 0

Refunded == SumTo([i \in DOMAIN sent |-> PaidBack(i)], Len(sent))

\* What Adyen holds, or would if no refund had been carried out.
Worth == held + Refunded

Granted == {"CAPTURE", "CAPTURE_FAILED", "CANCELLATION"}

Money ==
  /\ held \in Nat
  /\ \A r \in requests : r.amount <= Total
  /\ Worth <= Total
  /\ open \/ ~ Announced("AUTHORISATION") => Worth = 0
  /\ open => Announced("AUTHORISATION")
  /\ \A event \in Granted : Confirmed(event) => ~ open /\ Announced("AUTHORISATION")
  /\ \A i \in DOMAIN sent :
       sent[i].event = "CAPTURE" /\ sent[i].success => Worth <= sent[i].amount
  /\ Confirmed("CAPTURE_FAILED") \/ Confirmed("CANCELLATION") => Worth = 0
  /\ autoCapture => ~ Announced("CAPTURE") /\ \A r \in requests : r.kind # "capture"
  /\ Worth > 0 => Confirmed("CAPTURE") \/ (autoCapture /\ Confirmed("AUTHORISATION"))

LEMMA PaidBackNat == Types => \A i \in DOMAIN sent : PaidBack(i) \in Nat
<1> SUFFICES ASSUME Types, NEW i \in DOMAIN sent PROVE PaidBack(i) \in Nat
  OBVIOUS
<1>1. PICK n \in Notification : n = sent[i]
  BY DEF Types
<1> QED BY <1>1, NoteFields DEF PaidBack

LEMMA PaidBackNatNext == Types' => (\A i \in DOMAIN sent : PaidBack(i) \in Nat)'
BY PaidBackNat, PTL

LEMMA RefundedNat ==
  ASSUME Types
  PROVE  Refunded \in Nat
<1> DEFINE f == [i \in DOMAIN sent |-> PaidBack(i)]
<1>1. DOMAIN sent = 1 .. Len(sent) /\ Len(sent) \in Nat
  BY DEF Types
<1>2. \A i \in 1 .. Len(sent) : f[i] \in Nat
  BY <1>1, PaidBackNat
<1>3. Refunded = SumTo(f, Len(sent))
  BY DEF Refunded
<1> HIDE DEF f
<1> QED BY <1>1, <1>2, <1>3, SumToType

\* Notification n is added, and no other refund is undone.
LEMMA RefundedMore ==
  ASSUME Types, NEW n \in Notification, NEW i, Sends(n, i),
         \A j \in DOMAIN sent : PaidBack(j)' = PaidBack(j)
  PROVE  Refunded' = Refunded + PaidBack(i)'
<1> DEFINE f == [j \in DOMAIN sent |-> PaidBack(j)]
           g == [j \in DOMAIN sent' |-> PaidBack(j)']
<1>1. /\ DOMAIN sent = 1 .. Len(sent) /\ Len(sent) \in Nat
      /\ DOMAIN sent' = DOMAIN sent \union {i} /\ Len(sent') = Len(sent) + 1 /\ i = Len(sent) + 1
  BY SendsOne DEF Types, Sends, Sent
<1>2. \A j \in 1 .. Len(sent) : f[j] = g[j]
  BY <1>1
<1>3. Refunded = SumTo(f, Len(sent)) /\ Refunded' = SumTo(g, Len(sent'))
  BY DEF Refunded
<1>4. g[Len(sent) + 1] = PaidBack(i)'
  <2>1. g[i] = PaidBack(i)'
    BY <1>1
  <2> QED BY <1>1, <2>1
<1> HIDE DEF f, g
<1>5. SumTo(g, Len(sent) + 1) = SumTo(g, Len(sent)) + g[Len(sent) + 1]
  BY <1>1, SumToStep
<1>6. SumTo(f, Len(sent)) = SumTo(g, Len(sent))
  BY <1>1, <1>2, SumToEqual
<1> QED BY <1>1, <1>3, <1>4, <1>5, <1>6

\* Refund k is undone by the notification that is added.
OnlyUndone(k) ==
  /\ k \in DOMAIN sent
  /\ \A j \in DOMAIN sent : j # k => PaidBack(j)' = PaidBack(j)
  /\ PaidBack(k)' = 0

LEMMA RefundedLess ==
  ASSUME Types, Types', NEW n \in Notification, NEW i, Sends(n, i), NEW k, OnlyUndone(k),
         PaidBack(i)' = 0
  PROVE  Refunded' = Refunded - PaidBack(k)
<1> DEFINE f == [j \in DOMAIN sent |-> PaidBack(j)]
           g == [j \in DOMAIN sent' |-> PaidBack(j)']
<1>1. /\ DOMAIN sent = 1 .. Len(sent) /\ Len(sent) \in Nat
      /\ DOMAIN sent' = DOMAIN sent \union {i} /\ Len(sent') = Len(sent) + 1 /\ i = Len(sent) + 1
  BY SendsOne DEF Types, Sends, Sent
<1>2. \A j \in 1 .. Len(sent) : f[j] \in Int
  BY <1>1, PaidBackNat
<1>3. (\A j \in DOMAIN sent : PaidBack(j) \in Nat)'
  BY PaidBackNatNext
<1>4. \A j \in 1 .. Len(sent) : g[j] \in Int
  BY <1>1, <1>3
<1>5. \A j \in 1 .. Len(sent) : j # k => g[j] = f[j]
  BY <1>1 DEF OnlyUndone
<1>6. Refunded = SumTo(f, Len(sent)) /\ Refunded' = SumTo(g, Len(sent'))
  BY DEF Refunded
<1>7. /\ f[k] = PaidBack(k) /\ g[k] = 0 /\ k \in 1 .. Len(sent)
      /\ PaidBack(k) \in Nat
  BY <1>1, PaidBackNat DEF OnlyUndone
<1>8. g[Len(sent) + 1] = 0
  <2>1. g[i] = PaidBack(i)'
    BY <1>1
  <2> QED BY <1>1, <2>1
<1> HIDE DEF f, g
<1>9. SumTo(g, Len(sent) + 1) = SumTo(g, Len(sent)) + g[Len(sent) + 1]
  BY <1>1, SumToStep
<1>10. ChangesOne(f, g, Len(sent), k)
  BY <1>2, <1>4, <1>5 DEF ChangesOne
<1>11. SumTo(g, Len(sent)) = SumTo(f, Len(sent)) + g[k] - f[k]
  BY <1>1, <1>7, <1>10, SumToChangeOne
<1>12. SumTo(f, Len(sent)) \in Int
  BY <1>1, <1>2, SumToType
<1> QED BY <1>1, <1>6, <1>7, <1>8, <1>9, <1>11, <1>12

LEMMA AnnouncedNext ==
  ASSUME NEW n, NEW i, Sent(n, i)
  PROVE  /\ \A event : Announced(event)' <=> (Announced(event) \/ n.event = event)
         /\ \A event : Confirmed(event)' <=> (Confirmed(event) \/ (n.event = event /\ n.success))
BY DEF Announced, Confirmed, Sent

\* A notification that undoes no refund leaves those standing that stand.
LEMMA PaidBackStays ==
  ASSUME Types, NEW n \in Notification, NEW i, Sends(n, i), NEW j \in DOMAIN sent,
         sent[j].event = "REFUND" /\ n.event \in Undoing => sent[j].ref # n.ref
  PROVE  PaidBack(j)' = PaidBack(j)
<1>1. Sent(n, i)
  BY SendsOne
<1>2. sent'[j] = sent[j] /\ DOMAIN sent' = DOMAIN sent \union {i} /\ sent'[i] = n
      /\ \A k \in DOMAIN sent : sent'[k] = sent[k]
  BY <1>1 DEF Sent
<1>3. Standing(j)' <=> Standing(j)
  BY <1>2 DEF Standing, Undoing
<1> QED BY <1>2, <1>3 DEF PaidBack

\* The last notification is no refund in force unless it tells of one.
LEMMA PaidBackNew ==
  ASSUME Types, NEW n \in Notification, NEW i, Sends(n, i),
         ~ (n.event = "REFUND" /\ n.success)
  PROVE  PaidBack(i)' = 0
<1>1. Sent(n, i)
  BY SendsOne
<1> QED BY <1>1 DEF Sent, PaidBack, Standing

LEMMA RefundedSame ==
  ASSUME Types, Notices, NEW n \in Notification, NEW i, Sends(n, i),
         ~ (n.event = "REFUND" /\ n.success),
         n.event \in Undoing => n.event = "CAPTURE_FAILED" /\ UndoesOne(n)
  PROVE  Refunded' = Refunded
<1>1. ASSUME NEW j \in DOMAIN sent, sent[j].event = "REFUND", n.event \in Undoing
      PROVE  sent[j].ref # n.ref
  <2>1. PICK k \in DOMAIN sent : sent[k].event = "CAPTURE" /\ sent[k].ref = n.ref
    BY <1>1 DEF UndoesOne, Undone
  <2>2. j # k
    BY <1>1, <2>1
  <2> QED BY <1>1, <2>1, <2>2 DEF Notices, OneEach, Decision
<1>2. \A j \in DOMAIN sent : PaidBack(j)' = PaidBack(j)
  BY <1>1, PaidBackStays
<1>3. Refunded \in Nat
  BY RefundedNat
<1> QED BY <1>2, <1>3, PaidBackNew, RefundedMore

\* All that Money asks of a step in which n is sent.
Sound(n) ==
  /\ held' \in Nat /\ Worth' \in Nat /\ Worth' <= Total
  /\ open' => Worth' = 0 /\ Announced("AUTHORISATION")'
  /\ ~ Announced("AUTHORISATION")' => Worth' = 0
  /\ \A event \in Granted : Confirmed(event)' => ~ open' /\ Announced("AUTHORISATION")'
  /\ Confirmed("CAPTURE") => Worth' <= Worth
  /\ n.event = "CAPTURE" /\ n.success => Worth' <= n.amount
  /\ Confirmed("CAPTURE_FAILED")' \/ Confirmed("CANCELLATION")' => Worth' = 0
  /\ autoCapture => n.event # "CAPTURE"
  /\ Worth' > 0 => \/ Worth > 0
                   \/ n.event = "CAPTURE" /\ n.success
                   \/ autoCapture /\ n.event = "AUTHORISATION" /\ n.success

LEMMA SoundIsMoney ==
  ASSUME IInv, Money, NEW n \in Notification, NEW i, Sent(n, i), Sound(n),
         autoCapture' = autoCapture, requests' \subseteq requests
  PROVE  Money'
<1>1. Worth \in Nat
  BY RefundedNat DEF Money, Worth, IInv
<1>2. ASSUME NEW j \in DOMAIN sent', sent'[j].event = "CAPTURE", sent'[j].success
      PROVE  Worth' <= sent'[j].amount
  <2>1. CASE j = i
    BY <1>2, <2>1 DEF Sent, Sound
  <2>2. CASE j \in DOMAIN sent
    <3>1. sent'[j] = sent[j]
      BY <2>2 DEF Sent
    <3>2. Worth <= sent[j].amount /\ Confirmed("CAPTURE")
      BY <1>2, <2>2, <3>1 DEF Money, Confirmed
    <3>3. sent[j].amount \in Nat
      <4>1. PICK m \in Notification : m = sent[j]
        BY <2>2 DEF IInv, Types
      <4> QED BY <4>1, NoteFields
    <3>4. Worth' \in Nat /\ Worth' <= Worth
      BY <3>2 DEF Sound
    <3> QED BY <1>1, <3>1, <3>2, <3>3, <3>4
  <2> QED BY <1>2, <2>1, <2>2 DEF Sent
<1>3. autoCapture => ~ Announced("CAPTURE")' /\ \A r \in requests' : r.kind # "capture"
  BY AnnouncedNext DEF Money, Sound
<1>4. Worth' > 0 => Confirmed("CAPTURE")' \/ (autoCapture' /\ Confirmed("AUTHORISATION")')
  BY AnnouncedNext DEF Money, Sound
<1>5. \A r \in requests' : r.amount <= Total
  BY DEF Money
<1> QED BY <1>2, <1>3, <1>4, <1>5 DEF Money, Sound

LEMMA AuthorisingSound ==
  ASSUME BooksInv, Money, NEW n \in Notification, NEW i, Sends(n, i), Authorising(n)
  PROVE  Sound(n)
<1> USE DEF BooksInv, IInv
<1>1. Sent(n, i)
  BY SendsOne
<1>2. n.event = "AUTHORISATION" /\ n.event \notin Granted /\ n.event \notin Undoing
  BY DEF Authorising, Granted, Undoing
<1>3. Refunded' = Refunded /\ Refunded \in Nat
  BY <1>2, RefundedSame, RefundedNat
<1>4. ~ Announced("AUTHORISATION")
  BY DEF Announced, Authorising
<1>5. held = 0 /\ Refunded = 0 /\ ~ open
  BY <1>3, <1>4 DEF Money, Worth
<1>6. \A event \in Granted : ~ Confirmed(event)
  BY <1>4 DEF Money
<1>7. \A event \in Granted : ~ Confirmed(event)'
  BY <1>1, <1>2, <1>6, AnnouncedNext
<1>8. Announced("AUTHORISATION")'
  BY <1>1, <1>2, AnnouncedNext
<1>9. Worth' = held' /\ held' \in {0, Total}
  BY <1>3, <1>5 DEF Worth, Authorising
<1>10. open' => held' = 0
  BY <1>5 DEF Authorising
<1>11. held' > 0 => autoCapture /\ n.success
  BY <1>5 DEF Authorising
<1> QED BY <1>2, <1>6, <1>7, <1>8, <1>9, <1>10, <1>11 DEF Sound, Granted

\* Where nothing changes but that a refusal, or a refund, is told.
LEMMA SteadySound ==
  ASSUME BooksInv, Money, NEW n \in Notification, NEW i, Sent(n, i),
         Worth' = Worth, held' \in Nat, open' = open,
         n.event \in Granted => ~ n.success,
         autoCapture => n.event # "CAPTURE",
         n.event # "AUTHORISATION"
  PROVE  Sound(n)
<1>1. Worth \in Nat
  BY RefundedNat DEF Money, Worth, BooksInv, IInv
<1>2. \A event \in Granted : Confirmed(event)' => Confirmed(event)
  BY AnnouncedNext
<1>3. Announced("AUTHORISATION")' <=> Announced("AUTHORISATION")
  BY AnnouncedNext
<1>4. "CAPTURE_FAILED" \in Granted /\ "CANCELLATION" \in Granted /\ "CAPTURE" \in Granted
  BY DEF Granted
<1> QED BY <1>1, <1>2, <1>3, <1>4 DEF Sound, Money

LEMMA DecidingSound ==
  ASSUME BooksInv, Money, NEW n \in Notification, NEW i, Sends(n, i),
         NEW r \in requests, Deciding(n, r)
  PROVE  Sound(n)
<1> USE DEF BooksInv, IInv
<1>1. Sent(n, i)
  BY SendsOne
<1>2. n.event \in Decision /\ n.event \notin Undoing /\ n.event # "AUTHORISATION"
  BY DEF Deciding, Decision, Undoing
<1>3. /\ Refunded \in Nat /\ held \in Nat /\ Worth = held + Refunded
      /\ n.amount \in Nat /\ n.amount = r.amount /\ n.amount <= Total
  BY RefundedNat, NoteFields DEF Money, Worth, Deciding
<1>4. ~ (n.event = "REFUND" /\ n.success) => Refunded' = Refunded
  BY <1>2, RefundedSame
<1>5. autoCapture => n.event # "CAPTURE"
  BY DEF Money, Deciding
<1>6. CASE ~ n.success
  <2>1. held' = held /\ open' = open
    BY <1>6 DEF Deciding
  <2> QED BY <1>1, <1>2, <1>3, <1>4, <1>5, <1>6, <2>1, SteadySound DEF Worth
<1>7. CASE n.event = "REFUND" /\ n.success
  <2>1. PaidBack(i)' = n.amount
    <3>1. \A j \in DOMAIN sent : sent[j].event \in Undoing => sent[j].ref # n.ref
      <4> SUFFICES ASSUME NEW j \in DOMAIN sent, sent[j].event \in Undoing, sent[j].ref = n.ref
                   PROVE  FALSE
        OBVIOUS
      <4>1. PICK k \in DOMAIN sent : /\ sent[k].event = Undone(sent[j].event)
                                     /\ sent[k].ref = r.ref
        BY DEF Notices, Undoes, UndoesOne, Deciding
      <4>2. sent[k].event \in Decision
        BY <4>1 DEF Undone, Decision
      <4> QED BY <4>1, <4>2 DEF Notices, Decided
    <3>2. Standing(i)'
      BY <1>1, <1>2, <1>7, <3>1 DEF Standing, Sent, Undoing
    <3> QED BY <1>1, <3>2 DEF PaidBack, Sent
  <2>2. \A j \in DOMAIN sent : PaidBack(j)' = PaidBack(j)
    BY <1>2, PaidBackStays
  <2>3. Refunded' = Refunded + n.amount
    BY <2>1, <2>2, RefundedMore
  <2>4. n.amount <= held /\ held' = held - n.amount /\ open' = open
    BY <1>3, <1>7 DEF Deciding
  <2>5. Worth' = Worth /\ held' \in Nat
    BY <1>3, <2>3, <2>4 DEF Worth
  <2>6. n.event \notin Granted
    BY <1>7 DEF Granted
  <2> QED BY <1>1, <1>2, <1>5, <2>4, <2>5, <2>6, SteadySound
<1>8. CASE n.event \in {"CAPTURE", "CANCELLATION"} /\ n.success
  <2>1. open /\ ~ open'
    BY <1>8 DEF Deciding
  <2>2. held = 0 /\ Refunded = 0 /\ Announced("AUTHORISATION")
    BY <1>3, <2>1 DEF Money
  <2>3. \A event \in Granted : ~ Confirmed(event)
    BY <2>1 DEF Money
  <2>4. Announced("AUTHORISATION")'
    BY <1>1, <2>2, AnnouncedNext
  <2>5. CASE n.event = "CAPTURE"
    <3>1. held' = n.amount /\ Worth' = n.amount
      BY <1>3, <1>4, <1>8, <2>2, <2>5 DEF Deciding, Worth
    <3>2. ~ Confirmed("CAPTURE_FAILED")' /\ ~ Confirmed("CANCELLATION")' /\ ~ Confirmed("CAPTURE")
      BY <1>1, <2>3, <2>5, AnnouncedNext DEF Granted
    <3> QED BY <1>3, <1>5, <1>8, <2>1, <2>4, <2>5, <3>1, <3>2 DEF Sound
  <2>6. CASE n.event = "CANCELLATION"
    <3>1. held' = 0 /\ Worth' = 0
      BY <1>3, <1>4, <1>8, <2>2, <2>6 DEF Deciding, Worth
    <3>2. ~ Confirmed("CAPTURE") /\ Worth \in Nat
      BY <1>3, <2>3 DEF Granted
    <3> QED BY <1>3, <1>5, <1>8, <2>1, <2>4, <2>6, <3>1, <3>2 DEF Sound
  <2> QED BY <1>8, <2>5, <2>6
<1> QED BY <1>2, <1>6, <1>7, <1>8 DEF Decision

LEMMA FailingSound ==
  ASSUME BooksInv, Money, NEW n \in Notification, NEW i, Sends(n, i), MayTell(n),
         NEW k \in DOMAIN sent, Failing(n, k), Types'
  PROVE  Sound(n)
<1> USE DEF BooksInv, IInv
<1>1. Sent(n, i)
  BY SendsOne
<1>2. n.event \in Undoing /\ n.event \notin Decision /\ n.event # "AUTHORISATION" /\ UndoesOne(n)
  BY DEF Failing, Decision, Undoing, MayTell
<1>3. /\ Refunded \in Nat /\ held \in Nat /\ Worth = held + Refunded
      /\ n.amount \in Nat
  BY RefundedNat, NoteFields DEF Money, Worth
<1>4. CASE n.event = "CAPTURE_FAILED"
  <2>1. Refunded' = Refunded
    BY <1>2, <1>4, RefundedSame
  <2>2. sent[k].event = "CAPTURE" /\ sent[k].success /\ sent[k].amount = n.amount
    BY <1>4 DEF Failing
  <2>3. Worth <= n.amount /\ Confirmed("CAPTURE")
    BY <2>2 DEF Money, Confirmed
  <2>4. n.amount <= held /\ held' = held - n.amount /\ open' = open
    BY <1>4 DEF Failing
  <2>5. held' = 0 /\ Worth' = 0
    BY <1>3, <2>1, <2>3, <2>4 DEF Worth
  <2>6. ~ open /\ Announced("AUTHORISATION")
    BY <2>3 DEF Money, Granted
  <2>7. Announced("AUTHORISATION")'
    BY <1>1, <2>6, AnnouncedNext
  <2>8. Worth \in Nat
    BY <1>3
  <2> QED BY <1>4, <2>4, <2>5, <2>6, <2>7, <2>8 DEF Sound
<1>5. CASE n.event # "CAPTURE_FAILED"
  <2>1. /\ sent[k].event = "REFUND" /\ sent[k].success
        /\ n.ref = sent[k].ref /\ n.amount = sent[k].amount
        /\ held' = held + n.amount /\ open' = open
        /\ \A j \in DOMAIN sent : sent[j].event \in Undoing => sent[j].ref # n.ref
    BY <1>5 DEF Failing
  <2>2. PaidBack(k) = n.amount
    BY <2>1 DEF PaidBack, Standing
  <2>3. PaidBack(k)' = 0
    <3>1. ~ Standing(k)'
      BY <1>1, <1>2, <2>1 DEF Standing, Sent, Undoing
    <3> QED BY <3>1 DEF PaidBack
  <2>4. ASSUME NEW j \in DOMAIN sent, j # k
        PROVE  PaidBack(j)' = PaidBack(j)
    <3>1. sent[j].event = "REFUND" => sent[j].ref # n.ref
      BY <2>1, <2>4 DEF Notices, OneEach
    <3> QED BY <3>1, PaidBackStays
  <2>5. OnlyUndone(k)
    BY <2>3, <2>4 DEF OnlyUndone
  <2>6. PaidBack(i)' = 0
    <3>1. n.event # "REFUND"
      BY <1>2 DEF Undoing
    <3> QED BY <3>1, PaidBackNew
  <2>7. Refunded' = Refunded - n.amount
    BY <2>2, <2>5, <2>6, RefundedLess
  <2>8. Worth' = Worth /\ held' \in Nat
    BY <1>3, <2>1, <2>7 DEF Worth
  <2>9. n.event \notin Granted /\ n.event # "CAPTURE"
    BY <1>2, <1>5 DEF Granted, Undoing
  <2> QED BY <1>1, <1>2, <2>1, <2>8, <2>9, SteadySound
<1> QED BY <1>4, <1>5

\* Neither staff nor a webhook touches the money; staff ask for captures only of
\* what was authorised.
LEMMA QuietMoney ==
  ASSUME Money, UNCHANGED <<autoCapture, held, open, sent>>,
         \A r \in requests' : \/ r \in requests
                              \/ r.amount <= Total /\ (r.kind = "capture" => ~ autoCapture)
  PROVE  Money'
<1>1. \A event : (Announced(event)' <=> Announced(event)) /\ (Confirmed(event)' <=> Confirmed(event))
  BY DEF Announced, Confirmed
<1>2. Worth' = Worth
  <2>1. Refunded' = Refunded
    BY DEF Refunded, PaidBack, Standing
  <2> QED BY <2>1 DEF Worth
<1> QED BY <1>1, <1>2 DEF Money

LEMMA AskMoney ==
  ASSUME BooksInv, NEW c \in Sessions, Ask(c)
  PROVE  \A r \in requests' : \/ r \in requests
                              \/ r.amount <= Total /\ (r.kind = "capture" => ~ autoCapture)
<1>1. session[c].op \in Operation /\ session[c].amount \in Amount
  BY DEF BooksInv, IInv, Types, Session, Idle, Ask
<1>2. session[c].op = "capture" => ~ autoCapture
  BY DEF Ask, MayRun, Succeeded, BooksInv, Traces, Traced
<1>3. session[c].amount <= Total
  BY <1>1 DEF Amount
<1> QED BY <1>2, <1>3 DEF Ask

LEMMA StepMoney ==
  ASSUME BooksInv, BooksInv', Money, [Next]_vars
  PROVE  Money'
<1>1. ASSUME NEW c \in Sessions, Staff(c)
      PROVE  Money'
  <2>1. UNCHANGED <<autoCapture, held, open, sent>>
    BY <1>1, StaffAsks DEF BooksInv
  <2>2. CASE Ask(c)
    BY <2>1, <2>2, AskMoney, QuietMoney
  <2>3. CASE requests' = requests
    BY <2>1, <2>3, QuietMoney
  <2>4. Ask(c) \/ requests' = requests
    BY <1>1 DEF Staff, Operate, LoseCommit, OperateFailed, Refuse, Read, adyen
  <2> QED BY <2>2, <2>3, <2>4
<1>2. CASE Adyen
  <2>0. PICK n \in Notification : \E j : Tells(n, j)
    BY <1>2, AdyenTells DEF BooksInv
  <2>1. PICK i : Tells(n, i)
    BY <2>0
  <2>2. Sends(n, i) /\ Sent(n, i) /\ autoCapture' = autoCapture
    BY <2>1, SendsOne DEF Tells, BooksInv, IInv, shop
  <2>3. MayTell(n) /\ requests' \subseteq requests
    BY <2>1, TellsMayTell DEF BooksInv
  <2>4. Sound(n)
    <3>1. CASE Authorising(n)
      BY <2>2, <3>1, AuthorisingSound
    <3>2. ASSUME NEW r \in requests, Deciding(n, r)
          PROVE  Sound(n)
      BY <2>2, <3>2, DecidingSound
    <3>3. ASSUME NEW k \in DOMAIN sent, Failing(n, k)
          PROVE  Sound(n)
      BY <2>2, <2>3, <3>3, FailingSound DEF BooksInv, IInv
    <3> QED BY <2>1, <3>1, <3>2, <3>3 DEF Tells
  <2> QED BY <2>2, <2>3, <2>4, SoundIsMoney DEF BooksInv
<1>3. ASSUME NEW i \in DOMAIN sent, Deliver(i)
      PROVE  Money'
  <2>1. UNCHANGED <<autoCapture, held, open, sent, requests>>
    BY <1>3 DEF Deliver, adyen
  <2> QED BY <2>1, QuietMoney
<1>4. CASE UNCHANGED vars
  BY <1>4, QuietMoney DEF vars, shop, adyen
<1> QED BY <1>1, <1>2, <1>3, <1>4 DEF Next

LEMMA InitMoney == Init => Money
<1> SUFFICES ASSUME Init PROVE Money
  OBVIOUS
<1>1. PICK n : /\ sent = <<n>> /\ n.event \in Unasked /\ n.success
               /\ held = IF n.event = "AUTHORISATION" /\ autoCapture THEN Total ELSE 0
               /\ open => n.event = "AUTHORISATION" /\ ~ autoCapture
  <2>1. Note("PENDING", TRUE, 0, Total).event = "PENDING"
        /\ Note("PENDING", TRUE, 0, Total).success
        /\ Note("AUTHORISATION", TRUE, 0, Total).event = "AUTHORISATION"
        /\ Note("AUTHORISATION", TRUE, 0, Total).success
    BY DEF Note
  <2> QED BY <2>1 DEF Init, Unasked
<1>2. /\ DOMAIN sent = 1 .. 1 /\ Len(sent) = 1 /\ sent[1] = n /\ \A i \in DOMAIN sent : sent[i] = n
  BY <1>1
<1>3. \A event : /\ Announced(event) <=> n.event = event
                 /\ Confirmed(event) <=> n.event = event
  BY <1>1, <1>2 DEF Announced, Confirmed
<1>4. Refunded = 0
  <2> DEFINE f == [i \in DOMAIN sent |-> PaidBack(i)]
  <2>1. f[1] = 0
    BY <1>1, <1>2 DEF PaidBack, Standing, Unasked
  <2>2. Refunded = SumTo(f, 1)
    BY <1>2 DEF Refunded
  <2> HIDE DEF f
  <2>3. SumTo(f, 0 + 1) = SumTo(f, 0) + f[0 + 1] /\ SumTo(f, 0) = 0
    BY SumToStep, SumToZero
  <2> QED BY <2>1, <2>2, <2>3
<1>5. Worth = held /\ held \in {0, Total}
  BY <1>1, <1>4 DEF Worth
<1>6. requests = {}
  BY DEF Init
<1>7. \A event \in Granted : event \notin Unasked
  BY DEF Granted, Unasked
<1> QED BY <1>1, <1>2, <1>3, <1>5, <1>6, <1>7 DEF Money, Granted, Unasked

-----------------------------------------------------------------------------
(* The status of the payment, and what it has to do with the money.        *)

Charged == {"partially-charged", "fully-charged", "partially-refunded"}

CapturedOnce == Completed(txns, {"capture"}) # {}

\* Every capture leaves a payment charged until it is voided, refunded in full or
\* cancelled, or until a capture fails; and these are known of.
StatusRight ==
  /\ payment \in PaymentRow
  /\ Announced("PENDING") => Of(txns, {"pending"}, 0) # {}
  /\ CapturedOnce /\ payment.active
       /\ ~ Confirmed("CAPTURE_FAILED") /\ ~ Confirmed("CANCELLATION") =>
     payment.status \in Charged
  /\ ~ payment.active => \/ Succeeded(txns, {"void"}) # {}
                         \/ payment.status = "fully-refunded"
                         \/ Confirmed("CANCELLATION")

LEMMA RowIsOne ==
  ASSUME NEW active \in BOOLEAN, NEW confirm \in BOOLEAN, NEW status \in ChargeStatus,
         NEW captured \in Int
  PROVE  Row(active, confirm, status, captured) \in PaymentRow
BY DEF Row, PaymentRow

LEMMA PostprocessedRow ==
  ASSUME NEW p \in PaymentRow, NEW t \in Transaction
  PROVE  Postprocessed(p, t) \in PaymentRow
<1>1. /\ p.active \in BOOLEAN /\ p.toConfirm \in BOOLEAN /\ p.status \in ChargeStatus
      /\ p.captured \in Int
  BY DEF PaymentRow
<1>2. t.amount \in Int /\ p.captured + t.amount \in Int /\ p.captured - t.amount \in Int
  BY <1>1 DEF Transaction
<1>3. /\ "not-charged" \in ChargeStatus /\ "pending" \in ChargeStatus
      /\ "partially-charged" \in ChargeStatus /\ "fully-charged" \in ChargeStatus
      /\ "partially-refunded" \in ChargeStatus /\ "fully-refunded" \in ChargeStatus
      /\ "cancelled" \in ChargeStatus
  BY DEF ChargeStatus
<1>4. AfterCapture(p, t.amount) \in PaymentRow
  BY <1>1, <1>2, <1>3, RowIsOne DEF AfterCapture, ChargeStatusOf
<1>5. AfterRefund(p, t.amount) \in PaymentRow
  BY <1>1, <1>2, <1>3, RowIsOne DEF AfterRefund
<1>6. AfterCaptureFailed(p, t.amount) \in PaymentRow
  <2>1. CASE p.status \in {"partially-charged", "fully-charged"} /\ p.captured - t.amount <= 0
    BY <1>1, <1>2, <1>3, <2>1, RowIsOne DEF AfterCaptureFailed
  <2>2. CASE p.status \in {"partially-charged", "fully-charged"} /\ ~ (p.captured - t.amount <= 0)
    BY <1>1, <1>2, <1>3, <2>2, RowIsOne DEF AfterCaptureFailed
  <2>3. CASE p.status \notin {"partially-charged", "fully-charged"}
    BY <1>1, <2>3, RowIsOne DEF AfterCaptureFailed
  <2> QED BY <2>1, <2>2, <2>3
<1>7. \A active, confirm \in BOOLEAN, status \in ChargeStatus :
        Row(active, confirm, status, p.captured) \in PaymentRow
  BY <1>1, RowIsOne
<1>8. CASE ~ t.success \/ t.action
  BY <1>1, <1>7, <1>8 DEF Postprocessed
<1>9. CASE t.success /\ ~ t.action
  <2> DEFINE q == Postprocessed(p, t)
  <2>1. \/ q = AfterCapture(p, t.amount) \/ q = AfterRefund(p, t.amount)
        \/ q = AfterCaptureFailed(p, t.amount)
        \/ q = Row(FALSE, FALSE, p.status, p.captured)
        \/ q = Row(p.active, FALSE, "pending", p.captured)
        \/ q = Row(p.active, FALSE, "cancelled", p.captured)
        \/ q = Row(p.active, FALSE, p.status, p.captured)
    BY <1>9 DEF Postprocessed
  <2> HIDE DEF q
  <2>2. q \in PaymentRow
    BY <1>1, <1>3, <1>4, <1>5, <1>6, <1>7, <2>1
  <2> QED BY <2>2 DEF q
<1> QED BY <1>8, <1>9

\* What a transaction makes of the status.
LEMMA StatusAfter ==
  ASSUME NEW p \in PaymentRow, NEW t \in Transaction, ~ t.action,
         NEW q, q = Postprocessed(p, t)
  PROVE  /\ t.success /\ t.kind = "capture" => q.status \in Charged
         /\ p.status \in Charged /\ q.active /\
              (t.success => t.kind \notin {"capture_failed", "pending", "cancel"}) =>
            q.status \in Charged
         /\ p.active /\ ~ q.active =>
              t.success /\ (t.kind = "void" \/ q.status = "fully-refunded")
         /\ ~ t.success \/ t.kind = "void" => q.status = p.status
<1>1. p.active \in BOOLEAN /\ t.success \in BOOLEAN
  BY DEF PaymentRow, Transaction
<1>2. AfterCapture(p, t.amount).active = p.active /\ AfterCapture(p, t.amount).status \in Charged
  <2>1. ChargeStatusOf(p.captured + t.amount) \in Charged
    BY DEF ChargeStatusOf, Charged
  <2>2. AfterCapture(p, t.amount).status = ChargeStatusOf(p.captured + t.amount)
    BY DEF AfterCapture, Row
  <2>3. AfterCapture(p, t.amount).active = p.active
    BY DEF AfterCapture, Row
  <2> QED BY <2>1, <2>2, <2>3
<1>3. \/ /\ ~ AfterRefund(p, t.amount).active
         /\ AfterRefund(p, t.amount).status = "fully-refunded"
      \/ /\ AfterRefund(p, t.amount).active = p.active
         /\ AfterRefund(p, t.amount).status \in Charged
  <2>1. CASE p.captured - t.amount <= 0
    <3>1. AfterRefund(p, t.amount) = Row(FALSE, FALSE, "fully-refunded", p.captured - t.amount)
      BY <2>1 DEF AfterRefund
    <3> QED BY <3>1 DEF Row
  <2>2. CASE ~ (p.captured - t.amount <= 0)
    <3>1. AfterRefund(p, t.amount) =
            Row(p.active, FALSE, "partially-refunded", p.captured - t.amount)
      BY <2>2 DEF AfterRefund
    <3> QED BY <3>1 DEF Row, Charged
  <2> QED BY <2>1, <2>2
<1>4. AfterCaptureFailed(p, t.amount).active = p.active
  <2>1. CASE p.status \in {"partially-charged", "fully-charged"}
    <3>1. PICK s : AfterCaptureFailed(p, t.amount) = Row(p.active, FALSE, s, p.captured - t.amount)
      BY <2>1 DEF AfterCaptureFailed
    <3> QED BY <3>1 DEF Row
  <2>2. CASE p.status \notin {"partially-charged", "fully-charged"}
    <3>1. AfterCaptureFailed(p, t.amount) = Row(p.active, FALSE, p.status, p.captured)
      BY <2>2 DEF AfterCaptureFailed
    <3> QED BY <3>1 DEF Row
  <2> QED BY <2>1, <2>2
<1>5. CASE ~ t.success
  <2>1. q = p
    BY <1>5 DEF Postprocessed
  <2> QED BY <1>5, <2>1
<1>6. CASE t.success /\ t.kind \in {"capture", "refund_reversed"}
  <2>1. q = AfterCapture(p, t.amount)
    BY <1>6 DEF Postprocessed
  <2> QED BY <1>1, <1>2, <1>6, <2>1
<1>7. CASE t.success /\ t.kind = "refund"
  <2>1. q = AfterRefund(p, t.amount)
    BY <1>7 DEF Postprocessed
  <2> QED BY <1>1, <1>3, <1>7, <2>1
<1>8. CASE t.success /\ t.kind = "capture_failed"
  <2>1. q = AfterCaptureFailed(p, t.amount)
    BY <1>8 DEF Postprocessed
  <2> QED BY <1>1, <1>4, <1>8, <2>1
<1>9. CASE t.success /\ t.kind \notin {"capture", "refund_reversed", "refund", "capture_failed"}
  <2>1. CASE t.kind = "void"
    <3>1. q = Row(FALSE, FALSE, p.status, p.captured)
      BY <1>9, <2>1 DEF Postprocessed
    <3>2. ~ q.active /\ q.status = p.status
      BY <3>1 DEF Row
    <3> QED BY <1>9, <2>1, <3>2
  <2>2. CASE t.kind \in {"pending", "cancel"}
    <3>1. PICK s : q = Row(p.active, FALSE, s, p.captured)
      BY <1>9, <2>2 DEF Postprocessed
    <3>2. q.active = p.active
      BY <3>1 DEF Row
    <3> QED BY <1>1, <1>9, <2>2, <3>2
  <2>3. CASE t.kind \notin {"void", "pending", "cancel"}
    <3>1. q = Row(p.active, FALSE, p.status, p.captured)
      BY <1>9, <2>3 DEF Postprocessed
    <3>2. q.active = p.active /\ q.status = p.status
      BY <3>1 DEF Row
    <3> QED BY <1>1, <1>9, <2>3, <3>2
  <2> QED BY <2>1, <2>2, <2>3
<1> QED BY <1>5, <1>6, <1>7, <1>8, <1>9

\* What a step makes of the payment and of whether anything was captured.
Pays(t) ==
  /\ payment' = payment \/ (~ t.action /\ payment' = Postprocessed(payment, t))
  /\ CapturedOnce' => CapturedOnce \/ (payment' = Postprocessed(payment, t) /\ ~ t.action
                                         /\ t.success /\ t.kind = "capture")

LEMMA CapturedByOne ==
  ASSUME Types, Grows, NEW t,
         \A m \in DOMAIN txns' : m \in DOMAIN txns \/ txns'[m] = t \/ txns'[m].kind # "capture"
  PROVE  CapturedOnce' => CapturedOnce \/ (t.success /\ t.kind = "capture" /\ ~ t.action)
BY DEF Types, Grows, CapturedOnce, Completed, Succeeded

LEMMA RecordedPays ==
  ASSUME Types, NEW t \in Transaction, ~ t.action, Recorded(t)
  PROVE  Pays(t)
<1>1. Grows /\ \A m \in DOMAIN txns' : m \in DOMAIN txns \/ txns'[m] = t
  BY OneAdded DEF Types, Recorded
<1>2. CapturedOnce' => CapturedOnce \/ (t.success /\ t.kind = "capture" /\ ~ t.action)
  BY <1>1, CapturedByOne
<1> QED BY <1>2 DEF Pays, Recorded

LEMMA NothingPays ==
  ASSUME Types, NEW t, payment' = payment, CapturedOnce' => CapturedOnce
  PROVE  Pays(t)
BY DEF Pays

\* A handler of one kind of transaction.
LEMMA KindPays ==
  ASSUME IInv, NEW n \in Notification, NEW kind \in TransactionKind, kind \in KindsFor(n),
         \/ UNCHANGED <<payment, txns>>
         \/ Recorded(Txn(kind, n.success, n.ref, n.amount))
         \/ /\ txns' = Append(txns, Txn(kind, n.success, n.ref, n.amount))
            /\ payment' = payment /\ CapturedOnce
  PROVE  \E t \in Transaction : OfKind(t, n, kind) /\ Pays(t)
<1>1. PICK t \in Transaction :
        /\ t = Txn(kind, n.success, n.ref, n.amount)
        /\ OfKind(t, n, kind)
  BY TxnFields, NoteFields DEF OfKind
<1>2. CASE Recorded(Txn(kind, n.success, n.ref, n.amount))
  BY <1>1, <1>2, RecordedPays DEF OfKind, IInv
<1>3. CASE UNCHANGED <<payment, txns>>
  BY <1>1, <1>3, NothingPays DEF IInv, CapturedOnce
<1>4. CASE payment' = payment /\ CapturedOnce
  BY <1>1, <1>4, NothingPays DEF IInv
<1> QED BY <1>2, <1>3, <1>4

LEMMA FailedRefundPays ==
  ASSUME IInv, NEW n \in Notification, n.event = "REFUND_FAILED", HandleFailedRefund(n)
  PROVE  \E t \in Transaction, kind \in {"auth", "capture"} : OfKind(t, n, kind) /\ Pays(t)
<1>1. "capture" \in TransactionKind /\ "auth" \in TransactionKind
  BY DEF TransactionKind
<1>2. CASE Ignored
  <2>1. UNCHANGED <<payment, txns>> /\ "capture" \in KindsFor(n)
    BY <1>2 DEF Ignored, KindsFor
  <2> QED BY <1>1, <2>1, KindPays
<1>3. CASE ~ Ignored
  <2> DEFINE known == Of(txns, {"refund_ongoing", "refund", "refund_failed"}, n.ref)
             last  == Completed(txns, {"auth", "capture"})
             given == IF last = {} THEN "capture" ELSE Last(txns, last).kind
             failed == Txn("refund_failed", n.success, n.ref, n.amount)
             undone == IF Last(txns, known).kind = "refund"
                         THEN Txn("capture", n.success, n.ref, n.amount)
                         ELSE Txn(given, n.success, n.ref, 0)
  <2>1. /\ txns' = txns \o <<failed, undone>>
        /\ payment' = Postprocessed(payment, undone)
    BY <1>3 DEF HandleFailedRefund
  <2>2. given \in {"auth", "capture"}
    <3>1. last \in SUBSET DOMAIN txns /\ \A m \in last : txns[m].kind \in {"auth", "capture"}
      BY DEF Completed, Succeeded
    <3> HIDE DEF last
    <3> QED BY <3>1, LastIsOne DEF IInv, Types
  <2> HIDE DEF given, known
  <2>3. PICK kind \in {"auth", "capture"}, amount \in {0, n.amount} :
          undone = Txn(kind, n.success, n.ref, amount)
    BY <2>2
  <2>4. failed \in Transaction /\ failed.kind = "refund_failed"
        /\ undone \in Transaction /\ OfKind(undone, n, kind)
    <3>1. "refund_failed" \in TransactionKind /\ kind \in TransactionKind
      BY DEF TransactionKind
    <3>2. amount \in Nat
      BY NoteFields
    <3> HIDE DEF undone
    <3> QED BY <2>3, <3>1, <3>2, TxnFields, NoteFields DEF OfKind
  <2> HIDE DEF failed, undone
  <2>5. Grows /\ \A m \in DOMAIN txns' :
          m \in DOMAIN txns \/ txns'[m] = undone \/ txns'[m].kind # "capture"
    BY <2>1, <2>4, TwoAdded DEF IInv, Types
  <2>6. Pays(undone)
    BY <2>1, <2>4, <2>5, CapturedByOne DEF Pays, IInv, OfKind
  <2> QED BY <2>4, <2>6
<1> QED BY <1>2, <1>3

\* The kind of what pays, when n is handled.
PayingKinds(n) ==
  IF n.event = "REFUND_FAILED" THEN {"auth", "capture"} ELSE KindsFor(n)

LEMMA HandlePays ==
  ASSUME IInv, NEW n \in Notification, Handle(n)
  PROVE  \E t \in Transaction, kind \in PayingKinds(n) : OfKind(t, n, kind) /\ Pays(t)
<1>1. CASE n.event = "REFUND_FAILED"
  BY <1>1, FailedRefundPays DEF Handle, PayingKinds
<1>2. ASSUME n.event # "REFUND_FAILED", NEW kind \in TransactionKind, kind \in KindsFor(n),
             \/ UNCHANGED <<payment, txns>>
             \/ Recorded(Txn(kind, n.success, n.ref, n.amount))
             \/ /\ txns' = Append(txns, Txn(kind, n.success, n.ref, n.amount))
                /\ payment' = payment /\ CapturedOnce
      PROVE  \E t \in Transaction, k \in PayingKinds(n) : OfKind(t, n, k) /\ Pays(t)
  BY <1>2, KindPays DEF PayingKinds
<1>3. CASE n.event = "AUTHORISATION"
  <2> DEFINE kind == IF autoCapture THEN "capture" ELSE "auth"
  <2>1. kind \in TransactionKind /\ kind \in KindsFor(n)
    BY <1>3 DEF TransactionKind, KindsFor
  <2>2. UNCHANGED <<payment, txns>> \/ Recorded(Txn(kind, n.success, n.ref, n.amount))
    BY <1>3 DEF Handle, HandleAuthorization, Ignored, Booked
  <2> HIDE DEF kind
  <2> QED BY <1>2, <1>3, <2>1, <2>2
<1>4. CASE n.event = "CAPTURE"
  <2>1. "capture" \in TransactionKind /\ "capture" \in KindsFor(n)
    BY <1>4 DEF TransactionKind, KindsFor
  <2> QED BY <1>2, <1>4, <2>1 DEF Handle, HandleCapture, Booked, CapturedOnce
<1>5. CASE n.event \in {"CAPTURE_FAILED", "PENDING", "REFUND"}
  <2>1. OnceKind(n) \in TransactionKind /\ OnceKind(n) \in KindsFor(n)
    BY <1>5 DEF TransactionKind, KindsFor, OnceKind
  <2>2. HandleOnce(OnceKind(n), n)
    BY <1>5 DEF Handle, OnceKind
  <2> QED BY <1>2, <1>5, <2>1, <2>2 DEF HandleOnce, Ignored, Booked
<1>6. CASE n.event = "REFUNDED_REVERSED"
  <2>1. "refund_reversed" \in TransactionKind /\ "refund_reversed" \in KindsFor(n)
    BY <1>6 DEF TransactionKind, KindsFor
  <2> QED BY <1>2, <1>6, <2>1 DEF Handle, HandleReversedRefund, Ignored, Booked
<1>7. CASE n.event = "CANCELLATION"
  <2>1. "cancel" \in TransactionKind /\ "cancel" \in KindsFor(n)
    BY <1>7 DEF TransactionKind, KindsFor
  <2> QED BY <1>2, <1>7, <2>1 DEF Handle, HandleCancellation, Ignored
<1> QED BY <1>1, <1>3, <1>4, <1>5, <1>6, <1>7, NoteFields DEF Event

ChargedOnce == CapturedOnce /\ payment.active => payment.status \in Charged

LEMMA PaysCharged ==
  ASSUME payment \in PaymentRow, NEW t \in Transaction, Pays(t), ChargedOnce,
         t.success => t.kind \notin {"capture_failed", "pending", "cancel"}
  PROVE  ChargedOnce'
<1>1. CASE payment' = payment /\ (CapturedOnce' => CapturedOnce)
  BY <1>1 DEF ChargedOnce
<1>2. CASE ~ t.action /\ payment' = Postprocessed(payment, t)
  <2>1. /\ t.success /\ t.kind = "capture" => payment'.status \in Charged
        /\ payment.status \in Charged /\ payment'.active => payment'.status \in Charged
    BY <1>2, StatusAfter
  <2>2. payment'.active => payment.active
    BY <1>2, NeverRevived
  <2>3. CapturedOnce' => CapturedOnce \/ (t.success /\ t.kind = "capture")
    BY DEF Pays
  <2> QED BY <2>1, <2>2, <2>3 DEF ChargedOnce
<1> QED BY <1>1, <1>2 DEF Pays

LEMMA PaysRow ==
  ASSUME payment \in PaymentRow, NEW t \in Transaction, Pays(t)
  PROVE  /\ payment' \in PaymentRow
         /\ payment.active /\ ~ payment'.active =>
              t.success /\ (t.kind = "void" \/ payment'.status = "fully-refunded")
         /\ ~ payment.active => ~ payment'.active
         /\ ~ t.success \/ t.kind = "void" => payment'.status = payment.status
<1>1. CASE payment' = payment
  BY <1>1
<1>2. CASE ~ t.action /\ payment' = Postprocessed(payment, t)
  <2>1. payment'.active => payment.active
    BY <1>2, NeverRevived
  <2> QED BY <1>2, <2>1, PostprocessedRow, StatusAfter
<1> QED BY <1>1, <1>2 DEF Pays

\* What StatusRight says of an inactive payment.
Ended ==
  ~ payment.active => \/ Succeeded(txns, {"void"}) # {}
                      \/ payment.status = "fully-refunded"
                      \/ Confirmed("CANCELLATION")

Whole == ~ Confirmed("CAPTURE_FAILED") /\ ~ Confirmed("CANCELLATION")

\* Staff record transaction t.
LEMMA StaffStatus ==
  ASSUME BooksInv, StatusRight, sent' = sent, NEW t \in Transaction, Attempts(t), Recorded(t),
         payment.active \/ ~ t.success \/ t.kind = "void"
  PROVE  StatusRight'
<1>1. Pays(t)
  BY RecordedPays DEF BooksInv, IInv, Attempts
<1>2. payment \in PaymentRow
  BY DEF StatusRight
<1>3. /\ Grows
      /\ \E m \in DOMAIN txns' : txns'[m] = t
      /\ \A m \in DOMAIN txns : m \in DOMAIN txns' /\ txns'[m] = txns[m]
  BY OneAdded DEF BooksInv, IInv, Types, Recorded
<1>4. UNCHANGED <<Announced("PENDING"), Whole, Confirmed("CANCELLATION")>>
  BY DEF Announced, Confirmed, Whole
<1>5. Of(txns, {"pending"}, 0) # {} => Of(txns', {"pending"}, 0) # {}
  BY <1>3 DEF Of
<1>6. Whole' => ChargedOnce'
  <2>1. t.success => t.kind \notin {"capture_failed", "pending", "cancel"}
    BY DEF Attempts
  <2>2. Whole => ChargedOnce
    BY DEF StatusRight, ChargedOnce, Whole
  <2> QED BY <1>1, <1>2, <1>4, <2>1, <2>2, PaysCharged
<1>7. Ended'
  <2>1. Ended
    BY DEF StatusRight, Ended
  <2>2. Succeeded(txns, {"void"}) # {} \/ (t.success /\ t.kind = "void") =>
          Succeeded(txns', {"void"}) # {}
    BY <1>3 DEF Succeeded
  <2>3. t.success \in BOOLEAN
    BY DEF Transaction
  <2> QED BY <1>1, <1>2, <1>4, <2>1, <2>2, <2>3, PaysRow DEF Ended
<1> QED BY <1>1, <1>2, <1>4, <1>5, <1>6, <1>7, PaysRow DEF StatusRight, ChargedOnce, Whole, Ended

\* Nothing is recorded.
LEMMA QuietStatus ==
  ASSUME StatusRight, UNCHANGED <<payment, txns>>,
         Announced("PENDING")' => Announced("PENDING"),
         \A event : Confirmed(event) => Confirmed(event)'
  PROVE  StatusRight'
BY DEF StatusRight, CapturedOnce

\* process_payment's answer was PENDING, so that news of it is no news.
LEMMA PendingIgnored ==
  ASSUME BooksInv, StatusRight, NEW i \in DOMAIN sent, NEW n \in Notification, n = sent[i],
         n.event = "PENDING", Handle(n)
  PROVE  Ignored
<1>1. n.ref = 0 /\ Announced("PENDING")
  BY DEF BooksInv, Notices, Referring, Unasked, Announced
<1>2. Of(txns, {"pending"}, n.ref) # {}
  BY <1>1 DEF StatusRight
<1>3. \A m \in Of(txns, {"pending"}, n.ref) : txns[m].success
  BY DEF Of, BooksInv, IInv, Origins, TxnFrom
<1>4. SeenAsSuccess(txns, "pending", n.ref)
  BY <1>2, <1>3, AllSucceeded DEF BooksInv, IInv, Types
<1> QED BY <1>4 DEF Handle, HandleOnce

LEMMA DeliverStatus ==
  ASSUME BooksInv, StatusRight, NEW i \in DOMAIN sent, Deliver(i)
  PROVE  StatusRight'
<1>1. PICK n \in Notification : n = sent[i]
  BY DEF BooksInv, IInv, Types
<1>2. sent' = sent
  BY DEF Deliver, adyen
<1>3. UNCHANGED <<Announced("PENDING"), Whole, Confirmed("CANCELLATION")>>
      /\ \A event : Confirmed(event)' = Confirmed(event)
  BY <1>2 DEF Announced, Confirmed, Whole
<1>4. CASE Ignored
  BY <1>3, <1>4, QuietStatus DEF Ignored
<1>5. CASE Found(n) /\ n.event # "PENDING"
  <2>1. Handle(n) /\ Books(n)
    BY <1>1, <1>5, HandleBooks DEF Deliver, BooksInv
  <2>2. PICK t \in Transaction, kind \in PayingKinds(n) : OfKind(t, n, kind) /\ Pays(t)
    BY <2>1, HandlePays DEF BooksInv
  <2>3. kind \in {"capture_failed", "cancel", "pending"} =>
          n.event = CASE kind = "capture_failed" -> "CAPTURE_FAILED"
                      [] kind = "cancel" -> "CANCELLATION"
                      [] kind = "pending" -> "PENDING"
    BY NoteFields DEF PayingKinds, KindsFor, Event
  <2>4. kind # "void"
    BY NoteFields DEF PayingKinds, KindsFor, Event
  <2>5. Whole /\ t.success => t.kind \notin {"capture_failed", "pending", "cancel"}
    BY <1>1, <1>5, <2>2, <2>3 DEF Whole, Confirmed, OfKind
  <2>6. payment \in PaymentRow /\ (Whole => ChargedOnce) /\ Ended
    BY DEF StatusRight, ChargedOnce, Whole, Ended
  <2>7. \A m \in DOMAIN txns : m \in DOMAIN txns' /\ txns'[m] = txns[m]
    BY <2>1 DEF Books, Grows, BooksInv, IInv, Types
  <2>8. Of(txns, {"pending"}, 0) # {} => Of(txns', {"pending"}, 0) # {}
    BY <2>7 DEF Of
  <2>9. Whole' => ChargedOnce'
    BY <1>3, <2>2, <2>5, <2>6, PaysCharged
  <2>10. Succeeded(txns, {"void"}) # {} => Succeeded(txns', {"void"}) # {}
    BY <2>7 DEF Succeeded
  <2>11. Ended'
    <3>1. CASE payment.active
      BY <2>2, <2>4, <2>6, <3>1, PaysRow DEF Ended, OfKind
    <3>2. CASE ~ payment.active /\ t.success
      <4>1. Confirmed("CANCELLATION")
        BY <1>1, <1>5, <2>2, <3>2 DEF Found, OfKind, Confirmed
      <4> QED BY <1>3, <4>1 DEF Ended
    <3>3. CASE ~ payment.active /\ ~ t.success
      BY <1>3, <2>2, <2>6, <2>10, <3>3, PaysRow DEF Ended
    <3> QED BY <3>1, <3>2, <3>3
  <2>12. payment' \in PaymentRow
    BY <2>2, <2>6, PaysRow
  <2> QED BY <1>3, <2>8, <2>9, <2>11, <2>12 DEF StatusRight, ChargedOnce, Whole, Ended
<1>6. CASE Found(n) /\ n.event = "PENDING"
  BY <1>1, <1>4, <1>6, PendingIgnored DEF Deliver
<1> QED BY <1>1, <1>4, <1>5, <1>6 DEF Deliver

LEMMA StepStatus ==
  ASSUME BooksInv, StatusRight, [Next]_vars
  PROVE  StatusRight'
<1>1. ASSUME UNCHANGED <<payment, txns, sent>>
      PROVE  StatusRight'
  BY <1>1, QuietStatus DEF Announced, Confirmed
<1>2. ASSUME NEW c \in Sessions, Staff(c)
      PROVE  StatusRight'
  <2>1. sent' = sent
    BY <1>2, StaffAsks DEF BooksInv
  <2>2. CASE Operate(c)
    <3>1. PICK t \in Transaction :
            Attempts(t) /\ Recorded(t) /\ t.success /\ t.kind = KindOf(session[c].op)
      BY <2>2, OperateRecords DEF BooksInv
    <3>2. session[c].op \in Operation
      BY <2>2, AskStep DEF Operate, BooksInv
    <3>3. payment.active \/ t.kind = "void"
      BY <2>2, <3>1, <3>2 DEF Operate, Ask, MayRun, CanCapture, CanRefund, Operation, KindOf
    <3> QED BY <2>1, <3>1, <3>3, StaffStatus
  <2>3. CASE OperateFailed(c)
    <3>1. PICK t \in Transaction : Attempts(t) /\ Recorded(t) /\ ~ t.success
      BY <2>3, OperateFailedRecords DEF BooksInv
    <3> QED BY <2>1, <3>1, StaffStatus
  <2>4. CASE UNCHANGED <<payment, txns>>
    BY <1>1, <2>1, <2>4
  <2> QED BY <1>2, <2>2, <2>3, <2>4 DEF Staff, Read, LoseCommit, Refuse, shop
<1>3. CASE Adyen
  <2>0. PICK n \in Notification : \E j : Tells(n, j)
    BY <1>3, AdyenTells DEF BooksInv
  <2>1. PICK i : Tells(n, i)
    BY <2>0
  <2>2. Sent(n, i) /\ UNCHANGED <<payment, txns>>
    BY <2>1, SendsOne DEF Tells, shop, BooksInv, IInv
  <2>3. n.event # "PENDING"
    BY <2>1 DEF Tells, Authorising, Deciding, Failing
  <2> QED BY <2>2, <2>3, QuietStatus DEF Sent, Announced, Confirmed
<1>4. ASSUME NEW i \in DOMAIN sent, Deliver(i)
      PROVE  StatusRight'
  BY <1>4, DeliverStatus
<1>5. CASE UNCHANGED vars
  BY <1>1, <1>5 DEF vars, shop, adyen
<1> QED BY <1>2, <1>3, <1>4, <1>5 DEF Next

LEMMA InitStatus == Init => StatusRight
<1> SUFFICES ASSUME Init PROVE StatusRight
  OBVIOUS
<1>1. PICK kind \in {"pending", "capture", "auth"} :
        /\ txns = <<Txn(kind, TRUE, 0, Total)>>
        /\ kind = "pending" \/ sent = <<Note("AUTHORISATION", TRUE, 0, Total)>>
  BY DEF Init
<1>2. PICK t \in Transaction : t = Txn(kind, TRUE, 0, Total)
  <2>1. kind \in TransactionKind
    BY DEF TransactionKind
  <2> QED BY <2>1 DEF Txn, Transaction
<1>3. t.kind = kind /\ t.success /\ ~ t.action /\ t.token = 0
  BY <1>2 DEF Txn
<1>4. DOMAIN txns = {1} /\ txns[1] = t
  <2>1. txns = <<t>>
    BY <1>1, <1>2
  <2> QED BY <2>1
<1>5. payment = Postprocessed(NewPayment, t)
  BY <1>4 DEF Init
<1>6. NewPayment \in PaymentRow /\ NewPayment.active
  BY DEF NewPayment, Row, PaymentRow, ChargeStatus
<1>7. /\ payment \in PaymentRow
      /\ kind = "capture" => payment.status \in Charged
      /\ ~ payment.active => payment.status = "fully-refunded"
  BY <1>3, <1>5, <1>6, PostprocessedRow, StatusAfter
<1>8. Announced("PENDING") => Of(txns, {"pending"}, 0) # {}
  <2>1. CASE kind = "pending"
    BY <1>3, <1>4, <2>1 DEF Of
  <2>2. CASE sent = <<Note("AUTHORISATION", TRUE, 0, Total)>>
    BY <2>2, OnlyElement DEF Announced, Note
  <2> QED BY <1>1, <2>1, <2>2
<1>9. CapturedOnce => kind = "capture"
  BY <1>3, <1>4 DEF CapturedOnce, Completed, Succeeded
<1> QED BY <1>7, <1>8, <1>9 DEF StatusRight

-----------------------------------------------------------------------------
(* The types, and the money within reach.                                  *)

Bounded ==
  /\ autoCapture \in BOOLEAN /\ open \in BOOLEAN
  /\ asked \in 0 .. MaxRequests
  /\ failures \in 0 .. MaxFailures
  /\ \A i \in DOMAIN sent : delivered[i] <= 2

LEMMA InitBounded == Init => Bounded
<1> SUFFICES ASSUME Init PROVE Bounded
  OBVIOUS
<1>1. \A i \in DOMAIN sent : delivered[i] <= 2
  <2>1. PICK n : sent = <<n>>
    BY DEF Init
  <2>2. \A i \in DOMAIN sent : i = 1
    BY <2>1
  <2> QED BY <2>2 DEF Init
<1>2. open \in BOOLEAN /\ autoCapture \in BOOLEAN
  BY DEF Init
<1>3. asked = 0 /\ failures = 0
  BY DEF Init
<1> QED BY <1>1, <1>2, <1>3, PaymentsAssumption DEF Bounded

LEMMA StepBounded ==
  ASSUME IInv, Bounded, [Next]_vars
  PROVE  Bounded'
<1>1. ASSUME NEW c \in Sessions, Staff(c)
      PROVE  Bounded'
  <2>1. UNCHANGED <<autoCapture, open, sent, delivered>>
    BY <1>1, StaffAsks
  <2>2. failures' = failures
    BY <1>1 DEF Staff, Operate, LoseCommit, OperateFailed, Refuse, Read, Ask, adyen
  <2>3. asked' = asked \/ (asked < MaxRequests /\ asked' = asked + 1)
    BY <1>1 DEF Staff, Operate, LoseCommit, OperateFailed, Refuse, Read, Ask
  <2> QED BY <2>1, <2>2, <2>3, PaymentsAssumption DEF Bounded
<1>2. CASE Adyen
  <2>0. PICK n \in Notification : \E j : Tells(n, j)
    BY <1>2, AdyenTells
  <2>1. PICK i : Tells(n, i)
    BY <2>0
  <2>2. Sent(n, i) /\ UNCHANGED <<autoCapture, asked>>
    BY <2>1, SendsOne DEF Tells, shop, IInv
  <2>3. open' \in BOOLEAN
    BY <1>2 DEF Adyen, Authorise, CarryOut, TurnDown, Fail, Bounded
  <2>4. failures' = failures \/ (failures < MaxFailures /\ failures' = failures + 1)
    BY <1>2 DEF Adyen, Authorise, CarryOut, TurnDown, Fail
  <2>5. \A j \in DOMAIN sent' : delivered'[j] <= 2
    BY <2>2 DEF Sent, Bounded
  <2> QED BY <2>2, <2>3, <2>4, <2>5, PaymentsAssumption DEF Bounded
<1>3. ASSUME NEW i \in DOMAIN sent, Deliver(i)
      PROVE  Bounded'
  <2>1. /\ delivered'[i] = delivered[i] + 1
        /\ \A j \in DOMAIN sent : j # i => delivered'[j] = delivered[j]
        /\ UNCHANGED <<autoCapture, asked, open, sent, failures>>
    BY <1>3, DeliverCounts
  <2>2. delivered[i] \in {0, 1}
    BY <1>3 DEF Deliver
  <2> QED BY <2>1, <2>2 DEF Bounded
<1>4. CASE UNCHANGED vars
  BY <1>4 DEF vars, shop, adyen, Bounded
<1> QED BY <1>1, <1>2, <1>3, <1>4 DEF Next

PaymentsInv == BooksInv /\ Money /\ StatusRight /\ Bounded

LEMMA PaymentsInvariance == Spec => []PaymentsInv
<1>1. Init => PaymentsInv
  BY InitIInv, InitNotices, InitTraces, InitMoney, InitStatus, InitBounded
     DEF PaymentsInv, BooksInv
<1>2. PaymentsInv /\ [Next]_vars => PaymentsInv'
  <2> SUFFICES ASSUME PaymentsInv, [Next]_vars PROVE PaymentsInv'
    OBVIOUS
  <2>1. BooksInv'
    BY StepIInv, StepNotices, StepTraces DEF PaymentsInv, BooksInv
  <2>2. Money' /\ StatusRight'
    BY <2>1, StepMoney, StepStatus DEF PaymentsInv
  <2>3. Bounded'
    BY StepBounded DEF PaymentsInv, BooksInv
  <2> QED BY <2>1, <2>2, <2>3 DEF PaymentsInv
<1> QED BY <1>1, <1>2, PTL DEF Spec

LEMMA InvTypeOK ==
  ASSUME PaymentsInv
  PROVE  TypeOK
<1>1. held \in 0 .. Total
  <2>1. held \in Nat /\ Refunded \in Nat /\ held + Refunded <= Total
    BY RefundedNat DEF PaymentsInv, Money, Worth, BooksInv, IInv
  <2> QED BY <2>1, TotalAssumption
<1>2. delivered \in [DOMAIN sent -> 0 .. 2]
  <2>1. delivered \in [DOMAIN sent -> Nat] /\ \A i \in DOMAIN sent : delivered[i] <= 2
    BY DEF PaymentsInv, Bounded, BooksInv, IInv, Types
  <2> QED BY <2>1
<1> QED BY <1>1, <1>2 DEF TypeOK, PaymentsInv, Bounded, StatusRight, BooksInv, IInv, Types

\* Money that Adyen holds was captured, and the shop was told.
LEMMA HeldIsCharged ==
  ASSUME PaymentsInv, Settled, held > 0, payment.active
  PROVE  payment.status \in Charged
<1>1. Worth > 0
  <2>1. held \in Nat /\ Refunded \in Nat
    BY RefundedNat DEF PaymentsInv, Money, BooksInv, IInv
  <2> QED BY <2>1 DEF Worth
<1>2. ~ Confirmed("CAPTURE_FAILED") /\ ~ Confirmed("CANCELLATION")
  BY <1>1 DEF PaymentsInv, Money
<1>3. ASSUME NEW i \in DOMAIN sent, sent[i].success
      PROVE  Known(sent[i])
  BY <1>3 DEF Settled, PaymentsInv, BooksInv, IInv, Remembered, Found
<1>4. ASSUME Confirmed("CAPTURE")
      PROVE  CapturedOnce
  <2>1. PICK i \in DOMAIN sent : sent[i].event = "CAPTURE" /\ sent[i].success
    BY <1>4 DEF Confirmed
  <2>2. PICK n \in Notification : n = sent[i]
    BY DEF PaymentsInv, BooksInv, IInv, Types
  <2>3. Known(n) /\ n.event = "CAPTURE"
    BY <1>3, <2>1, <2>2
  <2> QED BY <2>3 DEF Known, CapturedOnce
<1>5. ASSUME autoCapture, Confirmed("AUTHORISATION")
      PROVE  CapturedOnce
  <2>1. PICK i \in DOMAIN sent : sent[i].event = "AUTHORISATION" /\ sent[i].success
    BY <1>5 DEF Confirmed
  <2>2. PICK n \in Notification : n = sent[i]
    BY DEF PaymentsInv, BooksInv, IInv, Types
  <2>3. Known(n) /\ n.event = "AUTHORISATION"
    BY <1>3, <2>1, <2>2
  <2>4. PICK m \in Completed(txns, {"auth", "capture"}) : TRUE
    BY <2>3 DEF Known
  <2>5. /\ m \in DOMAIN txns /\ txns[m].success /\ ~ txns[m].action
        /\ txns[m].kind \in {"auth", "capture"}
    BY DEF Completed, Succeeded
  <2>6. txns[m].kind # "auth"
    BY <1>5, <2>5 DEF PaymentsInv, BooksInv, Traces, Traced
  <2>7. m \in Completed(txns, {"capture"})
    BY <2>5, <2>6 DEF Completed, Succeeded
  <2> QED BY <2>7 DEF CapturedOnce
<1>6. CapturedOnce
  BY <1>1, <1>4, <1>5 DEF PaymentsInv, Money
<1> QED BY <1>2, <1>6 DEF PaymentsInv, StatusRight

\* Whatever was repeated, lost or reordered on the way: when nothing is under way,
\* the money that Adyen holds can be refunded, unless the payment was voided or
\* had been fully refunded by a refund that failed.
THEOREM MoneyStaysWithinReach == Spec => []MoneyWithinReach
<1>1. PaymentsInv => MoneyWithinReach
  <2> SUFFICES ASSUME PaymentsInv, Settled, held > 0,
                      Succeeded(txns, {"void"}) = {}, payment.status # "fully-refunded"
               PROVE  CanRefund(payment)
    BY InvTypeOK DEF MoneyWithinReach
  <2>1. Worth > 0
    <3>1. held \in Nat /\ Refunded \in Nat
      BY RefundedNat DEF PaymentsInv, Money, BooksInv, IInv
    <3> QED BY <3>1 DEF Worth
  <2>2. payment.active
    BY <2>1 DEF PaymentsInv, Money, StatusRight
  <2> QED BY <2>2, HeldIsCharged DEF CanRefund, Charged
<1> QED BY <1>1, PaymentsInvariance, PTL

-----------------------------------------------------------------------------
(* The books leave Adyen's account only as DriftNeeds says.                *)

\* What a transaction makes of captured_amount.
LEMMA CapturedAfter ==
  ASSUME NEW p, NEW t \in Transaction, ~ t.action, NEW q, q = Postprocessed(p, t)
  PROVE  /\ ~ t.success => q.captured = p.captured
         /\ t.success /\ t.kind \in {"capture", "refund_reversed"} =>
              q.captured = p.captured + t.amount
         /\ t.success /\ t.kind = "refund" => q.captured = p.captured - t.amount
         /\ t.success /\ t.kind = "capture_failed"
              /\ p.status \in {"partially-charged", "fully-charged"} =>
              q.captured = p.captured - t.amount
         /\ t.kind \notin {"capture", "refund_reversed", "refund", "capture_failed"} =>
              q.captured = p.captured
<1>1. CASE ~ t.success
  BY <1>1, FailureChangesNothing
<1>2. CASE t.success /\ t.kind \in {"capture", "refund_reversed"}
  <2>1. q = AfterCapture(p, t.amount)
    BY <1>2 DEF Postprocessed
  <2>2. q.captured = p.captured + t.amount
    BY <2>1 DEF AfterCapture, Row
  <2> QED BY <1>2, <2>2
<1>3. CASE t.success /\ t.kind = "refund"
  <2>1. q = AfterRefund(p, t.amount)
    BY <1>3 DEF Postprocessed
  <2>2. PICK active, status : q = Row(active, FALSE, status, p.captured - t.amount)
    BY <2>1 DEF AfterRefund
  <2>3. q.captured = p.captured - t.amount
    BY <2>2 DEF Row
  <2> QED BY <1>3, <2>3
<1>4. CASE t.success /\ t.kind = "capture_failed"
  <2>1. q = AfterCaptureFailed(p, t.amount)
    BY <1>4 DEF Postprocessed
  <2>2. ASSUME p.status \in {"partially-charged", "fully-charged"}
        PROVE  q.captured = p.captured - t.amount
    <3>1. PICK status : q = Row(p.active, FALSE, status, p.captured - t.amount)
      BY <2>1, <2>2 DEF AfterCaptureFailed
    <3> QED BY <3>1 DEF Row
  <2> QED BY <1>4, <2>2
<1>5. CASE t.success /\ t.kind \notin {"capture", "refund_reversed", "refund", "capture_failed"}
  <2>1. PICK active, status : q = Row(active, FALSE, status, p.captured)
    BY <1>5 DEF Postprocessed
  <2>2. q.captured = p.captured
    BY <2>1 DEF Row
  <2> QED BY <1>5, <2>2
<1> QED BY <1>1, <1>2, <1>3, <1>4, <1>5

\* Notification n is booked under this kind.
LEMMA BookedCaptured ==
  ASSUME NEW n \in Notification, NEW kind \in TransactionKind,
         payment' = Postprocessed(payment, Txn(kind, n.success, n.ref, n.amount))
  PROVE  /\ ~ n.success => payment'.captured = payment.captured
         /\ n.success /\ kind \in {"capture", "refund_reversed"} =>
              payment'.captured = payment.captured + n.amount
         /\ n.success /\ kind = "refund" => payment'.captured = payment.captured - n.amount
         /\ n.success /\ kind = "capture_failed"
              /\ payment.status \in {"partially-charged", "fully-charged"} =>
              payment'.captured = payment.captured - n.amount
         /\ kind \notin {"capture", "refund_reversed", "refund", "capture_failed"} =>
              payment'.captured = payment.captured
<1>1. PICK t \in Transaction :
        /\ t = Txn(kind, n.success, n.ref, n.amount)
        /\ OfKind(t, n, kind) /\ t.amount = n.amount
  BY TxnFields, NoteFields DEF OfKind, Txn
<1> QED BY <1>1, CapturedAfter DEF OfKind

LEMMA CapturedStays ==
  ASSUME Types, Grows, NEW ref, Captured(ref)
  PROVE  Captured(ref)'
BY DEF Types, Grows, Captured, Succeeded

LEMMA CapturedNew ==
  ASSUME Types, NEW n, Books(n), NEW ref, Captured(ref)', ~ Captured(ref)
  PROVE  ref = n.ref /\ n.success /\ "capture" \in KindsFor(n)
<1>1. PICK m \in DOMAIN txns' :
        txns'[m].success /\ txns'[m].kind = "capture" /\ txns'[m].token = ref
  BY DEF Captured, Succeeded
<1>2. m \notin DOMAIN txns
  BY <1>1 DEF Captured, Succeeded, Books, Grows
<1> QED BY <1>1, <1>2 DEF Books, OfKind

\* Only a notification of this reference is affected by news of it, and no request.
LEMMA NewsOfItsOwn ==
  ASSUME BooksInv, NEW i \in DOMAIN sent, NEW n \in Notification, n = sent[i],
         "capture" \in KindsFor(n)
  PROVE  /\ \A j \in DOMAIN sent :
              sent[j].event \in {"AUTHORISATION", "CAPTURE"} /\ sent[j].ref = n.ref => j = i
         /\ \A r \in requests : r.ref # n.ref
<1>1. n.event \in {"AUTHORISATION", "CAPTURE", "REFUND_FAILED"}
  BY NoteFields DEF KindsFor, Event
<1>2. \A r \in requests : r.ref \in 1 .. asked
  BY DEF BooksInv, IInv, References
<1>3. \A j \in DOMAIN sent : /\ sent[j].event = "AUTHORISATION" => sent[j].ref = 0
                             /\ sent[j].event \in {"CAPTURE", "REFUND_FAILED"} =>
                                  sent[j].ref \in 1 .. asked
  BY DEF BooksInv, Notices, Referring, Unasked
<1>4. CASE n.event = "AUTHORISATION"
  <2>1. \A j \in DOMAIN sent : sent[j].event = "AUTHORISATION" => j = i
    BY <1>3, <1>4 DEF BooksInv, Notices, OneEach
  <2> QED BY <1>2, <1>3, <1>4, <2>1
<1>5. CASE n.event = "CAPTURE"
  <2>1. \A j \in DOMAIN sent : sent[j].event = "CAPTURE" /\ sent[j].ref = n.ref => j = i
    BY <1>5 DEF BooksInv, Notices, OneEach
  <2>2. \A r \in requests : r.ref # n.ref
    BY <1>5 DEF BooksInv, Notices, Decided, Decision
  <2> QED BY <1>3, <1>5, <2>1, <2>2
<1>6. CASE n.event = "REFUND_FAILED"
  <2>1. PICK k \in DOMAIN sent : sent[k].event = "REFUND" /\ sent[k].ref = n.ref
    BY <1>6 DEF BooksInv, Notices, Undoes, UndoesOne, Undone, Undoing
  <2>2. \A r \in requests : r.ref # n.ref
    BY <2>1 DEF BooksInv, Notices, Decided, Decision
  <2>3. \A j \in DOMAIN sent : sent[j].event = "CAPTURE" => sent[j].ref # n.ref
    <3> SUFFICES ASSUME NEW j \in DOMAIN sent, sent[j].event = "CAPTURE", sent[j].ref = n.ref
                 PROVE  FALSE
      OBVIOUS
    <3>1. j = k
      BY <2>1 DEF BooksInv, Notices, OneEach, Decision
    <3> QED BY <2>1, <3>1
  <2> QED BY <1>3, <1>6, <2>2, <2>3
<1> QED BY <1>1, <1>4, <1>5, <1>6

\* The effect of a notification depends on what was captured under its reference.
LEMMA EffectSame ==
  ASSUME NEW n \in Notification, autoCapture' = autoCapture,
         n.event \in {"AUTHORISATION", "CAPTURE"} => (Captured(n.ref)' <=> Captured(n.ref))
  PROVE  \E e : Effect(n) = e /\ Effect(n)' = e
<1>1. CASE n.event = "AUTHORISATION"
  BY <1>1 DEF Effect
<1>2. CASE n.event = "CAPTURE"
  <2>1. PICK known \in BOOLEAN : known = Captured(n.ref) /\ known = Captured(n.ref)'
    BY <1>2 DEF Captured
  <2>2. /\ Effect(n) = IF n.success = known THEN 0 ELSE IF n.success THEN n.amount ELSE - n.amount
        /\ Effect(n)' = IF n.success = known THEN 0 ELSE IF n.success THEN n.amount ELSE - n.amount
    BY <1>2, <2>1 DEF Effect
  <2> QED BY <2>2
<1>3. CASE n.event \notin {"AUTHORISATION", "CAPTURE"}
  BY <1>3 DEF Effect
<1> QED BY <1>1, <1>2, <1>3

LEMMA OutstandingStays ==
  ASSUME Types, NEW j \in DOMAIN sent, sent'[j] = sent[j], delivered'[j] = delivered[j],
         autoCapture' = autoCapture,
         sent[j].event \in {"AUTHORISATION", "CAPTURE"} =>
           (Captured(sent[j].ref)' <=> Captured(sent[j].ref))
  PROVE  Outstanding(j)' = Outstanding(j)
<1>1. PICK n \in Notification : n = sent[j]
  BY DEF Types
<1>2. PICK e : Effect(n) = e /\ Effect(n)' = e
  BY <1>1, EffectSame
<1>3. Outstanding(j) = IF delivered[j] = 0 THEN e ELSE 0
  BY <1>1, <1>2 DEF Outstanding
<1>4. Outstanding(j)' = IF delivered'[j] = 0 THEN e ELSE 0
  <2>1. n = sent'[j]
    BY <1>1
  <2> QED BY <1>2, <2>1 DEF Outstanding
<1> QED BY <1>3, <1>4

LEMMA BookedAheadIsAll ==
  Types /\ References =>
    \A ref, r : Requested(ref, r) => BookedAhead(ref) = IF Captured(ref) THEN r.amount ELSE 0
BY BookedAheadIs

LEMMA BookedAheadIsNext ==
  (Types /\ References)' =>
    (\A ref, r : Requested(ref, r) => BookedAhead(ref) = IF Captured(ref) THEN r.amount ELSE 0)'
BY BookedAheadIsAll, PTL

LEMMA BookedAheadStays ==
  ASSUME Types, References, References', Types', NEW ref,
         \A r : Requested(ref, r)' <=> Requested(ref, r),
         (\E r \in requests : Requested(ref, r)) => (Captured(ref)' <=> Captured(ref))
  PROVE  BookedAhead(ref)' = BookedAhead(ref)
<1>1. CASE \E r \in requests : Requested(ref, r)
  <2>1. PICK r : Requested(ref, r)
    BY <1>1
  <2>2. BookedAhead(ref) = IF Captured(ref) THEN r.amount ELSE 0
    BY <2>1, BookedAheadIs
  <2>3. Requested(ref, r)'
    BY <2>1
  <2>4. BookedAhead(ref)' = IF Captured(ref)' THEN r.amount ELSE 0
    BY <2>3, BookedAheadIsNext
  <2> QED BY <1>1, <2>2, <2>4
<1>2. CASE \A r : ~ Requested(ref, r)
  <2>1. BookedAhead(ref) = 0
    BY <1>2, NotBookedAhead
  <2>2. BookedAhead(ref)' = 0
    BY <1>2 DEF BookedAhead, Requested
  <2> QED BY <2>1, <2>2
<1> QED BY <1>1, <1>2 DEF Requested

LEMMA DeliverEffects ==
  ASSUME BooksInv, BooksInv', NEW i \in DOMAIN sent, Deliver(i)
  PROVE  /\ ToBook' = ToBook - Outstanding(i)
         /\ Ahead' = Ahead
<1>1. PICK n \in Notification : n = sent[i]
  BY DEF BooksInv, IInv, Types
<1>2. /\ delivered'[i] = delivered[i] + 1
      /\ \A j \in DOMAIN sent : j # i => delivered'[j] = delivered[j]
      /\ UNCHANGED <<autoCapture, asked, requests, sent>>
  BY DeliverCounts DEF BooksInv
<1>3. Types /\ References /\ Types' /\ References' /\ Books(n)
  BY <1>1, DeliverBooks DEF BooksInv, IInv
<1>4. \A ref : Captured(ref) => Captured(ref)'
  BY <1>3, CapturedStays DEF Books
<1>5. ASSUME NEW j \in DOMAIN sent, j # i, sent[j].event \in {"AUTHORISATION", "CAPTURE"}
      PROVE  Captured(sent[j].ref)' <=> Captured(sent[j].ref)
  <2>1. PICK ref : ref = sent[j].ref
    OBVIOUS
  <2>2. Captured(ref)' => Captured(ref)
    BY <1>1, <1>3, <1>5, <2>1, CapturedNew, NewsOfItsOwn
  <2> QED BY <1>2, <1>4, <2>1, <2>2
<1>6. OnlyEffectOf(i)
  <2> SUFFICES ASSUME NEW j \in DOMAIN sent, j # i PROVE Outstanding(j)' = Outstanding(j)
    BY DEF OnlyEffectOf
  <2> QED BY <1>2, <1>3, <1>5, OutstandingStays
<1>7. Outstanding(i)' = 0
  <2>1. delivered[i] \in Nat
    BY <1>3 DEF Types
  <2>2. delivered'[i] # 0
    BY <1>2, <2>1
  <2> QED BY <2>2 DEF Outstanding
<1>8. ToBook \in Int /\ Outstanding(i) \in Int
  BY <1>3, ToBookInt, OutstandingInt
<1>9. ToBook' = ToBook - Outstanding(i)
  BY <1>2, <1>3, <1>6, <1>7, <1>8, ToBookOne
<1>10. ASSUME NEW ref \in 1 .. asked
       PROVE  BookedAhead(ref)' = BookedAhead(ref)
  <2>1. \A r : Requested(ref, r)' <=> Requested(ref, r)
    BY <1>2 DEF Requested
  <2>2. (\E r \in requests : Requested(ref, r)) /\ Captured(ref)' => Captured(ref)
    BY <1>1, <1>3, CapturedNew, NewsOfItsOwn DEF Requested
  <2> QED BY <1>3, <1>4, <2>1, <2>2, BookedAheadStays
<1>11. Ahead' = Ahead
  BY <1>2, <1>3, <1>10, AheadSame
<1> QED BY <1>9, <1>11

\* The deliveries after which the books may leave Adyen's account.
Excused(i) ==
  LET n == sent[i]
  IN  \/ ~ Found(n)
      \/ n.event = "CAPTURE" /\ ~ n.success /\ Captured(n.ref)
      \/ n.event = "CAPTURE" /\ n.success /\ ~ Captured(n.ref)
           /\ Completed(txns, {"capture"}) # {}
      \/ n.event = "CAPTURE_FAILED"
           /\ payment.status \notin {"partially-charged", "fully-charged"}
      \/ OutOfTurn(i)
      \/ n.event = "REFUND" /\ delivered[i] > 0 /\ AttemptUnder(n.ref)

\* What is delivered for the first time was not heard of.
LEMMA Unheard ==
  ASSUME BooksInv, NEW i \in DOMAIN sent, NEW n, n = sent[i], delivered[i] = 0
  PROVE  ~ Heard(n.event, n.ref)
<1> SUFFICES ASSUME NEW j \in DOMAIN sent, sent[j].event = n.event, sent[j].ref = n.ref,
                    delivered[j] > 0
             PROVE  FALSE
  BY DEF Heard
<1>1. j = i
  BY DEF BooksInv, Notices, OneEach
<1> QED BY <1>1

LEMMA EffectOfFailure ==
  ASSUME BooksInv, NEW i \in DOMAIN sent, NEW n \in Notification, n = sent[i],
         ~ n.success, ~ Excused(i)
  PROVE  Effect(n) = 0 /\ n.event \notin Undoing
<1>1. n.event \notin Undoing
  BY DEF BooksInv, Notices, Undoes, UndoesOne
<1>2. CASE n.event = "CAPTURE"
  <2>1. n.success = Captured(n.ref)
    <3>1. n.success = FALSE /\ Captured(n.ref) = FALSE
      BY <1>2, NoteFields DEF Excused, Captured
    <3> QED BY <3>1
  <2> QED BY <1>1, <1>2, <2>1 DEF Effect
<1>3. CASE n.event # "CAPTURE"
  BY <1>1, <1>3, NoteFields DEF Effect, Undoing
<1> QED BY <1>1, <1>2, <1>3

\* A capture that succeeds without further action was completed.
LEMMA CapturedIsCompleted ==
  ASSUME BooksInv, NEW ref, Captured(ref)
  PROVE  \E m \in Completed(txns, {"capture"}) : txns[m].token = ref
BY DEF Captured, Completed, Succeeded, BooksInv, Traces, Traced

LEMMA FirstAuthorization ==
  ASSUME BooksInv, NEW n \in Notification, n.event = "AUTHORISATION", n.success,
         HandleAuthorization(n), payment.captured \in Int
  PROVE  payment'.captured = payment.captured + Effect(n)
<1> DEFINE kind == IF autoCapture THEN "capture" ELSE "auth"
<1>1. Effect(n) = IF autoCapture /\ ~ Captured(n.ref) THEN n.amount ELSE 0
  BY DEF Effect
<1>2. n.amount \in Int
  BY NoteFields
<1>3. ASSUME NEW m \in Completed(txns, {"auth", "capture"}), txns[m].token = n.ref, autoCapture
      PROVE  Captured(n.ref)
  <2>1. m \in DOMAIN txns /\ txns[m].success /\ txns[m].kind \in {"auth", "capture"}
    BY DEF Completed, Succeeded
  <2>2. txns[m].kind # "auth"
    BY <1>3, <2>1 DEF BooksInv, Traces, Traced
  <2> QED BY <1>3, <2>1, <2>2 DEF Captured, Succeeded
<1>4. CASE \E m \in Completed(txns, {"auth", "capture"}) : txns[m].token = n.ref
  <2>1. payment' = payment
    BY <1>4 DEF HandleAuthorization, Ignored
  <2> QED BY <1>1, <1>3, <1>4, <2>1
<1>5. CASE ~ \E m \in Completed(txns, {"auth", "capture"}) : txns[m].token = n.ref
  <2>1. ~ Captured(n.ref)
    BY <1>5, CapturedIsCompleted DEF Completed, Succeeded
  <2>2. /\ kind \in TransactionKind
        /\ payment' = Postprocessed(payment, Txn(kind, n.success, n.ref, n.amount))
    BY <1>5 DEF HandleAuthorization, Booked, Recorded, TransactionKind
  <2>3. (kind = "capture" /\ autoCapture) \/ (kind = "auth" /\ ~ autoCapture)
    OBVIOUS
  <2> HIDE DEF kind
  <2>4. CASE kind = "capture" /\ autoCapture
    <3>1. payment'.captured = payment.captured + n.amount
      BY <2>2, <2>4, BookedCaptured
    <3> QED BY <1>1, <2>1, <2>4, <3>1
  <2>5. CASE kind = "auth" /\ ~ autoCapture
    <3>1. payment'.captured = payment.captured
      BY <2>2, <2>5, BookedCaptured
    <3> QED BY <1>1, <2>5, <3>1
  <2> QED BY <2>3, <2>4, <2>5
<1> QED BY <1>4, <1>5

LEMMA FirstCapture ==
  ASSUME BooksInv, NEW i \in DOMAIN sent, NEW n \in Notification, n = sent[i],
         n.event = "CAPTURE", n.success, ~ Excused(i), HandleCapture(n),
         payment.captured \in Int
  PROVE  payment'.captured = payment.captured + Effect(n)
<1>1. CASE Captured(n.ref)
  <2>1. n.success = Captured(n.ref)
    <3>1. n.success = TRUE /\ Captured(n.ref) = TRUE
      BY <1>1, NoteFields DEF Captured
    <3> QED BY <3>1
  <2>2. Effect(n) = 0
    BY <2>1 DEF Effect
  <2>3. Completed(txns, {"capture"}) # {}
    BY <1>1, CapturedIsCompleted
  <2>4. payment' = payment
    BY <2>3 DEF HandleCapture
  <2> QED BY <2>2, <2>4
<1>2. CASE ~ Captured(n.ref)
  <2>1. n.success # Captured(n.ref)
    <3>1. n.success = TRUE /\ Captured(n.ref) = FALSE
      BY <1>2, NoteFields DEF Captured
    <3> QED BY <3>1
  <2>2. Effect(n) = n.amount
    BY <2>1 DEF Effect
  <2>3. Completed(txns, {"capture"}) = {}
    BY <1>2 DEF Excused
  <2>4. payment' = Postprocessed(payment, Txn("capture", n.success, n.ref, n.amount))
    BY <2>3 DEF HandleCapture, Booked, Recorded
  <2>5. "capture" \in TransactionKind
    BY DEF TransactionKind
  <2> QED BY <2>2, <2>4, <2>5, BookedCaptured
<1> QED BY <1>1, <1>2

\* A first failed capture, news of a pending payment, a refund.
LEMMA FirstOnce ==
  ASSUME BooksInv, NEW i \in DOMAIN sent, NEW n \in Notification, n = sent[i],
         n.event \in {"CAPTURE_FAILED", "PENDING", "REFUND"}, n.success,
         delivered[i] = 0, ~ Excused(i), HandleOnce(OnceKind(n), n), payment.captured \in Int
  PROVE  payment'.captured = payment.captured + Effect(n)
<1>1. n.amount \in Int
  BY NoteFields
<1>2. ~ Heard(n.event, n.ref)
  BY Unheard
<1>3. CASE n.event = "PENDING"
  <2>1. Effect(n) = 0
    BY <1>3 DEF Effect
  <2>2. payment' = payment \/
          payment' = Postprocessed(payment, Txn("pending", n.success, n.ref, n.amount))
    BY <1>3 DEF HandleOnce, OnceKind, Ignored, Booked, Recorded
  <2>3. "pending" \in TransactionKind
    BY DEF TransactionKind
  <2>4. payment'.captured = payment.captured
    BY <2>2, <2>3, BookedCaptured
  <2> QED BY <2>1, <2>4
<1>4. CASE n.event \in {"CAPTURE_FAILED", "REFUND"}
  <2> DEFINE kind == OnceKind(n)
  <2>1. \/ kind = "capture_failed" /\ n.event = "CAPTURE_FAILED"
        \/ kind = "refund" /\ n.event = "REFUND"
    <3>1. CASE n.event = "CAPTURE_FAILED"
      BY <3>1 DEF OnceKind
    <3>2. CASE n.event = "REFUND"
      BY <3>2 DEF OnceKind
    <3> QED BY <1>4, <3>1, <3>2
  <2>2. kind \in TransactionKind
    BY <2>1 DEF TransactionKind
  <2> HIDE DEF kind
  <2>3. ~ SeenAsSuccess(txns, kind, n.ref)
    <3> SUFFICES ASSUME SeenAsSuccess(txns, kind, n.ref) PROVE FALSE
      OBVIOUS
    <3>1. Of(txns, {kind}, n.ref) # {} /\ Of(txns, {kind}, n.ref) \in SUBSET DOMAIN txns
      BY DEF SeenAsSuccess, Of
    <3>2. PICK m \in Of(txns, {kind}, n.ref) : Last(txns, Of(txns, {kind}, n.ref)) = txns[m]
      BY <3>1, LastIsOne DEF BooksInv, IInv, Types
    <3>3. m \in DOMAIN txns /\ txns[m].kind = kind /\ txns[m].token = n.ref /\ txns[m].success
      BY <3>2 DEF SeenAsSuccess, Of
    <3>4. Traced(txns[m])
      BY <3>3 DEF BooksInv, Traces
    <3> QED BY <1>2, <2>1, <3>3, <3>4 DEF Traced
  <2>4. payment' = Postprocessed(payment, Txn(kind, n.success, n.ref, n.amount))
    BY <2>3 DEF HandleOnce, Booked, Recorded, kind
  <2>5. Effect(n) = - n.amount
    BY <1>4 DEF Effect
  <2>6. n.event = "CAPTURE_FAILED" => payment.status \in {"partially-charged", "fully-charged"}
    BY DEF Excused
  <2>7. payment'.captured = payment.captured - n.amount
    BY <2>1, <2>2, <2>4, <2>6, BookedCaptured
  <2> QED BY <1>1, <2>5, <2>7
<1> QED BY <1>3, <1>4

LEMMA FirstReversal ==
  ASSUME BooksInv, NEW i \in DOMAIN sent, NEW n \in Notification, n = sent[i],
         n.event = "REFUNDED_REVERSED", n.success, delivered[i] = 0,
         HandleReversedRefund(n), payment.captured \in Int
  PROVE  payment'.captured = payment.captured + Effect(n)
<1>1. ~ Heard("REFUNDED_REVERSED", n.ref)
  BY Unheard
<1>2. Of(txns, {"refund_reversed"}, n.ref) = {}
  BY <1>1 DEF Of, BooksInv, Traces, Traced
<1>3. payment' = Postprocessed(payment, Txn("refund_reversed", n.success, n.ref, n.amount))
  BY <1>2 DEF HandleReversedRefund, Booked, Recorded
<1>4. "refund_reversed" \in TransactionKind /\ Effect(n) = n.amount
  BY DEF TransactionKind, Effect
<1> QED BY <1>3, <1>4, BookedCaptured

LEMMA FirstFailedRefund ==
  ASSUME NEW i \in DOMAIN sent, NEW n \in Notification, n = sent[i],
         n.event = "REFUND_FAILED", n.success, ~ OutOfTurn(i),
         HandleFailedRefund(n), payment.captured \in Int
  PROVE  payment'.captured = payment.captured + Effect(n)
<1> DEFINE known == Of(txns, {"refund_ongoing", "refund", "refund_failed"}, n.ref)
<1>1. known # {} /\ Last(txns, known).kind = "refund"
  BY DEF OutOfTurn
<1>2. payment' = Postprocessed(payment, Txn("capture", n.success, n.ref, n.amount))
  BY <1>1 DEF HandleFailedRefund
<1>3. "capture" \in TransactionKind /\ Effect(n) = n.amount
  BY DEF TransactionKind, Effect
<1> QED BY <1>2, <1>3, BookedCaptured

LEMMA FirstCancellation ==
  ASSUME NEW n \in Notification, n.event = "CANCELLATION", HandleCancellation(n),
         payment.captured \in Int
  PROVE  payment'.captured = payment.captured + Effect(n)
<1>1. payment' = payment \/
        payment' = Postprocessed(payment, Txn("cancel", n.success, n.ref, n.amount))
  BY DEF HandleCancellation, Ignored, Recorded
<1>2. "cancel" \in TransactionKind /\ Effect(n) = 0
  BY DEF TransactionKind, Effect
<1> QED BY <1>1, <1>2, BookedCaptured

LEMMA FirstDelivery ==
  ASSUME BooksInv, NEW i \in DOMAIN sent, Deliver(i), delivered[i] = 0, ~ Excused(i),
         payment.captured \in Int
  PROVE  payment'.captured = payment.captured + Outstanding(i)
<1>1. PICK n \in Notification : n = sent[i]
  BY DEF BooksInv, IInv, Types
<1>2. Outstanding(i) = Effect(n)
  BY <1>1 DEF Outstanding
<1>3. Handle(n) /\ ~ OutOfTurn(i)
  BY <1>1 DEF Excused, Deliver
<1>4. CASE ~ n.success
  <2>1. Effect(n) = 0 /\ n.event \notin Undoing
    BY <1>1, <1>4, EffectOfFailure
  <2>2. payment' = payment
    BY <1>3, <1>4, <2>1, FailureStep DEF Undoing, BooksInv
  <2> QED BY <1>2, <2>1, <2>2
<1>5. CASE n.success /\ n.event = "AUTHORISATION"
  BY <1>2, <1>3, <1>5, FirstAuthorization DEF Handle
<1>6. CASE n.success /\ n.event = "CAPTURE"
  BY <1>1, <1>2, <1>3, <1>6, FirstCapture DEF Handle
<1>7. CASE n.success /\ n.event \in {"CAPTURE_FAILED", "PENDING", "REFUND"}
  <2>1. HandleOnce(OnceKind(n), n)
    BY <1>3, <1>7 DEF Handle, OnceKind
  <2> QED BY <1>1, <1>2, <1>7, <2>1, FirstOnce
<1>8. CASE n.success /\ n.event = "REFUNDED_REVERSED"
  BY <1>1, <1>2, <1>3, <1>8, FirstReversal DEF Handle
<1>9. CASE n.success /\ n.event = "REFUND_FAILED"
  BY <1>1, <1>2, <1>3, <1>9, FirstFailedRefund DEF Handle
<1>10. CASE n.success /\ n.event = "CANCELLATION"
  BY <1>2, <1>3, <1>10, FirstCancellation DEF Handle
<1> QED BY <1>4, <1>5, <1>6, <1>7, <1>8, <1>9, <1>10, NoteFields DEF Event

\* All that Drift is made of.
LEMMA DriftParts ==
  ASSUME PaymentsInv
  PROVE  payment.captured \in Int /\ held \in Int /\ ToBook \in Int /\ Ahead \in Int
<1>1. payment.captured \in Int /\ held \in Int
  BY DEF PaymentsInv, StatusRight, PaymentRow, Money
<1> QED BY <1>1, ToBookInt, AheadInt DEF PaymentsInv, BooksInv, IInv

LEMMA DeliverDrift ==
  ASSUME PaymentsInv, PaymentsInv', NEW i \in DOMAIN sent, Deliver(i), ~ Excused(i)
  PROVE  Drift' = Drift
<1>1. /\ payment.captured \in Int /\ held \in Int /\ ToBook \in Int /\ Ahead \in Int
      /\ Outstanding(i) \in Int
  BY DriftParts, OutstandingInt DEF PaymentsInv, BooksInv, IInv
<1>2. ToBook' = ToBook - Outstanding(i) /\ Ahead' = Ahead /\ held' = held
  BY DeliverEffects, DeliverCounts DEF PaymentsInv, BooksInv
<1>3. payment'.captured = payment.captured + Outstanding(i)
  <2>1. CASE delivered[i] = 0
    BY <1>1, <2>1, FirstDelivery DEF PaymentsInv
  <2>2. CASE delivered[i] # 0
    <3>1. delivered[i] > 0 /\ Outstanding(i) = 0
      BY <2>2 DEF Outstanding, PaymentsInv, BooksInv, IInv, Types
    <3>2. payment' = payment
      BY <3>1, RepeatStep DEF Excused, PaymentsInv, BooksInv
    <3> QED BY <1>1, <3>1, <3>2
  <2> QED BY <2>1, <2>2
<1> QED BY <1>1, <1>2, <1>3 DEF Drift

\* Nothing of what Drift is made of changes.
LEMMA QuietDrift ==
  ASSUME UNCHANGED <<payment, txns, autoCapture, asked, requests, held, sent, delivered>>
  PROVE  Drift' = Drift
<1>1. \A n : Effect(n)' = Effect(n)
  BY DEF Effect, Captured
<1> QED BY DEF Drift, ToBook, Ahead, Outstanding, Effect, Captured, BookedAhead

\* A request is made under a new reference: what staff record of it now counts
\* as booked ahead, when it is a capture.
LEMMA AskDrift ==
  ASSUME PaymentsInv, PaymentsInv', NEW ref, ref = asked + 1, asked' = ref,
         UNCHANGED <<autoCapture, held, sent, delivered>>,
         \A k \in 0 .. asked : Captured(k)' <=> Captured(k),
         \A k \in 1 .. asked : \A r : Requested(k, r)' <=> Requested(k, r),
         payment'.captured = payment.captured + BookedAhead(ref)'
  PROVE  Drift' = Drift
<1>1. Types /\ References /\ Types' /\ References'
  BY DEF PaymentsInv, BooksInv, IInv
<1>2. asked \in Nat
  BY <1>1 DEF Types
<1>3. ASSUME NEW j \in DOMAIN sent
      PROVE  Outstanding(j)' = Outstanding(j)
  <2>1. sent[j].ref \in 0 .. asked
    BY <1>2 DEF PaymentsInv, BooksInv, Notices, Referring
  <2>2. PICK k \in 0 .. asked : k = sent[j].ref
    BY <2>1
  <2>3. Captured(sent[j].ref)' <=> Captured(sent[j].ref)
    BY <2>2
  <2> QED BY <1>1, <2>3, OutstandingStays
<1>4. ToBook' = ToBook
  BY <1>1, <1>3, ToBookSame
<1>5. ASSUME NEW k \in 1 .. asked
      PROVE  BookedAhead(k)' = BookedAhead(k)
  <2>1. k \in 0 .. asked
    BY <1>2
  <2> QED BY <1>1, <2>1, BookedAheadStays
<1>6. Ahead' = Ahead + BookedAhead(ref)'
  BY <1>1, <1>5, AheadMore
<1>7. BookedAhead(ref)' \in Int
  BY <1>1, BookedAheadIntNext
<1> QED BY <1>4, <1>6, <1>7, DriftParts DEF Drift

\* What is captured under a reference when t is recorded.
LEMMA CapturedWith ==
  ASSUME Types, NEW t \in Transaction, Recorded(t), NEW ref
  PROVE  Captured(ref)' <=>
           Captured(ref) \/ (t.success /\ t.kind = "capture" /\ t.token = ref)
<1>1. /\ DOMAIN txns' = DOMAIN txns \union {Len(txns) + 1}
      /\ txns'[Len(txns) + 1] = t
      /\ \A m \in DOMAIN txns : txns'[m] = txns[m]
  BY OneAdded DEF Types, Recorded, Grows
<1> QED BY <1>1 DEF Captured, Succeeded

\* A reference that was not given out yet.
LEMMA NewReference ==
  ASSUME BooksInv, NEW ref, ref = asked + 1
  PROVE  ~ Captured(ref) /\ ref \notin 0 .. asked /\ \A r \in requests : r.ref # ref
<1>1. asked \in Nat /\ \A r \in requests : r.ref \in 1 .. asked
  BY DEF BooksInv, IInv, Types, References
<1>2. \A m \in DOMAIN txns : txns[m].token \in 0 .. asked
  BY DEF BooksInv, Traces, Traced
<1> QED BY <1>1, <1>2 DEF Captured, Succeeded

LEMMA OperateDrift ==
  ASSUME PaymentsInv, PaymentsInv', NEW c \in Sessions, Operate(c)
  PROVE  Drift' = Drift
<1>1. PICK ref : ref = asked + 1
  OBVIOUS
<1>2. /\ ~ Captured(ref) /\ ref \notin 0 .. asked /\ \A r \in requests : r.ref # ref
      /\ Types /\ Types' /\ References' /\ payment.captured \in Int
  BY <1>1, NewReference, DriftParts DEF PaymentsInv, BooksInv, IInv
<1>3. PICK t \in Transaction :
        /\ ~ t.action /\ t.token = ref /\ Recorded(t) /\ t.success
        /\ t.kind = KindOf(session[c].op) /\ t.amount = session[c].amount
  BY <1>1, OperateRecords DEF PaymentsInv, BooksInv, Attempts
<1>4. PICK r : /\ r.kind = session[c].op /\ r.ref = ref /\ r.amount = session[c].amount
               /\ requests' = requests \union {r}
  <2> DEFINE r == [kind |-> session[c].op, ref |-> asked + 1, amount |-> session[c].amount]
  <2>1. r.kind = session[c].op /\ r.ref = ref /\ r.amount = session[c].amount
    BY <1>1
  <2>2. requests' = requests \union {r}
    BY DEF Operate, Ask
  <2> QED BY <2>1, <2>2
<1>5. asked' = ref /\ UNCHANGED <<autoCapture, held, sent, delivered>>
  BY <1>1 DEF Operate, Ask
<1>6. session[c].op \in Operation
  BY AskStep DEF Operate, PaymentsInv, BooksInv
<1>7. \A k \in 0 .. asked : Captured(k)' <=> Captured(k)
  BY <1>2, <1>3, CapturedWith
<1>8. \A k \in 1 .. asked : \A q : Requested(k, q)' <=> Requested(k, q)
  BY <1>2, <1>4 DEF Requested, Types
<1>9. payment'.captured = payment.captured + BookedAhead(ref)'
  <2>1. CASE session[c].op = "capture"
    <3>1. t.kind = "capture"
      BY <1>3, <2>1 DEF KindOf
    <3>2. payment'.captured = payment.captured + t.amount
      BY <1>3, <3>1, CapturedAfter DEF Recorded
    <3>3. Captured(ref)' /\ Requested(ref, r)'
      BY <1>2, <1>3, <1>4, <2>1, <3>1, CapturedWith DEF Requested
    <3>4. BookedAhead(ref)' = r.amount
      BY <1>2, <3>3, BookedAheadIsNext
    <3> QED BY <1>3, <1>4, <3>2, <3>4
  <2>2. CASE session[c].op # "capture"
    <3>1. t.kind \in {"refund_ongoing", "void"}
      BY <1>3, <1>6, <2>2 DEF KindOf, Operation
    <3>2. payment'.captured = payment.captured
      BY <1>3, <3>1, CapturedAfter DEF Recorded
    <3>3. ~ Captured(ref)'
      BY <1>2, <1>3, <3>1, CapturedWith
    <3>4. BookedAhead(ref)' = 0
      BY <3>3 DEF BookedAhead
    <3> QED BY <1>2, <3>2, <3>4
  <2> QED BY <2>1, <2>2
<1> QED BY <1>1, <1>5, <1>7, <1>8, <1>9, AskDrift

\* Nothing is recorded of the request as a success.
LEMMA UnrecordedDrift ==
  ASSUME PaymentsInv, PaymentsInv', NEW ref, ref = asked + 1, asked' = ref,
         UNCHANGED <<payment, autoCapture, held, sent, delivered>>,
         \A k : Captured(k)' <=> Captured(k),
         \A r \in requests' : r \in requests \/ r.ref = ref, requests \subseteq requests'
  PROVE  Drift' = Drift
<1>1. /\ ~ Captured(ref) /\ ref \notin 0 .. asked /\ \A r \in requests : r.ref # ref
      /\ payment.captured \in Int /\ asked \in Nat
  BY NewReference, DriftParts DEF PaymentsInv, BooksInv, IInv, Types
<1>2. \A k \in 1 .. asked : \A q : Requested(k, q)' <=> Requested(k, q)
  BY <1>1 DEF Requested
<1>3. BookedAhead(ref)' = 0
  BY <1>1 DEF BookedAhead
<1>4. payment'.captured = payment.captured + BookedAhead(ref)'
  BY <1>1, <1>3
<1> QED BY <1>2, <1>4, AskDrift

LEMMA StaffDrift ==
  ASSUME PaymentsInv, PaymentsInv', NEW c \in Sessions, Staff(c)
  PROVE  Drift' = Drift
<1>1. IInv /\ BooksInv /\ Types
  BY DEF PaymentsInv, BooksInv, IInv
<1>2. CASE (\E op \in Operation, amount \in Amount : Read(c, op, amount)) \/ Refuse(c)
  <2>1. UNCHANGED <<payment, txns, autoCapture, asked, requests, held, sent, delivered>>
    BY <1>2 DEF Read, Refuse, shop, adyen
  <2> QED BY <2>1, QuietDrift
<1>3. CASE Operate(c)
  BY <1>3, OperateDrift
<1>4. CASE LoseCommit(c)
  <2>1. PICK ref : ref = asked + 1
    OBVIOUS
  <2>2. PICK r : r.ref = ref /\ requests' = requests \union {r}
    <3> DEFINE r == [kind |-> session[c].op, ref |-> asked + 1, amount |-> session[c].amount]
    <3>1. r.ref = ref /\ requests' = requests \union {r}
      BY <1>4, <2>1 DEF LoseCommit, Ask
    <3> QED BY <3>1
  <2>3. asked' = ref /\ UNCHANGED <<payment, txns, autoCapture, held, sent, delivered>>
    BY <1>4, <2>1 DEF LoseCommit, Ask
  <2>4. \A k : Captured(k)' <=> Captured(k)
    BY <2>3 DEF Captured
  <2> QED BY <2>1, <2>2, <2>3, <2>4, UnrecordedDrift
<1>5. CASE OperateFailed(c)
  <2>1. PICK ref : ref = asked + 1
    OBVIOUS
  <2>2. PICK t \in Transaction : Recorded(t) /\ ~ t.success
    BY <1>1, <1>5, OperateFailedRecords DEF BooksInv
  <2>3. asked' = ref /\ UNCHANGED <<autoCapture, requests, held, sent, delivered>>
    BY <1>5, <2>1 DEF OperateFailed, adyen
  <2>4. payment' = payment
    BY <2>2, FailureChangesNothing DEF Recorded
  <2>5. \A k : Captured(k)' <=> Captured(k)
    BY <1>1, <2>2, CapturedWith
  <2> QED BY <2>1, <2>3, <2>4, <2>5, UnrecordedDrift
<1> QED BY <1>2, <1>3, <1>4, <1>5 DEF Staff

\* Adyen sends n: its effect is still to be booked.
LEMMA TellsToBook ==
  ASSUME PaymentsInv, NEW n \in Notification, NEW i, Tells(n, i)
  PROVE  ToBook' = ToBook + Effect(n)
<1>1. Sends(n, i) /\ Sent(n, i) /\ UNCHANGED <<txns, autoCapture>> /\ Types
  BY SendsOne DEF Tells, shop, PaymentsInv, BooksInv, IInv
<1>2. \A ref : Captured(ref)' <=> Captured(ref)
  BY <1>1 DEF Captured
<1>3. \A j \in DOMAIN sent : Outstanding(j)' = Outstanding(j)
  BY <1>1, <1>2, OutstandingStays DEF Sent
<1>4. PICK e : Effect(n) = e /\ Effect(n)' = e
  BY <1>1, <1>2, EffectSame
<1>5. Outstanding(i)' = e
  <2>1. sent'[i] = n /\ delivered'[i] = 0
    BY <1>1 DEF Sent
  <2> QED BY <1>4, <2>1 DEF Outstanding
<1> QED BY <1>1, <1>3, <1>4, <1>5, ToBookMore

LEMMA AuthorisingDrift ==
  ASSUME PaymentsInv, PaymentsInv', NEW n \in Notification, NEW i, Tells(n, i), Authorising(n)
  PROVE  Drift' = Drift
<1>1. /\ payment.captured \in Int /\ held \in Int /\ ToBook \in Int /\ Ahead \in Int
      /\ ToBook' = ToBook + Effect(n)
      /\ UNCHANGED <<payment, txns, autoCapture, asked, requests>>
  BY DriftParts, TellsToBook DEF Tells, Authorising, shop
<1>2. ~ Announced("AUTHORISATION") /\ n.ref = 0 /\ n.amount = Total
  BY DEF Authorising, Announced
<1>3. ~ Captured(0)
  BY <1>2 DEF Captured, Succeeded, PaymentsInv, BooksInv, Traces, Traced
<1>4. held = 0
  <2>1. Worth = 0 /\ held \in Nat /\ Refunded \in Nat
    BY <1>2, RefundedNat DEF PaymentsInv, Money, BooksInv, IInv
  <2> QED BY <2>1 DEF Worth
<1>5. Effect(n) = IF n.success /\ autoCapture THEN Total ELSE 0
  BY <1>2, <1>3 DEF Effect, Authorising
<1>6. held' = held + Effect(n)
  BY <1>4, <1>5, TotalAssumption DEF Authorising
<1>7. Effect(n) \in Int
  BY EffectInt
<1>8. Ahead' = Ahead
  BY <1>1 DEF Ahead, BookedAhead, Captured
<1> QED BY <1>1, <1>6, <1>7, <1>8 DEF Drift

LEMMA FailingDrift ==
  ASSUME PaymentsInv, PaymentsInv', NEW n \in Notification, NEW i, Tells(n, i),
         NEW k \in DOMAIN sent, Failing(n, k)
  PROVE  Drift' = Drift
<1>1. /\ payment.captured \in Int /\ held \in Int /\ ToBook \in Int /\ Ahead \in Int
      /\ ToBook' = ToBook + Effect(n)
      /\ UNCHANGED <<payment, txns, autoCapture, asked, requests>>
  BY DriftParts, TellsToBook DEF Tells, Failing, shop
<1>2. n.amount \in Nat /\ Effect(n) \in Int
  BY NoteFields, EffectInt
<1>3. held' = held + Effect(n)
  <2>1. CASE n.event = "CAPTURE_FAILED"
    <3>1. Effect(n) = - n.amount /\ held' = held - n.amount
      BY <2>1 DEF Effect, Failing
    <3> QED BY <1>1, <1>2, <3>1
  <2>2. CASE n.event \in {"REFUND_FAILED", "REFUNDED_REVERSED"}
    <3>1. Effect(n) = n.amount /\ held' = held + n.amount
      BY <2>2 DEF Effect, Failing
    <3> QED BY <3>1
  <2> QED BY <2>1, <2>2 DEF Failing
<1>4. Ahead' = Ahead
  BY <1>1 DEF Ahead, BookedAhead, Captured
<1> QED BY <1>1, <1>2, <1>3, <1>4 DEF Drift

\* A request that Adyen decides on is no longer ahead of Adyen's account.
LEMMA DecidingAhead ==
  ASSUME PaymentsInv, PaymentsInv', UNCHANGED <<txns, asked>>,
         NEW r \in requests, requests' = requests \ {r}
  PROVE  Ahead' = Ahead - (IF r.kind = "capture" /\ Captured(r.ref) THEN r.amount ELSE 0)
<1>1. Types /\ References /\ Types' /\ References'
  BY DEF PaymentsInv, BooksInv, IInv
<1>2. PICK ref \in 1 .. asked : ref = r.ref
  BY <1>1 DEF References
<1>3. \A k : Captured(k)' <=> Captured(k)
  BY DEF Captured
<1>4. \A q \in requests : q.ref = ref => q = r
  BY <1>1, <1>2 DEF References
<1>5. ASSUME NEW k \in 1 .. asked, k # ref
      PROVE  BookedAhead(k)' = BookedAhead(k)
  <2>1. \A q : Requested(k, q)' <=> Requested(k, q)
    BY <1>2, <1>5 DEF Requested
  <2> QED BY <1>1, <1>3, <2>1, BookedAheadStays
<1>6. BookedAhead(ref)' = 0
  BY <1>4 DEF BookedAhead
<1>7. BookedAhead(ref) = IF r.kind = "capture" /\ Captured(ref) THEN r.amount ELSE 0
  <2>1. CASE r.kind = "capture"
    <3>1. Requested(ref, r)
      BY <1>2, <2>1 DEF Requested
    <3> QED BY <1>1, <2>1, <3>1, BookedAheadIs
  <2>2. CASE r.kind # "capture"
    <3>1. \A q \in requests : ~ Requested(ref, q)
      BY <1>4, <2>2 DEF Requested
    <3> QED BY <2>2, <3>1, NotBookedAhead
  <2> QED BY <2>1, <2>2
<1>8. Ahead \in Int /\ BookedAhead(ref) \in Int
  BY <1>1, AheadInt, BookedAheadInt
<1>9. Ahead' = Ahead + BookedAhead(ref)' - BookedAhead(ref)
  BY <1>1, <1>5, AheadOne
<1> QED BY <1>2, <1>6, <1>7, <1>8, <1>9

LEMMA DecidingDrift ==
  ASSUME PaymentsInv, PaymentsInv', NEW n \in Notification, NEW i, Tells(n, i),
         NEW r \in requests, Deciding(n, r)
  PROVE  Drift' = Drift
<1>1. /\ payment.captured \in Int /\ held \in Int /\ ToBook \in Int /\ Ahead \in Int
      /\ ToBook' = ToBook + Effect(n)
      /\ UNCHANGED <<payment, txns, autoCapture, asked>>
  BY DriftParts, TellsToBook DEF Tells, shop
<1>2. n.amount \in Nat /\ n.amount = r.amount /\ n.ref = r.ref /\ n.success \in BOOLEAN
  BY NoteFields DEF Deciding
<1>3. Ahead' = Ahead - (IF r.kind = "capture" /\ Captured(n.ref) THEN n.amount ELSE 0)
  BY <1>1, <1>2, DecidingAhead DEF Deciding
<1>4. CASE r.kind = "capture" /\ n.event = "CAPTURE"
  <2>1. Effect(n) = IF n.success = Captured(n.ref) THEN 0
                    ELSE IF n.success THEN n.amount ELSE - n.amount
    BY <1>4 DEF Effect
  <2>2. held' = held + (IF n.success THEN n.amount ELSE 0)
    BY <1>1, <1>2, <1>4 DEF Deciding
  <2>3. CASE Captured(n.ref)
    <3>1. Effect(n) = IF n.success THEN 0 ELSE - n.amount
      <4>1. Captured(n.ref) = TRUE
        BY <2>3 DEF Captured
      <4> QED BY <1>2, <2>1, <4>1
    <3>2. Ahead' = Ahead - n.amount
      BY <1>3, <1>4, <2>3
    <3> QED BY <1>1, <1>2, <2>2, <3>1, <3>2 DEF Drift
  <2>4. CASE ~ Captured(n.ref)
    <3>1. Effect(n) = IF n.success THEN n.amount ELSE 0
      <4>1. Captured(n.ref) = FALSE
        BY <2>4 DEF Captured
      <4> QED BY <1>2, <2>1, <4>1
    <3>2. Ahead' = Ahead
      BY <1>1, <1>3, <2>4
    <3> QED BY <1>1, <1>2, <2>2, <3>1, <3>2 DEF Drift
  <2> QED BY <2>3, <2>4
<1>5. CASE r.kind = "refund" /\ n.event = "REFUND"
  <2>1. Effect(n) = IF n.success THEN - n.amount ELSE 0
    BY <1>5 DEF Effect
  <2>2. held' = held - (IF n.success THEN n.amount ELSE 0)
    BY <1>1, <1>2, <1>5 DEF Deciding
  <2>3. Ahead' = Ahead
    BY <1>1, <1>3, <1>5
  <2> QED BY <1>1, <1>2, <2>1, <2>2, <2>3 DEF Drift
<1>6. CASE r.kind = "void" /\ n.event = "CANCELLATION"
  <2>1. Effect(n) = 0 /\ held' = held
    BY <1>6 DEF Effect, Deciding
  <2>2. Ahead' = Ahead
    BY <1>1, <1>3, <1>6
  <2> QED BY <1>1, <2>1, <2>2 DEF Drift
<1> QED BY <1>4, <1>5, <1>6 DEF Deciding

LEMMA StepDrift ==
  ASSUME PaymentsInv, PaymentsInv', [Next]_vars, Drift' # Drift
  PROVE  \E i \in DOMAIN sent : Deliver(i) /\ Excused(i)
<1>1. ASSUME NEW c \in Sessions, Staff(c)
      PROVE  FALSE
  BY <1>1, StaffDrift
<1>2. ASSUME Adyen
      PROVE  FALSE
  <2>0. PICK n \in Notification : \E j : Tells(n, j)
    BY <1>2, AdyenTells DEF PaymentsInv, BooksInv
  <2>1. PICK i : Tells(n, i)
    BY <2>0
  <2> QED BY <2>1, AuthorisingDrift, DecidingDrift, FailingDrift DEF Tells
<1>3. ASSUME UNCHANGED vars
      PROVE  FALSE
  BY <1>3, QuietDrift DEF vars, shop, adyen
<1> QED BY <1>1, <1>2, <1>3, DeliverDrift DEF Next

\* Whatever staff and Adyen do, and however notifications are held up, repeated or
\* reordered, captured_amount and Adyen's account move together once what is under
\* way is counted, but for the deliveries that DriftNeeds lists.
THEOREM BooksFollowAdyen == Spec => DriftNeeds
<1>1. PaymentsInv /\ PaymentsInv' /\ [Next]_vars =>
        [Drift' # Drift =>
           \E i \in DOMAIN sent :
             LET n == sent[i]
             IN  /\ Deliver(i)
                 /\ \/ ~ Found(n)
                    \/ n.event = "CAPTURE" /\ ~ n.success /\ Captured(n.ref)
                    \/ n.event = "CAPTURE" /\ n.success /\ ~ Captured(n.ref)
                         /\ Completed(txns, {"capture"}) # {}
                    \/ n.event = "CAPTURE_FAILED"
                         /\ payment.status \notin {"partially-charged", "fully-charged"}
                    \/ OutOfTurn(i)
                    \/ n.event = "REFUND" /\ delivered[i] > 0 /\ AttemptUnder(n.ref)]_vars
  BY StepDrift DEF Excused
<1> QED BY <1>1, PaymentsInvariance, PTL DEF Spec, DriftNeeds
=============================================================================
