------------------------ MODULE CheckoutCompletionProofs ------------------------
(***************************************************************************)
(* Theorems of CheckoutCompletion, for any number of checkouts, payments   *)
(* and sessions.                                                           *)
(***************************************************************************)
EXTENDS CheckoutCompletion, SequenceTheorems, TLAPS

USE CheckoutAssumption

-----------------------------------------------------------------------------
(* The invariant. *)

Customers == {CustomerOf[k] : k \in Checkouts}
Order == [checkout : Checkouts, total : 0 .. Price, card : 0 .. Price]
Voucher == [used : Nat, limit : Nat, once : BOOLEAN, customers : SUBSET Customers]
Transaction == [step : Step, by : {"customer", "adyen"}, checkout : Checkouts, payment : Nat,
                locked : BOOLEAN, voucher : BOOLEAN, uses : {0, 1}, added : BOOLEAN,
                total : 0 .. Price, saw : Nat, took : BOOLEAN, undoes : BOOLEAN,
                confirms : BOOLEAN, notified : BOOLEAN]

Types ==
  /\ checkouts \in SUBSET Checkouts
  /\ payments \in Seq(PaymentRow)
  /\ orders \in Seq(Order)
  /\ voucher \in Voucher
  /\ balance \in Nat
  /\ stock \in Nat
  /\ adyen \in Seq(Account)
  /\ Len(adyen) = Len(payments)
  /\ session \in [Sessions -> Transaction \union {Idle}]
  /\ crashes \in 0 .. MaxCrashes

\* Orders are of checkouts that are gone, one of each, and each has used the voucher.
OrdersOnce ==
  /\ \A i \in DOMAIN orders : orders[i].checkout \notin checkouts
  /\ \A i, j \in DOMAIN orders : orders[i].checkout = orders[j].checkout => i = j
  /\ Len(orders) <= voucher.used
  /\ voucher.used <= voucher.limit

\* A checkout has one active payment at most.
OneActive ==
  \A p, q \in DOMAIN payments :
    /\ payments[p].active
    /\ payments[q].active
    /\ payments[p].checkout = payments[q].checkout
    => p = q

\* Session s has its checkout locked.
HasCheckout(s) == s.step \notin {"idle", "create", "notified"}

\* No two sessions hold the same lock.
Apart(s, t) ==
  /\ ~ (s.step = "create" /\ t.step = "create")
  /\ ~ (HasCheckout(s) /\ HasCheckout(t) /\ s.checkout = t.checkout)
  /\ ~ (s.voucher /\ t.voucher)
  /\ ~ (s.locked /\ t.locked /\ s.payment = t.payment)

LocksHeldOnce ==
  \A c, d \in Sessions : c # d /\ Busy(c) /\ Busy(d) => Apart(session[c], session[d])

\* A session that holds its checkout works on the only active payment there is of it,
\* if there is one.
Paying(s) ==
  /\ s.payment \in {0} \union DOMAIN payments
  /\ s.payment # 0 => payments[s.payment].checkout = s.checkout
  /\ s.locked => s.payment # 0
  /\ s.by = "adyen" => s.locked /\ payments[s.payment].active /\ s.step # "create"
  /\ s.step = "notified" => s.by = "adyen"
  /\ s.step # "create" => s.checkout \in checkouts
  /\ s.step = "create" => /\ ~ s.locked /\ s.payment = 0
                          /\ \A p \in DOMAIN payments :
                               payments[p].active => payments[p].checkout # s.checkout
  /\ HasCheckout(s) => \A p \in DOMAIN payments :
                         payments[p].active /\ payments[p].checkout = s.checkout
                           => p = s.payment

\* A use that a session has counted is within the limit.
Counting(s) ==
  /\ s.step \in {"create", "notified", "locked", "priced"} => s.uses = 0
  /\ s.step \in {"counted", "charged"} => s.uses = 1
  /\ s.uses = 1 => s.voucher /\ voucher.used < voucher.limit
  /\ s.added => s.uses = 1
  /\ s.step = "undo" /\ s.uses = 1 =>
       voucher.once /\ CustomerOf[s.checkout] \in voucher.customers

\* It goes by the balance it saw, and the card has not grown since.
Pricing(s) ==
  s.step \in {"priced", "counted", "charged"} =>
    s.total = Positive(Price - s.saw) /\ balance <= s.saw

\* Money was captured of payment p, or a refund asked for.
Spent(p) == payments[p].captured > 0 \/ adyen[p].asked > 0

\* A payment that gets as far as the price was never charged, but by this session.
Charging(s) ==
  /\ s.step = "charged" => s.took
  /\ s.took => /\ s.locked /\ s.step \in {"charged", "undo"}
               /\ adyen[s.payment].taken > 0
  /\ s.took /\ s.by = "adyen" => payments[s.payment].toConfirm
  /\ s.took /\ s.step = "undo" => s.undoes /\ stock = 0
  /\ s.confirms => s.by = "adyen" /\ adyen[s.payment].taken > 0
  /\ s.payment # 0 /\ (s.took \/ s.step \in {"priced", "counted", "charged"}) => ~ Spent(s.payment)

\* A notification that makes no order meets a reason that lasts, or a lost answer.
Telling(s) ==
  s.notified =>
    /\ s.by = "adyen"
    /\ s.step # "undo" => s.confirms \/ payments[s.payment].captured # 0
    /\ s.step = "undo" => Refusable(s.payment) \/ adyen[s.payment].cut

Fits(s) == Paying(s) /\ Counting(s) /\ Pricing(s) /\ Charging(s) /\ Telling(s)
SessionsFit == \A c \in Sessions : Busy(c) => Fits(session[c])

\* A session has taken the money of payment p and not committed it.
UnderWay(p) == \E c \in Sessions : Busy(c) /\ session[c].took /\ session[c].payment = p

\* The books of a payment: what is spent was spent on the last of the stock, or on
\* the checkout's order.
Books(p) ==
  LET row == payments[p]
      there == row.checkout \in checkouts
  IN  /\ row.active => ~ row.refunded
      /\ there /\ Spent(p) => stock = 0
      /\ there /\ row.active /\ row.captured > 0 => adyen[p].asked > 0
      /\ adyen[p].asked = 0 => 0 <= row.captured /\ row.captured <= adyen[p].taken
      /\ ~ there /\ row.active /\ adyen[p].asked = 0 => row.captured > 0
      /\ adyen[p].told /\ row.active /\ there => Refusable(p) \/ adyen[p].cut

\* Adyen's side: what it took is to be confirmed, booked or under way, unless its
\* answer was lost.
Charges(p) ==
  /\ payments[p].confirmed => adyen[p].taken > 0
  /\ ~ adyen[p].cut =>
       /\ adyen[p].taken <= 1
       /\ adyen[p].action => adyen[p].taken = 0 /\ payments[p].toConfirm
       /\ adyen[p].taken > 0 => payments[p].toConfirm \/ Spent(p) \/ UnderWay(p)

PaymentsFit == \A p \in DOMAIN payments : Books(p) /\ Charges(p)

IInv == Types /\ OrdersOnce /\ OneActive /\ LocksHeldOnce /\ SessionsFit /\ PaymentsFit

-----------------------------------------------------------------------------
(* The numbers the code computes. *)

LEMMA Positives ==
  ASSUME NEW n \in Int
  PROVE  Positive(n) = IF n > 0 THEN n ELSE 0
<1> DEFINE m == IF n > 0 THEN n ELSE 0
<1>1. m \in {0, n} /\ \A y \in {0, n} : m >= y
  OBVIOUS
<1>2. \A x \in {0, n} : (\A y \in {0, n} : x >= y) => x = m
  OBVIOUS
<1> HIDE DEF m
<1>3. Max({0, n}) = m
  BY <1>1, <1>2 DEF Max
<1> QED BY <1>3 DEF Positive, m

LEMMA CardParts ==
  ASSUME NEW b \in Nat
  PROVE  CardPart(b) = IF b >= Price THEN Price ELSE b
<1> DEFINE m == IF b >= Price THEN Price ELSE b
<1>1. m \in {Price, b} /\ \A y \in {Price, b} : m <= y
  BY DEF CheckoutAssumption
<1>2. \A x \in {Price, b} : (\A y \in {Price, b} : x <= y) => x = m
  BY DEF CheckoutAssumption
<1> HIDE DEF m
<1>3. Min({Price, b}) = m
  BY <1>1, <1>2 DEF Min
<1> QED BY <1>3 DEF CardPart, m

\* What is due is part of the price, and is no less when the card has less.
LEMMA DueOf ==
  ASSUME Types
  PROVE  /\ Due = Positive(Price - balance)
         /\ Due \in 0 .. Price
BY Positives DEF Due, Types, CheckoutAssumption

LEMMA PositiveGrows ==
  ASSUME NEW a \in Nat, NEW b \in Nat, b <= a
  PROVE  Positive(Price - a) <= Positive(Price - b)
BY Positives DEF CheckoutAssumption

\* Rows by their keys.
LEMMA Rows ==
  ASSUME Types
  PROVE  /\ Len(payments) \in Nat
         /\ DOMAIN payments = 1 .. Len(payments)
         /\ DOMAIN adyen = 1 .. Len(payments)
         /\ \A p \in DOMAIN payments : payments[p] \in PaymentRow /\ adyen[p] \in Account
<1>1. payments \in Seq(PaymentRow) /\ adyen \in Seq(Account) /\ Len(adyen) = Len(payments)
  BY DEF Types
<1>2. DOMAIN payments = 1 .. Len(payments) /\ DOMAIN adyen = 1 .. Len(adyen)
      /\ Len(payments) \in Nat
  BY <1>1, LenProperties
<1>3. \A p \in 1 .. Len(payments) : payments[p] \in PaymentRow /\ adyen[p] \in Account
  BY <1>1, ElementOfSeq
<1> QED BY <1>1, <1>2, <1>3

LEMMA RowsNext ==
  ASSUME Types'
  PROVE  /\ Len(payments') \in Nat
         /\ DOMAIN payments' = 1 .. Len(payments')
         /\ DOMAIN adyen' = 1 .. Len(payments')
         /\ \A p \in DOMAIN payments' : payments'[p] \in PaymentRow /\ adyen'[p] \in Account
<1>1. payments' \in Seq(PaymentRow) /\ adyen' \in Seq(Account) /\ Len(adyen') = Len(payments')
  BY DEF Types
<1>2. DOMAIN payments' = 1 .. Len(payments') /\ DOMAIN adyen' = 1 .. Len(adyen')
      /\ Len(payments') \in Nat
  BY <1>1, LenProperties
<1>3. \A p \in 1 .. Len(payments') : payments'[p] \in PaymentRow /\ adyen'[p] \in Account
  BY <1>1, ElementOfSeq
<1> QED BY <1>1, <1>2, <1>3

\* The last active payment of a checkout is its only one.
LEMMA TheActive ==
  ASSUME Types, OneActive, NEW k
  PROVE  \/ LastActive(k) = 0 /\ Active(k) = {}
         \/ LastActive(k) \in DOMAIN payments /\ Active(k) = {LastActive(k)}
<1>1. Active(k) \subseteq DOMAIN payments /\ \A p, q \in Active(k) : p = q
  BY DEF Active, OneActive
<1>2. \A p \in DOMAIN payments : p \in Nat /\ p > 0
  BY Rows
<1>3. CASE Active(k) = {}
  <2>1. Max({0}) = 0
    BY DEF Max
  <2>2. {0} \union Active(k) = {0}
    BY <1>3
  <2> QED BY <1>3, <2>1, <2>2 DEF LastActive
<1>4. ASSUME NEW p \in Active(k) PROVE Active(k) = {p} /\ LastActive(k) = p
  <2>1. Active(k) = {p} /\ p \in Nat /\ p > 0
    BY <1>1, <1>2
  <2>2. /\ \A y \in {0, p} : p >= y
        /\ \A x \in {0, p} : (\A y \in {0, p} : x >= y) => x = p
    BY <2>1
  <2>3. Max({0, p}) = p
    BY <2>2 DEF Max
  <2>4. {0} \union Active(k) = {0, p}
    BY <2>1
  <2> QED BY <2>1, <2>3, <2>4 DEF LastActive
<1> QED BY <1>1, <1>3, <1>4

\* Its total is what is_fully_paid compares.
LEMMA SumOfOne ==
  ASSUME NEW f, NEW p, NEW sum,
         sum = MapThenSumSet(LAMBDA q : f[q].total, {p}), f[p].total \in Int
  PROVE  sum = f[p].total
<1> DEFINE one(s) == CHOOSE x \in s : TRUE
           Def(g, s) == IF s = {} THEN 0 ELSE f[one(s)].total + g[s \ {one(s)}]
           w == [s \in SUBSET {p} |-> IF s = {} THEN 0 ELSE f[p].total]
           iter == CHOOSE g : g = [s \in SUBSET {p} |-> Def(g, s)]
<1>1. \A s \in SUBSET {p} : s = {} \/ s = {p}
  OBVIOUS
<1>2. one({p}) = p
  OBVIOUS
<1>3. w = [s \in SUBSET {p} |-> Def(w, s)]
  <2>1. w[{}] = 0 /\ w[{p}] = f[p].total
    OBVIOUS
  <2>2. Def(w, {}) = 0
    OBVIOUS
  <2>3. Def(w, {p}) = f[p].total
    <3>1. {p} \ {p} = {} /\ {p} # {}
      OBVIOUS
    <3>2. Def(w, {p}) = f[one({p})].total + w[{p} \ {one({p})}]
      <4> HIDE DEF w, one
      <4> QED BY <3>1
    <3> HIDE DEF w, one, Def
    <3> QED BY <1>2, <2>1, <3>1, <3>2
  <2>4. \A s \in SUBSET {p} : w[s] = Def(w, s)
    <3> HIDE DEF w, Def
    <3> QED BY <1>1, <2>1, <2>2, <2>3
  <2> HIDE DEF Def
  <2> QED BY <2>4
<1>4. iter = [s \in SUBSET {p} |-> Def(iter, s)]
  <2> HIDE DEF w, Def
  <2> QED BY <1>3
<1>5. iter[{}] = 0
  BY <1>4
<1>6. iter[{p}] = f[p].total + iter[{}]
  <2>1. iter[{p}] = Def(iter, {p})
    <3> HIDE DEF Def, iter
    <3> QED BY <1>4
  <2>2. {p} \ {p} = {} /\ {p} # {}
    OBVIOUS
  <2> HIDE DEF iter
  <2> QED BY <1>2, <2>1, <2>2
<1>7. sum = iter[{p}]
  BY DEF MapThenSumSet, MapThenFoldSet
<1> HIDE DEF iter
<1> QED BY <1>5, <1>6, <1>7

LEMMA NotFullyPaid ==
  ASSUME Types, OneActive, NEW p \in DOMAIN payments, payments[p].active,
         ~ IsFullyPaid(payments[p].checkout)
  PROVE  payments[p].total < Due
<1> DEFINE k == payments[p].checkout
           sum == MapThenSumSet(LAMBDA q : payments[q].total, Active(k))
<1>1. Active(k) = {p}
  BY TheActive DEF Active
<1>2. payments[p].total \in Int
  BY Rows DEF PaymentRow, CheckoutAssumption
<1>3. sum = MapThenSumSet(LAMBDA q : payments[q].total, {p})
  BY <1>1
<1> HIDE DEF sum
<1>4. sum = payments[p].total
  BY <1>2, <1>3, SumOfOne
<1>5. ~ (sum >= Due)
  BY DEF IsFullyPaid, sum
<1> QED BY <1>2, <1>4, <1>5, DueOf DEF CheckoutAssumption

-----------------------------------------------------------------------------
(* What no step ever undoes, and what a step leaves alone. *)

Grows ==
  /\ checkouts' \subseteq checkouts
  /\ balance' <= balance
  /\ stock' <= stock
  /\ voucher'.limit = voucher.limit
  /\ voucher'.once = voucher.once
  /\ voucher.used <= voucher'.used
  /\ voucher.customers \subseteq voucher'.customers
  /\ DOMAIN payments \subseteq DOMAIN payments'
  /\ \A p \in DOMAIN payments :
       /\ payments'[p].checkout = payments[p].checkout
       /\ payments'[p].total = payments[p].total
       /\ payments'[p].active => payments[p].active
       /\ adyen[p].taken <= adyen'[p].taken
       /\ adyen[p].cut => adyen'[p].cut

\* Nothing that session s relies on changes.
Undisturbed(s) ==
  /\ s.step # "create" => s.checkout \in checkouts'
  /\ s.locked => /\ payments'[s.payment].active = payments[s.payment].active
                 /\ payments'[s.payment].captured = payments[s.payment].captured
                 /\ payments[s.payment].toConfirm => payments'[s.payment].toConfirm
  /\ s.uses = 1 => voucher'.used = voucher.used
  /\ s.payment # 0 /\ (s.took \/ s.step \in {"priced", "counted", "charged"}) =>
       /\ ~ payments'[s.payment].captured > 0
       /\ ~ adyen'[s.payment].asked > 0
  /\ s.step = "create" \/ HasCheckout(s) =>
       \A q \in DOMAIN payments' \ DOMAIN payments : payments'[q].checkout # s.checkout

\* A reason to refuse a checkout lasts.
LEMMA RefusableStays ==
  ASSUME Types, Types', Grows, NEW p \in DOMAIN payments, Refusable(p)
  PROVE  Refusable(p)'
<1>1. /\ Due = Positive(Price - balance) /\ Due' = Positive(Price - balance')
      /\ balance \in Nat /\ balance' \in Nat /\ balance' <= balance
  BY DEF Due, Types, Grows
<1>2. Due <= Due' /\ Due \in Int /\ Due' \in Int
  BY <1>1, PositiveGrows, Positives DEF CheckoutAssumption
<1>3. CASE stock < 1
  BY <1>3 DEF Grows, Types, Refusable
<1>4. CASE ~ IsActive(voucher)
  BY <1>4 DEF Grows, Types, Refusable, IsActive, Voucher
<1>5. CASE voucher.once /\ CustomerOf[payments[p].checkout] \in voucher.customers
  BY <1>5 DEF Grows, Refusable
<1>6. CASE payments[p].total < Due
  <2>1. payments[p].total \in Int
    BY Rows DEF PaymentRow, CheckoutAssumption
  <2> QED BY <1>2, <1>6, <2>1 DEF Grows, Refusable
<1> QED BY <1>3, <1>4, <1>5, <1>6 DEF Refusable

\* A session that is left alone still fits.
LEMMA FitsStays ==
  ASSUME Types, Types', Grows, NEW s \in Transaction, Fits(s), Undisturbed(s)
  PROVE  Fits(s)'
<1>1. /\ \A p \in DOMAIN payments : payments[p] \in PaymentRow /\ adyen[p] \in Account
      /\ \A p \in DOMAIN payments : adyen[p].taken \in Int /\ adyen'[p].taken \in Int
  <2>1. \A p \in DOMAIN payments : payments[p] \in PaymentRow /\ adyen[p] \in Account
    BY Rows
  <2>2. \A p \in DOMAIN payments' : adyen'[p] \in Account
    BY RowsNext
  <2> QED BY <2>1, <2>2 DEF Grows, Account, CheckoutAssumption
<1>2. s.payment # 0 => s.payment \in DOMAIN payments
  BY DEF Fits, Paying
<1>3. Paying(s)'
  BY <1>2 DEF Fits, Paying, Grows, Undisturbed, HasCheckout
<1>4. Counting(s)'
  BY DEF Fits, Counting, Grows, Undisturbed
<1>5. Pricing(s)'
  BY DEF Fits, Pricing, Grows, Types, Transaction
<1>6. Charging(s)'
  <2>1. s.payment # 0 /\ (s.took \/ s.step \in {"priced", "counted", "charged"})
          => ~ Spent(s.payment)'
    BY DEF Undisturbed, Spent
  <2>2. (s.took \/ s.confirms) => s.payment \in DOMAIN payments /\ s.locked
    BY <1>2 DEF Fits, Charging, Paying
  <2>3. (s.took \/ s.confirms) => adyen'[s.payment].taken > 0
    BY <1>1, <2>2 DEF Fits, Charging, Grows
  <2>4. s.took /\ s.by = "adyen" => payments'[s.payment].toConfirm
    BY <2>2 DEF Fits, Charging, Undisturbed
  <2>5. stock = 0 => stock' = 0
    BY DEF Types, Grows
  <2> QED BY <2>1, <2>3, <2>4, <2>5 DEF Fits, Charging
<1>7. Telling(s)'
  BY <1>1, <1>2, RefusableStays DEF Fits, Telling, Paying, Grows, Undisturbed
<1> QED BY <1>3, <1>4, <1>5, <1>6, <1>7 DEF Fits

\* A payment that is left alone still fits, while its checkout is there or when it
\* is not active.
LEMMA PaymentStays ==
  ASSUME Types, Types', Grows, NEW p \in DOMAIN payments, Books(p), Charges(p),
         payments'[p] = payments[p], adyen'[p] = adyen[p],
         payments[p].checkout \in checkouts \ checkouts' => ~ payments[p].active,
         UnderWay(p) => UnderWay(p)'
  PROVE  Books(p)' /\ Charges(p)'
<1>1. Refusable(p) => Refusable(p)'
  BY RefusableStays
<1>2. Books(p)'
  BY <1>1 DEF Books, Spent, Grows, Types
<1>3. Charges(p)'
  BY DEF Charges, Spent
<1> QED BY <1>2, <1>3

\* Orders and active payments when there are no new ones.
LEMMA OrdersStay ==
  ASSUME Types, Types', Grows, OrdersOnce, orders' = orders, voucher'.used <= voucher'.limit
  PROVE  OrdersOnce'
<1>1. Len(orders) \in Nat
  BY LenProperties DEF Types
<1> QED BY <1>1 DEF OrdersOnce, Grows, Types, Voucher

LEMMA OneActiveStays ==
  ASSUME Grows, OneActive, DOMAIN payments' = DOMAIN payments
  PROVE  OneActive'
BY DEF Grows, OneActive

\* A step of session c that leaves the others alone.
LEMMA StepOfSession ==
  ASSUME IInv, Types', Grows, NEW c \in Sessions, NEW s,
         session' = [session EXCEPT ![c] = s],
         \A d \in Sessions : d # c /\ Busy(d) => Undisturbed(session[d]),
         s # Idle => Fits(s)' /\ \A d \in Sessions : d # c /\ Busy(d) => Apart(s, session[d]),
         OrdersOnce', OneActive', PaymentsFit'
  PROVE  IInv'
<1>1. session \in [Sessions -> Transaction \union {Idle}] /\ session' \in [Sessions -> Transaction \union {Idle}]
  BY DEF IInv, Types
<1>2. \A d \in Sessions : session'[d] = IF d = c THEN s ELSE session[d]
  BY <1>1
<1>3. ASSUME NEW d \in Sessions, Busy(d)' PROVE Fits(session[d])'
  <2>1. CASE d = c
    BY <1>2, <1>3, <2>1 DEF Busy
  <2>2. CASE d # c
    <3>1. session'[d] = session[d] /\ Busy(d) /\ session[d] \in Transaction
      BY <1>1, <1>2, <1>3, <2>2 DEF Busy
    <3>2. Fits(session[d]) /\ Undisturbed(session[d])
      BY <2>2, <3>1 DEF IInv, SessionsFit
    <3> QED BY <3>1, <3>2, FitsStays DEF IInv
  <2> QED BY <2>1, <2>2
<1>4. ASSUME NEW d \in Sessions, NEW e \in Sessions, d # e, Busy(d)', Busy(e)'
      PROVE  Apart(session[d], session[e])'
  BY <1>2, <1>4 DEF IInv, LocksHeldOnce, Busy, Apart
<1>5. SessionsFit' /\ LocksHeldOnce'
  BY <1>3, <1>4 DEF SessionsFit, LocksHeldOnce
<1> QED BY <1>5 DEF IInv

\* A step of none of them.
LEMMA StepOfNone ==
  ASSUME IInv, Types', Grows, session' = session,
         \A d \in Sessions : Busy(d) => Undisturbed(session[d]),
         OrdersOnce', OneActive', PaymentsFit'
  PROVE  IInv'
<1>1. ASSUME NEW d \in Sessions, Busy(d) PROVE Fits(session[d])'
  <2>1. Fits(session[d]) /\ Undisturbed(session[d]) /\ session[d] \in Transaction
    BY <1>1 DEF IInv, SessionsFit, Types, Busy
  <2> QED BY <2>1, FitsStays DEF IInv
<1>2. SessionsFit' /\ LocksHeldOnce'
  BY <1>1 DEF IInv, SessionsFit, LocksHeldOnce, Busy
<1> QED BY <1>2 DEF IInv

-----------------------------------------------------------------------------
(* Steps that only change a session. *)

\* A session is idle or a transaction.
LEMMA SessionIs ==
  ASSUME Types, NEW c \in Sessions
  PROVE  IF Busy(c) THEN session[c] \in Transaction /\ session[c] # Idle
                    ELSE session[c] = Idle
BY DEF Types, Busy

LEMMA NotIdle ==
  ASSUME NEW s \in Transaction
  PROVE  s # Idle
BY DEF Transaction, Idle, Step

LEMMA SessionTyped ==
  ASSUME Types, NEW c \in Sessions, NEW s \in Transaction \union {Idle}, Goes(c, s)
  PROVE  session' \in [Sessions -> Transaction \union {Idle}]
BY DEF Types, Goes

\* What is under way in another session stays so.
LEMMA UnderWayStays ==
  ASSUME Types, NEW c \in Sessions, NEW s, Goes(c, s), NEW p, UnderWay(p),
         Busy(c) /\ session[c].took /\ session[c].payment = p
           => s # Idle /\ s.took /\ s.payment = p
  PROVE  UnderWay(p)'
<1>1. PICK d \in Sessions : Busy(d) /\ session[d].took /\ session[d].payment = p
  BY DEF UnderWay
<1>2. session'[d] = IF d = c THEN s ELSE session[d]
  BY DEF Types, Goes
<1> QED BY <1>1, <1>2 DEF UnderWay, Busy

\* When the rows stay, so does what a session relies on.
LEMMA Quiet ==
  ASSUME UNCHANGED <<checkouts, payments, voucher>>, NEW s \in Transaction, Fits(s),
         \A p \in DOMAIN payments : adyen'[p].asked = adyen[p].asked
  PROVE  Undisturbed(s)
BY DEF Undisturbed, Fits, Paying, Charging, Spent

LEMMA SessionOnly ==
  ASSUME IInv, NEW c \in Sessions, NEW s \in Transaction, Goes(c, s),
         UNCHANGED <<goods, payments, voucher, adyen, crashes>>, Fits(s),
         \A d \in Sessions : d # c /\ Busy(d) => Apart(s, session[d]),
         Busy(c) /\ session[c].took => s.took /\ s.payment = session[c].payment
  PROVE  IInv'
<1>1. Types /\ OrdersOnce /\ OneActive /\ SessionsFit /\ PaymentsFit
  BY DEF IInv
<1>2. UNCHANGED <<orders, checkouts, balance, stock, payments, voucher, adyen, crashes>>
  BY DEF goods
<1>3. Types'
  BY <1>1, <1>2, SessionTyped DEF Types
<1>4. \A p \in DOMAIN payments : adyen[p].taken \in Int
  BY <1>1, Rows DEF Account, CheckoutAssumption
<1>5. Grows
  BY <1>1, <1>2, <1>4 DEF Grows, Types, Voucher
<1>6. Undisturbed(s)
  BY <1>2, Quiet
<1>7. Fits(s)'
  BY <1>1, <1>3, <1>5, <1>6, FitsStays
<1>8. ASSUME NEW d \in Sessions, d # c, Busy(d) PROVE Undisturbed(session[d])
  BY <1>1, <1>2, <1>8, Quiet, SessionIs DEF SessionsFit
<1>9. OrdersOnce' /\ OneActive'
  BY <1>1, <1>2 DEF OrdersOnce, OneActive
<1>10. ASSUME NEW p \in DOMAIN payments PROVE Books(p)' /\ Charges(p)'
  <2>1. UnderWay(p) => UnderWay(p)'
    BY <1>1, UnderWayStays, NotIdle
  <2>2. Books(p) /\ Charges(p)
    BY <1>1 DEF PaymentsFit
  <2> QED BY <1>1, <1>2, <1>3, <1>5, <2>1, <2>2, PaymentStays
<1>11. PaymentsFit'
  BY <1>2, <1>10 DEF PaymentsFit
<1>12. session' = [session EXCEPT ![c] = s]
  BY DEF Goes
<1> QED BY <1>3, <1>5, <1>7, <1>8, <1>9, <1>11, <1>12, StepOfSession

\* A session that holds what it held before, or what nobody held, is apart from the
\* others.
LEMMA StaysApart ==
  ASSUME Types, LocksHeldOnce, NEW c \in Sessions, NEW s \in Transaction, s.step # "create",
         \/ ~ HasCheckout(s)
         \/ Busy(c) /\ HasCheckout(session[c]) /\ session[c].checkout = s.checkout
         \/ ~ CheckoutHeld(s.checkout),
         ~ s.voucher \/ (Busy(c) /\ session[c].voucher) \/ ~ VoucherHeld,
         \/ ~ s.locked
         \/ Busy(c) /\ session[c].locked /\ session[c].payment = s.payment
         \/ ~ PaymentHeld(s.payment)
  PROVE  \A d \in Sessions : d # c /\ Busy(d) => Apart(s, session[d])
<1> SUFFICES ASSUME NEW d \in Sessions, d # c, Busy(d) PROVE Apart(s, session[d])
  OBVIOUS
<1>1. Busy(c) => Apart(session[c], session[d])
  BY DEF LocksHeldOnce
<1>2. ~ (HasCheckout(s) /\ HasCheckout(session[d]) /\ s.checkout = session[d].checkout)
  BY <1>1 DEF Apart, CheckoutHeld, HasCheckout
<1>3. ~ (s.voucher /\ session[d].voucher)
  BY <1>1 DEF Apart, VoucherHeld
<1>4. ~ (s.locked /\ session[d].locked /\ s.payment = session[d].payment)
  BY <1>1 DEF Apart, PaymentHeld
<1> QED BY <1>2, <1>3, <1>4 DEF Apart

LEMMA NewSessionTyped ==
  ASSUME Types, NEW k \in Checkouts, NEW p \in Nat, NEW step \in Step, NEW by \in {"customer", "adyen"}
  PROVE  NewSession(step, by, k, p) \in Transaction
BY DEF NewSession, Transaction, Types, CheckoutAssumption

\* complete_checkout looks for the payment, and gives up if it is not enough.
LEMMA PreparedOf ==
  ASSUME Types, OneActive, NEW s \in Transaction, NEW t, t = Prepared(s)
  PROVE  /\ t \in Transaction
         /\ t.step \in {"locked", "undo"}
         /\ t = [s EXCEPT !.step = t.step, !.undoes = t.undoes, !.payment = LastActive(s.checkout)]
         /\ t.step = "locked" <=> IsFullyPaid(s.checkout)
<1>1. LastActive(s.checkout) \in Nat
  BY TheActive, Rows
<1> QED BY <1>1 DEF Prepared, Undoes, Transaction, Step

LEMMA CompleteStep ==
  ASSUME IInv, NEW c \in Sessions, NEW k \in Checkouts, Complete(c, k)
  PROVE  IInv'
<1>1. Types /\ OneActive /\ LocksHeldOnce
  BY DEF IInv
<1>2. PICK s : s = NewSession("locked", "customer", k, 0)
  OBVIOUS
<1>3. PICK t : t = Prepared(s)
  OBVIOUS
<1>4. ~ Busy(c) /\ k \in checkouts /\ ~ CheckoutHeld(k) /\ Goes(c, t)
      /\ UNCHANGED <<goods, payments, voucher, adyen, crashes>>
  BY <1>2, <1>3 DEF Complete
<1>5. s \in Transaction
  BY <1>1, <1>2, NewSessionTyped DEF Step
<1>6. /\ t \in Transaction
      /\ t.step \in {"locked", "undo"}
      /\ t = [s EXCEPT !.step = t.step, !.undoes = t.undoes, !.payment = LastActive(s.checkout)]
  BY <1>1, <1>3, <1>5, PreparedOf
<1>7. /\ t.by = "customer" /\ t.checkout = k /\ t.payment = LastActive(k) /\ ~ t.locked
      /\ ~ t.voucher /\ t.uses = 0 /\ ~ t.added /\ ~ t.took /\ ~ t.confirms /\ ~ t.notified
  BY <1>2, <1>5, <1>6 DEF NewSession, Transaction
<1>8. Paying(t)
  BY <1>1, <1>4, <1>6, <1>7, TheActive DEF Paying, Active
<1>9. Fits(t)
  BY <1>6, <1>7, <1>8 DEF Fits, Counting, Pricing, Charging, Telling
<1>10. \A d \in Sessions : d # c /\ Busy(d) => Apart(t, session[d])
  BY <1>1, <1>4, <1>6, <1>7, StaysApart
<1> QED BY <1>4, <1>6, <1>9, <1>10, SessionOnly

LEMMA LockCheckoutStep ==
  ASSUME IInv, NEW c \in Sessions, LockCheckout(c)
  PROVE  IInv'
<1>1. Types /\ OneActive /\ LocksHeldOnce
  BY DEF IInv
<1>2. PICK s : s = session[c]
  OBVIOUS
<1>3. PICK t : t = Prepared(s)
  OBVIOUS
<1>4. Busy(c) /\ s.step = "notified" /\ ~ CheckoutHeld(s.checkout) /\ Goes(c, t)
      /\ UNCHANGED <<goods, payments, voucher, adyen, crashes>>
  BY <1>2, <1>3 DEF LockCheckout
<1>5. s \in Transaction /\ Fits(s)
  BY <1>1, <1>2, <1>4, SessionIs DEF IInv, SessionsFit
<1>6. /\ t \in Transaction
      /\ t.step \in {"locked", "undo"}
      /\ t = [s EXCEPT !.step = t.step, !.undoes = t.undoes, !.payment = LastActive(s.checkout)]
      /\ t.step = "locked" <=> IsFullyPaid(s.checkout)
  BY <1>1, <1>3, <1>5, PreparedOf
<1>7. /\ s.by = "adyen" /\ s.locked /\ payments[s.payment].active
      /\ s.payment \in DOMAIN payments /\ payments[s.payment].checkout = s.checkout
  BY <1>4, <1>5 DEF Fits, Paying
<1>8. LastActive(s.checkout) = s.payment /\ Active(s.checkout) = {s.payment}
  BY <1>1, <1>7, TheActive DEF Active
<1>9. t = [s EXCEPT !.step = t.step, !.undoes = t.undoes]
  BY <1>5, <1>6, <1>8 DEF Transaction
<1>10. /\ t.by = s.by /\ t.checkout = s.checkout /\ t.payment = s.payment /\ t.locked = s.locked
       /\ t.voucher = s.voucher /\ t.uses = s.uses /\ t.added = s.added /\ t.took = s.took
       /\ t.confirms = s.confirms /\ t.notified = s.notified
  BY <1>5, <1>9 DEF Transaction
<1>11. Paying(t)
  BY <1>4, <1>5, <1>6, <1>7, <1>8, <1>10 DEF Fits, Paying, Active
<1>12. Counting(t) /\ Pricing(t)
  BY <1>4, <1>5, <1>6, <1>10 DEF Fits, Counting, Pricing
<1>13. Charging(t)
  BY <1>4, <1>5, <1>6, <1>10 DEF Fits, Charging
<1>14. t.step = "undo" => Refusable(s.payment)
  BY <1>1, <1>6, <1>7, NotFullyPaid DEF Refusable
<1>15. Telling(t)
  BY <1>4, <1>5, <1>6, <1>10, <1>14 DEF Fits, Telling
<1>16. Fits(t)
  BY <1>11, <1>12, <1>13, <1>15 DEF Fits
<1>17. \A d \in Sessions : d # c /\ Busy(d) => Apart(t, session[d])
  BY <1>1, <1>2, <1>4, <1>6, <1>10, StaysApart
<1> QED BY <1>2, <1>4, <1>6, <1>10, <1>16, <1>17, SessionOnly

\* Session s goes on as t with its checkout and its payment.
Continues(s, t) ==
  /\ s.step \notin {"create", "notified"}
  /\ t.step \notin {"create", "notified"}
  /\ t.by = s.by /\ t.checkout = s.checkout /\ t.payment = s.payment
  /\ s.locked => t.locked
  /\ t.locked => s.locked \/ (t.payment # 0 /\ ~ PaymentHeld(t.payment))
  /\ t.voucher => s.voucher \/ ~ VoucherHeld

LEMMA GoesOn ==
  ASSUME IInv, NEW c \in Sessions, Busy(c), NEW t \in Transaction, Continues(session[c], t)
  PROVE  /\ Fits(session[c])
         /\ Paying(t)
         /\ \A d \in Sessions : d # c /\ Busy(d) => Apart(t, session[d])
<1>1. Types /\ LocksHeldOnce
  BY DEF IInv
<1>2. PICK s : s = session[c]
  OBVIOUS
<1>3. s \in Transaction /\ Fits(s)
  BY <1>1, <1>2, SessionIs DEF IInv, SessionsFit
<1>4. HasCheckout(s) /\ HasCheckout(t)
  BY <1>2, <1>3 DEF Continues, Transaction, Step, HasCheckout
<1>5. Paying(t)
  BY <1>2, <1>3, <1>4 DEF Continues, Fits, Paying, HasCheckout
<1>6. \A d \in Sessions : d # c /\ Busy(d) => Apart(t, session[d])
  BY <1>1, <1>2, <1>4, StaysApart DEF Continues
<1> QED BY <1>2, <1>3, <1>5, <1>6

LEMMA PrepareOrderDataStep ==
  ASSUME IInv, NEW c \in Sessions, PrepareOrderData(c)
  PROVE  IInv'
<1>1. Types /\ PaymentsFit
  BY DEF IInv
<1>2. PICK s : s = session[c]
  OBVIOUS
<1>3. PICK t : t = IF stock >= 1
                     THEN [s EXCEPT !.step = "priced", !.total = Due, !.saw = balance]
                     ELSE Undoes(s)
  OBVIOUS
<1>4. Busy(c) /\ s.step = "locked" /\ Goes(c, t)
      /\ UNCHANGED <<goods, payments, voucher, adyen, crashes>>
  BY <1>2, <1>3 DEF PrepareOrderData
<1>5. s \in Transaction
  BY <1>1, <1>2, <1>4, SessionIs
<1>6. /\ t \in Transaction
      /\ t.by = s.by /\ t.checkout = s.checkout /\ t.payment = s.payment /\ t.locked = s.locked
      /\ t.voucher = s.voucher /\ t.uses = s.uses /\ t.added = s.added /\ t.took = s.took
      /\ t.confirms = s.confirms /\ t.notified = s.notified
      /\ \/ stock >= 1 /\ t.step = "priced" /\ t.total = Due /\ t.saw = balance
         \/ stock < 1 /\ t.step = "undo"
  <2>1. Due \in 0 .. Price /\ balance \in Nat /\ stock \in Nat
    BY <1>1, DueOf DEF Types
  <2>2. CASE stock >= 1
    BY <1>3, <1>5, <2>1, <2>2 DEF Transaction, Step
  <2>3. CASE ~ (stock >= 1)
    <3>1. t = Undoes(s) /\ stock < 1
      BY <1>3, <2>1, <2>3
    <3> QED BY <1>5, <3>1 DEF Transaction, Undoes, Step
  <2> QED BY <2>2, <2>3
<1>7. /\ Fits(s) /\ Paying(t)
      /\ \A d \in Sessions : d # c /\ Busy(d) => Apart(t, session[d])
  <2>1. Continues(s, t)
    BY <1>4, <1>6 DEF Continues
  <2> QED BY <1>2, <1>4, <1>6, <2>1, GoesOn
<1>8. Counting(t)
  BY <1>4, <1>6, <1>7 DEF Fits, Counting
<1>9. Pricing(t)
  BY <1>1, <1>4, <1>6, DueOf DEF Pricing, Types
<1>10. ~ s.took
  BY <1>4, <1>7 DEF Fits, Charging
<1>11. s.payment # 0 /\ t.step = "priced" => ~ Spent(s.payment)
  <2>1. s.payment # 0 => s.payment \in DOMAIN payments /\ payments[s.payment].checkout \in checkouts
    BY <1>4, <1>7 DEF Fits, Paying
  <2>2. t.step = "priced" => stock # 0
    BY <1>6
  <2> QED BY <1>1, <2>1, <2>2 DEF PaymentsFit, Books
<1>12. Charging(t)
  BY <1>4, <1>6, <1>7, <1>10, <1>11 DEF Fits, Charging
<1>13. Telling(t)
  BY <1>4, <1>6, <1>7 DEF Fits, Telling, Refusable
<1>14. Fits(t)
  BY <1>7, <1>8, <1>9, <1>12, <1>13 DEF Fits
<1> QED BY <1>2, <1>4, <1>6, <1>7, <1>14, SessionOnly

LEMMA UseVoucherStep ==
  ASSUME IInv, NEW c \in Sessions, UseVoucher(c)
  PROVE  IInv'
<1>1. Types
  BY DEF IInv
<1>2. PICK s : s = session[c]
  OBVIOUS
<1> DEFINE counted == [s EXCEPT !.voucher = TRUE, !.uses = 1]
           used == voucher.once /\ CustomerOf[s.checkout] \in voucher.customers
<1>3. PICK t : t = CASE ~ IsActive(voucher) -> Undoes(s)
                     [] OTHER -> IF used THEN Undoes(counted)
                                 ELSE [counted EXCEPT !.step = "counted", !.added = voucher.once]
  OBVIOUS
<1>4. Busy(c) /\ s.step = "priced" /\ ~ VoucherHeld /\ Goes(c, t)
      /\ UNCHANGED <<goods, payments, voucher, adyen, crashes>>
  BY <1>2, <1>3 DEF UseVoucher
<1>5. s \in Transaction /\ voucher.once \in BOOLEAN
  BY <1>1, <1>2, <1>4, SessionIs DEF Types, Voucher
<1>6. /\ t \in Transaction
      /\ t.by = s.by /\ t.checkout = s.checkout /\ t.payment = s.payment /\ t.locked = s.locked
      /\ t.took = s.took /\ t.confirms = s.confirms /\ t.notified = s.notified
      /\ t.total = s.total /\ t.saw = s.saw
  BY <1>3, <1>5 DEF Transaction, Undoes, Step
<1>7. \/ ~ IsActive(voucher) /\ t.step = "undo" /\ t.voucher = s.voucher /\ t.uses = s.uses /\ t.added = s.added
      \/ IsActive(voucher) /\ used /\ t.step = "undo" /\ t.voucher /\ t.uses = 1 /\ t.added = s.added
      \/ IsActive(voucher) /\ ~ used /\ t.step = "counted" /\ t.voucher /\ t.uses = 1
  BY <1>3, <1>5 DEF Transaction, Undoes
<1>8. /\ Fits(s) /\ Paying(t)
      /\ \A d \in Sessions : d # c /\ Busy(d) => Apart(t, session[d])
  <2>1. Continues(s, t)
    BY <1>4, <1>6, <1>7 DEF Continues
  <2> QED BY <1>2, <1>4, <1>6, <2>1, GoesOn
<1>9. s.uses = 0 /\ ~ s.added /\ ~ s.took
  BY <1>4, <1>5, <1>8 DEF Fits, Counting, Charging, Transaction
<1>10. Counting(t)
  BY <1>6, <1>7, <1>9 DEF Counting, IsActive
<1>11. Pricing(t)
  BY <1>4, <1>6, <1>7, <1>8 DEF Fits, Pricing
<1>12. Charging(t)
  BY <1>4, <1>6, <1>7, <1>8, <1>9 DEF Fits, Charging
<1>13. Telling(t)
  <2>1. s.notified => s.locked /\ payments[s.payment].checkout = s.checkout
    BY <1>8 DEF Fits, Telling, Paying
  <2> QED BY <1>4, <1>6, <1>7, <1>8, <2>1 DEF Fits, Telling, Refusable
<1>14. Fits(t)
  BY <1>8, <1>10, <1>11, <1>12, <1>13 DEF Fits
<1> QED BY <1>2, <1>4, <1>6, <1>8, <1>14, SessionOnly

LEMMA SoldOutStep ==
  ASSUME IInv, NEW c \in Sessions, SoldOut(c)
  PROVE  IInv'
<1>1. Types
  BY DEF IInv
<1>2. PICK s : s = session[c]
  OBVIOUS
<1>3. PICK t : t = Undoes(Released(s))
  OBVIOUS
<1>4. Busy(c) /\ s.step = "charged" /\ stock < 1 /\ Goes(c, t)
      /\ UNCHANGED <<goods, payments, voucher, adyen, crashes>>
  BY <1>2, <1>3 DEF SoldOut
<1>5. s \in Transaction /\ stock = 0
  BY <1>1, <1>2, <1>4, SessionIs DEF Types
<1>6. /\ t \in Transaction /\ t.step = "undo" /\ t.undoes /\ t.uses = 0 /\ ~ t.added
      /\ t.by = s.by /\ t.checkout = s.checkout /\ t.payment = s.payment /\ t.locked = s.locked
      /\ t.voucher = s.voucher /\ t.took = s.took /\ t.confirms = s.confirms /\ t.notified = s.notified
  BY <1>3, <1>5 DEF Transaction, Undoes, Released, Step
<1>7. /\ Fits(s) /\ Paying(t)
      /\ \A d \in Sessions : d # c /\ Busy(d) => Apart(t, session[d])
  <2>1. Continues(s, t)
    BY <1>4, <1>6 DEF Continues
  <2> QED BY <1>2, <1>4, <1>6, <2>1, GoesOn
<1>8. Counting(t) /\ Pricing(t)
  BY <1>6 DEF Counting, Pricing
<1>9. Charging(t)
  BY <1>4, <1>5, <1>6, <1>7 DEF Fits, Charging
<1>10. Telling(t)
  BY <1>4, <1>6, <1>7 DEF Fits, Telling, Refusable
<1>11. Fits(t)
  BY <1>7, <1>8, <1>9, <1>10 DEF Fits
<1> QED BY <1>2, <1>4, <1>6, <1>7, <1>11, SessionOnly

LEMMA NotifiedStep ==
  ASSUME IInv, NEW c \in Sessions, NEW p \in DOMAIN payments, Notified(c, p)
  PROVE  IInv'
<1>1. Types /\ LocksHeldOnce
  BY DEF IInv
<1>2. p \in Nat /\ p # 0 /\ payments[p] \in PaymentRow
  BY <1>1, Rows
<1> DEFINE k == payments[p].checkout
           s == NewSession("notified", "adyen", k, p)
<1>3. PICK t : t = [s EXCEPT !.locked = TRUE, !.notified = TRUE, !.confirms = payments[p].captured = 0]
  OBVIOUS
<1>4. /\ ~ Busy(c) /\ adyen[p].taken > 0 /\ ~ PaymentHeld(p) /\ payments[p].active /\ k \in checkouts
      /\ Goes(c, t)
      /\ UNCHANGED <<goods, payments, voucher, adyen, crashes>>
  BY <1>3 DEF Notified
<1>5. s \in Transaction
  BY <1>1, <1>2, NewSessionTyped DEF Step, PaymentRow
<1>6. (payments[p].captured = 0) \in BOOLEAN
  OBVIOUS
<1>7. /\ t \in Transaction /\ t.step = "notified" /\ t.by = "adyen" /\ t.checkout = k /\ t.payment = p
      /\ t.locked /\ ~ t.voucher /\ t.uses = 0 /\ ~ t.added /\ ~ t.took /\ t.notified
      /\ t.confirms <=> payments[p].captured = 0
  BY <1>3, <1>5, <1>6 DEF Transaction, NewSession
<1>8. Fits(t)
  BY <1>2, <1>4, <1>7 DEF Fits, Paying, Counting, Pricing, Charging, Telling, HasCheckout
<1>9. \A d \in Sessions : d # c /\ Busy(d) => Apart(t, session[d])
  BY <1>1, <1>4, <1>7, StaysApart DEF HasCheckout
<1> QED BY <1>4, <1>7, <1>8, <1>9, SessionOnly

-----------------------------------------------------------------------------
(* Steps that change the row of one payment, and the voucher. *)

\* The row of payment p is the only one that changes, if there is one.
RowOnly(p) ==
  /\ payments' \in Seq(PaymentRow) /\ adyen' \in Seq(Account) /\ Len(adyen') = Len(payments')
  /\ DOMAIN payments' = DOMAIN payments
  /\ \A q \in DOMAIN payments \ {p} : payments'[q] = payments[q] /\ adyen'[q] = adyen[q]
  /\ p \in DOMAIN payments =>
       /\ payments'[p].checkout = payments[p].checkout
       /\ payments'[p].total = payments[p].total
       /\ payments'[p].active => payments[p].active
       /\ adyen[p].taken <= adyen'[p].taken
       /\ adyen[p].cut => adyen'[p].cut

VoucherGrows ==
  /\ voucher' \in Voucher
  /\ voucher'.limit = voucher.limit
  /\ voucher'.once = voucher.once
  /\ voucher.used <= voucher'.used
  /\ voucher'.used <= voucher'.limit
  /\ voucher.customers \subseteq voucher'.customers

\* Row r and account a follow those of payment p.
Follows(r, a, p) ==
  /\ r.checkout = payments[p].checkout
  /\ r.total = payments[p].total
  /\ r.active => payments[p].active
  /\ adyen[p].taken <= a.taken
  /\ adyen[p].cut => a.cut

LEMMA RowSet ==
  ASSUME Types, NEW p \in DOMAIN payments, NEW r \in PaymentRow, NEW a \in Account,
         payments' = [payments EXCEPT ![p] = r], adyen' = [adyen EXCEPT ![p] = a],
         Follows(r, a, p)
  PROVE  RowOnly(p) /\ payments'[p] = r /\ adyen'[p] = a
<1>1. payments \in Seq(PaymentRow) /\ adyen \in Seq(Account) /\ Len(adyen) = Len(payments)
  BY DEF Types
<1>2. p \in 1 .. Len(payments) /\ p \in 1 .. Len(adyen)
  BY <1>1, Rows
<1>3. /\ payments' \in Seq(PaymentRow) /\ Len(payments') = Len(payments)
      /\ \A q \in 1 .. Len(payments) : payments'[q] = IF q = p THEN r ELSE payments[q]
  BY <1>1, <1>2, ExceptSeq
<1>4. /\ adyen' \in Seq(Account) /\ Len(adyen') = Len(adyen)
      /\ \A q \in 1 .. Len(adyen) : adyen'[q] = IF q = p THEN a ELSE adyen[q]
  BY <1>1, <1>2, ExceptSeq
<1>5. DOMAIN payments = 1 .. Len(payments) /\ DOMAIN payments' = DOMAIN payments
  BY Rows
<1> QED BY <1>1, <1>2, <1>3, <1>4, <1>5 DEF RowOnly, Follows

\* When the rows stay as they are.
LEMMA NoRow ==
  ASSUME Types, UNCHANGED <<payments, adyen>>
  PROVE  \A p : RowOnly(p)
<1>1. \A p \in DOMAIN payments : adyen[p].taken \in Int
  BY Rows DEF Account, CheckoutAssumption
<1> QED BY <1>1 DEF RowOnly, Types

LEMMA VoucherStays ==
  ASSUME Types, OrdersOnce, voucher' = voucher
  PROVE  VoucherGrows
BY DEF Types, OrdersOnce, VoucherGrows, Voucher

\* A session commits the use that it counted.
LEMMA VoucherCommits ==
  ASSUME IInv, NEW c \in Sessions, Busy(c),
         voucher' = [voucher EXCEPT !.used = @ + session[c].uses,
                       !.customers = @ \union (IF session[c].added
                                                 THEN {CustomerOf[session[c].checkout]} ELSE {})]
  PROVE  /\ VoucherGrows
         /\ voucher'.used = voucher.used + session[c].uses
         /\ \A d \in Sessions : d # c /\ Busy(d) /\ session[d].uses = 1 => voucher'.used = voucher.used
<1>1. Types /\ OrdersOnce /\ LocksHeldOnce
  BY DEF IInv
<1>2. PICK s : s = session[c]
  OBVIOUS
<1>3. s \in Transaction /\ Counting(s)
  BY <1>1, <1>2, SessionIs DEF IInv, SessionsFit, Fits
<1>4. voucher \in Voucher /\ voucher.used <= voucher.limit /\ CustomerOf[s.checkout] \in Customers
  BY <1>1, <1>3 DEF Types, OrdersOnce, Customers, Transaction
<1>5. /\ voucher' \in Voucher
      /\ voucher'.limit = voucher.limit /\ voucher'.once = voucher.once
      /\ voucher'.used = voucher.used + s.uses
      /\ voucher.customers \subseteq voucher'.customers
  <2>1. PICK new : new = IF s.added THEN {CustomerOf[s.checkout]} ELSE {}
    OBVIOUS
  <2>2. new \subseteq Customers
    BY <1>4, <2>1
  <2>3. voucher' = [voucher EXCEPT !.used = voucher.used + s.uses,
                      !.customers = voucher.customers \union new]
    BY <1>2, <2>1
  <2>4. s.uses \in {0, 1}
    BY <1>3 DEF Transaction
  <2>5. voucher.used + s.uses \in Nat /\ voucher.customers \union new \in SUBSET Customers
    BY <1>4, <2>2, <2>4 DEF Voucher
  <2>6. /\ voucher'.limit = voucher.limit /\ voucher'.once = voucher.once
        /\ voucher'.used = voucher.used + s.uses
        /\ voucher'.customers = voucher.customers \union new
    BY <1>4, <2>3 DEF Voucher
  <2>7. voucher' \in Voucher
    BY <1>4, <2>3, <2>5 DEF Voucher
  <2> QED BY <2>6, <2>7
<1>6. s.uses \in {0, 1} /\ (s.uses = 1 => s.voucher /\ voucher.used < voucher.limit)
  BY <1>3 DEF Counting, Transaction
<1>7. VoucherGrows
  BY <1>4, <1>5, <1>6 DEF VoucherGrows, Voucher
<1>8. ASSUME NEW d \in Sessions, d # c, Busy(d), session[d].uses = 1
      PROVE  voucher'.used = voucher.used
  <2>1. session[d].voucher
    BY <1>1, <1>8 DEF IInv, SessionsFit, Fits, Counting
  <2>2. ~ s.voucher
    BY <1>1, <1>2, <1>8, <2>1 DEF LocksHeldOnce, Apart
  <2>3. s.uses = 0
    BY <1>6, <2>2
  <2> QED BY <1>4, <1>5, <2>3 DEF Voucher
<1> QED BY <1>2, <1>5, <1>7, <1>8

LEMMA RowStep ==
  ASSUME IInv, NEW p, RowOnly(p), VoucherGrows, UNCHANGED goods, crashes' \in 0 .. MaxCrashes,
         session' \in [Sessions -> Transaction \union {Idle}]
  PROVE  Types' /\ Grows /\ OrdersOnce' /\ OneActive'
<1>1. Types /\ OrdersOnce /\ OneActive
  BY DEF IInv
<1>2. UNCHANGED <<orders, checkouts, balance, stock>>
  BY DEF goods
<1>3. Types'
  BY <1>1, <1>2 DEF Types, RowOnly, VoucherGrows
<1>4. \A q \in DOMAIN payments : adyen[q].taken \in Int
  BY <1>1, Rows DEF Account, CheckoutAssumption
<1>5. Grows
  <2>1. balance' <= balance /\ stock' <= stock
    BY <1>1, <1>2 DEF Types
  <2> QED BY <1>2, <1>4, <2>1 DEF Grows, RowOnly, VoucherGrows
<1>6. OrdersOnce'
  BY <1>1, <1>2, <1>3, <1>5, OrdersStay DEF VoucherGrows
<1>7. OneActive'
  BY <1>1, <1>5, OneActiveStays DEF RowOnly
<1> QED BY <1>3, <1>5, <1>6, <1>7

\* Sessions at another payment do not notice.
LEMMA OtherPayment ==
  ASSUME Types, NEW p, RowOnly(p), checkouts' = checkouts, NEW s \in Transaction, Fits(s),
         s.uses = 1 => voucher'.used = voucher.used, s.payment # p
  PROVE  Undisturbed(s)
BY DEF Undisturbed, RowOnly, Fits, Paying, Charging, Spent

\* The other payments fit as before.
LEMMA OtherPayments ==
  ASSUME IInv, Types', Grows, NEW p, RowOnly(p), NEW c \in Sessions, NEW s, Goes(c, s),
         Busy(c) /\ session[c].took => session[c].payment = p,
         \A q \in DOMAIN payments \ {p} :
           payments[q].checkout \in checkouts \ checkouts' => ~ payments[q].active,
         p \in DOMAIN payments => Books(p)' /\ Charges(p)'
  PROVE  PaymentsFit'
<1>1. Types
  BY DEF IInv
<1>2. ASSUME NEW q \in DOMAIN payments, q # p PROVE Books(q)' /\ Charges(q)'
  <2>1. UnderWay(q) => UnderWay(q)'
    BY <1>1, <1>2, UnderWayStays
  <2>2. Books(q) /\ Charges(q)
    BY DEF IInv, PaymentsFit
  <2>3. payments'[q] = payments[q] /\ adyen'[q] = adyen[q]
    BY <1>2 DEF RowOnly
  <2> QED BY <1>1, <1>2, <2>1, <2>2, <2>3, PaymentStays
<1> QED BY <1>2 DEF PaymentsFit, RowOnly

\* A step of session c to s, with the row of payment p.
RowMove(c, s, p) ==
  /\ Goes(c, s)
  /\ RowOnly(p) /\ VoucherGrows /\ UNCHANGED goods /\ crashes' \in 0 .. MaxCrashes
  /\ \A d \in Sessions : d # c /\ Busy(d) /\ session[d].uses = 1 => voucher'.used = voucher.used
  /\ \A d \in Sessions : d # c /\ Busy(d) /\ session[d].payment = p => Undisturbed(session[d])
  /\ Busy(c) /\ session[c].took => session[c].payment = p

LEMMA RowMoveTypes ==
  ASSUME IInv, NEW c \in Sessions, NEW s \in Transaction \union {Idle}, NEW p, RowMove(c, s, p)
  PROVE  Types' /\ Grows /\ OrdersOnce' /\ OneActive'
<1>1. session' \in [Sessions -> Transaction \union {Idle}]
  BY SessionTyped DEF IInv, RowMove
<1> QED BY <1>1, RowStep DEF RowMove

LEMMA MovesFit ==
  ASSUME IInv, NEW c \in Sessions, NEW s \in Transaction \union {Idle}, NEW p, RowMove(c, s, p),
         s # Idle => Fits(s)' /\ \A d \in Sessions : d # c /\ Busy(d) => Apart(s, session[d]),
         p \in DOMAIN payments => Books(p)' /\ Charges(p)'
  PROVE  IInv'
<1>1. Types /\ SessionsFit
  BY DEF IInv
<1>2. Types' /\ Grows /\ OrdersOnce' /\ OneActive'
  BY RowMoveTypes
<1>3. checkouts' = checkouts
  BY DEF RowMove, goods
<1>4. ASSUME NEW d \in Sessions, d # c, Busy(d) PROVE Undisturbed(session[d])
  <2>1. session[d] \in Transaction /\ Fits(session[d])
    BY <1>1, <1>4, SessionIs DEF SessionsFit
  <2>2. session[d].uses = 1 => voucher'.used = voucher.used
    BY <1>4 DEF RowMove
  <2>3. CASE session[d].payment = p
    BY <1>4, <2>3 DEF RowMove
  <2>4. CASE session[d].payment # p
    BY <1>1, <1>3, <2>1, <2>2, <2>4, OtherPayment DEF RowMove
  <2> QED BY <2>3, <2>4
<1>5. PaymentsFit'
  BY <1>2, <1>3, OtherPayments DEF RowMove
<1>6. session' = [session EXCEPT ![c] = s]
  BY DEF RowMove, Goes
<1> QED BY <1>2, <1>4, <1>5, <1>6, StepOfSession

\* A step of none of the sessions, with the row of payment p.
LEMMA RowFits ==
  ASSUME IInv, NEW p \in DOMAIN payments, RowOnly(p), UNCHANGED <<goods, voucher, session, crashes>>,
         \A d \in Sessions : Busy(d) /\ session[d].payment = p => Undisturbed(session[d]),
         Types' /\ Grows => Books(p)' /\ Charges(p)'
  PROVE  IInv'
<1>1. Types /\ OrdersOnce /\ SessionsFit /\ PaymentsFit
  BY DEF IInv
<1>2. Types' /\ Grows /\ OrdersOnce' /\ OneActive'
  <2>1. VoucherGrows /\ crashes' \in 0 .. MaxCrashes /\ session' \in [Sessions -> Transaction \union {Idle}]
    BY <1>1, VoucherStays DEF Types
  <2> QED BY <2>1, RowStep
<1>3. checkouts' = checkouts
  BY DEF goods
<1>4. ASSUME NEW d \in Sessions, Busy(d) PROVE Undisturbed(session[d])
  <2>1. session[d] \in Transaction /\ Fits(session[d])
    BY <1>1, <1>4, SessionIs DEF SessionsFit
  <2>2. CASE session[d].payment # p
    BY <1>1, <1>3, <2>1, <2>2, OtherPayment
  <2> QED BY <1>4, <2>2
<1>5. ASSUME NEW q \in DOMAIN payments, q # p PROVE Books(q)' /\ Charges(q)'
  <2>1. UnderWay(q) => UnderWay(q)'
    BY DEF UnderWay, Busy
  <2>2. Books(q) /\ Charges(q) /\ payments'[q] = payments[q] /\ adyen'[q] = adyen[q]
    BY <1>1, <1>5 DEF PaymentsFit, RowOnly
  <2> QED BY <1>1, <1>2, <1>3, <2>1, <2>2, PaymentStays
<1>6. PaymentsFit'
  BY <1>2, <1>5 DEF PaymentsFit, RowOnly
<1> QED BY <1>2, <1>4, <1>6, StepOfNone

\* When only Adyen's side of payment p changes, and no refund is asked for.
AdyenMove(p, a) ==
  /\ UNCHANGED <<goods, payments, voucher>>
  /\ adyen' = [adyen EXCEPT ![p] = a]
  /\ adyen[p].taken <= a.taken
  /\ adyen[p].cut => a.cut
  /\ a.asked = adyen[p].asked

LEMMA AdyenOnly ==
  ASSUME IInv, NEW p \in DOMAIN payments, NEW a \in Account, AdyenMove(p, a)
  PROVE  /\ RowOnly(p) /\ payments'[p] = payments[p] /\ adyen'[p] = a
         /\ \A d \in Sessions : Busy(d) => Undisturbed(session[d])
         /\ \A s \in Transaction : Fits(s) => Undisturbed(s)
<1>1. Types /\ SessionsFit
  BY DEF IInv
<1>2. PICK r : r = payments[p]
  OBVIOUS
<1>3. r \in PaymentRow /\ payments' = [payments EXCEPT ![p] = r]
  BY <1>1, <1>2, Rows DEF Types, AdyenMove
<1>4. RowOnly(p) /\ payments'[p] = r /\ adyen'[p] = a
  <2>1. Follows(r, a, p)
    BY <1>2 DEF Follows, AdyenMove
  <2> QED BY <1>1, <1>3, <2>1, RowSet DEF AdyenMove
<1>5. \A q \in DOMAIN payments : adyen'[q].asked = adyen[q].asked
  BY <1>4 DEF RowOnly, AdyenMove
<1>6. UNCHANGED <<checkouts, payments, voucher>>
  BY DEF goods, AdyenMove
<1>7. \A s \in Transaction : Fits(s) => Undisturbed(s)
  BY <1>5, <1>6, Quiet
<1>8. \A d \in Sessions : Busy(d) => Undisturbed(session[d])
  BY <1>1, <1>7, SessionIs DEF SessionsFit
<1> QED BY <1>2, <1>4, <1>7, <1>8

-----------------------------------------------------------------------------
(* Processing the payment. *)

\* The payment that _process_payment gets was not charged yet by any session.
LEMMA Unspent ==
  ASSUME IInv, NEW c \in Sessions, Processes(c), NEW p, p = session[c].payment
  PROVE  /\ p \in DOMAIN payments /\ payments[p] \in PaymentRow /\ adyen[p] \in Account
         /\ session[c] \in Transaction /\ Fits(session[c]) /\ Busy(c) /\ session[c].step = "counted"
         /\ payments[p].checkout = session[c].checkout /\ session[c].checkout \in checkouts
         /\ ~ Spent(p) /\ payments[p].captured = 0 /\ ~ UnderWay(p)
         /\ Books(p) /\ Charges(p) /\ p # 0
<1>1. Types /\ LocksHeldOnce
  BY DEF IInv
<1>2. Busy(c) /\ session[c].step = "counted" /\ p # 0
  BY DEF Processes
<1>3. session[c] \in Transaction /\ Fits(session[c])
  BY <1>1, <1>2, SessionIs DEF IInv, SessionsFit
<1>4. /\ p \in DOMAIN payments /\ payments[p].checkout = session[c].checkout
      /\ session[c].checkout \in checkouts
  BY <1>2, <1>3 DEF Fits, Paying
<1>5. payments[p] \in PaymentRow /\ adyen[p] \in Account
  BY <1>1, <1>4, Rows
<1>6. ~ Spent(p)
  BY <1>2, <1>3 DEF Fits, Charging
<1>7. Books(p) /\ Charges(p)
  BY <1>4 DEF IInv, PaymentsFit
<1>8. payments[p].captured = 0
  BY <1>5, <1>6, <1>7 DEF Spent, Books, PaymentRow, Account
<1>9. ASSUME NEW d \in Sessions, Busy(d), session[d].took, session[d].payment = p
      PROVE  FALSE
  <2>1. Fits(session[d]) /\ ~ session[c].took
    BY <1>2, <1>3, <1>9 DEF IInv, SessionsFit, Fits, Charging
  <2>2. HasCheckout(session[d]) /\ session[d].checkout = session[c].checkout
    BY <1>2, <1>4, <1>9, <2>1 DEF Fits, Charging, Paying, HasCheckout
  <2>3. HasCheckout(session[c])
    BY <1>2 DEF HasCheckout
  <2> QED BY <1>1, <1>2, <1>9, <2>1, <2>2, <2>3 DEF LocksHeldOnce, Apart
<1>10. ~ UnderWay(p)
  BY <1>9 DEF UnderWay
<1> QED BY <1>2, <1>3, <1>4, <1>5, <1>6, <1>7, <1>8, <1>10

\* So Adyen was never asked, but when its answer was lost or the customer is to
\* confirm.
LEMMA Uncharged ==
  ASSUME IInv, NEW c \in Sessions, Processes(c), NEW p, p = session[c].payment,
         payments[p].toConfirm => adyen[p].action, ~ adyen[p].cut
  PROVE  adyen[p].taken = 0
BY Unspent DEF Charges, Account, CheckoutAssumption

Charged(s, took) == [s EXCEPT !.step = "charged", !.locked = TRUE, !.took = took]

LEMMA ChargedIs ==
  ASSUME IInv, NEW c \in Sessions, Processes(c), NEW t, t = Charged(session[c], TRUE)
  PROVE  /\ t \in Transaction /\ t.step = "charged" /\ t.took /\ t.locked
         /\ t.by = session[c].by /\ t.payment = session[c].payment
         /\ t.confirms = session[c].confirms
         /\ Paying(t) /\ Counting(t) /\ Pricing(t) /\ Telling(t)
         /\ \A d \in Sessions : d # c /\ Busy(d) => Apart(t, session[d])
<1>1. PICK s : s = session[c]
  OBVIOUS
<1>2. s \in Transaction /\ Fits(s) /\ Busy(c) /\ s.step = "counted" /\ s.payment # 0
  BY <1>1, Unspent
<1>3. /\ t \in Transaction /\ t.step = "charged" /\ t.took /\ t.locked
      /\ t.by = s.by /\ t.checkout = s.checkout /\ t.payment = s.payment
      /\ t.confirms = s.confirms /\ t.voucher = s.voucher /\ t.uses = s.uses /\ t.added = s.added
      /\ t.total = s.total /\ t.saw = s.saw /\ t.notified = s.notified
  BY <1>1, <1>2 DEF Charged, Transaction, Step
<1>4. Continues(s, t)
  BY <1>1, <1>2, <1>3 DEF Continues, Processes
<1>5. Paying(t) /\ \A d \in Sessions : d # c /\ Busy(d) => Apart(t, session[d])
  BY <1>1, <1>2, <1>3, <1>4, GoesOn
<1>6. Counting(t) /\ Pricing(t) /\ Telling(t)
  BY <1>2, <1>3 DEF Fits, Counting, Pricing, Telling
<1> QED BY <1>1, <1>3, <1>5, <1>6

LEMMA ChargeStep ==
  ASSUME IInv, NEW c \in Sessions, Charge(c)
  PROVE  IInv'
<1>1. Types
  BY DEF IInv
<1>2. PICK s : s = session[c]
  OBVIOUS
<1>3. PICK p : p = s.payment
  OBVIOUS
<1>4. Processes(c) /\ UNCHANGED <<goods, payments, voucher, crashes>>
  BY DEF Charge
<1>5. /\ p \in DOMAIN payments /\ payments[p] \in PaymentRow /\ adyen[p] \in Account
      /\ s \in Transaction /\ Fits(s) /\ Busy(c) /\ s.step = "counted"
      /\ ~ Spent(p) /\ payments[p].captured = 0 /\ ~ UnderWay(p)
      /\ Books(p) /\ Charges(p)
  BY <1>2, <1>3, <1>4, Unspent
<1>6. PICK t : t = Charged(s, TRUE)
  OBVIOUS
<1>7. /\ t \in Transaction /\ t.step = "charged" /\ t.took /\ t.locked
      /\ t.by = s.by /\ t.payment = p /\ t.confirms = s.confirms
      /\ Paying(t) /\ Counting(t) /\ Pricing(t) /\ Telling(t)
      /\ \A d \in Sessions : d # c /\ Busy(d) => Apart(t, session[d])
  BY <1>2, <1>3, <1>4, <1>6, ChargedIs
<1>8. s.confirms => s.by = "adyen" /\ adyen[p].taken > 0
  BY <1>3, <1>5 DEF Fits, Charging
<1>9. ~ s.took
  BY <1>5 DEF Fits, Charging
<1>10. CASE /\ Goes(c, t) /\ UNCHANGED adyen /\ adyen[p].taken > 0
            /\ s.by = "adyen" => payments[p].toConfirm
  <2>1. Charging(t)
    BY <1>5, <1>7, <1>8, <1>10 DEF Charging
  <2>2. Fits(t)
    BY <1>7, <2>1 DEF Fits
  <2> QED BY <1>2, <1>4, <1>7, <1>9, <1>10, <2>2, SessionOnly
<1>11. CASE /\ s.by = "customer" /\ Goes(c, t)
            /\ payments[p].toConfirm => adyen[p].action
            /\ adyen[p].taken < MaxCharges
            /\ adyen' = [adyen EXCEPT ![p].taken = @ + 1, ![p].action = FALSE]
  <2>1. PICK a : a = [adyen[p] EXCEPT !.taken = @ + 1, !.action = FALSE]
    OBVIOUS
  <2>2. /\ a \in Account /\ a.taken = adyen[p].taken + 1 /\ ~ a.action
        /\ a.cut = adyen[p].cut /\ a.asked = adyen[p].asked /\ a.told = adyen[p].told
    <3>1. adyen[p].taken + 1 \in 0 .. MaxCharges
      BY <1>5, <1>11 DEF Account, CheckoutAssumption
    <3> QED BY <1>5, <2>1, <3>1 DEF Account
  <2>3. adyen' = [adyen EXCEPT ![p] = a]
    BY <1>1, <1>5, <1>11, <2>1, Rows
  <2>4. adyen[p].taken \in Nat
    BY <1>5 DEF Account, CheckoutAssumption
  <2>5. /\ RowOnly(p) /\ payments'[p] = payments[p] /\ adyen'[p] = a
        /\ \A d \in Sessions : Busy(d) => Undisturbed(session[d])
    <3>1. AdyenMove(p, a)
      BY <1>4, <2>2, <2>3, <2>4 DEF AdyenMove
    <3> QED BY <1>5, <2>2, <3>1, AdyenOnly
  <2>6. VoucherGrows
    BY <1>4, VoucherStays DEF IInv
  <2>7. RowMove(c, t, p)
    BY <1>1, <1>4, <1>9, <1>2, <1>11, <2>5, <2>6 DEF RowMove, Types
  <2>8. Types' /\ Grows
    BY <1>7, <2>7, RowMoveTypes
  <2>9. UNCHANGED <<checkouts, orders, stock, balance>>
    BY <1>4 DEF goods
  <2>10. ~ Spent(p)' /\ adyen'[p].taken > 0
    BY <1>5, <2>2, <2>4, <2>5 DEF Spent
  <2>11. Charging(t)'
    BY <1>7, <1>8, <1>11, <2>10 DEF Charging
  <2>12. Fits(t)'
    BY <1>4, <1>7, <1>11, <2>9, <2>11 DEF Fits, Paying, Counting, Pricing, Telling
  <2>13. Books(p)'
    BY <1>1, <1>4, <1>5, <2>2, <2>4, <2>5, <2>8, <2>9, <2>10, RefusableStays DEF Books, Account, PaymentRow
  <2>14. UnderWay(p)'
    <3>1. session'[c] = t
      BY <1>1, <1>11 DEF Types, Goes
    <3> QED BY <1>7, <3>1, NotIdle DEF UnderWay, Busy
  <2>15. ~ adyen[p].cut => adyen[p].taken = 0
    BY <1>2, <1>3, <1>4, <1>11, Uncharged
  <2>16. Charges(p)'
    BY <2>2, <2>4, <2>5, <2>14, <2>15 DEF Charges
  <2> QED BY <1>7, <2>7, <2>12, <2>13, <2>16, MovesFit
<1>12. (payments[p].captured = 0) = TRUE
  BY <1>5
<1>13. CASE IsConfirmed(s) /\ Goes(c, Charged(s, payments[p].captured = 0)) /\ UNCHANGED adyen
  <2>1. Goes(c, t) /\ payments[p].toConfirm
    BY <1>6, <1>12, <1>13, <1>3 DEF IsConfirmed
  <2>2. adyen[p].taken > 0
    BY <1>3, <1>5, <1>8, <1>13 DEF IsConfirmed, Charges
  <2> QED BY <1>10, <1>13, <2>1, <2>2
<1> QED BY <1>2, <1>3, <1>6, <1>10, <1>11, <1>13 DEF Charge, Charged

LEMMA RefusePaymentStep ==
  ASSUME IInv, NEW c \in Sessions, RefusePayment(c)
  PROVE  IInv'
<1>1. Types
  BY DEF IInv
<1>2. PICK s : s = session[c]
  OBVIOUS
<1>3. PICK p : p = s.payment
  OBVIOUS
<1>4. PICK t : t = [Released(s) EXCEPT !.step = "undo", !.locked = TRUE]
  OBVIOUS
<1>5. Processes(c) /\ ~ IsConfirmed(s) /\ Goes(c, t) /\ UNCHANGED <<goods, payments, voucher, crashes>>
  BY <1>2, <1>4 DEF RefusePayment
<1>6. /\ p \in DOMAIN payments /\ payments[p] \in PaymentRow /\ adyen[p] \in Account /\ p # 0
      /\ s \in Transaction /\ Fits(s) /\ Busy(c) /\ s.step = "counted"
      /\ ~ Spent(p) /\ payments[p].captured = 0 /\ ~ UnderWay(p)
      /\ Books(p) /\ Charges(p)
  BY <1>2, <1>3, <1>5, Unspent
<1>7. /\ t \in Transaction /\ t.step = "undo" /\ t.locked /\ t.uses = 0 /\ ~ t.added
      /\ t.by = s.by /\ t.checkout = s.checkout /\ t.payment = s.payment
      /\ t.voucher = s.voucher /\ t.took = s.took /\ t.confirms = s.confirms /\ t.notified = s.notified
  BY <1>4, <1>6 DEF Released, Transaction, Step
<1>8. Continues(s, t)
  BY <1>2, <1>5, <1>6, <1>7 DEF Continues, Processes
<1>9. Paying(t) /\ \A d \in Sessions : d # c /\ Busy(d) => Apart(t, session[d])
  BY <1>2, <1>6, <1>7, <1>8, GoesOn
<1>10. ~ s.took
  BY <1>6 DEF Fits, Charging
<1>11. s.confirms => adyen[p].taken > 0 /\ ~ payments[p].toConfirm
  BY <1>3, <1>5, <1>6 DEF Fits, Charging, IsConfirmed
<1>12. s.notified => s.by = "adyen" /\ adyen[p].cut
  BY <1>3, <1>6, <1>11 DEF Fits, Telling, Charges
<1>13. Counting(t) /\ Pricing(t) /\ Telling(t)
  BY <1>3, <1>7, <1>12 DEF Counting, Pricing, Telling
<1>14. Charging(t)
  BY <1>6, <1>7, <1>10 DEF Fits, Charging
<1>15. Fits(t)
  BY <1>9, <1>13, <1>14 DEF Fits
<1>16. CASE UNCHANGED adyen
  BY <1>2, <1>5, <1>7, <1>9, <1>10, <1>15, <1>16, SessionOnly
<1>17. CASE adyen' = [adyen EXCEPT ![p].action = FALSE]
  <2>1. PICK a : a = [adyen[p] EXCEPT !.action = FALSE]
    OBVIOUS
  <2>2. /\ a \in Account /\ a.taken = adyen[p].taken /\ ~ a.action
        /\ a.cut = adyen[p].cut /\ a.asked = adyen[p].asked /\ a.told = adyen[p].told
    BY <1>6, <2>1 DEF Account
  <2>3. adyen[p].taken \in Nat
    BY <1>6 DEF Account, CheckoutAssumption
  <2>4. AdyenMove(p, a)
    BY <1>5, <1>17, <2>1, <2>2, <2>3 DEF AdyenMove
  <2>5. /\ RowOnly(p) /\ payments'[p] = payments[p] /\ adyen'[p] = a
        /\ \A d \in Sessions : Busy(d) => Undisturbed(session[d])
        /\ Undisturbed(t)
    BY <1>6, <1>7, <1>15, <2>2, <2>4, AdyenOnly
  <2>6. VoucherGrows
    BY <1>5, VoucherStays DEF IInv
  <2>7. RowMove(c, t, p)
    BY <1>1, <1>5, <1>10, <1>2, <2>5, <2>6 DEF RowMove, Types
  <2>8. Types' /\ Grows
    BY <1>7, <2>7, RowMoveTypes
  <2>9. UNCHANGED <<checkouts, orders, stock, balance>>
    BY <1>5 DEF goods
  <2>10. Fits(t)'
    BY <1>1, <1>7, <1>15, <2>5, <2>8, FitsStays
  <2>11. Books(p)'
    BY <1>1, <1>5, <1>6, <2>2, <2>5, <2>8, <2>9, RefusableStays DEF Books, Spent
  <2>12. Charges(p)'
    BY <1>6, <2>2, <2>5 DEF Charges, Spent
  <2> QED BY <1>7, <1>9, <2>7, <2>10, <2>11, <2>12, MovesFit
<1> QED BY <1>2, <1>3, <1>16, <1>17 DEF RefusePayment

LEMMA RequireActionStep ==
  ASSUME IInv, NEW c \in Sessions, RequireAction(c)
  PROVE  IInv'
<1>1. Types
  BY DEF IInv
<1>2. PICK s : s = session[c]
  OBVIOUS
<1>3. PICK p : p = s.payment
  OBVIOUS
<1>4. /\ Processes(c) /\ Goes(c, Idle) /\ UNCHANGED <<goods, crashes>>
      /\ payments[p].toConfirm => adyen[p].action
  BY <1>2, <1>3 DEF RequireAction, Ends
<1>5. /\ p \in DOMAIN payments /\ payments[p] \in PaymentRow /\ adyen[p] \in Account /\ p # 0
      /\ s \in Transaction /\ Fits(s) /\ Busy(c) /\ s.step = "counted"
      /\ ~ Spent(p) /\ Books(p) /\ Charges(p)
  BY <1>2, <1>3, <1>4, Unspent
<1>6. ~ s.took
  BY <1>5 DEF Fits, Charging
<1>7. PICK a : a = [adyen[p] EXCEPT !.action = TRUE]
  OBVIOUS
<1>8. PICK r : r = [payments[p] EXCEPT !.toConfirm = TRUE]
  OBVIOUS
<1>9. payments' = [payments EXCEPT ![p] = r] /\ adyen' = [adyen EXCEPT ![p] = a]
  BY <1>2, <1>3, <1>7, <1>8 DEF RequireAction
<1>10. /\ a \in Account /\ a.taken = adyen[p].taken
       /\ a.cut = adyen[p].cut /\ a.asked = adyen[p].asked /\ a.told = adyen[p].told
  BY <1>5, <1>7 DEF Account
<1>11. /\ r \in PaymentRow /\ r.checkout = payments[p].checkout /\ r.total = payments[p].total
       /\ r.active = payments[p].active /\ r.toConfirm /\ r.confirmed = payments[p].confirmed
       /\ r.captured = payments[p].captured /\ r.refunded = payments[p].refunded
  BY <1>5, <1>8 DEF PaymentRow
<1>12. adyen[p].taken \in Nat
  BY <1>5 DEF Account, CheckoutAssumption
<1>13. RowOnly(p) /\ payments'[p] = r /\ adyen'[p] = a
  <2>1. Follows(r, a, p)
    BY <1>10, <1>11, <1>12 DEF Follows
  <2> QED BY <1>1, <1>5, <1>9, <1>10, <1>11, <2>1, RowSet
<1>14. /\ VoucherGrows
       /\ \A d \in Sessions : d # c /\ Busy(d) /\ session[d].uses = 1 => voucher'.used = voucher.used
  BY <1>2, <1>5, VoucherCommits DEF RequireAction
<1>15. UNCHANGED <<checkouts, orders, stock, balance>>
  BY <1>4 DEF goods
<1>16. ASSUME NEW d \in Sessions, d # c, Busy(d), session[d].payment = p
       PROVE  Undisturbed(session[d])
  <2>1. Fits(session[d])
    BY <1>16 DEF IInv, SessionsFit
  <2>2. session[d].uses = 1 => voucher'.used = voucher.used
    BY <1>14, <1>16
  <2> QED BY <1>10, <1>11, <1>13, <1>15, <1>16, <2>1, <2>2
          DEF Undisturbed, RowOnly, Fits, Paying, Charging, Spent
<1>17. RowMove(c, Idle, p)
  BY <1>1, <1>2, <1>4, <1>6, <1>13, <1>14, <1>16 DEF RowMove, Types
<1>18. Types' /\ Grows
  BY <1>17, RowMoveTypes
<1>19. Books(p)'
  BY <1>1, <1>5, <1>10, <1>11, <1>13, <1>15, <1>18, RefusableStays DEF Books, Spent
<1>20. ~ adyen[p].cut => adyen[p].taken = 0
  BY <1>2, <1>3, <1>4, Uncharged
<1>21. Charges(p)'
  BY <1>5, <1>10, <1>11, <1>12, <1>13, <1>20 DEF Charges
<1> QED BY <1>17, <1>19, <1>21, MovesFit

-----------------------------------------------------------------------------
(* Ends of a session. *)

\* A session without a payment commits what it counted and ends.
LEMMA EndsWithoutPayment ==
  ASSUME IInv, NEW c \in Sessions, Busy(c), session[c].payment = 0, Commits(session[c]),
         Ends(c), UNCHANGED <<goods, adyen, crashes>>
  PROVE  IInv'
<1>1. Types
  BY DEF IInv
<1>2. session[c] \in Transaction /\ Fits(session[c])
  BY <1>1, SessionIs DEF IInv, SessionsFit
<1>3. ~ session[c].locked /\ ~ session[c].took
  BY <1>2 DEF Fits, Paying, Charging
<1>4. payments' = payments
  BY <1>3 DEF Commits
<1>5. RowOnly(-1)
  BY <1>1, <1>4, NoRow
<1>6. /\ VoucherGrows
      /\ \A d \in Sessions : d # c /\ Busy(d) /\ session[d].uses = 1 => voucher'.used = voucher.used
  BY VoucherCommits DEF Commits
<1>7. \A d \in Sessions : Busy(d) => session[d].payment # -1
  BY <1>1, SessionIs DEF Transaction
<1>8. RowMove(c, Idle, -1)
  BY <1>1, <1>3, <1>5, <1>6, <1>7 DEF RowMove, Types, Ends
<1>9. -1 \notin DOMAIN payments
  BY <1>1, Rows
<1> QED BY <1>8, <1>9, MovesFit

LEMMA FailWithoutPaymentStep ==
  ASSUME IInv, NEW c \in Sessions, FailWithoutPayment(c)
  PROVE  IInv'
BY EndsWithoutPayment DEF FailWithoutPayment

\* What a session that has its checkout commits of its payment, others do not touch.
LEMMA OwnPayment ==
  ASSUME IInv, NEW c \in Sessions, Busy(c), HasCheckout(session[c]), NEW p \in DOMAIN payments,
         p = session[c].payment, RowOnly(p), checkouts \ {session[c].checkout} \subseteq checkouts',
         session[c].checkout \in checkouts' \/ session[c].locked,
         ~ session[c].locked => payments' = payments,
         NEW d \in Sessions, d # c, Busy(d), session[d].uses = 1 => voucher'.used = voucher.used
  PROVE  Undisturbed(session[d])
<1>1. PICK s : s = session[c]
  OBVIOUS
<1>2. PICK t : t = session[d]
  OBVIOUS
<1>3. Fits(s) /\ Fits(t) /\ Apart(s, t)
  BY <1>1, <1>2 DEF IInv, SessionsFit, LocksHeldOnce
<1>4. payments[p].checkout = s.checkout
  BY <1>1, <1>3, Rows DEF Fits, Paying, IInv
<1>5. HasCheckout(t) => t.checkout # s.checkout
  BY <1>1, <1>3 DEF Apart
<1>6. t.step # "create" => t.checkout \in checkouts'
  <2>1. CASE t.step = "notified" /\ t.checkout = s.checkout
    <3>1. t.locked /\ payments[t.payment].active /\ payments[t.payment].checkout = s.checkout
          /\ t.payment \in DOMAIN payments
      BY <1>3, <2>1, Rows DEF Fits, Paying, IInv
    <3>2. t.payment = s.payment
      BY <1>1, <1>3, <3>1 DEF Fits, Paying
    <3>3. ~ s.locked
      BY <1>3, <3>1, <3>2 DEF Apart
    <3> QED BY <1>1, <2>1, <3>3
  <2>2. CASE t.checkout # s.checkout
    BY <1>1, <1>3, <2>2 DEF Fits, Paying
  <2>3. t.step # "idle"
    BY <1>2, SessionIs DEF Transaction, Step, IInv
  <2> QED BY <1>5, <2>1, <2>2, <2>3 DEF HasCheckout
<1>7. CASE t.payment = p
  <2>1. t.locked => payments' = payments
    BY <1>1, <1>3, <1>7 DEF Apart
  <2>2. ~ (t.took \/ t.step \in {"priced", "counted", "charged"})
    BY <1>3, <1>4, <1>5, <1>7, Rows DEF Fits, Paying, Charging, HasCheckout, IInv
  <2>3. \A q \in DOMAIN payments' \ DOMAIN payments : FALSE
    BY DEF RowOnly
  <2> QED BY <1>2, <1>6, <2>1, <2>2, <2>3 DEF Undisturbed
<1>8. CASE t.payment # p
  <2>1. t.payment # 0 => /\ payments'[t.payment] = payments[t.payment]
                         /\ adyen'[t.payment] = adyen[t.payment]
    BY <1>3, <1>8 DEF RowOnly, Fits, Paying
  <2> QED BY <1>2, <1>3, <1>6, <2>1 DEF Undisturbed, RowOnly, Fits, Paying, Charging, Spent
<1> QED BY <1>2, <1>7, <1>8

\* Session c ends as s, and commits the row of its payment p; a is Adyen's.
CommitsRow(c, s, p, a) ==
  /\ Busy(c) /\ s = session[c] /\ p = s.payment /\ Commits(s)
  /\ adyen' = [adyen EXCEPT ![p] = a]
  /\ adyen[p].taken <= a.taken
  /\ adyen[p].cut => a.cut

LEMMA RowCommits ==
  ASSUME IInv, NEW c \in Sessions, NEW s, NEW p \in DOMAIN payments, NEW a \in Account,
         CommitsRow(c, s, p, a)
  PROVE  /\ RowOnly(p) /\ adyen'[p] = a
         /\ ~ s.locked => payments' = payments
         /\ s.locked =>
              /\ payments'[p].active = payments[p].active
              /\ payments'[p].checkout = payments[p].checkout
              /\ payments'[p].total = payments[p].total
              /\ payments'[p].refunded = payments[p].refunded
              /\ payments'[p].confirmed <=> payments[p].confirmed \/ s.confirms
              /\ payments'[p].toConfirm <=> payments[p].toConfirm /\ ~ s.took
              /\ payments'[p].captured = payments[p].captured + (IF s.took THEN 1 ELSE 0)
<1>1. Types
  BY DEF IInv
<1>2. s \in Transaction /\ payments[p] \in PaymentRow /\ p = s.payment
  BY <1>1, SessionIs, Rows DEF CommitsRow
<1>3. CASE s.locked
  <2>1. PICK x, y, z : /\ x = (payments[p].confirmed \/ s.confirms)
                       /\ y = (payments[p].toConfirm /\ ~ s.took)
                       /\ z = payments[p].captured + (IF s.took THEN 1 ELSE 0)
    OBVIOUS
  <2>2. z \in Int
    BY <1>2, <2>1 DEF PaymentRow
  <2>3. x \in BOOLEAN /\ y \in BOOLEAN
    BY <2>1, Zenon
  <2>4. PICK r : r = [payments[p] EXCEPT !.confirmed = x, !.toConfirm = y, !.captured = z]
    OBVIOUS
  <2>5. payments' = [payments EXCEPT ![p] = r]
    <3>1. payments' = [payments EXCEPT ![p].confirmed = x, ![p].toConfirm = y, ![p].captured = z]
      BY <1>2, <1>3, <2>1 DEF Commits, CommitsRow
    <3> QED BY <1>1, <2>4, <3>1, Rows DEF Types
  <2>6. /\ r \in PaymentRow /\ r.active = payments[p].active /\ r.checkout = payments[p].checkout
        /\ r.total = payments[p].total /\ r.refunded = payments[p].refunded
        /\ r.confirmed = x /\ r.toConfirm = y /\ r.captured = z
    BY <1>2, <2>2, <2>3, <2>4 DEF PaymentRow
  <2>7. RowOnly(p) /\ payments'[p] = r /\ adyen'[p] = a
    <3>1. Follows(r, a, p)
      BY <2>6 DEF Follows, CommitsRow
    <3>2. r \in PaymentRow
      BY <2>6
    <3> QED BY <1>1, <2>5, <3>1, <3>2, RowSet DEF CommitsRow
  <2>8. /\ payments'[p].confirmed <=> payments[p].confirmed \/ s.confirms
        /\ payments'[p].toConfirm <=> payments[p].toConfirm /\ ~ s.took
    BY <2>1, <2>6, <2>7
  <2>9. payments'[p].captured = payments[p].captured + (IF s.took THEN 1 ELSE 0)
    BY <2>1, <2>6, <2>7
  <2> QED BY <1>3, <2>6, <2>7, <2>8, <2>9
<1>4. CASE ~ s.locked
  <2>1. payments' = payments
    BY <1>4 DEF Commits, CommitsRow
  <2>2. PICK r : r = payments[p]
    OBVIOUS
  <2>3. r \in PaymentRow /\ payments' = [payments EXCEPT ![p] = r] /\ Follows(r, a, p)
    BY <1>1, <1>2, <2>1, <2>2 DEF Types, Follows, CommitsRow
  <2> QED BY <1>1, <1>4, <2>1, <2>3, RowSet DEF CommitsRow
<1> QED BY <1>3, <1>4

\* What is asked to be refunded: what this session took, or what was captured before.
LEMMA RefundIs ==
  ASSUME IInv, NEW c \in Sessions, Busy(c), NEW s, s = session[c], s.step = "undo",
         s.payment # 0
  PROVE  /\ Refund(s) \in Nat
         /\ s.took => /\ payments[s.payment].captured = 0
                      /\ payments[s.payment].active => Refund(s) = 1
                      /\ Refund(s) <= 1
         /\ ~ s.took /\ Refund(s) > 0 => payments[s.payment].captured > 0 /\ payments[s.payment].active
<1> DEFINE p == s.payment
           row == payments[p]
           all == row.captured + (IF s.took THEN 1 ELSE 0)
<1>1. Types /\ PaymentsFit
  BY DEF IInv
<1>2. s \in Transaction /\ Fits(s)
  BY <1>1, SessionIs DEF IInv, SessionsFit
<1>3. p \in DOMAIN payments /\ row \in PaymentRow /\ adyen[p] \in Account /\ Books(p)
  BY <1>1, <1>2, Rows DEF Fits, Paying, PaymentsFit
<1>4. row.captured \in Int /\ (row.active => ~ row.refunded)
  BY <1>3 DEF PaymentRow, Books
<1>5. all \in Int
  BY <1>4
<1>6. CanRefund([row EXCEPT !.captured = all]) <=> row.active /\ all > 0 /\ ~ row.refunded
  BY <1>3, <1>5 DEF CanRefund, PaymentRow
<1>7. CASE s.took
  <2>1. s.undoes /\ ~ Spent(p)
    BY <1>2, <1>7 DEF Fits, Charging
  <2>2. row.captured = 0
    BY <1>3, <2>1 DEF Spent, Books, PaymentRow, Account
  <2>3. ~ CanRefund(row) /\ all = 1
    BY <1>7, <2>2 DEF CanRefund
  <2>4. Refund(s) = (IF row.active THEN 1 ELSE 0)
    BY <1>4, <1>6, <2>1, <2>3 DEF Refund
  <2> QED BY <1>7, <2>2, <2>4
<1>8. CASE ~ s.took
  <2>1. all = row.captured
    BY <1>4, <1>8
  <2>2. \/ Refund(s) = 0
        \/ /\ row.captured > 0 /\ row.active
           /\ Refund(s) \in {row.captured, row.captured + row.captured}
    BY <1>4, <1>6, <2>1 DEF Refund, CanRefund
  <2> QED BY <1>4, <1>8, <2>2
<1> QED BY <1>7, <1>8

LEMMA FailsStep ==
  ASSUME IInv, NEW c \in Sessions, Fails(c)
  PROVE  IInv'
<1>1. Types
  BY DEF IInv
<1>2. PICK s : s = session[c]
  OBVIOUS
<1>3. PICK p : p = s.payment
  OBVIOUS
<1>4. Busy(c) /\ s.step = "undo" /\ Commits(s) /\ Ends(c) /\ UNCHANGED <<goods, crashes>>
  BY <1>2 DEF Fails
<1>5. CASE p = 0
  BY <1>2, <1>3, <1>4, <1>5, EndsWithoutPayment DEF Fails
<1>6. CASE p # 0
  <2>1. s \in Transaction /\ Fits(s)
    BY <1>1, <1>2, <1>4, SessionIs DEF IInv, SessionsFit
  <2>2. /\ p \in DOMAIN payments /\ payments[p] \in PaymentRow /\ adyen[p] \in Account
        /\ payments[p].checkout = s.checkout /\ s.checkout \in checkouts
        /\ Books(p) /\ Charges(p)
    BY <1>1, <1>3, <1>4, <1>6, <2>1, Rows DEF Fits, Paying, IInv, PaymentsFit
  <2>3. PICK n : n = Refund(s)
    OBVIOUS
  <2>4. /\ n \in Nat
        /\ s.took => /\ payments[p].captured = 0
                     /\ payments[p].active => n = 1
        /\ ~ s.took /\ n > 0 => payments[p].captured > 0
    BY <1>2, <1>3, <1>4, <1>6, <2>3, RefundIs
  <2>5. PICK told : told = (adyen[p].told \/ s.notified)
    OBVIOUS
  <2>6. told \in BOOLEAN
    BY <2>5, Zenon
  <2>7. PICK a : a = [adyen[p] EXCEPT !.told = told, !.asked = adyen[p].asked + n]
    OBVIOUS
  <2>8. adyen' = [adyen EXCEPT ![p] = a]
    <3>1. adyen' = [[adyen EXCEPT ![p].told = told] EXCEPT ![p].asked = @ + n]
      BY <1>2, <1>3, <1>6, <2>3, <2>5 DEF Fails, Told
    <3> QED BY <1>1, <2>2, <2>7, <3>1, Rows DEF Types
  <2>9. /\ a \in Account /\ a.taken = adyen[p].taken /\ a.cut = adyen[p].cut
        /\ a.asked = adyen[p].asked + n /\ a.action = adyen[p].action
        /\ a.told = told
    <3>1. adyen[p].asked + n \in Nat
      BY <2>2, <2>4 DEF Account
    <3> QED BY <2>2, <2>6, <2>7, <3>1 DEF Account
  <2>10. adyen[p].taken \in Nat /\ adyen[p].asked \in Nat /\ payments[p].captured \in Int
    BY <2>2 DEF Account, PaymentRow, CheckoutAssumption
  <2>11. /\ RowOnly(p) /\ adyen'[p] = a
         /\ ~ s.locked => payments' = payments
         /\ s.locked =>
              /\ payments'[p].active = payments[p].active
              /\ payments'[p].checkout = payments[p].checkout
              /\ payments'[p].total = payments[p].total
              /\ payments'[p].refunded = payments[p].refunded
              /\ payments'[p].confirmed <=> payments[p].confirmed \/ s.confirms
              /\ payments'[p].toConfirm <=> payments[p].toConfirm /\ ~ s.took
              /\ payments'[p].captured = payments[p].captured + (IF s.took THEN 1 ELSE 0)
    <3>1. CommitsRow(c, s, p, a)
      BY <1>2, <1>3, <1>4, <2>8, <2>9, <2>10 DEF CommitsRow
    <3> QED BY <2>2, <2>9, <3>1, RowCommits
  <2>12. s.took => s.locked /\ adyen[p].taken > 0 /\ stock = 0 /\ ~ Spent(p)
    BY <1>3, <1>4, <1>6, <2>1 DEF Fits, Charging
  <2>13. s.confirms => s.locked /\ adyen[p].taken > 0
    BY <1>3, <2>1 DEF Fits, Charging, Paying
  <2>14. /\ payments'[p].active = payments[p].active
         /\ payments'[p].checkout = payments[p].checkout
         /\ payments'[p].total = payments[p].total
         /\ payments'[p].refunded = payments[p].refunded
         /\ payments'[p].confirmed => payments[p].confirmed \/ s.confirms
         /\ payments'[p].toConfirm <=> payments[p].toConfirm /\ ~ s.took
         /\ payments'[p].captured = payments[p].captured + (IF s.took THEN 1 ELSE 0)
    BY <2>10, <2>11, <2>12
  <2>15. UNCHANGED <<checkouts, orders, stock, balance>>
    BY <1>4 DEF goods
  <2>16. /\ VoucherGrows
         /\ \A d \in Sessions : d # c /\ Busy(d) /\ session[d].uses = 1 => voucher'.used = voucher.used
    BY <1>2, <1>4, VoucherCommits DEF Commits
  <2>17. ASSUME NEW d \in Sessions, d # c, Busy(d) PROVE Undisturbed(session[d])
    <3>1. HasCheckout(s)
      BY <1>4 DEF HasCheckout
    <3>2. session[d].uses = 1 => voucher'.used = voucher.used
      BY <2>16, <2>17
    <3> QED BY <1>2, <1>3, <1>4, <2>2, <2>11, <2>15, <2>17, <3>1, <3>2, OwnPayment
  <2>18. RowMove(c, Idle, p)
    BY <1>1, <1>2, <1>3, <1>4, <2>11, <2>16, <2>17 DEF RowMove, Types, Ends
  <2>19. Types' /\ Grows
    BY <2>18, RowMoveTypes
  <2>20. told => adyen[p].told \/ Refusable(p) \/ adyen[p].cut
    BY <1>3, <1>4, <2>1, <2>5 DEF Fits, Telling
  <2>21. Refusable(p) => Refusable(p)'
    BY <1>1, <2>2, <2>19, RefusableStays
  <2>22. Books(p)'
    <3>1. CASE s.took
      <4>1. stock = 0 /\ stock' = 0 /\ adyen[p].asked = 0 /\ payments[p].captured = 0
        BY <2>4, <2>10, <2>12, <2>15, <3>1 DEF Spent
      <4>2. Refusable(p)'
        BY <4>1 DEF Refusable
      <4> QED BY <2>2, <2>4, <2>9, <2>10, <2>11, <2>12, <2>14, <2>15, <3>1, <4>1, <4>2 DEF Books, Spent
    <3>2. CASE ~ s.took
      BY <2>2, <2>4, <2>9, <2>10, <2>11, <2>14, <2>15, <2>20, <2>21, <3>2 DEF Books, Spent
    <3> QED BY <3>1, <3>2
  <2>23. ~ s.took /\ UnderWay(p) => UnderWay(p)'
    BY <1>1, <1>2, <1>4, UnderWayStays DEF Ends
  <2>24. Charges(p)'
    BY <2>2, <2>4, <2>9, <2>10, <2>11, <2>12, <2>13, <2>14, <2>23 DEF Charges, Spent
  <2> QED BY <2>18, <2>22, <2>24, MovesFit
<1> QED BY <1>5, <1>6

LEMMA CreateOrderStep ==
  ASSUME IInv, NEW c \in Sessions, CreateOrder(c)
  PROVE  IInv'
<1>1. Types /\ OrdersOnce /\ OneActive
  BY DEF IInv
<1>2. PICK s : s = session[c]
  OBVIOUS
<1>3. PICK p : p = s.payment
  OBVIOUS
<1>4. /\ Busy(c) /\ s.step = "charged" /\ Commits(s) /\ Ends(c) /\ adyen' = Told(s)
      /\ crashes' = crashes /\ checkouts' = checkouts \ {s.checkout}
  BY <1>2 DEF CreateOrder
<1>5. s \in Transaction /\ Fits(s)
  BY <1>1, <1>2, <1>4, SessionIs DEF IInv, SessionsFit
<1>6. s.took /\ s.locked /\ s.uses = 1 /\ s.checkout \in checkouts
  BY <1>4, <1>5 DEF Fits, Paying, Counting, Charging
<1>7. p \in DOMAIN payments /\ p # 0 /\ payments[p].checkout = s.checkout
  BY <1>1, <1>3, <1>5, <1>6, Rows DEF Fits, Paying
<1>8. payments[p] \in PaymentRow /\ adyen[p] \in Account /\ Books(p) /\ Charges(p)
  BY <1>1, <1>7, Rows DEF IInv, PaymentsFit
<1>9. adyen[p].taken > 0 /\ ~ Spent(p)
  BY <1>3, <1>4, <1>5, <1>6, <1>7 DEF Fits, Charging
<1>10. adyen[p].taken \in Nat /\ adyen[p].asked = 0 /\ payments[p].captured = 0
  BY <1>8, <1>9 DEF Account, PaymentRow, CheckoutAssumption, Books, Spent
<1>11. ~ Ordered(s.checkout)
  BY <1>1, <1>6 DEF OrdersOnce, Ordered
<1>12. PICK order : order = [checkout |-> s.checkout, total |-> s.total, card |-> CardPart(balance)]
  OBVIOUS
<1>13. /\ stock >= 1 /\ stock' = stock - 1 /\ balance' = balance - CardPart(balance)
       /\ orders' = Append(orders, order)
  BY <1>2, <1>11, <1>12 DEF CreateOrder
<1>14. balance \in Nat /\ stock \in Nat
  BY <1>1 DEF Types
<1>15. CardPart(balance) \in 0 .. Price /\ CardPart(balance) <= balance
  BY <1>14, CardParts DEF CheckoutAssumption
<1>16. /\ balance' \in Nat /\ balance' <= balance /\ stock' \in Nat /\ stock' <= stock
       /\ order \in Order /\ order.checkout = s.checkout
  BY <1>5, <1>12, <1>13, <1>14, <1>15 DEF Order, Transaction, CheckoutAssumption
<1>17. /\ orders' \in Seq(Order) /\ Len(orders') = Len(orders) + 1
       /\ DOMAIN orders = 1 .. Len(orders) /\ DOMAIN orders' = 1 .. Len(orders) + 1
       /\ \A i \in DOMAIN orders : orders'[i] = orders[i]
       /\ orders'[Len(orders) + 1] = order
       /\ Len(orders) \in Nat
  <2>1. orders \in Seq(Order)
    BY <1>1 DEF Types
  <2> QED BY <1>13, <1>16, <2>1, AppendProperties, LenProperties
<1>18. PICK told : told = (adyen[p].told \/ s.notified)
  OBVIOUS
<1>19. told \in BOOLEAN
  BY <1>18, Zenon
<1>20. PICK a : a = [adyen[p] EXCEPT !.told = told]
  OBVIOUS
<1>21. adyen' = [adyen EXCEPT ![p] = a]
  <2>1. adyen' = [adyen EXCEPT ![p].told = told]
    BY <1>3, <1>4, <1>18 DEF Told
  <2> QED BY <1>20, <2>1
<1>22. /\ a \in Account /\ a.taken = adyen[p].taken /\ a.cut = adyen[p].cut
       /\ a.asked = 0 /\ a.action = adyen[p].action
  BY <1>8, <1>10, <1>19, <1>20 DEF Account
<1>23. /\ RowOnly(p) /\ adyen'[p] = a
       /\ payments'[p].active = payments[p].active
       /\ payments'[p].checkout = s.checkout
       /\ payments'[p].refunded = payments[p].refunded
       /\ payments'[p].confirmed => payments[p].confirmed \/ s.confirms
       /\ payments'[p].captured = 1
  <2>1. CommitsRow(c, s, p, a)
    BY <1>2, <1>3, <1>4, <1>10, <1>21, <1>22 DEF CommitsRow
  <2> QED BY <1>6, <1>7, <1>10, <1>22, <2>1, RowCommits
<1>24. /\ VoucherGrows /\ voucher'.used = voucher.used + 1
       /\ \A d \in Sessions : d # c /\ Busy(d) /\ session[d].uses = 1 => voucher'.used = voucher.used
  BY <1>2, <1>4, <1>6, VoucherCommits DEF Commits
<1>25. ASSUME NEW d \in Sessions, d # c, Busy(d) PROVE Undisturbed(session[d])
  <2>1. HasCheckout(s)
    BY <1>4 DEF HasCheckout
  <2>2. session[d].uses = 1 => voucher'.used = voucher.used
    BY <1>24, <1>25
  <2> QED BY <1>2, <1>3, <1>4, <1>6, <1>7, <1>23, <1>25, <2>1, <2>2, OwnPayment
<1>26. session' = [session EXCEPT ![c] = Idle] /\ session' \in [Sessions -> Transaction \union {Idle}]
  BY <1>1, <1>4, SessionTyped DEF Ends, Goes
<1>27. Types'
  <2>1. checkouts' \in SUBSET Checkouts /\ crashes' \in 0 .. MaxCrashes
    BY <1>1, <1>4 DEF Types
  <2> QED BY <1>16, <1>17, <1>23, <1>24, <1>26, <2>1 DEF Types, RowOnly, VoucherGrows
<1>28. Grows
  <2>1. \A q \in DOMAIN payments : adyen[q].taken \in Int
    BY <1>1, Rows DEF Account, CheckoutAssumption
  <2> QED BY <1>4, <1>16, <1>23, <1>24, <2>1 DEF Grows, RowOnly, VoucherGrows
<1>29. OrdersOnce'
  <2>1. \A i \in DOMAIN orders' : orders'[i].checkout \notin checkouts'
    BY <1>1, <1>4, <1>16, <1>17 DEF OrdersOnce
  <2>2. \A i \in DOMAIN orders : orders[i].checkout # s.checkout
    BY <1>1, <1>6 DEF OrdersOnce
  <2>3. \A i, j \in DOMAIN orders' : orders'[i].checkout = orders'[j].checkout => i = j
    BY <1>1, <1>16, <1>17, <2>2 DEF OrdersOnce
  <2>4. Len(orders') <= voucher'.used /\ voucher'.used <= voucher'.limit
    BY <1>1, <1>17, <1>24 DEF OrdersOnce, Types, Voucher, VoucherGrows
  <2> QED BY <2>1, <2>3, <2>4 DEF OrdersOnce
<1>30. OneActive'
  BY <1>1, <1>23, <1>28, OneActiveStays DEF RowOnly
<1>31. Books(p)'
  <2>1. payments[p].checkout \notin checkouts' /\ payments'[p].checkout \notin checkouts'
    BY <1>4, <1>7, <1>23
  <2> QED BY <1>8, <1>9, <1>10, <1>22, <1>23, <2>1 DEF Books, Spent
<1>32. Charges(p)'
  <2>1. adyen[p].action => adyen[p].cut
    BY <1>8, <1>9 DEF Charges
  <2> QED BY <1>8, <1>9, <1>10, <1>22, <1>23, <2>1 DEF Charges, Spent
<1>33. \A q \in DOMAIN payments \ {p} :
         payments[q].checkout \in checkouts \ checkouts' => ~ payments[q].active
  BY <1>3, <1>4, <1>5 DEF Fits, Paying, HasCheckout
<1>34. PaymentsFit'
  <2>1. Goes(c, Idle)
    BY <1>4 DEF Ends
  <2> QED BY <1>2, <1>3, <1>23, <1>27, <1>28, <1>31, <1>32, <1>33, <2>1, OtherPayments
<1> QED BY <1>25, <1>26, <1>27, <1>28, <1>29, <1>30, <1>34, StepOfSession

LEMMA AbortStep ==
  ASSUME IInv, NEW c \in Sessions, Abort(c)
  PROVE  IInv'
<1>1. Types
  BY DEF IInv
<1>2. PICK s : s = session[c]
  OBVIOUS
<1>3. PICK p : p = s.payment
  OBVIOUS
<1> DEFINE lost == s.took /\ s.by = "customer" /\ ~ payments[p].toConfirm
<1>4. /\ Busy(c) /\ Goes(c, Idle) /\ UNCHANGED <<goods, payments, voucher>>
      /\ adyen' = IF lost THEN [adyen EXCEPT ![p].cut = TRUE] ELSE adyen
  BY <1>2, <1>3 DEF Abort, Ends
<1>5. crashes' \in 0 .. MaxCrashes
  BY <1>1 DEF Abort, Types, CheckoutAssumption
<1>6. s \in Transaction /\ Fits(s)
  BY <1>1, <1>2, <1>4, SessionIs DEF IInv, SessionsFit
<1>7. VoucherGrows
  BY <1>4, VoucherStays DEF IInv
<1>8. UNCHANGED <<checkouts, orders, stock, balance>>
  BY <1>4 DEF goods
<1>9. CASE p \in DOMAIN payments
  <2>1. payments[p] \in PaymentRow /\ adyen[p] \in Account /\ Books(p) /\ Charges(p)
    BY <1>1, <1>9, Rows DEF IInv, PaymentsFit
  <2>2. PICK a : a = IF lost THEN [adyen[p] EXCEPT !.cut = TRUE] ELSE adyen[p]
    OBVIOUS
  <2>3. adyen' = [adyen EXCEPT ![p] = a]
    <3>1. CASE lost
      BY <1>4, <2>2, <3>1
    <3>2. CASE ~ lost
      BY <1>1, <1>4, <1>9, <2>2, <3>2, Rows DEF Types
    <3> QED BY <3>1, <3>2
  <2>4. /\ a \in Account /\ a.taken = adyen[p].taken /\ a.asked = adyen[p].asked
        /\ a.action = adyen[p].action /\ a.told = adyen[p].told
        /\ a.cut <=> adyen[p].cut \/ lost
    BY <2>1, <2>2 DEF Account
  <2>5. adyen[p].taken \in Nat
    BY <2>1 DEF Account, CheckoutAssumption
  <2>6. AdyenMove(p, a)
    <3>1. UNCHANGED <<goods, payments, voucher>>
      BY <1>4
    <3> QED BY <2>3, <2>4, <2>5, <3>1 DEF AdyenMove
  <2>7. /\ RowOnly(p) /\ payments'[p] = payments[p] /\ adyen'[p] = a
        /\ \A d \in Sessions : Busy(d) => Undisturbed(session[d])
    BY <1>9, <2>4, <2>6, AdyenOnly
  <2>8. RowMove(c, Idle, p)
    BY <1>2, <1>3, <1>4, <1>5, <1>7, <2>7 DEF RowMove
  <2>9. Types' /\ Grows
    BY <2>8, RowMoveTypes
  <2>10. Books(p)'
    BY <1>1, <1>8, <1>9, <2>1, <2>4, <2>7, <2>9, RefusableStays DEF Books, Spent
  <2>11. UnderWay(p) /\ ~ s.took => UnderWay(p)'
    BY <1>1, <1>2, <1>4, UnderWayStays
  <2>12. s.took /\ ~ lost => payments[p].toConfirm
    BY <1>3, <1>6 DEF Fits, Charging, Transaction
  <2>13. Charges(p)'
    BY <2>1, <2>4, <2>7, <2>11, <2>12 DEF Charges, Spent
  <2> QED BY <2>8, <2>10, <2>13, MovesFit
<1>10. CASE p \notin DOMAIN payments
  <2>1. ~ s.took /\ adyen' = adyen
    BY <1>1, <1>3, <1>4, <1>6, <1>10, Rows DEF Fits, Paying, Charging
  <2>2. RowOnly(p)
    BY <1>1, <1>4, <2>1, NoRow
  <2>3. \A d \in Sessions : Busy(d) => Undisturbed(session[d])
    BY <1>1, <1>4, <1>8, <2>1, Quiet, SessionIs DEF IInv, SessionsFit
  <2>4. RowMove(c, Idle, p)
    BY <1>2, <1>4, <1>5, <1>7, <2>1, <2>2, <2>3 DEF RowMove
  <2> QED BY <1>10, <2>4, MovesFit
<1> QED BY <1>9, <1>10

-----------------------------------------------------------------------------
(* Adyen and its messages. *)

\* Adyen takes the money that the customer confirmed, or does not.
ActionEnds(p, a) ==
  /\ adyen[p].action /\ AdyenMove(p, a)
  /\ ~ a.action
  /\ a.told = adyen[p].told /\ a.cut = adyen[p].cut
  /\ a.taken \in {adyen[p].taken, adyen[p].taken + 1}

LEMMA ActionEnded ==
  ASSUME IInv, Types', Grows, NEW p \in DOMAIN payments, NEW a \in Account, ActionEnds(p, a)
  PROVE  Books(p)' /\ Charges(p)'
<1>1. Types /\ Books(p) /\ Charges(p)
  BY DEF IInv, PaymentsFit
<1>2. payments[p] \in PaymentRow /\ adyen[p] \in Account
  BY <1>1, Rows
<1>3. adyen[p].taken \in Nat /\ payments[p].captured \in Int
  BY <1>2 DEF Account, PaymentRow, CheckoutAssumption
<1>4. payments'[p] = payments[p] /\ adyen'[p] = a /\ a.asked = adyen[p].asked
  BY AdyenOnly DEF ActionEnds, AdyenMove
<1>5. UNCHANGED <<checkouts, stock>>
  BY DEF ActionEnds, AdyenMove, goods
<1>6. Books(p)'
  BY <1>1, <1>3, <1>4, <1>5, RefusableStays DEF Books, Spent, ActionEnds
<1>7. Charges(p)'
  BY <1>1, <1>3, <1>4 DEF Charges, ActionEnds
<1> QED BY <1>6, <1>7

LEMMA ActionIs ==
  ASSUME IInv, NEW p \in DOMAIN payments, adyen[p].action, UNCHANGED <<goods, payments, voucher>>,
         \/ /\ adyen[p].taken < MaxCharges
            /\ adyen' = [adyen EXCEPT ![p].taken = @ + 1, ![p].action = FALSE]
         \/ adyen' = [adyen EXCEPT ![p].action = FALSE]
  PROVE  \E a \in Account : ActionEnds(p, a)
<1>1. Types /\ adyen[p] \in Account
  BY Rows DEF IInv
<1>2. adyen[p].taken \in Nat
  BY <1>1 DEF Account, CheckoutAssumption
<1>3. CASE adyen[p].taken < MaxCharges /\ adyen' = [adyen EXCEPT ![p].taken = @ + 1, ![p].action = FALSE]
  <2>1. PICK a : a = [adyen[p] EXCEPT !.taken = adyen[p].taken + 1, !.action = FALSE]
    OBVIOUS
  <2>2. adyen[p].taken + 1 \in 0 .. MaxCharges
    BY <1>2, <1>3 DEF CheckoutAssumption
  <2>3. /\ a \in Account /\ a.taken = adyen[p].taken + 1 /\ ~ a.action
        /\ a.cut = adyen[p].cut /\ a.asked = adyen[p].asked /\ a.told = adyen[p].told
    BY <1>1, <2>1, <2>2 DEF Account
  <2>4. adyen' = [adyen EXCEPT ![p] = a]
    BY <1>1, <1>3, <2>1, Rows
  <2>5. ActionEnds(p, a)
    BY <1>2, <2>3, <2>4 DEF ActionEnds, AdyenMove
  <2> QED BY <2>3, <2>5
<1>4. CASE adyen' = [adyen EXCEPT ![p].action = FALSE]
  <2>1. PICK a : a = [adyen[p] EXCEPT !.action = FALSE]
    OBVIOUS
  <2>2. /\ a \in Account /\ a.taken = adyen[p].taken /\ ~ a.action
        /\ a.cut = adyen[p].cut /\ a.asked = adyen[p].asked /\ a.told = adyen[p].told
    BY <1>1, <2>1 DEF Account
  <2>3. adyen' = [adyen EXCEPT ![p] = a]
    BY <1>4, <2>1
  <2>4. ActionEnds(p, a)
    BY <1>2, <2>2, <2>3 DEF ActionEnds, AdyenMove
  <2> QED BY <2>2, <2>4
<1> QED BY <1>3, <1>4

LEMMA AuthenticateStep ==
  ASSUME IInv, NEW p \in DOMAIN payments, Authenticate(p)
  PROVE  IInv'
<1>1. PICK a \in Account : ActionEnds(p, a)
  BY ActionIs DEF Authenticate
<1>2. /\ RowOnly(p)
      /\ \A d \in Sessions : Busy(d) => Undisturbed(session[d])
  BY <1>1, AdyenOnly DEF ActionEnds
<1>3. Types' /\ Grows => Books(p)' /\ Charges(p)'
  BY <1>1, ActionEnded
<1> QED BY <1>2, <1>3, RowFits DEF Authenticate

LEMMA ReturnStep ==
  ASSUME IInv, NEW c \in Sessions, NEW p \in DOMAIN payments, Return(c, p)
  PROVE  IInv'
<1>1. Types /\ LocksHeldOnce
  BY DEF IInv
<1>2. p \in Nat /\ p # 0 /\ payments[p] \in PaymentRow /\ adyen[p] \in Account
  BY <1>1, Rows
<1>3. adyen[p].taken \in Nat
  BY <1>2 DEF Account, CheckoutAssumption
<1> DEFINE k == payments[p].checkout
<1>4. PICK t : t = [NewSession("notified", "adyen", k, p) EXCEPT !.locked = TRUE, !.confirms = TRUE]
  OBVIOUS
<1>5. /\ ~ Busy(c) /\ adyen[p].action /\ payments[p].active /\ k \in checkouts /\ ~ PaymentHeld(p)
      /\ UNCHANGED <<goods, payments, voucher, crashes>>
  BY DEF Return
<1>6. NewSession("notified", "adyen", k, p) \in Transaction
  BY <1>1, <1>2, NewSessionTyped DEF Step, PaymentRow
<1>7. /\ t \in Transaction /\ t.step = "notified" /\ t.by = "adyen" /\ t.checkout = k /\ t.payment = p
      /\ t.locked /\ ~ t.voucher /\ t.uses = 0 /\ ~ t.added /\ ~ t.took /\ ~ t.notified /\ t.confirms
  BY <1>4, <1>6 DEF Transaction, NewSession
<1>8. CASE adyen' = [adyen EXCEPT ![p].action = FALSE] /\ UNCHANGED session
  <2>1. PICK a \in Account : ActionEnds(p, a)
    BY <1>5, <1>8, ActionIs
  <2>2. /\ RowOnly(p)
        /\ \A d \in Sessions : Busy(d) => Undisturbed(session[d])
    BY <2>1, AdyenOnly DEF ActionEnds
  <2>3. Types' /\ Grows => Books(p)' /\ Charges(p)'
    BY <2>1, ActionEnded
  <2> QED BY <1>5, <1>8, <2>2, <2>3, RowFits
<1>9. CASE /\ adyen[p].taken < MaxCharges
           /\ adyen' = [adyen EXCEPT ![p].taken = @ + 1, ![p].action = FALSE]
           /\ Goes(c, t)
  <2>1. PICK a \in Account : ActionEnds(p, a)
    BY <1>5, <1>9, ActionIs
  <2>2. /\ RowOnly(p) /\ adyen'[p] = a
        /\ \A d \in Sessions : Busy(d) => Undisturbed(session[d])
    BY <2>1, AdyenOnly DEF ActionEnds
  <2>3. VoucherGrows
    BY <1>5, VoucherStays DEF IInv
  <2>4. RowMove(c, t, p)
    BY <1>1, <1>5, <1>9, <2>2, <2>3 DEF RowMove, Types
  <2>5. Types' /\ Grows
    BY <1>7, <2>4, RowMoveTypes
  <2>6. adyen'[p].taken > 0
    <3>1. adyen'[p].taken = adyen[p].taken + 1
      BY <1>1, <1>2, <1>9, Rows DEF Account
    <3> QED BY <1>3, <3>1
  <2>7. UNCHANGED <<checkouts, balance, stock>>
    BY <1>5 DEF goods
  <2>8. Fits(t)'
    BY <1>2, <1>5, <1>7, <2>6, <2>7 DEF Fits, Paying, Counting, Pricing, Charging, Telling, HasCheckout
  <2>9. \A d \in Sessions : d # c /\ Busy(d) => Apart(t, session[d])
    BY <1>1, <1>5, <1>7, StaysApart DEF HasCheckout
  <2>10. Books(p)' /\ Charges(p)'
    BY <2>1, <2>5, ActionEnded
  <2> QED BY <1>7, <2>4, <2>8, <2>9, <2>10, MovesFit
<1> QED BY <1>4, <1>8, <1>9 DEF Return

\* Nothing that a session relies on is in a payment that nobody has locked, and that
\* is spent already or whose row stays.
LEMMA LooseRow ==
  ASSUME IInv, NEW p \in DOMAIN payments, RowOnly(p), UNCHANGED <<checkouts, voucher>>,
         ~ PaymentHeld(p), adyen'[p].asked = adyen[p].asked,
         NEW d \in Sessions, Busy(d), session[d].payment = p,
         \/ payments'[p] = payments[p]
         \/ Spent(p)
         \/ ~ (payments[p].active /\ payments[p].checkout \in checkouts)
              /\ (payments'[p] = payments[p] \/ payments[p].checkout \notin checkouts)
  PROVE  Undisturbed(session[d])
<1>1. PICK t : t = session[d]
  OBVIOUS
<1>2. Fits(t) /\ t \in Transaction /\ t.payment # 0
  BY <1>1, SessionIs, Rows DEF IInv, SessionsFit
<1>3. ~ t.locked /\ ~ t.took
  BY <1>1, <1>2 DEF PaymentHeld, Fits, Charging
<1>4. t.step \in {"priced", "counted", "charged"} =>
        ~ Spent(p) /\ payments[p].checkout \in checkouts
  BY <1>1, <1>2 DEF Fits, Paying, Charging
<1>5. t.step \in {"priced", "counted", "charged"} => payments'[p] = payments[p]
  BY <1>4
<1> QED BY <1>1, <1>2, <1>3, <1>4, <1>5 DEF Undisturbed, RowOnly, Fits, Paying, Spent

LEMMA BookedStep ==
  ASSUME IInv, NEW p \in DOMAIN payments, Booked(p)
  PROVE  IInv'
<1>1. Types
  BY DEF IInv
<1>2. /\ payments[p] \in PaymentRow /\ adyen[p] \in Account /\ Books(p) /\ Charges(p)
  BY <1>1, Rows DEF IInv, PaymentsFit
<1>3. adyen[p].taken \in Nat /\ adyen[p].asked \in Nat /\ payments[p].captured \in Int
  BY <1>2 DEF Account, PaymentRow, CheckoutAssumption
<1>4. /\ adyen[p].taken > 0 /\ ~ PaymentHeld(p) /\ UNCHANGED <<goods, voucher, session, crashes>>
      /\ payments[p].active => payments[p].checkout \notin checkouts
  BY <1>2 DEF Booked, Books
<1> DEFINE books == payments[p].active /\ payments[p].captured < adyen[p].taken
<1>5. PICK a : a = [adyen[p] EXCEPT !.told = TRUE]
  OBVIOUS
<1>6. PICK r : r = IF books THEN [payments[p] EXCEPT !.captured = @ + 1, !.toConfirm = FALSE]
                   ELSE payments[p]
  OBVIOUS
<1>7. /\ a \in Account /\ a.taken = adyen[p].taken /\ a.asked = adyen[p].asked
      /\ a.action = adyen[p].action /\ a.cut = adyen[p].cut
  BY <1>2, <1>5 DEF Account
<1>8. CASE books
  <2>1. payments[p].captured + 1 \in Int
    BY <1>3
  <2>2. /\ r \in PaymentRow /\ r.checkout = payments[p].checkout /\ r.total = payments[p].total
        /\ r.active = payments[p].active /\ r.refunded = payments[p].refunded
        /\ r.confirmed = payments[p].confirmed
        /\ r.captured = payments[p].captured + 1 /\ ~ r.toConfirm
    BY <1>2, <1>6, <1>8, <2>1 DEF PaymentRow
  <2>3. payments' = [payments EXCEPT ![p] = r] /\ adyen' = [adyen EXCEPT ![p] = a]
    BY <1>1, <1>5, <1>6, <1>8, Rows DEF Booked
  <2>4. RowOnly(p) /\ payments'[p] = r /\ adyen'[p] = a
    <3>1. Follows(r, a, p)
      BY <1>3, <1>7, <2>2 DEF Follows
    <3> QED BY <1>1, <1>7, <2>2, <2>3, <3>1, RowSet
  <2>5. payments[p].checkout \notin checkouts /\ UNCHANGED <<checkouts, stock>>
    BY <1>4, <1>8 DEF goods
  <2>6. \A d \in Sessions : Busy(d) /\ session[d].payment = p => Undisturbed(session[d])
    BY <1>4, <1>7, <2>4, <2>5, LooseRow
  <2>7. Books(p)'
    BY <1>2, <1>3, <1>7, <1>8, <2>2, <2>4, <2>5 DEF Books
  <2>8. Charges(p)'
    <3>1. payments'[p].captured > 0 \/ adyen'[p].asked > 0
      BY <1>2, <1>3, <1>7, <2>2, <2>4 DEF Books
    <3>2. adyen[p].action => adyen[p].cut
      BY <1>2, <1>3, <1>4 DEF Charges
    <3> QED BY <1>2, <1>3, <1>7, <2>2, <2>4, <3>1, <3>2 DEF Charges, Spent
  <2> QED BY <1>4, <2>4, <2>6, <2>7, <2>8, RowFits
<1>9. CASE ~ books
  <2>1. payments' = [payments EXCEPT ![p] = r] /\ adyen' = [adyen EXCEPT ![p] = a] /\ r = payments[p]
    <3>1. payments' = payments /\ r = payments[p]
      BY <1>6, <1>9 DEF Booked
    <3>2. adyen' = [adyen EXCEPT ![p] = a]
      BY <1>5 DEF Booked
    <3> QED BY <1>1, <3>1, <3>2 DEF Types
  <2>2. RowOnly(p) /\ payments'[p] = payments[p] /\ adyen'[p] = a
    <3>1. Follows(r, a, p)
      BY <1>3, <1>7, <2>1 DEF Follows
    <3> QED BY <1>1, <1>2, <1>7, <2>1, <3>1, RowSet
  <2>3. UNCHANGED <<checkouts, stock>>
    BY <1>4 DEF goods
  <2>4. \A d \in Sessions : Busy(d) /\ session[d].payment = p => Undisturbed(session[d])
    BY <1>4, <1>7, <2>2, <2>3, LooseRow
  <2>5. Books(p)'
    BY <1>2, <1>3, <1>4, <1>7, <2>2, <2>3 DEF Books, Spent
  <2>6. Charges(p)'
    BY <1>2, <1>4, <1>7, <2>2 DEF Charges, Spent, UnderWay, Busy
  <2> QED BY <1>4, <2>2, <2>4, <2>5, <2>6, RowFits
<1> QED BY <1>8, <1>9

LEMMA LeastOf ==
  ASSUME NEW a \in Nat, NEW b \in Nat
  PROVE  Min({a, b}) \in {a, b} /\ Min({a, b}) \in Nat /\ Min({a, b}) <= a /\ Min({a, b}) <= b
<1> DEFINE m == IF a <= b THEN a ELSE b
<1>1. m \in {a, b} /\ \A y \in {a, b} : m <= y
  OBVIOUS
<1>2. \A x \in {a, b} : (\A y \in {a, b} : x <= y) => x = m
  OBVIOUS
<1> HIDE DEF m
<1>3. Min({a, b}) = m
  BY <1>1, <1>2 DEF Min
<1> QED BY <1>1, <1>3

LEMMA RefundDoneStep ==
  ASSUME IInv, NEW p \in DOMAIN payments, RefundDone(p)
  PROVE  IInv'
<1>1. Types
  BY DEF IInv
<1>2. /\ payments[p] \in PaymentRow /\ adyen[p] \in Account /\ Books(p) /\ Charges(p)
  BY <1>1, Rows DEF IInv, PaymentsFit
<1>3. /\ adyen[p].taken \in Nat /\ adyen[p].asked \in Nat /\ payments[p].captured \in Int
      /\ adyen[p].returned \in Nat
  BY <1>2 DEF Account, PaymentRow, CheckoutAssumption
<1>4. Owing(p) > 0 /\ ~ PaymentHeld(p) /\ UNCHANGED <<goods, voucher, session, crashes>>
  BY DEF RefundDone
<1>5. Owing(p) \in Int /\ Owing(p) <= adyen[p].asked
  BY <1>3, LeastOf DEF Owing
<1>6. PICK n \in Int : n = Owing(p)
  BY <1>5
<1>7. n > 0 /\ adyen[p].asked > 0
  BY <1>3, <1>4, <1>5, <1>6
<1>8. PICK a : a = [adyen[p] EXCEPT !.returned = adyen[p].returned + n]
  OBVIOUS
<1>9. /\ a \in Account /\ a.taken = adyen[p].taken /\ a.asked = adyen[p].asked
      /\ a.action = adyen[p].action /\ a.cut = adyen[p].cut /\ a.told = adyen[p].told
  <2>1. adyen[p].returned + n \in Nat
    BY <1>3, <1>7
  <2> QED BY <1>2, <1>8, <2>1 DEF Account
<1>10. PICK left \in Int : left = payments[p].captured - n
  BY <1>3
<1>11. PICK spent, rest : spent = (left <= 0) /\ rest = (left > 0)
  OBVIOUS
<1>12. spent \in BOOLEAN /\ rest \in BOOLEAN /\ (rest => ~ spent)
  <2>1. \/ (left <= 0) = TRUE /\ (left > 0) = FALSE
        \/ (left <= 0) = FALSE /\ (left > 0) = TRUE
    BY <1>10
  <2> QED BY <1>11, <2>1
<1>13. PICK r : r = IF payments[p].active
                      THEN [payments[p] EXCEPT !.captured = left, !.toConfirm = FALSE,
                              !.refunded = spent, !.active = rest]
                      ELSE payments[p]
  OBVIOUS
<1>14. /\ r \in PaymentRow /\ r.checkout = payments[p].checkout /\ r.total = payments[p].total
       /\ r.active => payments[p].active /\ ~ r.refunded
       /\ r.confirmed = payments[p].confirmed
  <2>1. CASE payments[p].active
    BY <1>2, <1>10, <1>12, <1>13, <2>1 DEF PaymentRow
  <2>2. CASE ~ payments[p].active
    BY <1>2, <1>13, <2>2
  <2> QED BY <2>1, <2>2
<1>15. payments' = [payments EXCEPT ![p] = r] /\ adyen' = [adyen EXCEPT ![p] = a]
  <2>1. adyen' = [adyen EXCEPT ![p] = a]
    BY <1>1, <1>6, <1>8, Rows DEF RefundDone
  <2>2. CASE payments[p].active
    <3>1. payments' = [payments EXCEPT ![p].captured = left, ![p].toConfirm = FALSE,
                         ![p].refunded = spent, ![p].active = rest]
      BY <1>6, <1>10, <1>11, <2>2 DEF RefundDone
    <3> QED BY <1>1, <1>13, <2>1, <2>2, <3>1, Rows DEF Types
  <2>3. CASE ~ payments[p].active
    <3>1. payments' = payments /\ r = payments[p]
      BY <1>13, <2>3 DEF RefundDone
    <3> QED BY <1>1, <2>1, <3>1 DEF Types
  <2> QED BY <2>2, <2>3
<1>16. RowOnly(p) /\ payments'[p] = r /\ adyen'[p] = a
  <2>1. Follows(r, a, p)
    BY <1>3, <1>9, <1>14 DEF Follows
  <2>2. r \in PaymentRow
    BY <1>14
  <2> QED BY <1>1, <1>9, <1>15, <2>1, <2>2, RowSet
<1>17. UNCHANGED <<checkouts, stock>>
  BY <1>4 DEF goods
<1>18. \A d \in Sessions : Busy(d) /\ session[d].payment = p => Undisturbed(session[d])
  <2>1. Spent(p)
    BY <1>7 DEF Spent
  <2> QED BY <1>4, <1>9, <1>16, <1>17, <2>1, LooseRow
<1>19. ASSUME Types', Grows PROVE Books(p)'
  BY <1>1, <1>2, <1>3, <1>7, <1>9, <1>14, <1>16, <1>17, <1>19, RefusableStays DEF Books, Spent
<1>20. Charges(p)'
  <2>1. ~ adyen[p].cut /\ adyen[p].action => payments[p].toConfirm /\ adyen[p].taken = 0
    BY <1>2 DEF Charges
  <2>2. adyen[p].taken # 0
    BY <1>3, <1>4, LeastOf DEF Owing
  <2> QED BY <1>2, <1>7, <1>9, <1>14, <1>16, <2>1, <2>2 DEF Charges, Spent
<1> QED BY <1>4, <1>16, <1>18, <1>19, <1>20, RowFits

-----------------------------------------------------------------------------
(* Replacing the payment. *)

LEMMA CancelActivePaymentsStep ==
  ASSUME IInv, NEW c \in Sessions, NEW k \in Checkouts, CancelActivePayments(c, k)
  PROVE  IInv'
<1>1. Types /\ OneActive /\ OrdersOnce /\ LocksHeldOnce
  BY DEF IInv
<1>2. PICK t : t = [NewSession("create", "customer", k, 0) EXCEPT !.total = Due]
  OBVIOUS
<1>3. /\ ~ Busy(c) /\ k \in checkouts /\ Goes(c, t)
      /\ \A d \in Sessions : Busy(d) => session[d].step # "create"
      /\ \A p \in Active(k) : ~ PaymentHeld(p)
      /\ payments' = [p \in DOMAIN payments |->
                        [payments[p] EXCEPT !.active = @ /\ p \notin Active(k)]]
      /\ UNCHANGED <<goods, voucher, adyen, crashes>>
  BY <1>2 DEF CancelActivePayments
<1>4. /\ t \in Transaction /\ t.step = "create" /\ t.by = "customer" /\ t.checkout = k /\ t.payment = 0
      /\ ~ t.locked /\ ~ t.voucher /\ t.uses = 0 /\ ~ t.added /\ ~ t.took /\ ~ t.confirms /\ ~ t.notified
  <2>1. NewSession("create", "customer", k, 0) \in Transaction
    BY <1>1, NewSessionTyped DEF Step
  <2>2. Due \in 0 .. Price
    BY <1>1, DueOf
  <2> QED BY <1>2, <2>1, <2>2 DEF Transaction, NewSession
<1>5. ASSUME NEW p \in DOMAIN payments
      PROVE  /\ payments'[p] \in PaymentRow
             /\ payments'[p].checkout = payments[p].checkout /\ payments'[p].total = payments[p].total
             /\ payments'[p].toConfirm = payments[p].toConfirm
             /\ payments'[p].confirmed = payments[p].confirmed
             /\ payments'[p].captured = payments[p].captured
             /\ payments'[p].refunded = payments[p].refunded
             /\ payments'[p].active <=> payments[p].active /\ p \notin Active(k)
  <2>1. payments[p] \in PaymentRow
    BY <1>1, Rows
  <2>2. PICK x : x = (payments[p].active /\ p \notin Active(k))
    OBVIOUS
  <2>3. x \in BOOLEAN
    BY <2>2, Zenon
  <2>4. payments'[p] = [payments[p] EXCEPT !.active = x]
    BY <1>3, <2>2
  <2>5. payments'[p].active = x
    BY <2>1, <2>4 DEF PaymentRow
  <2>6. payments'[p].active <=> payments[p].active /\ p \notin Active(k)
    BY <2>2, <2>5
  <2> QED BY <2>1, <2>3, <2>4, <2>6 DEF PaymentRow
<1>6. payments' \in Seq(PaymentRow) /\ Len(payments') = Len(payments) /\ DOMAIN payments' = DOMAIN payments
  <2>1. DOMAIN payments = 1 .. Len(payments) /\ Len(payments) \in Nat
    BY <1>1, Rows
  <2>2. DOMAIN payments' = DOMAIN payments
    BY <1>3
  <2>3. payments' = [p \in 1 .. Len(payments) |-> payments'[p]]
    BY <1>3, <2>1
  <2>4. \A p \in 1 .. Len(payments) : payments'[p] \in PaymentRow
    BY <1>5, <2>1
  <2>5. payments' \in [1 .. Len(payments) -> PaymentRow]
    BY <2>3, <2>4
  <2>6. payments' \in Seq(PaymentRow)
    BY <2>1, <2>5, SeqDef
  <2> QED BY <2>1, <2>2, <2>6, LenProperties
<1>7. UNCHANGED <<checkouts, orders, stock, balance>>
  BY <1>3 DEF goods
<1>8. Types'
  <2>1. session' \in [Sessions -> Transaction \union {Idle}]
    BY <1>1, <1>3, <1>4, SessionTyped
  <2> QED BY <1>1, <1>3, <1>6, <1>7, <2>1 DEF Types
<1>9. Grows
  <2>1. \A p \in DOMAIN payments : adyen[p].taken \in Int
    BY <1>1, Rows DEF Account, CheckoutAssumption
  <2>2. \A p \in DOMAIN payments : adyen[p].taken <= adyen'[p].taken
    BY <1>3, <2>1
  <2>3. balance' <= balance /\ stock' <= stock /\ voucher.used <= voucher'.used
    BY <1>1, <1>3, <1>7 DEF Types, Voucher
  <2> QED BY <1>3, <1>5, <1>6, <1>7, <2>2, <2>3 DEF Grows
<1>10. OrdersOnce' /\ OneActive'
  BY <1>1, <1>3, <1>6, <1>7, <1>8, <1>9, OrdersStay, OneActiveStays DEF OrdersOnce
<1>11. ASSUME NEW d \in Sessions, d # c, Busy(d) PROVE Undisturbed(session[d])
  <2>1. PICK s : s = session[d]
    OBVIOUS
  <2>2. Fits(s) /\ (s.payment # 0 => s.payment \in DOMAIN payments)
    BY <1>11, <2>1 DEF IInv, SessionsFit, Fits, Paying
  <2>3. s.locked => s.payment \notin Active(k) /\ s.payment # 0
    BY <1>3, <1>11, <2>1, <2>2 DEF PaymentHeld, Fits, Paying
  <2>4. s.locked => payments'[s.payment].active = payments[s.payment].active
    BY <1>1, <1>5, <2>2, <2>3, Rows DEF PaymentRow
  <2> QED BY <1>3, <1>5, <1>6, <1>7, <2>1, <2>2, <2>3, <2>4
          DEF Undisturbed, Fits, Paying, Charging, Spent
<1>12. \A d \in Sessions : d # c /\ Busy(d) => Apart(t, session[d])
  BY <1>3, <1>4 DEF Apart, HasCheckout
<1>13. Fits(t)'
  <2>1. \A p \in DOMAIN payments' : payments'[p].active => payments'[p].checkout # k
    BY <1>5, <1>6 DEF Active
  <2> QED BY <1>4, <2>1 DEF Fits, Paying, Counting, Pricing, Charging, Telling, HasCheckout
<1>14. ASSUME NEW p \in DOMAIN payments PROVE Books(p)' /\ Charges(p)'
  <2>1. Books(p) /\ Charges(p)
    BY <1>14 DEF IInv, PaymentsFit
  <2>2. UnderWay(p) => UnderWay(p)'
    BY <1>1, <1>3, UnderWayStays
  <2>3. Books(p)'
    BY <1>1, <1>3, <1>5, <1>7, <1>8, <1>9, <2>1, RefusableStays DEF Books, Spent
  <2>4. Charges(p)'
    BY <1>3, <1>5, <2>1, <2>2 DEF Charges, Spent
  <2> QED BY <2>3, <2>4
<1>15. PaymentsFit'
  BY <1>6, <1>14 DEF PaymentsFit
<1>16. session' = [session EXCEPT ![c] = t]
  BY <1>3 DEF Goes
<1> QED BY <1>8, <1>9, <1>10, <1>11, <1>12, <1>13, <1>15, <1>16, StepOfSession

LEMMA CreatePaymentStep ==
  ASSUME IInv, NEW c \in Sessions, CreatePayment(c)
  PROVE  IInv'
<1>1. Types /\ OneActive /\ OrdersOnce /\ LocksHeldOnce
  BY DEF IInv
<1>2. PICK s : s = session[c]
  OBVIOUS
<1>3. PICK k : k = s.checkout
  OBVIOUS
<1> DEFINE row == [checkout |-> k, total |-> s.total, active |-> TRUE,
                   toConfirm |-> FALSE, confirmed |-> FALSE, captured |-> 0, refunded |-> FALSE]
           account == [action |-> FALSE, taken |-> 0, asked |-> 0, returned |-> 0,
                       told |-> FALSE, cut |-> FALSE]
<1>4. /\ Busy(c) /\ s.step = "create" /\ ~ CheckoutHeld(k) /\ Goes(c, Idle)
      /\ UNCHANGED <<goods, voucher, crashes>>
      /\ IF k \in checkouts
           THEN payments' = Append(payments, row) /\ adyen' = Append(adyen, account)
           ELSE UNCHANGED <<payments, adyen>>
  BY <1>2, <1>3 DEF CreatePayment, Ends
<1>5. s \in Transaction /\ Fits(s)
  BY <1>1, <1>2, <1>4, SessionIs DEF IInv, SessionsFit
<1>6. ~ s.took /\ s.payment = 0 /\ \A p \in DOMAIN payments : payments[p].active => payments[p].checkout # k
  BY <1>3, <1>4, <1>5 DEF Fits, Paying, Charging
<1>7. VoucherGrows
  BY <1>4, VoucherStays DEF IInv
<1>8. UNCHANGED <<checkouts, orders, stock, balance>>
  BY <1>4 DEF goods
<1>9. CASE UNCHANGED <<payments, adyen>>
  <2>1. \A d \in Sessions : Busy(d) => Undisturbed(session[d])
    BY <1>1, <1>4, <1>8, <1>9, Quiet, SessionIs DEF IInv, SessionsFit
  <2>2. RowMove(c, Idle, 0)
    BY <1>1, <1>2, <1>4, <1>6, <1>7, <1>9, <2>1, NoRow DEF RowMove, Types
  <2>3. 0 \notin DOMAIN payments
    BY <1>1, Rows
  <2> QED BY <2>2, <2>3, MovesFit
<1>10. CASE k \in checkouts
  <2>1. row \in PaymentRow /\ account \in Account
    BY <1>3, <1>5 DEF PaymentRow, Account, Transaction, CheckoutAssumption
  <2>2. PICK r : r = row
    OBVIOUS
  <2>3. PICK a : a = account
    OBVIOUS
  <2>4. /\ r \in PaymentRow /\ r.checkout = k /\ r.active /\ ~ r.toConfirm /\ ~ r.confirmed
        /\ r.captured = 0 /\ ~ r.refunded
        /\ a \in Account /\ ~ a.action /\ a.taken = 0 /\ a.asked = 0 /\ ~ a.told /\ ~ a.cut
    BY <2>1, <2>2, <2>3
  <2>5. payments' = Append(payments, r) /\ adyen' = Append(adyen, a)
    BY <1>4, <1>10, <2>2, <2>3
  <2>n. PICK n : n = Len(payments) + 1
    OBVIOUS
  <2>6. /\ payments' \in Seq(PaymentRow) /\ Len(payments') = n
        /\ DOMAIN payments = 1 .. Len(payments) /\ DOMAIN payments' = 1 .. n /\ Len(payments) \in Nat
        /\ payments'[n] = r /\ \A p \in DOMAIN payments : payments'[p] = payments[p]
    BY <1>1, <2>4, <2>5, <2>n, AppendProperties, LenProperties DEF Types
  <2>7. /\ adyen' \in Seq(Account) /\ Len(adyen') = n
        /\ adyen'[n] = a /\ \A p \in DOMAIN payments : adyen'[p] = adyen[p]
    <3>1. adyen \in Seq(Account) /\ Len(adyen) = Len(payments)
      BY <1>1 DEF Types
    <3> QED BY <2>4, <2>5, <2>6, <2>n, <3>1, AppendProperties, LenProperties
  <2>8. DOMAIN payments' \ DOMAIN payments = {n} /\ n \notin DOMAIN payments /\ n \in DOMAIN payments'
    BY <2>6, <2>n
  <2>9. Types'
    <3>1. session' \in [Sessions -> Transaction \union {Idle}]
      BY <1>1, <1>4, SessionTyped
    <3> QED BY <1>1, <1>4, <1>8, <2>6, <2>7, <3>1 DEF Types
  <2>10. Grows
    <3>1. \A p \in DOMAIN payments : adyen[p].taken \in Int
      BY <1>1, Rows DEF Account, CheckoutAssumption
    <3> QED BY <1>1, <1>4, <1>8, <2>6, <2>7, <2>8, <3>1 DEF Grows, Types, Voucher
  <2>11. OrdersOnce'
    BY <1>1, <1>4, <1>8, <2>9, <2>10, OrdersStay DEF OrdersOnce
  <2>12. OneActive'
    <3>1. \A p \in DOMAIN payments' : p \in DOMAIN payments \/ p = n
      BY <2>8
    <3> QED BY <1>1, <1>6, <2>4, <2>6, <3>1 DEF OneActive
  <2>13. ASSUME NEW d \in Sessions, d # c, Busy(d) PROVE Undisturbed(session[d])
    <3>1. PICK t : t = session[d]
      OBVIOUS
    <3>2. Fits(t) /\ (t.payment # 0 => t.payment \in DOMAIN payments)
      BY <2>13, <3>1 DEF IInv, SessionsFit, Fits, Paying
    <3>3. ~ (t.step = "create")
      BY <1>1, <1>2, <1>4, <2>13, <3>1 DEF LocksHeldOnce, Apart
    <3>4. HasCheckout(t) => t.checkout # k
      BY <1>4, <2>13, <3>1 DEF CheckoutHeld, HasCheckout
    <3>5. \A q \in DOMAIN payments' \ DOMAIN payments : payments'[q].checkout = k
      BY <2>4, <2>6, <2>8
    <3> QED BY <1>4, <1>8, <2>6, <2>7, <3>1, <3>2, <3>3, <3>4, <3>5
            DEF Undisturbed, Fits, Paying, Charging, Spent
  <2>14. ASSUME NEW p \in DOMAIN payments PROVE Books(p)' /\ Charges(p)'
    <3>1. UnderWay(p) => UnderWay(p)'
      BY <1>1, <1>2, <1>4, <1>6, UnderWayStays
    <3>2. Books(p) /\ Charges(p)
      BY <2>14 DEF IInv, PaymentsFit
    <3> QED BY <1>1, <1>8, <2>6, <2>7, <2>9, <2>10, <2>14, <3>1, <3>2, PaymentStays
  <2>15. Books(n)' /\ Charges(n)'
    BY <1>8, <1>10, <2>4, <2>6, <2>7 DEF Books, Charges, Spent
  <2>16. PaymentsFit'
    BY <2>8, <2>14, <2>15 DEF PaymentsFit
  <2>17. session' = [session EXCEPT ![c] = Idle]
    BY <1>4 DEF Goes
  <2> QED BY <2>9, <2>10, <2>11, <2>12, <2>13, <2>16, <2>17, StepOfSession
<1> QED BY <1>4, <1>9, <1>10

-----------------------------------------------------------------------------
(* The invariant holds. *)

LEMMA InitFits ==
  ASSUME Init
  PROVE  IInv
<1>1. PICK limit \in UsageLimits, once \in BOOLEAN :
        voucher = [used |-> 0, limit |-> limit, once |-> once, customers |-> {}]
  BY DEF Init
<1>2. voucher \in Voucher /\ voucher.used = 0 /\ voucher.used <= voucher.limit
  BY <1>1 DEF Voucher, CheckoutAssumption
<1>3. /\ payments \in Seq(PaymentRow) /\ orders \in Seq(Order) /\ adyen \in Seq(Account)
      /\ Len(adyen) = Len(payments) /\ Len(orders) = 0
      /\ DOMAIN payments = {} /\ DOMAIN orders = {}
  BY DEF Init
<1>4. \A c \in Sessions : session[c] = Idle
  BY DEF Init
<1>5. Types
  BY <1>2, <1>3 DEF Init, Types, CheckoutAssumption
<1>6. OrdersOnce /\ OneActive /\ PaymentsFit
  BY <1>2, <1>3 DEF OrdersOnce, OneActive, PaymentsFit
<1>7. LocksHeldOnce /\ SessionsFit
  BY <1>4 DEF LocksHeldOnce, SessionsFit, Busy
<1> QED BY <1>5, <1>6, <1>7 DEF IInv

LEMMA ProceedStep ==
  ASSUME IInv, NEW c \in Sessions, Proceed(c)
  PROVE  IInv'
BY CreatePaymentStep, LockCheckoutStep, PrepareOrderDataStep, UseVoucherStep, ChargeStep,
   RefusePaymentStep, RequireActionStep, FailWithoutPaymentStep, CreateOrderStep, SoldOutStep,
   FailsStep, AbortStep DEF Proceed

LEMMA NextFits ==
  ASSUME IInv, Next
  PROVE  IInv'
<1>1. ASSUME NEW c \in Sessions, NEW k \in Checkouts, CancelActivePayments(c, k) PROVE IInv'
  BY <1>1, CancelActivePaymentsStep
<1>2. ASSUME NEW c \in Sessions, NEW k \in Checkouts, Complete(c, k) PROVE IInv'
  BY <1>2, CompleteStep
<1>3. ASSUME NEW c \in Sessions, NEW p \in DOMAIN payments, Notified(c, p) PROVE IInv'
  BY <1>3, NotifiedStep
<1>4. ASSUME NEW c \in Sessions, NEW p \in DOMAIN payments, Return(c, p) PROVE IInv'
  BY <1>4, ReturnStep
<1>5. ASSUME NEW c \in Sessions, Proceed(c) PROVE IInv'
  BY <1>5, ProceedStep
<1>6. ASSUME NEW p \in DOMAIN payments, Booked(p) PROVE IInv'
  BY <1>6, BookedStep
<1>7. ASSUME NEW p \in DOMAIN payments, Authenticate(p) PROVE IInv'
  BY <1>7, AuthenticateStep
<1>8. ASSUME NEW p \in DOMAIN payments, RefundDone(p) PROVE IInv'
  BY <1>8, RefundDoneStep
<1> QED BY <1>1, <1>2, <1>3, <1>4, <1>5, <1>6, <1>7, <1>8 DEF Next

LEMMA StutterFits ==
  ASSUME IInv, UNCHANGED vars
  PROVE  IInv'
<1>1. UNCHANGED <<orders, checkouts, balance, stock, payments, voucher, adyen, session, crashes>>
  BY DEF vars, goods
<1> QED BY <1>1
        DEF IInv, Types, OrdersOnce, OneActive, LocksHeldOnce, SessionsFit, PaymentsFit, Busy,
            Fits, Paying, Counting, Pricing, Charging, Telling, Spent, Refusable, Due, IsActive,
            Books, Charges, UnderWay

\* The locks of the checkout, the voucher and the payment are held by one session
\* each, every session works on the one active payment of its checkout, and the
\* books of each payment add up.
THEOREM CheckoutsFit == Spec => []IInv
<1>1. Init => IInv
  BY InitFits
<1>2. IInv /\ [Next]_vars => IInv'
  BY NextFits, StutterFits
<1> QED BY <1>1, <1>2, PTL DEF Spec

-----------------------------------------------------------------------------
(* What it implies. *)

\* A checkout gets one order, the voucher is used no more often than its limit, and
\* neither stock nor the gift card's balance is negative, whatever the sessions'
\* order, deaths and deadlocks.
THEOREM SpecOrdersWithinLimits == Spec => []OrdersWithinLimits
<1>1. ASSUME IInv PROVE OrdersWithinLimits
  <2>1. Types /\ OrdersOnce
    BY <1>1 DEF IInv
  <2>2. adyen \in [DOMAIN payments -> Account]
    <3>1. DOMAIN adyen = DOMAIN payments /\ \A p \in DOMAIN payments : adyen[p] \in Account
      BY <2>1, Rows
    <3>2. adyen = [p \in DOMAIN adyen |-> adyen[p]]
      BY <2>1 DEF Types
    <3> QED BY <3>1, <3>2
  <2>3. \A c \in Sessions : session[c] = Idle \/ session[c].step \in Step
    BY <2>1 DEF Types, Transaction
  <2>4. voucher.used \in 0 .. voucher.limit /\ voucher.customers \subseteq Customers
    BY <2>1 DEF Types, Voucher, OrdersOnce
  <2>5. TypeOK
    BY <2>1, <2>2, <2>3, <2>4 DEF TypeOK, Types, Order, Customers
  <2> QED BY <2>1, <2>5 DEF OrdersWithinLimits, OrdersOnce
<1> QED BY <1>1, CheckoutsFit, PTL

\* Adyen takes the money of a payment once, unless its answer was lost with the
\* session that had asked.
THEOREM SpecChargedOnce == Spec => []ChargedOnce
<1>1. ASSUME IInv PROVE ChargedOnce
  <2>1. ASSUME NEW p \in DOMAIN payments, adyen[p].taken > 1 PROVE adyen[p].cut
    <3>1. Charges(p) /\ adyen[p] \in Account
      BY <1>1, Rows DEF IInv, PaymentsFit
    <3> QED BY <2>1, <3>1 DEF Charges, Account, CheckoutAssumption
  <2> QED BY <2>1 DEF ChargedOnce
<1> QED BY <1>1, CheckoutsFit, PTL

\* Money that Adyen has taken, told of and not given back has its order, but for the
\* cases that MoneyHasItsOrder names.
THEOREM SpecMoneyHasItsOrder == Spec => []MoneyHasItsOrder
<1>1. ASSUME IInv PROVE MoneyHasItsOrder
  <2> SUFFICES ASSUME NEW p \in DOMAIN payments, Settled(p), adyen[p].taken > adyen[p].returned,
                      payments[p].active, ~ adyen[p].cut
               PROVE  \/ payments[p].checkout \notin checkouts /\ payments[p].captured > 0
                      \/ payments[p].captured = 0 /\ Refusable(p)
    BY DEF MoneyHasItsOrder
  <2>1. payments[p] \in PaymentRow /\ adyen[p] \in Account /\ Books(p) /\ Charges(p)
    BY <1>1, Rows DEF IInv, PaymentsFit
  <2>2. /\ adyen[p].taken \in Nat /\ adyen[p].asked \in Nat /\ adyen[p].returned \in Nat
        /\ payments[p].captured \in Int
    BY <2>1 DEF Account, PaymentRow, CheckoutAssumption
  <2>3. adyen[p].taken = 1 /\ adyen[p].returned = 0
    BY <2>1, <2>2 DEF Charges
  <2>4. adyen[p].asked = 0
    <3>1. Min({adyen[p].asked, adyen[p].taken}) = 0
      BY <2>2, <2>3, LeastOf DEF Settled, Owing
    <3>2. Min({adyen[p].asked, adyen[p].taken}) \in {adyen[p].asked, adyen[p].taken}
      BY <2>2, LeastOf
    <3> QED BY <2>3, <3>1, <3>2
  <2> QED BY <2>1, <2>2, <2>4 DEF Books, Settled
<1> QED BY <1>1, CheckoutsFit, PTL

-----------------------------------------------------------------------------
(* What a step may do. *)

\* The order that is made, of a session that has counted its use.
LEMMA OrderIs ==
  ASSUME IInv, NEW c \in Sessions, CreateOrder(c)
  PROVE  /\ Busy(c) /\ session[c].step = "charged" /\ session[c].uses = 1 /\ Commits(session[c])
         /\ session[c] \in Transaction /\ Fits(session[c])
         /\ Len(orders') = Len(orders) + 1
         /\ orders'[Len(orders')] = [checkout |-> session[c].checkout, total |-> session[c].total,
                                     card |-> CardPart(balance)]
<1>1. Types /\ OrdersOnce /\ Busy(c) /\ session[c].step = "charged" /\ Commits(session[c])
  BY DEF IInv, CreateOrder
<1>2. Fits(session[c]) /\ session[c] \in Transaction
  BY <1>1, SessionIs DEF IInv, SessionsFit
<1>3. session[c].uses = 1 /\ session[c].checkout \in checkouts
  BY <1>1, <1>2 DEF Fits, Counting, Paying
<1>4. ~ Ordered(session[c].checkout)
  BY <1>1, <1>3 DEF OrdersOnce, Ordered
<1>5. PICK order : order = [checkout |-> session[c].checkout, total |-> session[c].total,
                            card |-> CardPart(balance)]
  OBVIOUS
<1>6. orders' = Append(orders, order)
  BY <1>4, <1>5 DEF CreateOrder
<1>7. order \in Order
  <2>1. balance \in Nat
    BY <1>1 DEF Types
  <2>2. CardPart(balance) \in 0 .. Price
    BY <2>1, CardParts DEF CheckoutAssumption
  <2> QED BY <1>2, <1>5, <2>2 DEF Order, Transaction
<1>8. Len(orders') = Len(orders) + 1 /\ orders'[Len(orders) + 1] = order
  BY <1>1, <1>6, <1>7, AppendProperties DEF Types
<1> QED BY <1>1, <1>2, <1>3, <1>5, <1>8

\* Every step that counts no use and makes no order.
LEMMA NoUseCounted ==
  ASSUME Next,
         \A c \in Sessions : ~ RequireAction(c) /\ ~ FailWithoutPayment(c) /\ ~ Fails(c) /\ ~ CreateOrder(c)
  PROVE  voucher' = voucher /\ orders' = orders
<1>1. UNCHANGED <<goods, voucher>> => voucher' = voucher /\ orders' = orders
  BY DEF goods
<1>2. ASSUME NEW c \in Sessions, NEW k \in Checkouts, CancelActivePayments(c, k) \/ Complete(c, k)
      PROVE  UNCHANGED <<goods, voucher>>
  BY <1>2 DEF CancelActivePayments, Complete
<1>3. ASSUME NEW c \in Sessions, NEW p \in DOMAIN payments, Notified(c, p) \/ Return(c, p)
      PROVE  UNCHANGED <<goods, voucher>>
  BY <1>3 DEF Notified, Return
<1>4. ASSUME NEW c \in Sessions, Proceed(c)
      PROVE  UNCHANGED <<goods, voucher>>
  BY <1>4 DEF Proceed, CreatePayment, LockCheckout, PrepareOrderData, UseVoucher, Charge,
              RefusePayment, SoldOut, Abort
<1>5. ASSUME NEW p \in DOMAIN payments, Booked(p) \/ Authenticate(p) \/ RefundDone(p)
      PROVE  UNCHANGED <<goods, voucher>>
  BY <1>5 DEF Booked, Authenticate, RefundDone
<1> QED BY <1>1, <1>2, <1>3, <1>4, <1>5 DEF Next

\* An order uses the voucher once; so does nothing else, but the calls that
\* UsesFollowOrders names.
THEOREM SpecUsesFollowOrders == Spec => UsesFollowOrders
<1> DEFINE Counted == voucher'.used - voucher.used # Len(orders') - Len(orders)
           Named == \E c \in Sessions :
                      \/ RequireAction(c)
                      \/ FailWithoutPayment(c)
                      \/ /\ Fails(c)
                         /\ voucher.once /\ CustomerOf[session[c].checkout] \in voucher.customers
<1>1. ASSUME IInv, Next, Counted PROVE Named
  <2>1. voucher.used \in Nat /\ Len(orders) \in Nat
    BY <1>1, LenProperties DEF IInv, Types, Voucher
  <2>2. ASSUME NEW c \in Sessions, CreateOrder(c) PROVE FALSE
    <3>1. /\ Busy(c) /\ session[c].uses = 1 /\ Commits(session[c])
          /\ Len(orders') = Len(orders) + 1
      BY <1>1, <2>2, OrderIs
    <3>2. voucher'.used = voucher.used + 1
      BY <1>1, <3>1, VoucherCommits DEF Commits
    <3> QED BY <1>1, <2>1, <3>1, <3>2
  <2>3. ASSUME NEW c \in Sessions, Fails(c)
        PROVE  voucher.once /\ CustomerOf[session[c].checkout] \in voucher.customers
    <3>1. Types /\ Busy(c) /\ session[c].step = "undo" /\ Commits(session[c]) /\ orders' = orders
      BY <1>1, <2>3 DEF IInv, Fails, goods
    <3>2. Fits(session[c]) /\ session[c] \in Transaction
      BY <1>1, <3>1, SessionIs DEF IInv, SessionsFit
    <3>3. voucher'.used = voucher.used + session[c].uses
      BY <1>1, <3>1, VoucherCommits DEF Commits
    <3>4. session[c].uses = 1
      BY <1>1, <2>1, <3>1, <3>2, <3>3 DEF Transaction
    <3> QED BY <3>1, <3>2, <3>4 DEF Fits, Counting
  <2>4. CASE \E c \in Sessions : RequireAction(c) \/ FailWithoutPayment(c) \/ Fails(c) \/ CreateOrder(c)
    BY <2>2, <2>3, <2>4
  <2>5. CASE ~ \E c \in Sessions : RequireAction(c) \/ FailWithoutPayment(c) \/ Fails(c) \/ CreateOrder(c)
    <3>1. voucher' = voucher /\ orders' = orders
      BY <1>1, <2>5, NoUseCounted
    <3> QED BY <1>1, <2>1, <3>1
  <2> QED BY <2>4, <2>5
<1>2. IInv /\ [Next]_vars => [Counted => Named]_vars
  BY <1>1
<1> QED BY <1>2, CheckoutsFit, PTL DEF Spec, UsesFollowOrders

\* An order's total and its part of the gift card make its price, unless another
\* order has taken from the card since this one read its balance.
THEOREM SpecShortOnlyIfCardSpent == Spec => ShortOnlyIfCardSpent
<1> DEFINE Exact == \A c \in Sessions :
                      CreateOrder(c) =>
                        LET order == orders'[Len(orders')]
                        IN  order.total + order.card = Price \/ balance < session[c].saw
<1>1. ASSUME IInv, NEW c \in Sessions, CreateOrder(c), ~ (balance < session[c].saw)
      PROVE  orders'[Len(orders')].total + orders'[Len(orders')].card = Price
  <2>1. /\ session[c].step = "charged" /\ session[c] \in Transaction /\ Fits(session[c])
        /\ orders'[Len(orders')].total = session[c].total
        /\ orders'[Len(orders')].card = CardPart(balance)
    <3>1. /\ session[c].step = "charged" /\ session[c] \in Transaction /\ Fits(session[c])
          /\ orders'[Len(orders')] = [checkout |-> session[c].checkout, total |-> session[c].total,
                                      card |-> CardPart(balance)]
      BY <1>1, OrderIs
    <3> QED BY <3>1
  <2>2. /\ session[c].total = Positive(Price - session[c].saw)
        /\ balance <= session[c].saw
        /\ session[c].saw \in Nat /\ balance \in Nat /\ Price \in Nat
    BY <1>1, <2>1 DEF Fits, Pricing, Transaction, IInv, Types, CheckoutAssumption
  <2>3. session[c].total = Positive(Price - balance)
    <3>1. balance = session[c].saw
      BY <1>1, <2>2
    <3> QED BY <2>2, <3>1
  <2>4. session[c].total + CardPart(balance) = Price
    BY <2>2, <2>3, Positives, CardParts
  <2> QED BY <2>1, <2>4
<1>2. IInv /\ [Next]_vars => [Exact]_vars
  BY <1>1
<1> QED BY <1>2, CheckoutsFit, PTL DEF Spec, ShortOnlyIfCardSpent

\* Only a session that fails asks for a refund.
SameAsked(p) == p \in DOMAIN adyen' /\ adyen'[p].asked = adyen[p].asked

LEMMA AskedNotSet ==
  ASSUME Types, NEW p \in DOMAIN adyen, NEW q,
         \/ \E x : adyen' = [adyen EXCEPT ![q].action = x]
         \/ \E x, y : adyen' = [adyen EXCEPT ![q].taken = x, ![q].action = y]
         \/ \E x : adyen' = [adyen EXCEPT ![q].told = x]
         \/ \E x : adyen' = [adyen EXCEPT ![q].cut = x]
         \/ \E x : adyen' = [adyen EXCEPT ![q].returned = x]
         \/ q # p /\ \E x, y : adyen' = [[adyen EXCEPT ![q].told = x] EXCEPT ![q].asked = y]
         \/ adyen' = adyen
  PROVE  SameAsked(p)
<1>1. adyen[p] \in Account
  BY Rows
<1>2. ASSUME NEW x, adyen' = [adyen EXCEPT ![q].action = x] PROVE SameAsked(p)
  BY <1>1, <1>2 DEF SameAsked, Account
<1>3. ASSUME NEW x, NEW y, adyen' = [adyen EXCEPT ![q].taken = x, ![q].action = y] PROVE SameAsked(p)
  BY <1>1, <1>3 DEF SameAsked, Account
<1>4. ASSUME NEW x, adyen' = [adyen EXCEPT ![q].told = x] PROVE SameAsked(p)
  BY <1>1, <1>4 DEF SameAsked, Account
<1>5. ASSUME NEW x, adyen' = [adyen EXCEPT ![q].cut = x] PROVE SameAsked(p)
  BY <1>1, <1>5 DEF SameAsked, Account
<1>6. ASSUME NEW x, adyen' = [adyen EXCEPT ![q].returned = x] PROVE SameAsked(p)
  BY <1>1, <1>6 DEF SameAsked, Account
<1>7. ASSUME NEW x, NEW y, q # p, adyen' = [[adyen EXCEPT ![q].told = x] EXCEPT ![q].asked = y]
      PROVE  SameAsked(p)
  BY <1>1, <1>7 DEF SameAsked, Account
<1>8. CASE adyen' = adyen
  BY <1>8 DEF SameAsked
<1> QED BY <1>2, <1>3, <1>4, <1>5, <1>6, <1>7, <1>8

LEMMA AskedStays ==
  ASSUME Types, Next, NEW p \in DOMAIN adyen,
         \A c \in Sessions : Fails(c) => session[c].payment # p
  PROVE  SameAsked(p)
<1>1. ASSUME NEW c \in Sessions, NEW k \in Checkouts, CancelActivePayments(c, k) \/ Complete(c, k)
      PROVE  SameAsked(p)
  BY <1>1, AskedNotSet DEF CancelActivePayments, Complete
<1>2. ASSUME NEW c \in Sessions, NEW q \in DOMAIN payments, Notified(c, q) PROVE SameAsked(p)
  BY <1>2, AskedNotSet DEF Notified
<1>3. ASSUME NEW c \in Sessions, NEW q \in DOMAIN payments, Return(c, q) PROVE SameAsked(p)
  BY <1>3, AskedNotSet DEF Return
<1>4. ASSUME NEW c \in Sessions, CreatePayment(c) PROVE SameAsked(p)
  <2>1. CASE adyen' = adyen
    BY <2>1 DEF SameAsked
  <2>2. ASSUME NEW a, adyen' = Append(adyen, a) PROVE SameAsked(p)
    <3>1. p \in 1 .. Len(adyen) /\ Len(adyen) \in Nat
      BY Rows, LenProperties DEF Types
    <3> QED BY <2>2, <3>1 DEF SameAsked, Types
  <2> QED BY <1>4, <2>1, <2>2 DEF CreatePayment
<1>5. ASSUME NEW c \in Sessions, \/ LockCheckout(c) \/ PrepareOrderData(c) \/ UseVoucher(c)
                                 \/ SoldOut(c) \/ FailWithoutPayment(c)
      PROVE  SameAsked(p)
  BY <1>5, AskedNotSet DEF LockCheckout, PrepareOrderData, UseVoucher, SoldOut, FailWithoutPayment
<1>6. ASSUME NEW c \in Sessions, Charge(c) PROVE SameAsked(p)
  <2>1. \/ adyen' = adyen
        \/ \E q, x : adyen' = [adyen EXCEPT ![q].taken = x, ![q].action = FALSE]
    BY <1>6 DEF Charge
  <2> QED BY <2>1, AskedNotSet
<1>7. ASSUME NEW c \in Sessions, RefusePayment(c) \/ RequireAction(c) PROVE SameAsked(p)
  BY <1>7, AskedNotSet DEF RefusePayment, RequireAction
<1>8. ASSUME NEW c \in Sessions, CreateOrder(c) \/ Abort(c) PROVE SameAsked(p)
  BY <1>8, AskedNotSet DEF CreateOrder, Abort, Told
<1>9. ASSUME NEW c \in Sessions, Fails(c) PROVE SameAsked(p)
  BY <1>9, AskedNotSet DEF Fails, Told
<1>10. ASSUME NEW q \in DOMAIN payments, Booked(q) \/ Authenticate(q) \/ RefundDone(q)
       PROVE  SameAsked(p)
  BY <1>10, AskedNotSet DEF Booked, Authenticate, RefundDone
<1> QED BY <1>1, <1>2, <1>3, <1>4, <1>5, <1>6, <1>7, <1>8, <1>9, <1>10 DEF Next, Proceed

\* The first time a refund is asked for, it is of what was taken and not more,
\* although the handlers ask a second time.
THEOREM SpecFirstRefundIsExact == Spec => FirstRefundIsExact
<1> DEFINE Exact == \A p \in DOMAIN adyen :
                      adyen[p].asked = 0 => adyen'[p].asked <= adyen'[p].taken
<1>1. ASSUME IInv, Next, NEW p \in DOMAIN adyen, adyen[p].asked = 0
      PROVE  adyen'[p].asked <= adyen'[p].taken
  <2>1. Types /\ Types' /\ p \in DOMAIN payments /\ adyen[p] \in Account
    BY <1>1, NextFits, Rows DEF IInv
  <2>2. ASSUME NEW c \in Sessions, Fails(c), session[c].payment = p
        PROVE  adyen'[p].asked <= adyen'[p].taken
    <3>1. PICK s : s = session[c]
      OBVIOUS
    <3>2. Busy(c) /\ s.step = "undo" /\ p # 0
      BY <2>1, <2>2, <3>1, Rows DEF Fails
    <3>3. Fits(s) /\ Books(p)
      BY <1>1, <2>1, <3>1, <3>2 DEF IInv, SessionsFit, PaymentsFit
    <3>4. payments[p].checkout \in checkouts
      BY <2>2, <3>1, <3>2, <3>3 DEF Fits, Paying
    <3>5. PICK n : n = Refund(s)
      OBVIOUS
    <3>6. /\ n \in Nat
          /\ s.took => n <= 1
          /\ ~ s.took /\ n > 0 => payments[p].captured > 0 /\ payments[p].active
      BY <1>1, <2>2, <3>1, <3>2, <3>5, RefundIs
    <3>7. s.took => adyen[p].taken > 0
      BY <2>2, <3>1, <3>3 DEF Fits, Charging
    <3>8. ~ s.took => n = 0
      BY <1>1, <3>3, <3>4, <3>6 DEF Books
    <3>9. adyen[p].taken \in Nat
      BY <2>1 DEF Account, CheckoutAssumption
    <3>10. adyen'[p].asked = n /\ adyen'[p].taken = adyen[p].taken
      <4>1. PICK told : adyen' = [[adyen EXCEPT ![p].told = told] EXCEPT ![p].asked = @ + n]
        BY <2>2, <3>1, <3>2, <3>5 DEF Fails, Told
      <4>2. adyen'[p] = [adyen[p] EXCEPT !.told = told, !.asked = adyen[p].asked + n]
        BY <1>1, <2>1, <4>1 DEF Account
      <4>3. adyen'[p].asked = adyen[p].asked + n /\ adyen'[p].taken = adyen[p].taken
        BY <2>1, <4>2 DEF Account
      <4> QED BY <1>1, <3>6, <4>3
    <3> QED BY <3>6, <3>7, <3>8, <3>9, <3>10
  <2>3. CASE \A c \in Sessions : Fails(c) => session[c].payment # p
    <3>1. p \in DOMAIN adyen' /\ adyen'[p].asked = 0
      BY <1>1, <2>1, <2>3, AskedStays DEF SameAsked
    <3>2. adyen'[p].taken \in Nat
      BY <2>1, <3>1, RowsNext DEF Account, CheckoutAssumption
    <3> QED BY <3>1, <3>2
  <2> QED BY <2>2, <2>3
<1>2. IInv /\ [Next]_vars => [Exact]_vars
  BY <1>1
<1> QED BY <1>2, CheckoutsFit, PTL DEF Spec, FirstRefundIsExact
=============================================================================
