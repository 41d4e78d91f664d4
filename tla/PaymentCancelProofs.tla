------------------------- MODULE PaymentCancelProofs -------------------------
(***************************************************************************)
(* Theorems of PaymentCancel: the stock stays exact and the ledger is      *)
(* implemented with refunds beside orders and confirmations; what is       *)
(* recorded as refunded was, stays so, and what was refunded is recorded   *)
(* or leaves a row behind; and what a sale has left is its price less what *)
(* was recorded, never less than the gateway has.                          *)
(***************************************************************************)
EXTENDS PaymentCancel, OneTimePaymentProofs

-----------------------------------------------------------------------------
(* Sums of the values of a function on a finite set.                      *)

\* S gives the sum of f over every subset of K.
IsSum(S, f, K) ==
    /\ S \in [SUBSET K -> Int]
    /\ S[{}] = 0
    /\ \A T \in SUBSET K : \A k \in K \ T : S[T \cup {k}] = S[T] + f[k]

\* Every set of subsets has a member none of whose proper subsets is in it.
LEMMA LeastSubset ==
    ASSUME NEW K, IsFiniteSet(K), NEW B, B \subseteq SUBSET K, B # {}
    PROVE  \E T \in B : \A U \in B : U \subseteq T => U = T
<1>1. FiniteSubsetsOf(K) = SUBSET K
  BY FS_FiniteSubsetsOfFinite
<1>2. IsWellFoundedOn(StrictSubsetOrdering(K), SUBSET K)
  BY <1>1, FS_StrictSubsetOrderingWellFounded
<1>3. PICK T \in B : \A U \in B : ~ (<<U, T>> \in StrictSubsetOrdering(K))
  BY <1>2, WFMin
<1>4. ASSUME NEW U \in B, U \subseteq T, U # T PROVE FALSE
  <2>1. <<U, T>> \in (SUBSET K) \X (SUBSET K)
    OBVIOUS
  <2>2. <<U, T>> \in StrictSubsetOrdering(K)
    BY <2>1, <1>4 DEF StrictSubsetOrdering
  <2> QED
    BY <2>2, <1>3
<1> QED
  BY <1>4

\* Two functions that agree wherever they agree on all proper subsets are equal.
LEMMA SameSums ==
    ASSUME NEW K, IsFiniteSet(K), NEW f \in [K -> Int], NEW S, NEW R, IsSum(S, f, K),
           R = [s \in SUBSET K |-> IF s = {} THEN 0
                   ELSE LET x == CHOOSE x \in s : TRUE IN f[x] + R[s \ {x}]]
    PROVE  R = S
<1> DEFINE B == {T \in SUBSET K : R[T] # S[T]}
<1>1. SUFFICES ASSUME B # {} PROVE FALSE
  BY DEF IsSum
<1>2. PICK T \in B : \A U \in B : U \subseteq T => U = T
  <2>1. B \subseteq SUBSET K
    OBVIOUS
  <2> HIDE DEF B
  <2> QED
    BY <1>1, <2>1, LeastSubset
<1>3. T # {}
  BY <1>2 DEF IsSum
<1> DEFINE x == CHOOSE x \in T : TRUE
<1>4. x \in T
  BY <1>3
<1> HIDE DEF x
<1>5. R[T] = f[x] + R[T \ {x}]
  BY <1>2, <1>3 DEF x
<1>6. R[T \ {x}] = S[T \ {x}]
  BY <1>2, <1>4
<1>7. S[(T \ {x}) \cup {x}] = S[T \ {x}] + f[x]
  BY <1>2, <1>4 DEF IsSum
<1>8. (T \ {x}) \cup {x} = T
  BY <1>4
<1>9. S[T] = S[T \ {x}] + f[x]
  BY ONLY <1>7, <1>8, Zenon
<1>10. S[T \ {x}] \in Int /\ f[x] \in Int
  BY <1>2, <1>4 DEF IsSum
<1> QED
  BY <1>2, <1>5, <1>6, <1>9, <1>10

\* The sum operator of the community modules is such a sum, when there is one.
LEMMA SumIs ==
    ASSUME NEW K, IsFiniteSet(K), NEW f \in [K -> Int], NEW S, IsSum(S, f, K)
    PROVE  MapThenSumSet(LAMBDA k : f[k], K) = S[K]
<1> DEFINE F(s) == IF s = {} THEN 0
                   ELSE LET x == CHOOSE x \in s : TRUE IN f[x] + S[s \ {x}]
<1>1. ASSUME NEW s \in SUBSET K PROVE S[s] = F(s)
  <2>1. CASE s = {}
    BY <2>1 DEF IsSum
  <2>2. CASE s # {}
    <3> DEFINE x == CHOOSE x \in s : TRUE
    <3>1. x \in s
      BY <2>2
    <3> HIDE DEF x
    <3>2. S[(s \ {x}) \cup {x}] = S[s \ {x}] + f[x] /\ (s \ {x}) \cup {x} = s
      BY <3>1 DEF IsSum
    <3>3. S[s \ {x}] \in Int /\ f[x] \in Int
      BY <3>1 DEF IsSum
    <3>4. S[s] = S[s \ {x}] + f[x]
      BY ONLY <3>2, Zenon
    <3>5. S[s] = f[x] + S[s \ {x}]
      BY <3>3, <3>4
    <3> QED
      BY <2>2, <3>5 DEF x
  <2> QED
    BY <2>1, <2>2
<1>2. S = [s \in SUBSET K |-> F(s)]
  BY <1>1 DEF IsSum
<1> DEFINE R == CHOOSE R : R = [s \in SUBSET K |-> IF s = {} THEN 0
                   ELSE LET x == CHOOSE x \in s : TRUE IN f[x] + R[s \ {x}]]
<1>3. R = [s \in SUBSET K |-> IF s = {} THEN 0
                   ELSE LET x == CHOOSE x \in s : TRUE IN f[x] + R[s \ {x}]]
  BY <1>2
<1>4. MapThenSumSet(LAMBDA k : f[k], K) = R[K]
  BY DEF MapThenSumSet, MapThenFoldSet
<1> HIDE DEF R
<1>5. R = S
  BY <1>3, SameSums
<1> QED
  BY <1>4, <1>5

\* S gives the sum of f over every subset of T.
LEMMA SumGrows ==
    ASSUME NEW K, NEW f \in [K -> Int], NEW T \in SUBSET K, NEW k \in K \ T,
           NEW S, IsSum(S, f, T)
    PROVE  IsSum([U \in SUBSET (T \cup {k}) |->
                     IF k \in U THEN S[U \ {k}] + f[k] ELSE S[U]], f, T \cup {k})
<1> DEFINE R == [U \in SUBSET (T \cup {k}) |->
                     IF k \in U THEN S[U \ {k}] + f[k] ELSE S[U]]
<1>1. R \in [SUBSET (T \cup {k}) -> Int]
  <2> SUFFICES ASSUME NEW U \in SUBSET (T \cup {k})
               PROVE  (IF k \in U THEN S[U \ {k}] + f[k] ELSE S[U]) \in Int
    OBVIOUS
  <2>1. U \ {k} \in SUBSET T /\ (k \notin U => U \in SUBSET T)
    OBVIOUS
  <2> QED
    BY <2>1 DEF IsSum
<1>2. R[{}] = 0
  BY DEF IsSum
<1>3. ASSUME NEW U \in SUBSET (T \cup {k}), NEW j \in (T \cup {k}) \ U
      PROVE  R[U \cup {j}] = R[U] + f[j]
  <2>0. U \cup {j} \in SUBSET (T \cup {k})
    OBVIOUS
  <2>1. CASE j = k
    <3>1. (U \cup {j}) \ {k} = U /\ k \in U \cup {j} /\ k \notin U
      BY <2>1
    <3> QED
      BY <2>0, <2>1, <3>1
  <2>2. CASE j # k /\ k \in U
    <3>1. /\ (U \cup {j}) \ {k} = (U \ {k}) \cup {j} /\ k \in U \cup {j}
          /\ U \ {k} \in SUBSET T /\ j \in T \ (U \ {k})
      BY <2>2
    <3>2. S[(U \ {k}) \cup {j}] = S[U \ {k}] + f[j]
      BY <3>1 DEF IsSum
    <3>3. R[U \cup {j}] = S[(U \cup {j}) \ {k}] + f[k] /\ R[U] = S[U \ {k}] + f[k]
      BY <2>0, <2>2, <3>1
    <3>4. S[(U \cup {j}) \ {k}] = S[U \ {k}] + f[j]
      BY ONLY <3>1, <3>2, Zenon
    <3>5. S[U \ {k}] \in Int /\ f[j] \in Int /\ f[k] \in Int
      BY <3>1 DEF IsSum
    <3> QED
      BY <3>3, <3>4, <3>5
  <2>3. CASE j # k /\ k \notin U
    <3>1. U \in SUBSET T /\ j \in T \ U /\ k \notin U \cup {j}
      BY <2>3
    <3> QED
      BY <2>0, <2>3, <3>1 DEF IsSum
  <2> QED
    BY <2>1, <2>2, <2>3
<1> QED
  BY <1>1, <1>2, <1>3 DEF IsSum

\* Every function on a finite set has its sums.
LEMMA SumExists ==
    ASSUME NEW K, IsFiniteSet(K), NEW f \in [K -> Int]
    PROVE  \E S : IsSum(S, f, K)
<1> DEFINE B == {T \in SUBSET K : ~ \E S : IsSum(S, f, T)}
<1>1. SUFFICES ASSUME B # {} PROVE FALSE
  OBVIOUS
<1>2. PICK T \in B : \A U \in B : U \subseteq T => U = T
  <2>1. B \subseteq SUBSET K
    OBVIOUS
  <2> HIDE DEF B
  <2> QED
    BY <1>1, <2>1, LeastSubset
<1>3. T \subseteq K /\ ~ \E S : IsSum(S, f, T)
  OBVIOUS
<1>4. T # {}
  <2>1. IsSum([U \in {{}} |-> 0], f, {})
    BY DEF IsSum
  <2> QED
    BY <1>3, <2>1
<1>5. PICK k \in T : TRUE
  BY <1>4
<1>6. PICK S : IsSum(S, f, T \ {k})
  BY <1>2
<1>7. T \ {k} \in SUBSET K /\ k \in K \ (T \ {k}) /\ (T \ {k}) \cup {k} = T
  BY <1>3
<1>8. \E R : IsSum(R, f, (T \ {k}) \cup {k})
  BY <1>6, <1>7, SumGrows
<1> QED
  BY <1>3, <1>7, <1>8

\* The sum of the values of f.
Total(f, K) == MapThenSumSet(LAMBDA k : f[k], K)

\* The sum of a function that is zero everywhere.
LEMMA TotalOfZeros ==
    ASSUME NEW K, IsFiniteSet(K), NEW f \in [K -> Int], \A k \in K : f[k] = 0
    PROVE  Total(f, K) = 0
<1>1. IsSum([T \in SUBSET K |-> 0], f, K)
  BY DEF IsSum
<1>2. Total(f, K) = [T \in SUBSET K |-> 0][K]
  BY <1>1, SumIs DEF Total
<1> QED
  BY <1>2

\* One value changes, and the sum by as much.
LEMMA TotalChanges ==
    ASSUME NEW K, IsFiniteSet(K), NEW f \in [K -> Int], NEW g \in [K -> Int], NEW k \in K,
           \A j \in K : j # k => g[j] = f[j]
    PROVE  /\ Total(f, K) \in Int /\ Total(g, K) \in Int
           /\ Total(g, K) = Total(f, K) + (g[k] - f[k])
<1>1. PICK S : IsSum(S, f, K)
  BY SumExists
<1> DEFINE d == g[k] - f[k]
           R == [T \in SUBSET K |-> S[T] + (IF k \in T THEN d ELSE 0)]
<1>2. IsSum(R, g, K)
  <2>0. d \in Int /\ \A j \in K : f[j] \in Int /\ g[j] \in Int
    OBVIOUS
  <2>1. R \in [SUBSET K -> Int] /\ R[{}] = 0
    BY <1>1, <2>0 DEF IsSum
  <2>2. ASSUME NEW T \in SUBSET K, NEW j \in K \ T PROVE R[T \cup {j}] = R[T] + g[j]
    <3>1. S[T \cup {j}] = S[T] + f[j] /\ S[T] \in Int /\ T \cup {j} \in SUBSET K
      BY <1>1 DEF IsSum
    <3>2. CASE j = k
      <4>1. R[T \cup {j}] = S[T \cup {j}] + d /\ R[T] = S[T] + 0
        BY <3>1, <3>2
      <4> QED
        BY <2>0, <3>1, <3>2, <4>1
    <3>3. CASE j # k
      <4>1. k \in T \cup {j} <=> k \in T
        BY <3>3
      <4>2. R[T \cup {j}] = S[T \cup {j}] + (IF k \in T THEN d ELSE 0)
        BY <3>1, <4>1
      <4>3. g[j] = f[j] /\ (IF k \in T THEN d ELSE 0) \in Int
        BY <2>0, <3>3
      <4> HIDE DEF d
      <4> QED
        BY <2>0, <3>1, <4>2, <4>3
    <3> QED
      BY <3>2, <3>3
  <2> QED
    BY <2>1, <2>2 DEF IsSum
<1>3. Total(f, K) = S[K]
  BY <1>1, SumIs DEF Total
<1>4. Total(g, K) = R[K]
  <2> HIDE DEF R
  <2> QED
    BY <1>2, SumIs DEF Total
<1>5. S[K] \in Int /\ d \in Int
  BY <1>1 DEF IsSum
<1> QED
  BY <1>3, <1>4, <1>5

\* The sum grows with the values.
LEMMA TotalMonotone ==
    ASSUME NEW K, IsFiniteSet(K), NEW f \in [K -> Int], NEW g \in [K -> Int],
           \A k \in K : f[k] <= g[k]
    PROVE  Total(f, K) <= Total(g, K)
<1>1. PICK S : IsSum(S, f, K)
  BY SumExists
<1>2. PICK R : IsSum(R, g, K)
  BY SumExists
<1> DEFINE B == {T \in SUBSET K : ~ (S[T] <= R[T])}
<1>3. ASSUME B # {} PROVE FALSE
  <2>1. PICK T \in B : \A U \in B : U \subseteq T => U = T
    <3>1. B \subseteq SUBSET K
      OBVIOUS
    <3> HIDE DEF B
    <3> QED
      BY <1>3, <3>1, LeastSubset
  <2>2. PICK k \in T : TRUE
    <3>1. S[{}] = 0 /\ R[{}] = 0 /\ ~ (S[T] <= R[T])
      BY <1>1, <1>2 DEF IsSum
    <3>2. T # {}
      BY <3>1
    <3> QED
      BY <3>2
  <2>3. T \ {k} \in SUBSET K /\ k \in K \ (T \ {k}) /\ (T \ {k}) \cup {k} = T
    BY <2>2
  <2>4. S[T \ {k}] <= R[T \ {k}]
    BY <2>1, <2>2, <2>3
  <2>5. /\ S[(T \ {k}) \cup {k}] = S[T \ {k}] + f[k]
        /\ R[(T \ {k}) \cup {k}] = R[T \ {k}] + g[k]
    BY <1>1, <1>2, <2>3 DEF IsSum
  <2>6. S[T] = S[T \ {k}] + f[k] /\ R[T] = R[T \ {k}] + g[k]
    BY ONLY <2>3, <2>5, Zenon
  <2>7. /\ S[T \ {k}] \in Int /\ R[T \ {k}] \in Int /\ f[k] \in Int /\ g[k] \in Int
        /\ f[k] <= g[k] /\ ~ (S[T] <= R[T])
    BY <1>1, <1>2, <2>1, <2>3 DEF IsSum
  <2> QED
    BY <2>4, <2>6, <2>7
<1>4. S[K] <= R[K]
  BY <1>3
<1>5. Total(f, K) = S[K] /\ Total(g, K) = R[K]
  BY <1>1, <1>2, SumIs DEF Total
<1> QED
  BY <1>4, <1>5

-----------------------------------------------------------------------------
(* Stock: a full refund gives the units of its checkout back.              *)

\* What a refund does to the orders.
Refunds(p, left) ==
    /\ payments[p].status \in Refundable
    /\ left \in 0..Amount /\ left < payments[p].cancelable
    /\ payments' = [payments EXCEPT ![p] =
          [status |-> IF left = 0 THEN "canceled" ELSE "partial_canceled",
           checkout |-> CheckoutOf(p), cancelable |-> left]]
    /\ IF left = 0 THEN RestoreSold(CheckoutOf(p)) ELSE UNCHANGED stockVars
    /\ UNCHANGED <<checkouts, invoices, due, orderKeys, confirmKeys, lockVars, confirms, charge>>

\* The payment is the last of its checkout, which is paid and owned.
LEMMA RefundableOwns ==
    ASSUME StockInv, NEW p \in Payments, payments[p].status \in Refundable
    PROVE  /\ CheckoutOf(p) \in Checkouts
           /\ checkouts[CheckoutOf(p)].last = p
           /\ checkouts[CheckoutOf(p)].status = "paid"
           /\ \A s \in Skus : s \in Items[CheckoutOf(p)] => CheckoutOf(p) \in Owning(s)
<1>1. CheckoutOf(p) \in Checkouts
  BY DEF StockInv, TypeOK, OrdersOK, Refundable
<1>2. checkouts[CheckoutOf(p)].last = p
  BY DEF StockInv, CheckoutTracksPayments, OpenIsLast, Refundable, Settled
<1>3. LastDecides(CheckoutOf(p)) /\ p # NoPayment
  BY <1>1, NoneAssumption DEF StockInv, CheckoutTracksPayments
<1>4. checkouts[CheckoutOf(p)].status = "paid"
  <2>1. payments[p].status = checkouts[CheckoutOf(p)].status
        \/ checkouts[CheckoutOf(p)].status = "paid"
    BY <1>2, <1>3 DEF LastDecides
  <2>2. checkouts[CheckoutOf(p)].status \in CheckoutStatus
    BY <1>1 DEF StockInv, TypeOK, OrdersOK
  <2> QED
    BY <2>1, <2>2 DEF Refundable, CheckoutStatus
<1> QED
  BY <1>1, <1>2, <1>4 DEF Owning, Refundable

\* A refund writes one payment.
LEMMA RefundWrites ==
    ASSUME TypeOK, NEW p \in Payments, NEW left \in 0..Amount, Refunds(p, left)
    PROVE  /\ payments'[p] = [status |-> IF left = 0 THEN "canceled" ELSE "partial_canceled",
                              checkout |-> CheckoutOf(p), cancelable |-> left]
           /\ payments'[p].status = (IF left = 0 THEN "canceled" ELSE "partial_canceled")
           /\ payments'[p].checkout = CheckoutOf(p)
           /\ payments'[p].cancelable = left
           /\ \A q \in Payments : q # p => payments'[q] = payments[q]
           /\ payments' \in [Payments -> [status : PaymentStatus,
                                          checkout : Checkouts \cup {NoCheckout},
                                          cancelable : 0..Amount]]
<1>1. CheckoutOf(p) \in Checkouts
  BY DEF Refunds, Refundable, TypeOK, OrdersOK
<1>2. payments \in [Payments -> [status : PaymentStatus,
                                 checkout : Checkouts \cup {NoCheckout},
                                 cancelable : 0..Amount]]
  BY DEF TypeOK, OrdersOK
<1> DEFINE new == [status |-> IF left = 0 THEN "canceled" ELSE "partial_canceled",
                   checkout |-> CheckoutOf(p), cancelable |-> left]
<1>3. new \in [status : PaymentStatus, checkout : Checkouts \cup {NoCheckout},
               cancelable : 0..Amount]
  BY <1>1 DEF PaymentStatus
<1>4. payments' = [payments EXCEPT ![p] = new]
  BY DEF Refunds
<1>5. /\ new.status = (IF left = 0 THEN "canceled" ELSE "partial_canceled")
      /\ new.checkout = CheckoutOf(p) /\ new.cancelable = left
  OBVIOUS
<1>6. new = [status |-> IF left = 0 THEN "canceled" ELSE "partial_canceled",
             checkout |-> CheckoutOf(p), cancelable |-> left]
  OBVIOUS
<1> HIDE DEF new
<1>7. /\ payments'[p] = new
      /\ \A q \in Payments : q # p => payments'[q] = payments[q]
      /\ payments' \in [Payments -> [status : PaymentStatus,
                                     checkout : Checkouts \cup {NoCheckout},
                                     cancelable : 0..Amount]]
  BY <1>2, <1>3, <1>4
<1> QED
  BY <1>5, <1>6, <1>7

\* The types survive it.
LEMMA RefundTypes ==
    ASSUME TypeOK, NEW p \in Payments, NEW left \in 0..Amount, Refunds(p, left)
    PROVE  TypeOK'
<1> DEFINE c == CheckoutOf(p)
<1>w. /\ payments'[p].status = (IF left = 0 THEN "canceled" ELSE "partial_canceled")
      /\ payments'[p].checkout = c
      /\ \A q \in Payments : q # p => payments'[q] = payments[q]
      /\ payments' \in [Payments -> [status : PaymentStatus,
                                     checkout : Checkouts \cup {NoCheckout},
                                     cancelable : 0..Amount]]
  BY RefundWrites
<1>s. payments[p].status \in Refundable /\ c \in Checkouts
  BY DEF Refunds, Refundable, TypeOK, OrdersOK
<1>u. UNCHANGED <<checkouts, invoices, due, orderKeys, confirmKeys, lockVars, confirms, charge>>
  BY DEF Refunds
<1>h. /\ left = 0 => /\ UNCHANGED reserved
                     /\ sold' = [s \in Skus |-> IF s \in Items[c] /\ sold[s] > 0
                                                THEN sold[s] - 1 ELSE sold[s]]
      /\ left # 0 => UNCHANGED <<reserved, sold>>
  BY DEF Refunds, RestoreSold, stockVars
<1>1. OrdersOK'
  BY <1>w, <1>u, <1>s DEF TypeOK, OrdersOK, CheckoutOf
<1>2. StockOK'
  BY <1>h DEF TypeOK, StockOK
<1>3. ConfirmsOK'
  BY <1>w, <1>u, <1>s DEF TypeOK, ConfirmsOK, Refundable
<1>4. KeysOK' /\ LocksOK'
  BY <1>u DEF TypeOK, KeysOK, LocksOK, lockVars
<1> QED
  BY <1>u, <1>1, <1>2, <1>3, <1>4 DEF TypeOK

\* The stock invariant survives it.
LEMMA RefundStock ==
    ASSUME StockInv, NEW p \in Payments, NEW left \in 0..Amount, Refunds(p, left)
    PROVE  StockInv'
<1> DEFINE c == CheckoutOf(p)
<1>o. /\ c \in Checkouts /\ checkouts[c].last = p /\ checkouts[c].status = "paid"
      /\ \A s \in Skus : s \in Items[c] => c \in Owning(s)
  BY RefundableOwns DEF Refunds
<1>w. /\ payments'[p].status = (IF left = 0 THEN "canceled" ELSE "partial_canceled")
      /\ payments'[p].checkout = c
      /\ \A q \in Payments : q # p => payments'[q] = payments[q]
      /\ payments' \in [Payments -> [status : PaymentStatus,
                                     checkout : Checkouts \cup {NoCheckout},
                                     cancelable : 0..Amount]]
  BY RefundWrites DEF StockInv
<1>u. UNCHANGED <<checkouts, invoices, due, orderKeys, confirmKeys, lockVars, confirms, charge>>
  BY DEF Refunds
<1>s. payments[p].status \in Refundable
  BY DEF Refunds
<1>h. /\ left = 0 => /\ UNCHANGED reserved
                     /\ sold' = [s \in Skus |-> IF s \in Items[c] /\ sold[s] > 0
                                                THEN sold[s] - 1 ELSE sold[s]]
      /\ left # 0 => UNCHANGED <<reserved, sold>>
  BY DEF Refunds, RestoreSold, stockVars
<1>1. TypeOK'
  BY RefundTypes DEF StockInv
<1>2. CheckoutTracksPayments'
  <2>1. ASSUME NEW d \in Checkouts PROVE LastDecides(d)'
    <3>1. LastDecides(d) BY DEF StockInv, CheckoutTracksPayments
    <3>2. checkouts[d].last \in Payments \cup {NoPayment}
      BY DEF StockInv, TypeOK, OrdersOK
    <3> QED
      BY <1>o, <1>w, <1>u, <3>1, <3>2, NoneAssumption DEF LastDecides, CheckoutOf, Settled
  <2>2. ASSUME NEW q \in Payments PROVE OpenIsLast(q)'
    <3>1. OpenIsLast(q) BY DEF StockInv, CheckoutTracksPayments
    <3> QED
      BY <1>o, <1>w, <1>u, <3>1 DEF OpenIsLast, CheckoutOf
  <2> QED
    BY <2>1, <2>2 DEF CheckoutTracksPayments
<1>3. ASSUME NEW s \in Skus
      PROVE  /\ reserved'[s] = Cardinality(Holding(s)')
             /\ sold'[s] = Cardinality(Owning(s)')
             /\ reserved'[s] + sold'[s] <= TotalStock[s]
  <2> DEFINE held == Cardinality(Holding(s))
             owned == Cardinality(Owning(s))
  <2>1. /\ reserved[s] = held /\ sold[s] = owned
        /\ held \in Nat /\ owned \in Nat
        /\ held + owned <= TotalStock[s] /\ TotalStock[s] \in Nat
    BY CountsFinite, FS_CardinalityType, StockAssumption DEF StockInv, StockExact
  <2>2. Holding(s)' = Holding(s)
    BY <1>u DEF Holding
  <2>3. \A d \in Checkouts : checkouts[d].status = "paid" /\ d # c =>
            checkouts[d].last \in Payments /\ checkouts[d].last # p
    <3> SUFFICES ASSUME NEW d \in Checkouts, checkouts[d].status = "paid", d # c
                 PROVE  checkouts[d].last \in Payments /\ checkouts[d].last # p
      OBVIOUS
    <3>1. LastDecides(d) /\ checkouts[d].last \in Payments \cup {NoPayment}
      BY DEF StockInv, CheckoutTracksPayments, TypeOK, OrdersOK
    <3> QED
      BY <3>1 DEF LastDecides, CheckoutOf
  <2>4. Owning(s)' = IF left = 0 THEN Owning(s) \ {c} ELSE Owning(s)
    <3>1. ASSUME NEW d \in Checkouts, d # c
          PROVE  checkouts[d].status = "paid" => payments'[checkouts[d].last] = payments[checkouts[d].last]
      BY <1>w, <2>3, <3>1
    <3>2. payments[checkouts[c].last].status # "canceled"
      BY <1>o, <1>s DEF Refundable
    <3>3. payments'[checkouts[c].last].status # "canceled" <=> left # 0
      BY <1>o, <1>w
    <3> QED
      BY <1>u, <3>1, <3>2, <3>3 DEF Owning
  <2>5. CASE left = 0
    <3>1. Cardinality(Owning(s) \ {c}) = IF c \in Owning(s) THEN owned - 1 ELSE owned
      BY CountsFinite, FS_RemoveElement
    <3>2. c \in Owning(s) <=> s \in Items[c]
      BY <1>o DEF Owning
    <3>3. c \in Owning(s) => owned > 0
      <4>1. Owning(s) # {} => owned # 0
        BY CountsFinite, FS_EmptySet
      <4> QED
        BY <2>1, <4>1
    <3>4. sold'[s] = IF s \in Items[c] /\ sold[s] > 0 THEN sold[s] - 1 ELSE sold[s]
      BY <1>h, <2>5
    <3>5. reserved'[s] = reserved[s]
      BY <1>h, <2>5
    <3> QED
      BY <2>1, <2>2, <2>4, <2>5, <3>1, <3>2, <3>3, <3>4, <3>5
  <2>6. CASE left # 0
    <3>1. reserved'[s] = reserved[s] /\ sold'[s] = sold[s]
      BY <1>h, <2>6
    <3> QED
      BY <2>1, <2>2, <2>4, <2>6, <3>1
  <2> QED
    BY <2>5, <2>6
<1> QED
  BY <1>1, <1>2, <1>3 DEF StockInv, StockExact

\* To the ledger it is a return of the units, or nothing.
LEMMA RefundLedger ==
    ASSUME StockInv, NEW p \in Payments, NEW left \in 0..Amount, Refunds(p, left)
    PROVE  [Ledger!Next]_([c \in Checkouts |-> Position(c)])
<1> DEFINE c == CheckoutOf(p)
           position == [d \in Checkouts |-> Position(d)]
<1>o. /\ c \in Checkouts /\ checkouts[c].last = p /\ checkouts[c].status = "paid"
  BY RefundableOwns DEF Refunds
<1>w. /\ payments'[p].status = (IF left = 0 THEN "canceled" ELSE "partial_canceled")
      /\ \A q \in Payments : q # p => payments'[q] = payments[q]
      /\ UNCHANGED checkouts /\ p # NoPayment /\ payments[p].status \in Refundable
  BY RefundWrites, NoneAssumption DEF Refunds, StockInv
<1>1. Position(c) = "sold"
  BY <1>o, <1>w DEF Position, Refundable
<1>2. ASSUME NEW d \in Checkouts, d = c
      PROVE  Position(d)' = IF left = 0 THEN "free" ELSE "sold"
  BY <1>o, <1>w, <1>2 DEF Position
<1>3. ASSUME NEW d \in Checkouts, d # c PROVE Position(d)' = Position(d)
  <2>1. payments[p].checkout = c
    BY DEF CheckoutOf
  <2>2. \A q \in Payments \ {p} : payments'[q] = payments[q]
    BY <1>w
  <2>3. \A e \in Checkouts \ {c} : checkouts'[e] = checkouts[e]
    BY <1>w
  <2> QED
    BY <1>3, <1>o, <2>1, <2>2, <2>3, OthersStay
<1>4. CASE left = 0
  <2>1. position' = [position EXCEPT ![c] = "free"]
    BY <1>2, <1>3, <1>4
  <2> QED
    BY <1>o, <1>1, <2>1 DEF Ledger!Next, Ledger!Return
<1>5. CASE left # 0
  <2>1. position' = position
    BY <1>1, <1>2, <1>3, <1>5
  <2> QED
    BY <2>1
<1> QED
  BY <1>4, <1>5

-----------------------------------------------------------------------------
(* Keys, rows and records.                                                 *)

Cancel == [pc : Steps, payment : Payments \cup {NoPayment}, key : CancelKeys \cup {NoKey},
           want : (1..Amount) \cup {Whole}, amount : 0..Amount, left : 0..Amount,
           seen : SUBSET CancelKeys]

\* The parts of CancelTypeOK that PaymentCancel adds.
CancelDocsOK ==
    /\ history \in [Payments -> [CancelKeys -> 0..Amount]]
    /\ cancelRows \in [Payments -> [CancelKeys -> RowStatus]]
    /\ cancelKeys \in [Payments -> [CancelKeys -> [status : KeyStatus,
                                                   want : (1..Amount) \cup {Whole}]]]
    /\ cancelLock \in [Payments -> CancelRequests \cup {Nobody, Gone}]
    /\ balance \in [Payments -> 0..Amount]
    /\ refunds \in [Payments -> [CancelKeys -> [amount : 0..Amount, left : 0..Amount]]]

\* A request that is not idle has a payment and a key.
Started(c) == c.pc # "idle" => c.payment \in Payments /\ c.key \in CancelKeys

CancelsOK ==
    /\ cancels \in [CancelRequests -> Cancel]
    /\ \A r \in CancelRequests : Started(cancels[r])

\* The process is between its two transactions.
Running(r) == cancels[r].pc \in {"call", "record", "fail"}

\* Then the key of its request is its own, whatever lock lapsed: nobody else
\* works under it, its row is pending, and the history of that key is what it
\* saw at the start.
KeysAreHeld ==
    /\ \A r \in CancelRequests : Running(r) =>
          /\ cancelKeys[cancels[r].payment][cancels[r].key].status = "processing"
          /\ cancelRows[cancels[r].payment][cancels[r].key] = "pending"
          /\ cancels[r].key \in cancels[r].seen <=>
                 history[cancels[r].payment][cancels[r].key] > 0
    /\ \A r, t \in CancelRequests :
          Running(r) /\ Running(t) /\ cancels[r].payment = cancels[t].payment
              /\ cancels[r].key = cancels[t].key => r = t

\* What it is about to record was refunded, under a key not recorded before.
RecordsAreReal ==
    \A r \in CancelRequests : cancels[r].pc = "record" =>
        /\ refunds[cancels[r].payment][cancels[r].key].amount = cancels[r].amount
        /\ cancels[r].key \notin cancels[r].seen

\* Every recorded refund was made by the gateway, for that amount.
RecordedWasMade ==
    \A p \in Payments, k \in CancelKeys :
        history[p][k] > 0 => refunds[p][k].amount = history[p][k]

CancelInv ==
    /\ CancelDocsOK /\ CancelsOK
    /\ KeysAreHeld /\ RecordsAreReal /\ RecordedWasMade /\ RefundsAreTraceable

\* CancelTypeOK in these words.
LEMMA CancelTypesSplit == CancelTypeOK <=> TypeOK /\ CancelDocsOK /\ CancelsOK
BY DEF CancelTypeOK, CancelDocsOK, CancelsOK, Cancel, Started

\* An entry of a table of tables is replaced.
LEMMA PutEntry ==
    ASSUME NEW S, NEW D, NEW T, NEW f \in [S -> [D -> T]], NEW s \in S, NEW d \in D, NEW v \in T
    PROVE  /\ [f EXCEPT ![s][d] = v] \in [S -> [D -> T]]
           /\ [f EXCEPT ![s][d] = v][s][d] = v
           /\ \A x \in S, y \in D : x # s \/ y # d => [f EXCEPT ![s][d] = v][x][y] = f[x][y]
OBVIOUS

\* One process is replaced.
LEMMA CancelMoves ==
    ASSUME CancelsOK, NEW r \in CancelRequests, NEW c \in Cancel, Started(c),
           cancels' = [cancels EXCEPT ![r] = c]
    PROVE  /\ CancelsOK' /\ cancels'[r] = c
           /\ \A t \in CancelRequests : t # r => cancels'[t] = cancels[t]
BY DEF CancelsOK

\* It goes to another step and keeps everything else.
LEMMA CancelGoes ==
    ASSUME CancelsOK, NEW r \in CancelRequests, NEW pc \in Steps, cancels[r].pc # "idle",
           CancelGoto(r, pc)
    PROVE  /\ CancelsOK'
           /\ \A t \in CancelRequests : t # r => cancels'[t] = cancels[t]
           /\ cancels'[r].pc = pc
           /\ cancels'[r].payment = cancels[r].payment
           /\ cancels'[r].key = cancels[r].key
           /\ cancels'[r].amount = cancels[r].amount
           /\ cancels'[r].seen = cancels[r].seen
<1> DEFINE c == [cancels[r] EXCEPT !.pc = pc]
<1>1. cancels[r] \in Cancel /\ Started(cancels[r])
  BY DEF CancelsOK
<1>2. /\ c \in Cancel /\ c.pc = pc /\ c.payment = cancels[r].payment /\ c.key = cancels[r].key
      /\ c.amount = cancels[r].amount /\ c.seen = cancels[r].seen
  BY <1>1 DEF Cancel
<1>3. Started(c)
  BY <1>1, <1>2 DEF Started
<1>4. cancels' = [cancels EXCEPT ![r] = c]
  BY DEF CancelGoto
<1> HIDE DEF c
<1> QED
  BY <1>2, <1>3, <1>4, CancelMoves

\* What a request that is not idle works on.
LEMMA CancelFields ==
    ASSUME CancelsOK, NEW r \in CancelRequests, cancels[r].pc # "idle"
    PROVE  /\ cancels[r].payment \in Payments /\ cancels[r].key \in CancelKeys
           /\ cancels[r].want \in (1..Amount) \cup {Whole}
           /\ cancels[r].amount \in 0..Amount /\ cancels[r].left \in 0..Amount
BY DEF CancelsOK, Cancel, Started

\* The invariant at the start.
LEMMA CancelInitInv == CancelInit => StockInv /\ CancelInv
<1> SUFFICES ASSUME CancelInit PROVE StockInv /\ CancelInv
  OBVIOUS
<1>1. StockInv
  BY InitType, InitTracks, InitStock DEF StockInv, CancelInit
<1>2. Amount \in Nat /\ 0 \in 0..Amount /\ Amount \in 0..Amount
  BY AmountAssumption
<1>3. CancelDocsOK
  BY <1>2 DEF CancelInit, CancelDocsOK, RowStatus, KeyStatus, NoCancelEntry, NoRefund
<1>4. CancelIdle \in Cancel /\ CancelIdle.pc = "idle"
  BY <1>2 DEF CancelIdle, Cancel, Steps
<1>5. CancelsOK /\ \A r \in CancelRequests : cancels[r].pc = "idle"
  BY <1>4 DEF CancelInit, CancelsOK, Started
<1>6. KeysAreHeld /\ RecordsAreReal
  BY <1>5 DEF KeysAreHeld, RecordsAreReal, Running
<1>7. RecordedWasMade
  BY DEF CancelInit, RecordedWasMade
<1>8. RefundsAreTraceable
  BY DEF CancelInit, RefundsAreTraceable, NoRefund, NoCancelEntry
<1> QED
  BY <1>1, <1>3, <1>5, <1>6, <1>7, <1>8 DEF CancelInv

-----------------------------------------------------------------------------
\* A process that starts, stops, or has nothing to do between two transactions.
LEMMA OutsideKeeps ==
    ASSUME CancelInv, NEW r \in CancelRequests, CancelsOK', ~Running(r)',
           \A t \in CancelRequests : t # r => cancels'[t] = cancels[t],
           cancelLock' \in [Payments -> CancelRequests \cup {Nobody, Gone}],
           UNCHANGED <<history, cancelRows, cancelKeys, balance, refunds>>
    PROVE  CancelInv'
<1>1. \A t \in CancelRequests : Running(t)' => t # r /\ Running(t) /\ cancels'[t] = cancels[t]
  BY DEF Running
<1>2. CancelDocsOK'
  BY DEF CancelInv, CancelDocsOK
<1>3. KeysAreHeld'
  BY <1>1 DEF CancelInv, KeysAreHeld
<1>4. RecordsAreReal'
  BY <1>1 DEF CancelInv, RecordsAreReal, Running
<1>5. RecordedWasMade'
  BY DEF CancelInv, RecordedWasMade
<1>6. RefundsAreTraceable'
  BY DEF CancelInv, RefundsAreTraceable
<1> QED
  BY <1>2, <1>3, <1>4, <1>5, <1>6 DEF CancelInv

\* The first transaction takes the key.
LEMMA PrepareKeeps ==
    ASSUME TypeOK, CancelInv, NEW r \in CancelRequests, CancelPrepare(r)
    PROVE  CancelInv'
<1> DEFINE p == cancels[r].payment
           k == cancels[r].key
           amount == AmountOf(p, cancels[r].want)
           c == [pc |-> "call", payment |-> p, key |-> k, want |-> cancels[r].want,
                 amount |-> amount, left |-> payments[p].cancelable - amount,
                 seen |-> {x \in CancelKeys : history[p][x] > 0}]
           entry == [status |-> "processing", want |-> cancels[r].want]
<1>t. CancelsOK /\ CancelDocsOK
  BY DEF CancelInv
<1>0. p \in Payments /\ k \in CancelKeys /\ cancels[r].want \in (1..Amount) \cup {Whole}
  BY <1>t, CancelFields DEF CancelPrepare
<1>1. payments[p].cancelable \in 0..Amount /\ Amount \in Nat
  BY <1>0, AmountAssumption DEF TypeOK, OrdersOK
<1>2. amount \in 1..payments[p].cancelable
  BY DEF CancelPrepare, Prepared, CanRefund
<1>3. amount \in 0..Amount /\ payments[p].cancelable - amount \in 0..Amount
  BY <1>1, <1>2
<1>4. c \in Cancel /\ Started(c) /\ c.pc = "call" /\ c.payment = p /\ c.key = k
      /\ (k \in c.seen <=> history[p][k] > 0)
  BY <1>0, <1>3 DEF Cancel, Started, Steps
<1>5. cancels' = [cancels EXCEPT ![r] = c]
  BY DEF CancelPrepare
<1> HIDE DEF c, amount
<1>6. /\ CancelsOK' /\ cancels'[r] = c
      /\ \A t \in CancelRequests : t # r => cancels'[t] = cancels[t]
  BY <1>t, <1>4, <1>5, CancelMoves
<1>7. /\ cancelKeys[p][k].status \in {"none", "failed"}
      /\ cancelRows[p][k] # "pending"
      /\ cancelRows' = [cancelRows EXCEPT ![p][k] = "pending"]
      /\ cancelKeys' = [cancelKeys EXCEPT ![p][k] = entry]
      /\ UNCHANGED <<history, cancelLock, balance, refunds>>
  BY DEF CancelPrepare, Prepared, CancelEntry, SetCancelRow, SetCancelKey, gatewayVars
<1>8. entry \in [status : KeyStatus, want : (1..Amount) \cup {Whole}] /\ entry.status = "processing"
  BY <1>0 DEF KeyStatus
<1>9. "pending" \in RowStatus
  BY DEF RowStatus
<1> HIDE DEF entry
<1>10. /\ cancelRows' \in [Payments -> [CancelKeys -> RowStatus]]
       /\ cancelRows'[p][k] = "pending"
       /\ \A x \in Payments, y \in CancelKeys : x # p \/ y # k => cancelRows'[x][y] = cancelRows[x][y]
  BY <1>t, <1>0, <1>7, <1>9, PutEntry DEF CancelDocsOK
<1>11. /\ cancelKeys' \in [Payments -> [CancelKeys -> [status : KeyStatus,
                                                      want : (1..Amount) \cup {Whole}]]]
       /\ cancelKeys'[p][k] = entry
       /\ \A x \in Payments, y \in CancelKeys : x # p \/ y # k => cancelKeys'[x][y] = cancelKeys[x][y]
  BY <1>t, <1>0, <1>7, <1>8, PutEntry DEF CancelDocsOK
<1>12. CancelDocsOK'
  BY <1>t, <1>7, <1>10, <1>11 DEF CancelDocsOK
<1>13. \A t \in CancelRequests : t # r /\ Running(t) =>
           /\ cancels[t].payment \in Payments /\ cancels[t].key \in CancelKeys
           /\ cancels[t].payment # p \/ cancels[t].key # k
  <2>1. \A t \in CancelRequests : Running(t) =>
            cancels[t].payment \in Payments /\ cancels[t].key \in CancelKeys
    BY <1>t, CancelFields DEF Running
  <2> QED
    BY <1>7, <2>1 DEF CancelInv, KeysAreHeld
<1>14. \A t \in CancelRequests : t # r => (Running(t)' <=> Running(t))
  BY <1>6 DEF Running
<1>15. KeysAreHeld'
  <2>1. ASSUME NEW t \in CancelRequests, Running(t)', t # r
        PROVE  /\ cancels'[t] = cancels[t] /\ Running(t)
               /\ cancelKeys'[cancels[t].payment][cancels[t].key].status = "processing"
               /\ cancelRows'[cancels[t].payment][cancels[t].key] = "pending"
               /\ cancels[t].key \in cancels[t].seen <=>
                      history'[cancels[t].payment][cancels[t].key] > 0
               /\ cancels[t].payment # p \/ cancels[t].key # k
    BY <1>6, <1>7, <1>10, <1>11, <1>13, <1>14, <2>1 DEF CancelInv, KeysAreHeld
  <2>2. /\ cancels'[r].payment = p /\ cancels'[r].key = k
        /\ cancelKeys'[p][k].status = "processing" /\ cancelRows'[p][k] = "pending"
        /\ k \in cancels'[r].seen <=> history'[p][k] > 0
    BY <1>4, <1>6, <1>7, <1>8, <1>10, <1>11
  <2>3. ASSUME NEW t \in CancelRequests, NEW q \in CancelRequests, Running(t)', Running(q)',
               cancels'[t].payment = cancels'[q].payment, cancels'[t].key = cancels'[q].key
        PROVE  t = q
    BY <2>1, <2>2, <2>3 DEF CancelInv, KeysAreHeld
  <2>4. ASSUME NEW t \in CancelRequests, Running(t)'
        PROVE  /\ cancelKeys'[cancels'[t].payment][cancels'[t].key].status = "processing"
               /\ cancelRows'[cancels'[t].payment][cancels'[t].key] = "pending"
               /\ cancels'[t].key \in cancels'[t].seen <=>
                      history'[cancels'[t].payment][cancels'[t].key] > 0
    BY <2>1, <2>2, <2>4
  <2> QED
    BY <2>3, <2>4 DEF KeysAreHeld
<1>16. RecordsAreReal'
  BY <1>4, <1>6, <1>7 DEF CancelInv, RecordsAreReal
<1>17. RecordedWasMade'
  BY <1>7 DEF CancelInv, RecordedWasMade
<1>18. RefundsAreTraceable'
  <2> SUFFICES ASSUME NEW x \in Payments, NEW y \in CancelKeys
               PROVE  /\ refunds[x][y] # NoRefund /\ history[x][y] = 0 =>
                            cancelRows'[x][y] \in {"pending", "failed"}
                      /\ cancelRows'[x][y] = "succeeded" => history[x][y] > 0
                      /\ cancelKeys'[x][y].status = "succeeded" => history[x][y] > 0
    BY <1>7 DEF RefundsAreTraceable
  <2>1. CASE x = p /\ y = k
    BY <1>8, <1>10, <1>11, <2>1
  <2>2. CASE x # p \/ y # k
    BY <1>10, <1>11, <2>2 DEF CancelInv, RefundsAreTraceable
  <2> QED
    BY <2>1, <2>2
<1> QED
  BY <1>6, <1>12, <1>15, <1>16, <1>17, <1>18 DEF CancelInv

\* What Matches asks of the answer is what RecordsAreReal asks of a record.
LEMMA CallKeeps ==
    ASSUME CancelInv, NEW r \in CancelRequests, CancelAnswered(r) \/ CancelLost(r) \/ CancelDeclined(r)
    PROVE  CancelInv'
<1> DEFINE p == cancels[r].payment
           k == cancels[r].key
           answer == [amount |-> cancels[r].amount, left |-> balance[p] - cancels[r].amount]
<1>t. CancelsOK /\ CancelDocsOK
  BY DEF CancelInv
<1>r. cancels[r].pc = "call"
  BY DEF CancelAnswered, CancelLost, CancelDeclined, Refund
<1>0. p \in Payments /\ k \in CancelKeys /\ cancels[r].amount \in 0..Amount
  BY <1>t, <1>r, CancelFields
<1>1. PICK pc \in {"record", "fail"} : CancelGoto(r, pc)
  BY DEF CancelAnswered, CancelLost, CancelDeclined
<1>2. /\ CancelsOK'
      /\ \A t \in CancelRequests : t # r => cancels'[t] = cancels[t]
      /\ cancels'[r].pc = pc
      /\ cancels'[r].payment = p /\ cancels'[r].key = k
      /\ cancels'[r].amount = cancels[r].amount /\ cancels'[r].seen = cancels[r].seen
  BY <1>t, <1>r, <1>1, CancelGoes DEF Steps
<1>3. UNCHANGED <<history, cancelRows, cancelKeys, cancelLock>>
  BY DEF CancelAnswered, CancelLost, CancelDeclined
<1>4. \/ UNCHANGED <<balance, refunds>>
      \/ /\ refunds[p][k] = NoRefund
         /\ balance[p] >= cancels[r].amount
         /\ balance' = [balance EXCEPT ![p] = @ - cancels[r].amount]
         /\ refunds' = [refunds EXCEPT ![p][k] = answer]
  BY DEF CancelAnswered, CancelLost, CancelDeclined, Refund, gatewayVars
<1>5. balance[p] \in 0..Amount /\ Amount \in Nat
  BY <1>t, <1>0, AmountAssumption DEF CancelDocsOK
<1>6. balance[p] >= cancels[r].amount =>
          /\ balance[p] - cancels[r].amount \in 0..Amount
          /\ answer \in [amount : 0..Amount, left : 0..Amount]
  BY <1>0, <1>5
<1>m. CancelGoto(r, "record") /\ pc = "record" =>
          refunds'[p][k].amount = cancels[r].amount /\ k \notin cancels[r].seen
  <2>1. CASE CancelAnswered(r)
    <3>1. CancelGoto(r, IF Matches(r, refunds'[p][k]) THEN "record" ELSE "fail")
      BY <2>1 DEF CancelAnswered
    <3>2. pc = "record" => Matches(r, refunds'[p][k])
      <4>1. cancels \in [CancelRequests -> Cancel] BY <1>t DEF CancelsOK
      <4>2. cancels'[r].pc = IF Matches(r, refunds'[p][k]) THEN "record" ELSE "fail"
        BY <3>1, <4>1 DEF CancelGoto, Cancel
      <4> QED
        BY <1>2, <4>2
    <3> QED
      BY <3>2 DEF Matches
  <2>2. CASE CancelLost(r) \/ CancelDeclined(r)
    <3>1. cancels'[r].pc = "fail"
      <4>1. cancels \in [CancelRequests -> Cancel] BY <1>t DEF CancelsOK
      <4> QED
        BY <2>2, <4>1 DEF CancelLost, CancelDeclined, CancelGoto, Cancel
    <3> QED
      BY <1>2, <3>1
  <2> QED
    BY <2>1, <2>2
<1>7. /\ balance' \in [Payments -> 0..Amount]
      /\ refunds' \in [Payments -> [CancelKeys -> [amount : 0..Amount, left : 0..Amount]]]
      /\ \A x \in Payments, y \in CancelKeys :
            (x # p \/ y # k \/ refunds[x][y] # NoRefund) => refunds'[x][y] = refunds[x][y]
  <2>1. CASE UNCHANGED <<balance, refunds>>
    BY <1>t, <2>1 DEF CancelDocsOK
  <2>2. CASE /\ refunds[p][k] = NoRefund
             /\ balance[p] >= cancels[r].amount
             /\ balance' = [balance EXCEPT ![p] = @ - cancels[r].amount]
             /\ refunds' = [refunds EXCEPT ![p][k] = answer]
    <3>1. balance' \in [Payments -> 0..Amount]
      BY <1>t, <1>0, <1>6, <2>2 DEF CancelDocsOK
    <3>2. answer \in [amount : 0..Amount, left : 0..Amount]
      BY <1>6, <2>2
    <3> HIDE DEF answer
    <3>3. /\ refunds' \in [Payments -> [CancelKeys -> [amount : 0..Amount, left : 0..Amount]]]
          /\ \A x \in Payments, y \in CancelKeys : x # p \/ y # k => refunds'[x][y] = refunds[x][y]
      BY <1>t, <1>0, <2>2, <3>2, PutEntry DEF CancelDocsOK
    <3> QED
      BY <2>2, <3>1, <3>3
  <2> QED
    BY <1>4, <2>1, <2>2
<1> HIDE DEF answer
<1>8. CancelDocsOK'
  BY <1>t, <1>3, <1>7 DEF CancelDocsOK
<1>9. /\ \A t \in CancelRequests : (Running(t)' <=> Running(t))
      /\ \A t \in CancelRequests : /\ cancels'[t].payment = cancels[t].payment
                                   /\ cancels'[t].key = cancels[t].key
                                   /\ cancels'[t].seen = cancels[t].seen
                                   /\ cancels'[t].amount = cancels[t].amount
  BY <1>r, <1>2 DEF Running
<1>10. KeysAreHeld'
  BY <1>3, <1>9 DEF CancelInv, KeysAreHeld
<1>11. RecordsAreReal'
  <2>1. ASSUME NEW t \in CancelRequests, t # r, cancels[t].pc = "record"
        PROVE  /\ cancels[t].payment \in Payments /\ cancels[t].key \in CancelKeys
               /\ cancels[t].payment # p \/ cancels[t].key # k
    BY <1>t, <1>r, <2>1, CancelFields DEF CancelInv, KeysAreHeld, Running
  <2>2. ASSUME NEW t \in CancelRequests, cancels'[t].pc = "record"
        PROVE  /\ refunds'[cancels'[t].payment][cancels'[t].key].amount = cancels'[t].amount
               /\ cancels'[t].key \notin cancels'[t].seen
    <3>1. CASE t = r
      BY <1>1, <1>2, <1>m, <2>2, <3>1
    <3>2. CASE t # r
      BY <1>2, <1>7, <2>1, <2>2, <3>2 DEF CancelInv, RecordsAreReal
    <3> QED
      BY <3>1, <3>2
  <2> QED
    BY <2>2 DEF RecordsAreReal
<1>12. RecordedWasMade'
  <2> SUFFICES ASSUME NEW x \in Payments, NEW y \in CancelKeys, history[x][y] > 0
               PROVE  refunds'[x][y].amount = history[x][y]
    BY <1>3 DEF RecordedWasMade
  <2>1. refunds[x][y].amount = history[x][y] /\ history[x][y] \in 0..Amount
    BY <1>t DEF CancelInv, RecordedWasMade, CancelDocsOK
  <2>2. refunds[x][y] # NoRefund
    BY <2>1, <1>5 DEF NoRefund
  <2> QED
    BY <1>7, <2>1, <2>2
<1>13. RefundsAreTraceable'
  <2> SUFFICES ASSUME NEW x \in Payments, NEW y \in CancelKeys
               PROVE  /\ refunds'[x][y] # NoRefund /\ history[x][y] = 0 =>
                            cancelRows[x][y] \in {"pending", "failed"}
                      /\ cancelRows[x][y] = "succeeded" => history[x][y] > 0
                      /\ cancelKeys[x][y].status = "succeeded" => history[x][y] > 0
    BY <1>3 DEF RefundsAreTraceable
  <2>1. cancelRows[p][k] = "pending"
    BY <1>r DEF CancelInv, KeysAreHeld, Running
  <2> QED
    BY <1>7, <2>1 DEF CancelInv, RefundsAreTraceable
<1> QED
  BY <1>2, <1>8, <1>10, <1>11, <1>12, <1>13 DEF CancelInv

\* The second transaction gives the key up: with the refund, or as failed.
LEMMA SettleKeeps ==
    ASSUME CancelInv, NEW r \in CancelRequests, Running(r), NEW status \in {"succeeded", "failed"},
           SetCancelRow(r, status), SetCancelKey(r, status), CancelGoto(r, "release"),
           UNCHANGED <<cancelLock, balance, refunds>>,
           \/ status = "failed" /\ UNCHANGED history
           \/ /\ status = "succeeded" /\ cancels[r].pc = "record" /\ cancels[r].amount > 0
              /\ history' = [history EXCEPT ![cancels[r].payment][cancels[r].key] = cancels[r].amount]
    PROVE  CancelInv'
<1> DEFINE p == cancels[r].payment
           k == cancels[r].key
           entry == [status |-> status, want |-> cancels[r].want]
<1>t. CancelsOK /\ CancelDocsOK /\ cancels[r].pc # "idle"
  BY DEF CancelInv, Running
<1>0. /\ p \in Payments /\ k \in CancelKeys /\ cancels[r].want \in (1..Amount) \cup {Whole}
      /\ cancels[r].amount \in 0..Amount
  BY <1>t, CancelFields
<1>1. CancelsOK' /\ ~Running(r)' /\ \A t \in CancelRequests : t # r => cancels'[t] = cancels[t]
  BY <1>t, CancelGoes DEF Steps, Running
<1>2. \A t \in CancelRequests : Running(t)' =>
          /\ t # r /\ Running(t) /\ cancels'[t] = cancels[t]
          /\ cancels[t].payment \in Payments /\ cancels[t].key \in CancelKeys
          /\ cancels[t].payment # p \/ cancels[t].key # k
  <2>1. \A t \in CancelRequests : Running(t)' => t # r /\ Running(t) /\ cancels'[t] = cancels[t]
    BY <1>1 DEF Running
  <2>2. \A t \in CancelRequests : Running(t) =>
            cancels[t].payment \in Payments /\ cancels[t].key \in CancelKeys
    BY <1>t, CancelFields DEF Running
  <2> QED
    BY <2>1, <2>2 DEF CancelInv, KeysAreHeld
<1>3. entry \in [status : KeyStatus, want : (1..Amount) \cup {Whole}] /\ entry.status = status
  BY <1>0 DEF KeyStatus
<1>4. status \in RowStatus
  BY DEF RowStatus
<1>5. cancelKeys' = [cancelKeys EXCEPT ![p][k] = entry]
  BY DEF SetCancelKey
<1>6. cancelRows' = [cancelRows EXCEPT ![p][k] = status]
  BY DEF SetCancelRow
<1> HIDE DEF entry
<1>7. /\ cancelRows' \in [Payments -> [CancelKeys -> RowStatus]]
      /\ cancelRows'[p][k] = status
      /\ \A x \in Payments, y \in CancelKeys : x # p \/ y # k => cancelRows'[x][y] = cancelRows[x][y]
  BY <1>t, <1>0, <1>4, <1>6, PutEntry DEF CancelDocsOK
<1>8. /\ cancelKeys' \in [Payments -> [CancelKeys -> [status : KeyStatus,
                                                     want : (1..Amount) \cup {Whole}]]]
      /\ cancelKeys'[p][k] = entry
      /\ \A x \in Payments, y \in CancelKeys : x # p \/ y # k => cancelKeys'[x][y] = cancelKeys[x][y]
  BY <1>t, <1>0, <1>3, <1>5, PutEntry DEF CancelDocsOK
<1>9. /\ history' \in [Payments -> [CancelKeys -> 0..Amount]]
      /\ status = "succeeded" => history'[p][k] = cancels[r].amount /\ cancels[r].amount > 0
      /\ status = "failed" => history'[p][k] = history[p][k]
      /\ \A x \in Payments, y \in CancelKeys : x # p \/ y # k => history'[x][y] = history[x][y]
  <2>1. CASE status = "failed" /\ UNCHANGED history
    BY <1>t, <2>1 DEF CancelDocsOK
  <2>2. CASE /\ status = "succeeded" /\ cancels[r].amount > 0
             /\ history' = [history EXCEPT ![p][k] = cancels[r].amount]
    BY <1>t, <1>0, <2>2, PutEntry DEF CancelDocsOK
  <2> QED
    BY <2>1, <2>2
<1>10. CancelDocsOK'
  BY <1>t, <1>7, <1>8, <1>9 DEF CancelDocsOK
<1>11. KeysAreHeld'
  <2>1. ASSUME NEW t \in CancelRequests, Running(t)'
        PROVE  /\ cancels'[t] = cancels[t] /\ Running(t)
               /\ cancelKeys'[cancels[t].payment][cancels[t].key].status = "processing"
               /\ cancelRows'[cancels[t].payment][cancels[t].key] = "pending"
               /\ cancels[t].key \in cancels[t].seen <=>
                      history'[cancels[t].payment][cancels[t].key] > 0
    <3>1. /\ Running(t) /\ cancels'[t] = cancels[t]
          /\ cancels[t].payment \in Payments /\ cancels[t].key \in CancelKeys
          /\ cancels[t].payment # p \/ cancels[t].key # k
      BY <1>2, <2>1
    <3>2. /\ cancelKeys[cancels[t].payment][cancels[t].key].status = "processing"
          /\ cancelRows[cancels[t].payment][cancels[t].key] = "pending"
          /\ cancels[t].key \in cancels[t].seen <=>
                 history[cancels[t].payment][cancels[t].key] > 0
      BY <3>1 DEF CancelInv, KeysAreHeld
    <3> QED
      BY <1>7, <1>8, <1>9, <3>1, <3>2
  <2>2. ASSUME NEW t \in CancelRequests, NEW q \in CancelRequests, Running(t)', Running(q)',
               cancels'[t].payment = cancels'[q].payment, cancels'[t].key = cancels'[q].key
        PROVE  t = q
    BY <2>1, <2>2 DEF CancelInv, KeysAreHeld
  <2> QED
    BY <2>1, <2>2 DEF KeysAreHeld
<1>12. RecordsAreReal'
  BY <1>2 DEF CancelInv, RecordsAreReal, Running
<1>13. status = "succeeded" => refunds[p][k].amount = cancels[r].amount
  BY DEF CancelInv, RecordsAreReal
<1>14. RecordedWasMade'
  <2> SUFFICES ASSUME NEW x \in Payments, NEW y \in CancelKeys, history'[x][y] > 0
               PROVE  refunds[x][y].amount = history'[x][y]
    BY DEF RecordedWasMade
  <2>1. CASE x = p /\ y = k
    BY <1>9, <1>13, <2>1 DEF CancelInv, RecordedWasMade
  <2>2. CASE x # p \/ y # k
    BY <1>9, <2>2 DEF CancelInv, RecordedWasMade
  <2> QED
    BY <2>1, <2>2
<1>15. RefundsAreTraceable'
  <2> SUFFICES ASSUME NEW x \in Payments, NEW y \in CancelKeys
               PROVE  /\ refunds[x][y] # NoRefund /\ history'[x][y] = 0 =>
                            cancelRows'[x][y] \in {"pending", "failed"}
                      /\ cancelRows'[x][y] = "succeeded" => history'[x][y] > 0
                      /\ cancelKeys'[x][y].status = "succeeded" => history'[x][y] > 0
    BY DEF RefundsAreTraceable
  <2>1. CASE x = p /\ y = k
    BY <1>0, <1>3, <1>7, <1>8, <1>9, <2>1
  <2>2. CASE x # p \/ y # k
    BY <1>7, <1>8, <1>9, <2>2 DEF CancelInv, RefundsAreTraceable
  <2> QED
    BY <2>1, <2>2
<1> QED
  BY <1>1, <1>10, <1>11, <1>12, <1>14, <1>15 DEF CancelInv

\* What the second transaction does to the orders and to the history.
LEMMA RecordRefunds ==
    ASSUME TypeOK, CancelInv, NEW r \in CancelRequests, cancels[r].pc = "record",
           CanRefund(cancels[r].payment, cancels[r].amount), RecordRefund(r)
    PROVE  \E p \in Payments, left \in 0..Amount : Refunds(p, left)
<1> DEFINE p == cancels[r].payment
           left == payments[p].cancelable - cancels[r].amount
<1>1. p \in Payments
  BY CancelFields DEF CancelInv
<1>2. payments[p].cancelable \in 0..Amount /\ Amount \in Nat
  BY <1>1, AmountAssumption DEF TypeOK, OrdersOK
<1>3. cancels[r].amount \in 1..payments[p].cancelable /\ payments[p].status \in Refundable
  BY DEF CanRefund
<1>4. left \in 0..Amount /\ left < payments[p].cancelable
  BY <1>2, <1>3
<1>5. /\ payments' = [payments EXCEPT ![p] =
             [status |-> IF left = 0 THEN "canceled" ELSE "partial_canceled",
              checkout |-> CheckoutOf(p), cancelable |-> left]]
      /\ IF left = 0 THEN RestoreSold(CheckoutOf(p)) ELSE UNCHANGED stockVars
      /\ UNCHANGED <<checkouts, invoices, due, orderKeys, confirmKeys, lockVars, confirms, charge>>
  BY DEF RecordRefund
<1> HIDE DEF left
<1>6. Refunds(p, left)
  BY <1>3, <1>4, <1>5 DEF Refunds
<1> QED
  BY <1>1, <1>4, <1>6

\* The record of a refund keeps both invariants.
LEMMA RecordKeeps ==
    ASSUME TypeOK, CancelInv, NEW r \in CancelRequests, CancelRecord(r)
    PROVE  CancelInv'
<1>1. cancels[r].pc = "record" /\ CancelGoto(r, "release") /\ UNCHANGED <<cancelLock, balance, refunds>>
  BY DEF CancelRecord, gatewayVars
<1>t. CancelsOK /\ cancels[r].pc # "idle" /\ Running(r)
  BY <1>1 DEF CancelInv, Running
<1>2. CASE CanRefund(cancels[r].payment, cancels[r].amount) /\ RecordRefund(r)
  <2>1. payments[cancels[r].payment].cancelable \in 0..Amount /\ Amount \in Nat
    BY <1>t, CancelFields, AmountAssumption DEF TypeOK, OrdersOK
  <2>2. cancels[r].amount > 0
    BY <1>2, <2>1 DEF CanRefund
  <2>3. SetCancelRow(r, "succeeded") /\ SetCancelKey(r, "succeeded")
        /\ history' = [history EXCEPT ![cancels[r].payment][cancels[r].key] = cancels[r].amount]
    BY <1>2 DEF RecordRefund
  <2> QED
    BY <1>1, <1>t, <2>2, <2>3, SettleKeeps
<1>3. CASE UNCHANGED <<vars, history, cancelRows, cancelKeys>>
  <2>1. CancelsOK' /\ ~Running(r)' /\ \A t \in CancelRequests : t # r => cancels'[t] = cancels[t]
    BY <1>1, <1>t, CancelGoes DEF Steps, Running
  <2>2. cancelLock' \in [Payments -> CancelRequests \cup {Nobody, Gone}]
    BY <1>1 DEF CancelInv, CancelDocsOK
  <2> QED
    BY <1>1, <1>3, <2>1, <2>2, OutsideKeeps
<1> QED
  BY <1>2, <1>3 DEF CancelRecord

\* A failed request keeps its row and gives its key up.
LEMMA FailKeeps ==
    ASSUME CancelInv, NEW r \in CancelRequests, CancelFail(r)
    PROVE  CancelInv'
<1>1. Running(r) /\ UNCHANGED <<history, cancelLock, balance, refunds>>
      /\ SetCancelRow(r, "failed") /\ SetCancelKey(r, "failed") /\ CancelGoto(r, "release")
  BY DEF CancelFail, Running, gatewayVars
<1> QED
  BY <1>1, SettleKeeps

\* Starting, and leaving in whatever way.
LEMMA LeavesKeep ==
    ASSUME CancelInv, NEW r \in CancelRequests,
           \/ \E p \in Payments, k \in CancelKeys, want \in Wants : CancelStart(r, p, k, want)
           \/ CancelNotPrepared(r) \/ CancelAbort(r) \/ CancelRelease(r) \/ CancelCrash(r)
    PROVE  CancelInv'
<1>t. CancelsOK /\ CancelDocsOK
  BY DEF CancelInv
<1>u. UNCHANGED <<history, cancelRows, cancelKeys, balance, refunds>>
  BY DEF CancelStart, CancelNotPrepared, CancelAbort, CancelRelease, CancelCrash, gatewayVars
<1>1. CASE CancelNotPrepared(r) \/ CancelAbort(r)
  <2>1. cancels[r].pc # "idle" /\ CancelGoto(r, "release") /\ UNCHANGED cancelLock
    BY <1>1 DEF CancelNotPrepared, CancelAbort
  <2>2. CancelsOK' /\ ~Running(r)' /\ \A t \in CancelRequests : t # r => cancels'[t] = cancels[t]
    BY <1>t, <2>1, CancelGoes DEF Steps, Running
  <2> QED
    BY <1>t, <1>u, <2>1, <2>2, OutsideKeeps DEF CancelDocsOK
<1>2. CASE CancelRelease(r) \/ CancelCrash(r)
  <2>1. PICK owner \in {Nobody, Gone} : GiveCancelLock(r, owner)
    BY <1>2 DEF CancelRelease, CancelCrash
  <2>2. cancels' = [cancels EXCEPT ![r] = CancelIdle]
    BY <1>2 DEF CancelRelease, CancelCrash
  <2>3. CancelIdle \in Cancel /\ CancelIdle.pc = "idle"
    BY AmountAssumption DEF CancelIdle, Cancel, Steps
  <2>4. CancelsOK' /\ cancels'[r] = CancelIdle
        /\ \A t \in CancelRequests : t # r => cancels'[t] = cancels[t]
    BY <1>t, <2>2, <2>3, CancelMoves DEF Started
  <2>5. ~Running(r)'
    BY <2>3, <2>4 DEF Running
  <2>6. cancelLock' \in [Payments -> CancelRequests \cup {Nobody, Gone}]
    BY <1>t, <2>1 DEF CancelDocsOK, GiveCancelLock
  <2> QED
    BY <1>u, <2>4, <2>5, <2>6, OutsideKeeps
<1>3. ASSUME NEW p \in Payments, NEW k \in CancelKeys, NEW want \in Wants, CancelStart(r, p, k, want)
      PROVE  CancelInv'
  <2> DEFINE c == [pc |-> "prepare", payment |-> p, key |-> k, want |-> want,
                   amount |-> 0, left |-> 0, seen |-> {}]
  <2>1. c \in Cancel /\ Started(c) /\ c.pc = "prepare"
    BY WantsAssumption, AmountAssumption DEF Cancel, Started, Steps
  <2>2. cancels' = [cancels EXCEPT ![r] = c]
    BY <1>3 DEF CancelStart
  <2> HIDE DEF c
  <2>3. CancelsOK' /\ cancels'[r] = c
        /\ \A t \in CancelRequests : t # r => cancels'[t] = cancels[t]
    BY <1>t, <2>1, <2>2, CancelMoves
  <2>4. ~Running(r)'
    BY <2>1, <2>3 DEF Running
  <2>5. cancelLock' \in [Payments -> CancelRequests \cup {Nobody, Gone}]
    BY <1>t, <1>3 DEF CancelDocsOK, CancelStart
  <2> QED
    BY <1>u, <2>3, <2>4, <2>5, OutsideKeeps
<1> QED
  BY <1>1, <1>2, <1>3

\* A lock lapses; a key that no running request holds expires.
LEMMA LapsesKeep ==
    ASSUME CancelInv,
           \/ \E p \in Payments : CancelLockLapse(p)
           \/ \E p \in Payments, k \in CancelKeys : CancelKeyTtl(p, k)
    PROVE  CancelInv'
<1>t. CancelsOK /\ CancelDocsOK
  BY DEF CancelInv
<1>1. UNCHANGED <<history, cancelRows, cancels, balance, refunds>>
  BY DEF CancelLockLapse, CancelKeyTtl, gatewayVars
<1>2. CancelsOK' /\ RecordsAreReal' /\ RecordedWasMade'
  BY <1>1 DEF CancelInv, CancelsOK, RecordsAreReal, RecordedWasMade, Started
<1>3. ASSUME NEW p \in Payments, CancelLockLapse(p) PROVE CancelInv'
  <2>1. UNCHANGED cancelKeys /\ cancelLock' \in [Payments -> CancelRequests \cup {Nobody, Gone}]
    BY <1>t, <1>3 DEF CancelLockLapse, CancelDocsOK
  <2>2. CancelDocsOK'
    BY <1>t, <1>1, <2>1 DEF CancelDocsOK
  <2>3. KeysAreHeld' /\ RefundsAreTraceable'
    BY <1>1, <2>1 DEF CancelInv, KeysAreHeld, Running, RefundsAreTraceable
  <2> QED
    BY <1>2, <2>2, <2>3 DEF CancelInv
<1>4. ASSUME NEW p \in Payments, NEW k \in CancelKeys, CancelKeyTtl(p, k) PROVE CancelInv'
  <2>1. /\ UNCHANGED cancelLock
        /\ cancelKeys' = [cancelKeys EXCEPT ![p][k] = NoCancelEntry]
        /\ \A r \in CancelRequests : Running(r) => cancels[r].payment # p \/ cancels[r].key # k
    BY <1>4 DEF CancelKeyTtl, Running
  <2>2. NoCancelEntry \in [status : KeyStatus, want : (1..Amount) \cup {Whole}]
        /\ NoCancelEntry.status = "none"
    BY DEF NoCancelEntry, KeyStatus
  <2>3. /\ cancelKeys' \in [Payments -> [CancelKeys -> [status : KeyStatus,
                                                       want : (1..Amount) \cup {Whole}]]]
        /\ cancelKeys'[p][k] = NoCancelEntry
        /\ \A x \in Payments, y \in CancelKeys : x # p \/ y # k => cancelKeys'[x][y] = cancelKeys[x][y]
    BY <1>t, <2>1, <2>2, PutEntry DEF CancelDocsOK
  <2>4. CancelDocsOK'
    BY <1>t, <1>1, <2>1, <2>3 DEF CancelDocsOK
  <2>5. \A r \in CancelRequests : Running(r) =>
            /\ cancels[r].payment \in Payments /\ cancels[r].key \in CancelKeys
            /\ cancels[r].payment # p \/ cancels[r].key # k
    BY <1>t, <2>1, CancelFields DEF Running
  <2>6. KeysAreHeld'
    BY <1>1, <2>3, <2>5 DEF CancelInv, KeysAreHeld, Running
  <2>7. RefundsAreTraceable'
    <3> SUFFICES ASSUME NEW x \in Payments, NEW y \in CancelKeys
                 PROVE  cancelKeys'[x][y].status = "succeeded" => history[x][y] > 0
      BY <1>1 DEF CancelInv, RefundsAreTraceable
    <3>1. CASE x = p /\ y = k
      BY <2>2, <2>3, <3>1
    <3>2. CASE x # p \/ y # k
      BY <2>3, <3>2 DEF CancelInv, RefundsAreTraceable
    <3> QED
      BY <3>1, <3>2
  <2> QED
    BY <1>2, <2>4, <2>6, <2>7 DEF CancelInv
<1> QED
  BY <1>3, <1>4

-----------------------------------------------------------------------------
(* The steps together.                                                     *)

\* A cancellation leaves the orders and the history alone, or records a refund.
LEMMA CancelEffects ==
    ASSUME TypeOK, CancelInv, CancelAction
    PROVE  \/ UNCHANGED <<vars, history>>
           \/ \E r \in CancelRequests :
                 /\ cancels[r].pc = "record"
                 /\ CanRefund(cancels[r].payment, cancels[r].amount)
                 /\ RecordRefund(r)
<1>1. CASE \E r \in CancelRequests, p \in Payments, k \in CancelKeys, want \in Wants :
              CancelStart(r, p, k, want)
  BY <1>1 DEF CancelStart
<1>2. ASSUME NEW r \in CancelRequests, CancelStep(r) \/ CancelAbort(r) \/ CancelCrash(r)
      PROVE  \/ UNCHANGED <<vars, history>>
             \/ /\ cancels[r].pc = "record"
                /\ CanRefund(cancels[r].payment, cancels[r].amount)
                /\ RecordRefund(r)
  BY <1>2 DEF CancelStep, CancelAbort, CancelCrash, CancelPrepare, CancelNotPrepared,
              CancelAnswered, CancelLost, CancelDeclined, CancelRecord, CancelFail, CancelRelease
<1>3. CASE \E p \in Payments : CancelLockLapse(p)
  BY <1>3 DEF CancelLockLapse
<1>4. CASE \E p \in Payments, k \in CancelKeys : CancelKeyTtl(p, k)
  BY <1>4 DEF CancelKeyTtl
<1> QED
  BY <1>1, <1>2, <1>3, <1>4 DEF CancelAction

\* A cancellation keeps the invariant of its own documents.
LEMMA ActionKeeps ==
    ASSUME TypeOK, CancelInv, CancelAction
    PROVE  CancelInv'
<1>1. ASSUME NEW r \in CancelRequests, CancelStep(r) \/ CancelAbort(r) \/ CancelCrash(r)
      PROVE  CancelInv'
  <2>1. CASE CancelPrepare(r)
    BY <2>1, PrepareKeeps
  <2>2. CASE CancelAnswered(r) \/ CancelLost(r) \/ CancelDeclined(r)
    BY <2>2, CallKeeps
  <2>3. CASE CancelRecord(r)
    BY <2>3, RecordKeeps
  <2>4. CASE CancelFail(r)
    BY <2>4, FailKeeps
  <2>5. CASE CancelNotPrepared(r) \/ CancelAbort(r) \/ CancelRelease(r) \/ CancelCrash(r)
    BY <2>5, LeavesKeep
  <2> QED
    BY <1>1, <2>1, <2>2, <2>3, <2>4, <2>5 DEF CancelStep
<1>2. ASSUME NEW r \in CancelRequests,
             \E p \in Payments, k \in CancelKeys, want \in Wants : CancelStart(r, p, k, want)
      PROVE  CancelInv'
  BY <1>2, LeavesKeep
<1>3. CASE \/ \E p \in Payments : CancelLockLapse(p)
           \/ \E p \in Payments, k \in CancelKeys : CancelKeyTtl(p, k)
  BY <1>3, LapsesKeep
<1> QED
  BY <1>1, <1>2, <1>3 DEF CancelAction

\* What the stock invariant speaks of.
LEMMA StockReadsOrders == StockInv /\ UNCHANGED vars => StockInv'
<1> SUFFICES ASSUME StockInv, UNCHANGED vars PROVE StockInv'
  OBVIOUS
<1>1. [Next]_vars
  OBVIOUS
<1> QED
  BY <1>1, NextType, NextTracks, NextStock DEF StockInv

\* What the invariant of the cancellations speaks of.
LEMMA CancelReadsDocs ==
    CancelInv /\ UNCHANGED <<history, cancelRows, cancelKeys, cancelLock, cancels, balance, refunds>>
        => CancelInv'
<1> SUFFICES ASSUME CancelInv,
                    UNCHANGED <<history, cancelRows, cancelKeys, cancelLock, cancels, balance, refunds>>
             PROVE  CancelInv'
  OBVIOUS
<1>1. CancelDocsOK' /\ CancelsOK'
  BY DEF CancelInv, CancelDocsOK, CancelsOK, Started
<1>2. KeysAreHeld' /\ RecordsAreReal'
  BY DEF CancelInv, KeysAreHeld, RecordsAreReal, Running
<1>3. RecordedWasMade' /\ RefundsAreTraceable'
  BY DEF CancelInv, RecordedWasMade, RefundsAreTraceable
<1> QED
  BY <1>1, <1>2, <1>3 DEF CancelInv

\* A step of the composition is a step of the orders, of a cancellation, or a
\* stutter.
LEMMA CancelSteps ==
    [CancelNext]_allVars => ([Next]_vars /\ UNCHANGED cancelVars) \/ CancelAction
BY DEF CancelNext, allVars

\* The types and what the cancellations keep survive every step.
LEMMA CancelKeepsTypes ==
    TypeOK /\ CancelInv /\ [CancelNext]_allVars => TypeOK' /\ CancelInv'
<1> SUFFICES ASSUME TypeOK, CancelInv, [CancelNext]_allVars PROVE TypeOK' /\ CancelInv'
  OBVIOUS
<1>1. CASE [Next]_vars /\ UNCHANGED cancelVars
  <2>1. TypeOK'
    BY <1>1, NextType
  <2>2. UNCHANGED <<history, cancelRows, cancelKeys, cancelLock, cancels, balance, refunds>>
    BY <1>1 DEF cancelVars
  <2> QED
    BY <2>1, <2>2, CancelReadsDocs
<1>2. CASE CancelAction
  <2>1. CancelInv'
    BY <1>2, ActionKeeps
  <2>2. UNCHANGED vars => TypeOK'
    BY NextType
  <2>3. CASE \E r \in CancelRequests :
                /\ cancels[r].pc = "record"
                /\ CanRefund(cancels[r].payment, cancels[r].amount)
                /\ RecordRefund(r)
    BY <2>1, <2>3, RecordRefunds, RefundTypes
  <2> QED
    BY <1>2, <2>1, <2>2, <2>3, CancelEffects
<1> QED
  BY <1>1, <1>2, CancelSteps

\* So does the stock invariant.
LEMMA CancelKeepsAll ==
    StockInv /\ CancelInv /\ [CancelNext]_allVars => StockInv' /\ CancelInv'
<1> SUFFICES ASSUME StockInv, CancelInv, [CancelNext]_allVars PROVE StockInv' /\ CancelInv'
  OBVIOUS
<1>t. TypeOK
  BY DEF StockInv
<1>1. CancelInv'
  BY <1>t, CancelKeepsTypes
<1>2. [Next]_vars => StockInv'
  BY NextType, NextTracks, NextStock DEF StockInv
<1>3. CASE \E r \in CancelRequests :
              /\ cancels[r].pc = "record"
              /\ CanRefund(cancels[r].payment, cancels[r].amount)
              /\ RecordRefund(r)
  BY <1>t, <1>1, <1>3, RecordRefunds, RefundStock
<1> QED
  BY <1>t, <1>1, <1>2, <1>3, StockReadsOrders, CancelSteps, CancelEffects

\* What no step does to a refund.
RefundsStayPut ==
    \A p \in Payments :
        /\ \A k \in CancelKeys : history[p][k] > 0 => history'[p][k] = history[p][k]
        /\ payments[p].status \in Settled => payments'[p].cancelable <= payments[p].cancelable
        /\ payments[p].status = "canceled" => payments'[p] = payments[p]

\* The orders never touch a payment that is settled.
LEMMA OrdersLeaveSettled ==
    ASSUME TypeOK, [Next]_vars, NEW q \in Payments, payments[q].status \in Settled
    PROVE  payments'[q] = payments[q]
<1>1. ASSUME NEW p \in Payments, NEW c \in Checkouts, Opens(p, c) PROVE payments'[q] = payments[q]
  <2>1. payments[p].status = "none" /\ \A x \in Payments \ {p} : payments'[x] = payments[x]
    BY <1>1 DEF Opens, TypeOK, OrdersOK
  <2> QED
    BY <2>1 DEF Settled
<1>2. ASSUME NEW p \in Payments, NEW status \in Retryable, Closes(p, status)
      PROVE  payments'[q] = payments[q]
  <2>1. payments[p].status = "ready" /\ \A x \in Payments \ {p} : payments'[x] = payments[x]
    BY <1>2 DEF Closes, Close, TypeOK, OrdersOK
  <2> QED
    BY <2>1 DEF Settled
<1>3. ASSUME NEW p \in Payments, Sells(p) PROVE payments'[q] = payments[q]
  <2>1. payments[p].status = "ready" /\ \A x \in Payments \ {p} : payments'[x] = payments[x]
    BY <1>3 DEF Sells, TypeOK, OrdersOK
  <2> QED
    BY <2>1 DEF Settled
<1> QED
  BY <1>1, <1>2, <1>3, Effects DEF orderVars

\* A refund is recorded under a key that had none, and takes money off.
LEMMA RecordStaysPut ==
    ASSUME TypeOK, CancelInv, NEW r \in CancelRequests, cancels[r].pc = "record",
           CanRefund(cancels[r].payment, cancels[r].amount), RecordRefund(r)
    PROVE  RefundsStayPut
<1> DEFINE p == cancels[r].payment
           k == cancels[r].key
<1>1. p \in Payments /\ k \in CancelKeys /\ cancels[r].amount \in 0..Amount
  BY CancelFields DEF CancelInv
<1>2. history \in [Payments -> [CancelKeys -> 0..Amount]] /\ Amount \in Nat
  BY AmountAssumption DEF CancelInv, CancelDocsOK
<1>3. ~(history[p][k] > 0)
  BY DEF CancelInv, KeysAreHeld, RecordsAreReal, Running
<1>4. history' = [history EXCEPT ![p][k] = cancels[r].amount]
  BY DEF RecordRefund
<1>5. \A x \in Payments, y \in CancelKeys : x # p \/ y # k => history'[x][y] = history[x][y]
  BY <1>1, <1>2, <1>4, PutEntry
<1>6. PICK q \in Payments, left \in 0..Amount : Refunds(q, left)
  BY RecordRefunds
<1>7. /\ payments'[q].cancelable = left /\ left < payments[q].cancelable
      /\ payments[q].status # "canceled"
      /\ \A x \in Payments : x # q => payments'[x] = payments[x]
  BY <1>6, RefundWrites DEF Refunds, Refundable
<1>8. \A x \in Payments : payments[x].cancelable \in 0..Amount
  BY DEF TypeOK, OrdersOK
<1>9. \A x \in Payments : /\ payments'[x].cancelable <= payments[x].cancelable
                          /\ payments[x].status = "canceled" => payments'[x] = payments[x]
  BY <1>2, <1>7, <1>8
<1> QED
  BY <1>3, <1>5, <1>9 DEF RefundsStayPut

\* No step takes a refund back.
LEMMA CancelStaysPut == TypeOK /\ CancelInv /\ [CancelNext]_allVars => RefundsStayPut
<1> SUFFICES ASSUME TypeOK, CancelInv, [CancelNext]_allVars PROVE RefundsStayPut
  OBVIOUS
<1>1. Amount \in Nat /\ \A p \in Payments : payments[p].cancelable \in 0..Amount
  BY AmountAssumption DEF TypeOK, OrdersOK
<1>2. CASE [Next]_vars /\ UNCHANGED cancelVars
  <2>1. history' = history
    BY <1>2 DEF cancelVars
  <2>2. \A p \in Payments : payments[p].status \in Settled => payments'[p] = payments[p]
    BY <1>2, OrdersLeaveSettled
  <2> QED
    BY <1>1, <2>1, <2>2 DEF RefundsStayPut, Settled
<1>3. CASE UNCHANGED <<vars, history>>
  <2>1. payments' = payments /\ history' = history
    BY <1>3 DEF vars
  <2> QED
    BY <1>1, <2>1 DEF RefundsStayPut
<1> QED
  BY <1>2, <1>3, CancelSteps, CancelEffects, RecordStaysPut

\* To the ledger every step is a step of the ledger or a stutter.
LEMMA CancelLedger ==
    StockInv /\ CancelInv /\ [CancelNext]_allVars =>
        [Ledger!Next]_([c \in Checkouts |-> Position(c)])
<1> SUFFICES ASSUME StockInv, CancelInv, [CancelNext]_allVars
             PROVE  [Ledger!Next]_([c \in Checkouts |-> Position(c)])
  OBVIOUS
<1>1. CASE [Next]_vars
  BY <1>1, NextLedger
<1>2. CASE UNCHANGED vars
  BY <1>2, NextLedger
<1>3. ASSUME NEW r \in CancelRequests, cancels[r].pc = "record",
             CanRefund(cancels[r].payment, cancels[r].amount), RecordRefund(r)
      PROVE  [Ledger!Next]_([c \in Checkouts |-> Position(c)])
  BY <1>3, RecordRefunds, RefundLedger DEF StockInv
<1> QED
  BY <1>1, <1>2, <1>3, CancelSteps, CancelEffects DEF StockInv

\* The types of orders and cancellations.
THEOREM CancelTypeCorrect == CancelSpec => []CancelTypeOK
<1>1. StockInv /\ CancelInv => CancelTypeOK
  BY CancelTypesSplit DEF StockInv, CancelInv
<1> QED
  BY <1>1, CancelInitInv, CancelKeepsAll, PTL DEF CancelSpec

\* A refund the gateway made and the service did not record leaves a row for
\* the operators, and a stored success always has its refund, whatever lock
\* lapses and whatever process dies.
THEOREM RefundsTraced == CancelSpec => []RefundsAreTraceable
<1>1. CancelInv => RefundsAreTraceable
  BY DEF CancelInv
<1> QED
  BY <1>1, CancelInitInv, CancelKeepsAll, PTL DEF CancelSpec

\* Every recorded refund was made by the gateway, for the recorded amount.
THEOREM RecordedRefundsWereMade == CancelSpec => []RecordedWasMade
<1>1. CancelInv => RecordedWasMade
  BY DEF CancelInv
<1> QED
  BY <1>1, CancelInitInv, CancelKeepsAll, PTL DEF CancelSpec

\* What was refunded stays refunded: no entry of the history changes, and no
\* payment gets cancelable money back.
THEOREM RefundsStayFinal == CancelSpec => RefundsAreFinal
<1>1. StockInv /\ CancelInv /\ [CancelNext]_allVars => [RefundsStayPut]_allVars
  BY CancelStaysPut DEF StockInv
<1>2. RefundsAreFinal <=> [][RefundsStayPut]_allVars
  BY PTL DEF RefundsAreFinal, RefundsStayPut
<1> QED
  BY <1>1, <1>2, CancelInitInv, CancelKeepsAll, PTL DEF CancelSpec

\* With refunds beside orders and confirmations every SKU still counts exactly
\* the units that are held and owned, and never more than it has.
THEOREM StockCountedWithRefunds == CancelSpec => []StockExact
<1>1. StockInv => StockExact
  BY DEF StockInv
<1> QED
  BY <1>1, CancelInitInv, CancelKeepsAll, PTL DEF CancelSpec

\* With refunds the order flow is still a stock ledger: a full refund returns
\* the units of a purchase once, a partial one keeps them sold.
THEOREM CancelsImplementLedger == CancelSpec => LedgerSpec
<1>1. CancelInit => Ledger!Init
  BY InitLedger DEF CancelInit
<1> QED
  BY <1>1, CancelInitInv, CancelKeepsAll, CancelLedger, PTL DEF CancelSpec, LedgerSpec, Ledger!Spec

-----------------------------------------------------------------------------
(* Money: what is recorded, what was given back, and what is left.         *)

\* What the gateway gave back of a payment.
GivenBack(p) == Total([k \in CancelKeys |-> refunds[p][k].amount], CancelKeys)

\* The documents and the gateway agree on a payment: nothing moved before the
\* sale, and afterwards both count down from its price.
MoneyOf(p) ==
    /\ payments[p].status \notin Settled =>
          \A k \in CancelKeys : history[p][k] = 0 /\ refunds[p][k] = NoRefund
    /\ payments[p].status \in Settled => payments[p].cancelable = Amount - RefundedAmount(p)
    /\ balance[p] = Amount - GivenBack(p)

\* A cancellation past its first transaction works on a sale.
RunsOnSales ==
    \A r \in CancelRequests : Running(r) => payments[cancels[r].payment].status \in Settled

MoneyInv == RunsOnSales /\ \A p \in Payments : MoneyOf(p)

\* The two tables of a payment as functions with sums.
LEMMA MoneyTypes ==
    ASSUME CancelDocsOK, NEW p \in Payments
    PROVE  /\ IsFiniteSet(CancelKeys) /\ Amount \in Nat /\ Amount > 0
           /\ history[p] \in [CancelKeys -> Int]
           /\ \A k \in CancelKeys : history[p][k] \in 0..Amount /\ refunds[p][k].amount \in 0..Amount
           /\ [k \in CancelKeys |-> refunds[p][k].amount] \in [CancelKeys -> Int]
<1>1. /\ \A k \in CancelKeys : history[p][k] \in 0..Amount /\ refunds[p][k].amount \in 0..Amount
      /\ history[p] \in [CancelKeys -> 0..Amount]
  BY DEF CancelDocsOK
<1>2. Amount \in Nat /\ Amount > 0 /\ IsFiniteSet(CancelKeys)
  BY AmountAssumption, CancelAssumption
<1> QED
  BY <1>1, <1>2

\* What was recorded is the sum of the history.
LEMMA RefundedIs ==
    ASSUME NEW p \in Payments
    PROVE  /\ RefundedAmount(p) = Total(history[p], CancelKeys)
           /\ RefundedAmount(p)' = Total(history'[p], CancelKeys)
<1>1. RefundedAmount(p) = Total(history[p], CancelKeys)
  BY DEF RefundedAmount, Total
<1>2. (RefundedAmount(p) = Total(history[p], CancelKeys))'
  BY <1>1, PTL
<1> QED
  BY <1>1, <1>2

\* A payment whose documents and whose table at the gateway stay keeps agreeing.
LEMMA MoneyStays ==
    ASSUME NEW p \in Payments, MoneyOf(p), payments'[p] = payments[p],
           history' = history, refunds' = refunds, balance' = balance
    PROVE  MoneyOf(p)'
BY RefundedIs DEF MoneyOf, GivenBack

\* So does one that changes without being a sale before or after.
LEMMA MoneyWaits ==
    ASSUME NEW p \in Payments, MoneyOf(p),
           payments[p].status \notin Settled, payments'[p].status \notin Settled,
           history' = history, refunds' = refunds, balance' = balance
    PROVE  MoneyOf(p)'
BY DEF MoneyOf, GivenBack

\* A sale starts with its whole price.
LEMMA MoneySold ==
    ASSUME CancelDocsOK, NEW p \in Payments, MoneyOf(p),
           payments[p].status \notin Settled,
           payments'[p].status = "paid", payments'[p].cancelable = Amount,
           history' = history, refunds' = refunds, balance' = balance
    PROVE  MoneyOf(p)'
<1>1. RefundedAmount(p)' = 0
  <2>1. \A k \in CancelKeys : history[p][k] = 0
    BY DEF MoneyOf
  <2>2. Total(history[p], CancelKeys) = 0
    BY <2>1, MoneyTypes, TotalOfZeros
  <2> QED
    BY <2>2, RefundedIs
<1>2. GivenBack(p)' = GivenBack(p)
  BY DEF GivenBack
<1>3. Amount \in Nat /\ Amount > 0
  BY AmountAssumption
<1> QED
  BY <1>1, <1>2, <1>3 DEF MoneyOf, Settled

\* The orders sell, and touch nothing that was refunded.
LEMMA OrdersMoney ==
    ASSUME TypeOK, CancelDocsOK, [Next]_vars, NEW p \in Payments, MoneyOf(p),
           history' = history, refunds' = refunds, balance' = balance
    PROVE  MoneyOf(p)'
<1>1. CASE payments[p].status \in Settled
  BY <1>1, OrdersLeaveSettled, MoneyStays
<1>2. CASE payments[p].status \notin Settled
  <2>1. ASSUME NEW q \in Payments, NEW c \in Checkouts, Opens(q, c) PROVE MoneyOf(p)'
    <3>1. /\ payments'[q].status = "ready"
          /\ \A x \in Payments \ {q} : payments'[x] = payments[x]
      BY <2>1 DEF Opens, TypeOK, OrdersOK
    <3> QED
      BY <1>2, <3>1, MoneyStays, MoneyWaits DEF Settled
  <2>2. ASSUME NEW q \in Payments, NEW status \in Retryable, Closes(q, status)
        PROVE  MoneyOf(p)'
    <3>1. /\ payments'[q].status = status
          /\ \A x \in Payments \ {q} : payments'[x] = payments[x]
      BY <2>2 DEF Closes, Close, TypeOK, OrdersOK
    <3> QED
      BY <1>2, <3>1, MoneyStays, MoneyWaits DEF Settled, Retryable
  <2>3. ASSUME NEW q \in Payments, Sells(q) PROVE MoneyOf(p)'
    <3>1. /\ payments'[q].status = "paid" /\ payments'[q].cancelable = Amount
          /\ \A x \in Payments \ {q} : payments'[x] = payments[x]
      BY <2>3 DEF Sells, TypeOK, OrdersOK
    <3> QED
      BY <1>2, <3>1, MoneyStays, MoneySold
  <2>4. CASE UNCHANGED orderVars
    BY <2>4, MoneyStays DEF orderVars
  <2> QED
    BY <2>1, <2>2, <2>3, <2>4, Effects
<1> QED
  BY <1>1, <1>2

\* A refund is recorded: what is left and what was recorded move by the same amount.
LEMMA RecordMoney ==
    ASSUME TypeOK, CancelInv, NEW r \in CancelRequests, cancels[r].pc = "record",
           CanRefund(cancels[r].payment, cancels[r].amount), RecordRefund(r),
           refunds' = refunds, balance' = balance, NEW p \in Payments, MoneyOf(p)
    PROVE  MoneyOf(p)'
<1> DEFINE q == cancels[r].payment
           k == cancels[r].key
           a == cancels[r].amount
<1>t. CancelsOK /\ CancelDocsOK /\ cancels[r].pc # "idle" /\ Running(r)
  BY DEF CancelInv, Running
<1>0. q \in Payments /\ k \in CancelKeys /\ a \in 0..Amount
  BY <1>t, CancelFields
<1>1. payments[q].cancelable \in 0..Amount /\ Amount \in Nat
  BY <1>0, AmountAssumption DEF TypeOK, OrdersOK
<1>2. a \in 1..payments[q].cancelable /\ payments[q].status \in Refundable
  BY DEF CanRefund
<1>3. history[q][k] = 0
  <2>1. ~(history[q][k] > 0)
    BY <1>t DEF CancelInv, KeysAreHeld, RecordsAreReal
  <2> QED
    BY <2>1, <1>0, <1>t, MoneyTypes
<1>4. history' = [history EXCEPT ![q][k] = a]
  BY DEF RecordRefund
<1>5. /\ history' \in [Payments -> [CancelKeys -> 0..Amount]] /\ history'[q][k] = a
      /\ \A x \in Payments, y \in CancelKeys : x # q \/ y # k => history'[x][y] = history[x][y]
  BY <1>0, <1>t, <1>4, PutEntry DEF CancelDocsOK
<1>6. CASE p = q
  <2> DEFINE left == payments[q].cancelable - a
  <2>1. payments' = [payments EXCEPT ![q] =
              [status |-> IF left = 0 THEN "canceled" ELSE "partial_canceled",
               checkout |-> CheckoutOf(q), cancelable |-> left]]
    BY DEF RecordRefund
  <2>2. DOMAIN payments = Payments
    BY DEF TypeOK, OrdersOK
  <2>3. /\ payments'[q].status = (IF left = 0 THEN "canceled" ELSE "partial_canceled")
        /\ payments'[q].cancelable = left
    BY <1>0, <2>1, <2>2
  <2>4. left \in 0..Amount /\ left # Amount
    BY <1>1, <1>2
  <2>5. RefundedAmount(p)' = RefundedAmount(p) + a /\ RefundedAmount(p) \in Int
    <3>1. history[q] \in [CancelKeys -> Int] /\ history'[q] \in [CancelKeys -> Int]
      BY <1>0, <1>t, <1>5, MoneyTypes
    <3>2. \A j \in CancelKeys : j # k => history'[q][j] = history[q][j]
      BY <1>0, <1>5
    <3>3. /\ Total(history[q], CancelKeys) \in Int
          /\ Total(history'[q], CancelKeys)
                 = Total(history[q], CancelKeys) + (history'[q][k] - history[q][k])
      BY <1>0, <3>1, <3>2, CancelAssumption, TotalChanges
    <3>4. /\ RefundedAmount(p) = Total(history[q], CancelKeys)
          /\ RefundedAmount(p)' = Total(history'[q], CancelKeys)
      BY <1>6, RefundedIs
    <3> QED
      BY <1>0, <1>3, <1>5, <3>3, <3>4
  <2>6. payments[p].status \in Settled
    BY <1>2, <1>6 DEF Refundable, Settled
  <2>7. payments'[p].cancelable = Amount - RefundedAmount(p)'
    <3>1. payments[p].cancelable = Amount - RefundedAmount(p)
      BY <2>6 DEF MoneyOf
    <3> QED
      BY <1>0, <1>1, <1>6, <2>3, <2>5, <3>1
  <2>8. payments'[p].status \in Settled
    BY <1>6, <2>3 DEF Settled
  <2>9. GivenBack(p)' = GivenBack(p)
    BY DEF GivenBack
  <2> QED
    BY <2>7, <2>8, <2>9 DEF MoneyOf
<1>7. CASE p # q
  <2>1. payments'[p] = payments[p]
    BY <1>0, <1>7 DEF RecordRefund, TypeOK, OrdersOK
  <2>2. history'[p] = history[p]
    BY <1>0, <1>4, <1>7, <1>t DEF CancelDocsOK
  <2> QED
    BY <2>1, <2>2, RefundedIs DEF MoneyOf, GivenBack
<1> QED
  BY <1>6, <1>7

\* The gateway refunds: its balance and its refunds move by the same amount, and
\* a repeated key moves neither.
LEMMA GatewayMoney ==
    ASSUME TypeOK, CancelInv, RunsOnSales, NEW r \in CancelRequests, Refund(r),
           history' = history, payments' = payments, NEW p \in Payments, MoneyOf(p)
    PROVE  MoneyOf(p)'
<1> DEFINE q == cancels[r].payment
           k == cancels[r].key
           a == cancels[r].amount
           answer == [amount |-> a, left |-> balance[q] - a]
<1>t. CancelsOK /\ CancelDocsOK /\ cancels[r].pc # "idle" /\ Running(r)
  BY DEF CancelInv, Running, Refund
<1>0. q \in Payments /\ k \in CancelKeys /\ a \in 0..Amount /\ payments[q].status \in Settled
  BY <1>t, CancelFields DEF RunsOnSales
<1>1. CASE UNCHANGED <<balance, refunds>>
  BY <1>1, MoneyStays
<1>2. CASE /\ refunds[q][k] = NoRefund
           /\ balance' = [balance EXCEPT ![q] = @ - a]
           /\ refunds' = [refunds EXCEPT ![q][k] = answer]
  <2>0. /\ balance \in [Payments -> 0..Amount] /\ Amount \in Nat
        /\ refunds \in [Payments -> [CancelKeys -> [amount : 0..Amount, left : 0..Amount]]]
    BY <1>t, AmountAssumption DEF CancelDocsOK
  <2>1. CASE p = q
    <3>1. balance'[p] = balance[p] - a /\ balance[p] \in 0..Amount
      BY <1>0, <1>2, <2>0, <2>1
    <3> DEFINE f == [j \in CancelKeys |-> refunds[q][j].amount]
               g == [j \in CancelKeys |-> refunds'[q][j].amount]
    <3>2. /\ refunds'[q][k] = answer
          /\ \A j \in CancelKeys : j # k => refunds'[q][j] = refunds[q][j]
      BY <1>0, <1>2, <2>0
    <3>3. f[k] = 0 /\ g[k] = a
      BY <1>0, <1>2, <3>2 DEF NoRefund
    <3>4. \A j \in CancelKeys : j # k => g[j] = f[j]
      BY <3>2
    <3>5. f \in [CancelKeys -> Int]
      BY <1>0, <1>t, MoneyTypes
    <3>6. g \in [CancelKeys -> Int]
      <4>1. ASSUME NEW j \in CancelKeys PROVE refunds'[q][j].amount \in Int
        <5>1. f[j] \in Int /\ a \in Int
          BY <1>0, <1>t, MoneyTypes
        <5> QED
          BY <3>3, <3>4, <5>1
      <4> QED
        BY <4>1
    <3>7. GivenBack(p) = Total(f, CancelKeys) /\ GivenBack(p)' = Total(g, CancelKeys)
      BY <2>1 DEF GivenBack
    <3> HIDE DEF f, g
    <3>8. /\ Total(f, CancelKeys) \in Int
          /\ Total(g, CancelKeys) = Total(f, CancelKeys) + (g[k] - f[k])
      BY <1>0, <3>4, <3>5, <3>6, CancelAssumption, TotalChanges
    <3>9. balance'[p] = Amount - GivenBack(p)'
      <4>1. balance[p] = Amount - GivenBack(p)
        BY DEF MoneyOf
      <4> QED
        BY <1>0, <2>0, <3>1, <3>3, <3>7, <3>8, <4>1
    <3>10. RefundedAmount(p)' = RefundedAmount(p)
      BY RefundedIs
    <3> QED
      BY <1>0, <2>1, <3>9, <3>10 DEF MoneyOf
  <2>2. CASE p # q
    <3>1. balance'[p] = balance[p] /\ refunds'[p] = refunds[p]
      BY <1>0, <1>2, <2>0, <2>2
    <3> QED
      BY <3>1, RefundedIs DEF MoneyOf, GivenBack
  <2> QED
    BY <2>1, <2>2
<1> QED
  BY <1>1, <1>2 DEF Refund, gatewayVars

\* What a cancellation does with money: nothing, a record, or a refund.
LEMMA CancelMoney ==
    ASSUME TypeOK, CancelInv, RunsOnSales, CancelAction, NEW p \in Payments, MoneyOf(p)
    PROVE  MoneyOf(p)'
<1>1. CASE UNCHANGED <<vars, history, balance, refunds>>
  BY <1>1, MoneyStays DEF vars
<1>2. ASSUME NEW r \in CancelRequests, CancelAnswered(r) \/ CancelLost(r) PROVE MoneyOf(p)'
  BY <1>2, GatewayMoney DEF CancelAnswered, CancelLost, vars
<1>3. ASSUME NEW r \in CancelRequests, CancelRecord(r) PROVE MoneyOf(p)'
  <2>1. balance' = balance /\ refunds' = refunds /\ cancels[r].pc = "record"
    BY <1>3 DEF CancelRecord, gatewayVars
  <2> QED
    BY <1>1, <1>3, <2>1, RecordMoney DEF CancelRecord
<1>4. ASSUME NEW r \in CancelRequests, CancelStep(r) \/ CancelAbort(r) \/ CancelCrash(r),
             ~CancelAnswered(r), ~CancelLost(r), ~CancelRecord(r)
      PROVE  UNCHANGED <<vars, history, balance, refunds>>
  BY <1>4 DEF CancelStep, CancelAbort, CancelCrash, CancelPrepare, CancelNotPrepared,
              CancelDeclined, CancelFail, CancelRelease, gatewayVars
<1>5. ASSUME \/ \E r \in CancelRequests, q \in Payments, k \in CancelKeys, want \in Wants :
                    CancelStart(r, q, k, want)
             \/ \E q \in Payments : CancelLockLapse(q)
             \/ \E q \in Payments, k \in CancelKeys : CancelKeyTtl(q, k)
      PROVE  UNCHANGED <<vars, history, balance, refunds>>
  BY <1>5 DEF CancelStart, CancelLockLapse, CancelKeyTtl, gatewayVars
<1> QED
  BY <1>1, <1>2, <1>3, <1>4, <1>5 DEF CancelAction

\* A cancellation starts to run on a payment it found refundable.
LEMMA RunsFrom ==
    ASSUME CancelsOK, CancelAction, NEW r \in CancelRequests, Running(r)'
    PROVE  /\ cancels'[r].payment = cancels[r].payment
           /\ Running(r) \/ payments[cancels[r].payment].status \in Refundable
<1>0. cancels \in [CancelRequests -> Cancel]
  BY DEF CancelsOK
<1>1. ASSUME NEW t \in CancelRequests, t # r,
             CancelStep(t) \/ CancelAbort(t) \/ CancelCrash(t)
      PROVE  cancels'[r] = cancels[r]
  BY <1>0, <1>1 DEF CancelStep, CancelAbort, CancelCrash, CancelPrepare, CancelNotPrepared,
              CancelAnswered, CancelLost, CancelDeclined, CancelRecord, CancelFail,
              CancelRelease, CancelGoto
<1>2. CASE CancelPrepare(r)
  <2>1. payments[cancels[r].payment].status \in Refundable
    BY <1>2 DEF CancelPrepare, Prepared, CanRefund
  <2>2. cancels'[r].payment = cancels[r].payment
    BY <1>0, <1>2 DEF CancelPrepare
  <2> QED
    BY <2>1, <2>2
<1>3. CASE CancelAnswered(r) \/ CancelLost(r) \/ CancelDeclined(r)
  <2>1. cancels[r].pc = "call" /\ \E pc \in Steps : CancelGoto(r, pc)
    BY <1>3 DEF CancelAnswered, CancelLost, CancelDeclined, Refund, Steps
  <2> QED
    BY <1>0, <2>1 DEF CancelGoto, Cancel, Running
<1>4. CASE CancelNotPrepared(r) \/ CancelRecord(r) \/ CancelFail(r) \/ CancelAbort(r)
  <2>1. cancels' = [cancels EXCEPT ![r].pc = "release"]
    BY <1>4 DEF CancelNotPrepared, CancelRecord, CancelFail, CancelAbort, CancelGoto
  <2>2. cancels'[r].pc = "release"
    BY <1>0, <2>1 DEF Cancel
  <2> QED
    BY <2>2 DEF Running
<1>5. CASE CancelRelease(r) \/ CancelCrash(r)
  <2>1. cancels'[r] = CancelIdle
    BY <1>0, <1>5 DEF CancelRelease, CancelCrash
  <2> QED
    BY <2>1 DEF Running, CancelIdle
<1>6. ASSUME NEW t \in CancelRequests, NEW p \in Payments, NEW k \in CancelKeys, NEW want \in Wants,
             CancelStart(t, p, k, want)
      PROVE  cancels'[r] = cancels[r]
  <2>1. CASE t = r
    <3>1. cancels'[r].pc = "prepare"
      BY <1>0, <1>6, <2>1 DEF CancelStart
    <3> QED
      BY <3>1 DEF Running
  <2>2. CASE t # r
    BY <1>0, <1>6, <2>2 DEF CancelStart
  <2> QED
    BY <2>1, <2>2
<1>7. CASE \/ \E p \in Payments : CancelLockLapse(p)
           \/ \E p \in Payments, k \in CancelKeys : CancelKeyTtl(p, k)
  <2>1. cancels' = cancels
    BY <1>7 DEF CancelLockLapse, CancelKeyTtl
  <2> QED
    BY <2>1 DEF Running
<1>8. ASSUME cancels'[r] = cancels[r]
      PROVE  Running(r) /\ cancels'[r].payment = cancels[r].payment
  BY <1>8 DEF Running
<1>9. CASE CancelStep(r) \/ CancelAbort(r) \/ CancelCrash(r)
  BY <1>2, <1>3, <1>4, <1>5, <1>9 DEF CancelStep
<1> QED
  BY <1>1, <1>6, <1>7, <1>8, <1>9 DEF CancelAction

\* A sale stays a sale.
LEMMA SalesStay ==
    ASSUME TypeOK, CancelInv, [CancelNext]_allVars, NEW q \in Payments,
           payments[q].status \in Settled
    PROVE  payments'[q].status \in Settled
<1>1. CASE [Next]_vars
  BY <1>1, OrdersLeaveSettled
<1>2. CASE UNCHANGED vars
  BY <1>2 DEF vars
<1>3. ASSUME NEW r \in CancelRequests, cancels[r].pc = "record",
             CanRefund(cancels[r].payment, cancels[r].amount), RecordRefund(r)
      PROVE  payments'[q].status \in Settled
  <2>1. PICK p \in Payments, left \in 0..Amount : Refunds(p, left)
    BY <1>3, RecordRefunds
  <2> QED
    BY <2>1, RefundWrites DEF Settled
<1> QED
  BY <1>1, <1>2, <1>3, CancelSteps, CancelEffects

\* At the start nothing is sold and nothing was given back.
LEMMA InitMoney == CancelInit => MoneyInv
<1> SUFFICES ASSUME CancelInit PROVE MoneyInv
  OBVIOUS
<1>1. CancelDocsOK
  BY CancelInitInv DEF CancelInv
<1>2. RunsOnSales
  BY DEF CancelInit, RunsOnSales, Running, CancelIdle
<1>3. ASSUME NEW p \in Payments PROVE MoneyOf(p)
  <2>1. payments[p].status \notin Settled
    BY DEF CancelInit, Init, Settled
  <2>2. \A k \in CancelKeys : history[p][k] = 0 /\ refunds[p][k] = NoRefund
    BY DEF CancelInit
  <2>3. GivenBack(p) = 0
    <3> DEFINE f == [k \in CancelKeys |-> refunds[p][k].amount]
    <3>1. f \in [CancelKeys -> Int] /\ \A k \in CancelKeys : f[k] = 0
      BY <1>1, <2>2, MoneyTypes DEF NoRefund
    <3> HIDE DEF f
    <3>2. Total(f, CancelKeys) = 0
      BY <3>1, CancelAssumption, TotalOfZeros
    <3> QED
      BY <3>2 DEF GivenBack, f
  <2>4. balance[p] = Amount /\ Amount \in Nat
    BY AmountAssumption DEF CancelInit
  <2> QED
    BY <2>1, <2>2, <2>3, <2>4 DEF MoneyOf
<1> QED
  BY <1>2, <1>3 DEF MoneyInv

\* Every step keeps the documents and the gateway in agreement.
LEMMA MoneyKeeps ==
    TypeOK /\ CancelInv /\ MoneyInv /\ [CancelNext]_allVars => MoneyInv'
<1> SUFFICES ASSUME TypeOK, CancelInv, MoneyInv, [CancelNext]_allVars PROVE MoneyInv'
  OBVIOUS
<1>t. CancelsOK /\ CancelDocsOK /\ RunsOnSales
  BY DEF CancelInv, MoneyInv
<1>1. ASSUME NEW p \in Payments PROVE MoneyOf(p)'
  <2>1. MoneyOf(p)
    BY DEF MoneyInv
  <2>2. CASE [Next]_vars /\ UNCHANGED cancelVars
    BY <1>t, <2>1, <2>2, OrdersMoney DEF cancelVars
  <2>3. CASE CancelAction
    BY <1>t, <2>1, <2>3, CancelMoney
  <2> QED
    BY <2>2, <2>3, CancelSteps
<1>2. RunsOnSales'
  <2>1. ASSUME NEW r \in CancelRequests, Running(r)'
        PROVE  payments'[cancels'[r].payment].status \in Settled
    <3>1. /\ cancels'[r].payment = cancels[r].payment
          /\ payments[cancels[r].payment].status \in Settled
          /\ cancels[r].payment \in Payments
      <4>1. CASE [Next]_vars /\ UNCHANGED cancelVars
        <5>1. cancels' = cancels /\ Running(r)
          BY <2>1, <4>1 DEF cancelVars, Running
        <5>2. cancels[r].payment \in Payments
          BY <1>t, <5>1, CancelFields DEF Running
        <5> QED
          BY <1>t, <5>1, <5>2 DEF RunsOnSales
      <4>2. CASE CancelAction
        <5>1. /\ cancels'[r].payment = cancels[r].payment
              /\ Running(r) \/ payments[cancels[r].payment].status \in Refundable
          BY <1>t, <2>1, <4>2, RunsFrom
        <5>2. payments[cancels[r].payment].status \in Settled
          BY <1>t, <5>1 DEF RunsOnSales, Refundable, Settled
        <5>3. CancelsOK'
          BY CancelKeepsTypes DEF CancelInv
        <5>4. cancels'[r].payment \in Payments
          BY <2>1, <5>3 DEF CancelsOK, Started, Running
        <5> QED
          BY <5>1, <5>2, <5>4
      <4> QED
        BY <4>1, <4>2, CancelSteps
    <3> QED
      BY <3>1, SalesStay
  <2> QED
    BY <2>1 DEF RunsOnSales
<1> QED
  BY <1>1, <1>2 DEF MoneyInv

\* What agrees is real: less was recorded than was given back.
LEMMA MoneyIsReal == CancelInv /\ MoneyInv => HistoryIsReal
<1> SUFFICES ASSUME CancelInv, MoneyInv PROVE HistoryIsReal
  OBVIOUS
<1>1. CancelDocsOK /\ RecordedWasMade
  BY DEF CancelInv
<1>2. ASSUME NEW p \in Payments, payments[p].status \in Settled
      PROVE  balance[p] <= payments[p].cancelable
  <2> DEFINE g == [k \in CancelKeys |-> refunds[p][k].amount]
  <2>1. /\ history[p] \in [CancelKeys -> Int] /\ g \in [CancelKeys -> Int]
        /\ \A k \in CancelKeys : history[p][k] <= g[k]
    <3>1. ASSUME NEW k \in CancelKeys PROVE history[p][k] <= refunds[p][k].amount
      <4>1. history[p][k] \in 0..Amount /\ refunds[p][k].amount \in 0..Amount /\ Amount \in Nat
        BY <1>1, MoneyTypes
      <4>2. history[p][k] > 0 => refunds[p][k].amount = history[p][k]
        BY <1>1 DEF RecordedWasMade
      <4> QED
        BY <4>1, <4>2
    <3> QED
      BY <1>1, <3>1, MoneyTypes
  <2>2. GivenBack(p) = Total(g, CancelKeys)
    BY DEF GivenBack
  <2> HIDE DEF g
  <2>3. Total(history[p], CancelKeys) <= Total(g, CancelKeys)
    BY <2>1, CancelAssumption, TotalMonotone
  <2>4. Total(history[p], CancelKeys) \in Int /\ Total(g, CancelKeys) \in Int
    <3>1. ASSUME NEW f \in [CancelKeys -> Int] PROVE Total(f, CancelKeys) \in Int
      <4>1. PICK S : IsSum(S, f, CancelKeys)
        BY CancelAssumption, SumExists
      <4>2. Total(f, CancelKeys) = S[CancelKeys]
        BY <4>1, CancelAssumption, SumIs DEF Total
      <4> QED
        BY <4>1, <4>2 DEF IsSum
    <3> QED
      BY <2>1, <3>1
  <2>5. RefundedAmount(p) = Total(history[p], CancelKeys)
    BY RefundedIs
  <2>6. /\ payments[p].cancelable = Amount - RefundedAmount(p)
        /\ balance[p] = Amount - GivenBack(p)
    BY <1>2 DEF MoneyInv, MoneyOf
  <2>7. Amount \in Nat
    BY AmountAssumption
  <2> QED
    BY <2>2, <2>3, <2>4, <2>5, <2>6, <2>7
<1> QED
  BY <1>1, <1>2 DEF HistoryIsReal, RecordedWasMade, MoneyInv, MoneyOf

\* A sale is paid whole, and a refund says what it leaves.
LEMMA StatusKeeps ==
    ASSUME TypeOK, CancelInv, [CancelNext]_allVars, StatusFollowsAmount
    PROVE  StatusFollowsAmount'
<1> DEFINE Follows(x) == x.status = IF x.cancelable = 0 THEN "canceled"
                                    ELSE IF x.cancelable = Amount THEN "paid"
                                    ELSE "partial_canceled"
<1> SUFFICES ASSUME NEW p \in Payments, payments'[p].status \in Settled
             PROVE  Follows(payments'[p])
  BY DEF StatusFollowsAmount
<1>1. ASSUME payments'[p] = payments[p] PROVE Follows(payments'[p])
  BY <1>1 DEF StatusFollowsAmount
<1>2. CASE [Next]_vars
  <2>1. ASSUME NEW q \in Payments, NEW c \in Checkouts, Opens(q, c) PROVE Follows(payments'[p])
    <3>1. /\ payments'[q].status = "ready"
          /\ \A x \in Payments \ {q} : payments'[x] = payments[x]
      BY <2>1 DEF Opens, TypeOK, OrdersOK
    <3> QED
      BY <1>1, <3>1 DEF Settled
  <2>2. ASSUME NEW q \in Payments, NEW status \in Retryable, Closes(q, status)
        PROVE  Follows(payments'[p])
    <3>1. /\ payments'[q].status = status
          /\ \A x \in Payments \ {q} : payments'[x] = payments[x]
      BY <2>2 DEF Closes, Close, TypeOK, OrdersOK
    <3> QED
      BY <1>1, <3>1 DEF Settled, Retryable
  <2>3. ASSUME NEW q \in Payments, Sells(q) PROVE Follows(payments'[p])
    <3>1. /\ payments'[q].status = "paid" /\ payments'[q].cancelable = Amount
          /\ \A x \in Payments \ {q} : payments'[x] = payments[x]
      BY <2>3 DEF Sells, TypeOK, OrdersOK
    <3> QED
      BY <1>1, <3>1, AmountAssumption
  <2>4. CASE UNCHANGED orderVars
    BY <1>1, <2>4 DEF orderVars
  <2> QED
    BY <1>2, <2>1, <2>2, <2>3, <2>4, Effects
<1>3. CASE UNCHANGED vars
  BY <1>1, <1>3 DEF vars
<1>4. ASSUME NEW r \in CancelRequests, cancels[r].pc = "record",
             CanRefund(cancels[r].payment, cancels[r].amount), RecordRefund(r)
      PROVE  Follows(payments'[p])
  <2>1. PICK q \in Payments, left \in 0..Amount : Refunds(q, left)
    BY <1>4, RecordRefunds
  <2>2. /\ payments'[q].status = (IF left = 0 THEN "canceled" ELSE "partial_canceled")
        /\ payments'[q].cancelable = left
        /\ \A x \in Payments : x # q => payments'[x] = payments[x]
    BY <2>1, RefundWrites
  <2>3. left < payments[q].cancelable /\ payments[q].cancelable \in 0..Amount /\ Amount \in Nat
    BY <2>1, AmountAssumption DEF Refunds, TypeOK, OrdersOK
  <2>4. left # Amount
    BY <2>3
  <2> QED
    BY <1>1, <2>2, <2>4
<1> QED
  BY <1>2, <1>3, <1>4, CancelSteps, CancelEffects

\* Money: every recorded refund was made by the gateway for that amount, what a
\* sale has left is its price less what was recorded, the gateway never has more
\* of it than that, and the status of the sale says how much is left.
THEOREM RefundsStayReal == CancelSpec => []RefundsAreReal
<1>1. CancelInit => TypeOK /\ CancelInv /\ MoneyInv /\ StatusFollowsAmount
  <2>1. CancelInit => StatusFollowsAmount
    BY DEF CancelInit, Init, StatusFollowsAmount, Settled
  <2> QED
    BY <2>1, CancelInitInv, InitMoney DEF StockInv
<1>2. TypeOK /\ CancelInv /\ MoneyInv /\ StatusFollowsAmount /\ [CancelNext]_allVars
          => TypeOK' /\ CancelInv' /\ MoneyInv' /\ StatusFollowsAmount'
  BY CancelKeepsTypes, MoneyKeeps, StatusKeeps
<1>3. CancelInv /\ MoneyInv /\ StatusFollowsAmount => RefundsAreReal
  BY MoneyIsReal DEF RefundsAreReal
<1> QED
  BY <1>1, <1>2, <1>3, PTL DEF CancelSpec
==============================================================================
