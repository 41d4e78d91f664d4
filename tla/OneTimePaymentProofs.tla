------------------------ MODULE OneTimePaymentProofs ------------------------
(***************************************************************************)
(* Theorems of OneTimePayment, for every number of attempts, SKUs,         *)
(* processes and keys and every finite set of checkouts: the types; what a *)
(* checkout says of its last attempt; the stock counters, which are exact, *)
(* and the ledger the order flow implements; that attempts move one way,   *)
(* that a sale has the money of the gateway behind it, and that no answer  *)
(* that was stored or is about to be sent becomes untrue.                  *)
(*                                                                         *)
(* The stock rests on CheckoutTracksPayments: the counters count           *)
(* checkouts, and only what a checkout says of its last attempt excludes   *)
(* that an attempt gives back or captures the unit of another one.         *)
(***************************************************************************)
EXTENDS OneTimePayment, FiniteSetTheorems, TLAPS

-----------------------------------------------------------------------------
(* Types.                                                                  *)

\* The initial state is well typed.
LEMMA InitType == Init => TypeOK
<1> SUFFICES ASSUME Init PROVE TypeOK
  OBVIOUS
<1> USE DEF Init
<1>1. OrdersOK
  BY AmountAssumption DEF OrdersOK, PaymentStatus, CheckoutStatus
<1>2. StockOK /\ LocksOK
  BY DEF StockOK, LocksOK
<1>3. KeysOK
  BY DEF KeysOK, KeyStatus, NoEntry
<1>4. ConfirmsOK
  BY DEF ConfirmsOK, Steps, Answers, Idle
<1> QED
  BY <1>1, <1>2, <1>3, <1>4 DEF TypeOK

\* A new order keeps the types.
LEMMA CreateOrderType ==
    ASSUME TypeOK, NEW p \in Payments, NEW c \in Checkouts,
           NEW k \in OrderKeys \cup {NoKey}, CreateOrder(p, c, k)
    PROVE  TypeOK'
<1> USE DEF TypeOK, CreateOrder
<1>1. OrdersOK'
  <2> USE DEF OrdersOK
  <2>1. payments' = [q \in Payments |->
           IF q = p THEN [payments[p] EXCEPT !.status = "ready", !.checkout = c]
                    ELSE payments[q]]
    OBVIOUS
  <2>2. "ready" \in PaymentStatus \cap CheckoutStatus
    BY DEF PaymentStatus, CheckoutStatus
  <2>3. payments' \in [Payments -> [status : PaymentStatus,
                                    checkout : Checkouts \cup {NoCheckout},
                                    cancelable : 0..Amount]]
    BY <2>1, <2>2
  <2>4. \A q \in Payments : payments'[q].status # "none" =>
                              payments'[q].checkout \in Checkouts
    BY <2>1 DEF CheckoutOf
  <2>5. checkouts' \in [Checkouts -> [status : CheckoutStatus,
                                      last : Payments \cup {NoPayment}]]
    BY <2>2
  <2> QED
    BY <2>3, <2>4, <2>5 DEF CheckoutOf
<1>2. StockOK'
  BY DEF Reserve, StockOK
<1>3. KeysOK' /\ LocksOK'
  BY DEF KeysOK, LocksOK, lockVars
<1>4. ConfirmsOK'
  BY DEF ConfirmsOK, OrdersOK
<1> QED
  BY <1>1, <1>2, <1>3, <1>4

\* So does the end of an attempt without a sale.
LEMMA CloseType ==
    ASSUME TypeOK, NEW p \in Payments, NEW status \in Retryable,
           payments[p].status = "ready", Close(p, status)
    PROVE  /\ OrdersOK' /\ StockOK'
           /\ invoices' \subseteq Payments /\ due' \subseteq Payments
           /\ \A q \in Payments : payments'[q].status = "none" => payments[q].status = "none"
<1> USE DEF TypeOK, Close, Retryable
<1>1. CheckoutOf(p) \in Checkouts
  BY DEF OrdersOK
<1>2. OrdersOK'
  BY <1>1 DEF OrdersOK, CheckoutOf, PaymentStatus, CheckoutStatus
<1>3. StockOK'
  BY DEF StockOK, ReleaseReserved, Reserved
<1> QED
  BY <1>2, <1>3 DEF OrdersOK

\* The parts of TypeOK that speak of orders only survive a step that leaves the
\* orders alone.
LEMMA OrdersUnchanged ==
    ASSUME TypeOK, UNCHANGED orderVars
    PROVE  OrdersOK' /\ StockOK' /\ invoices' \subseteq Payments
BY DEF TypeOK, OrdersOK, StockOK, orderVars, CheckoutOf

\* What a running request writes into its own record is well typed.
LEMMA RequestType ==
    ASSUME TypeOK, NEW r \in ConfirmRequests, confirms[r].pc # "idle",
           \A q \in Payments : payments'[q].status = "none" => payments[q].status = "none",
           \/ \E pc \in Steps : Continue(r, pc)
           \/ \E answer \in Answers : Finish(r, answer)
           \/ confirms' = [confirms EXCEPT ![r] = Idle]
    PROVE  ConfirmsOK'
<1> USE DEF TypeOK, ConfirmsOK
<1>1. ASSUME NEW pc \in Steps, Continue(r, pc) PROVE ConfirmsOK'
  BY <1>1 DEF Continue
<1>2. ASSUME NEW answer \in Answers, Finish(r, answer) PROVE ConfirmsOK'
  <2> DEFINE done == [confirms EXCEPT ![r].pc = "release"]
  <2>1. confirms' = [done EXCEPT ![r].answer = answer]
    BY <1>2 DEF Finish
  <2>2. /\ done \in [ConfirmRequests ->
                       [pc : Steps, payment : Payments \cup {NoPayment},
                        key : ConfirmKeys \cup {NoKey}, valid : BOOLEAN,
                        late : BOOLEAN, answer : Answers]]
        /\ \A q \in ConfirmRequests : done[q].pc # "idle" => confirms[q].pc # "idle"
        /\ \A q \in ConfirmRequests : /\ done[q].payment = confirms[q].payment
                                      /\ done[q].key = confirms[q].key
    BY DEF Steps
  <2> HIDE DEF done
  <2> QED
    BY <1>2, <2>1, <2>2
<1>3. CASE confirms' = [confirms EXCEPT ![r] = Idle]
  BY <1>3 DEF Idle, Steps, Answers
<1> QED
  BY <1>1, <1>2, <1>3

\* So is what it writes into its idempotency key.
LEMMA SetKeyType ==
    ASSUME TypeOK, NEW r \in ConfirmRequests, confirms[r].pc # "idle",
           NEW status \in KeyStatus, SetKey(r, status), UNCHANGED orderKeys
    PROVE  KeysOK'
BY DEF TypeOK, ConfirmsOK, KeysOK, SetKey

\* A request that enters the transaction of its preparation.
LEMMA EnterType ==
    ASSUME TypeOK, NEW r \in ConfirmRequests, Enter(r)
    PROVE  /\ OrdersOK' /\ StockOK' /\ LocksOK'
           /\ invoices' \subseteq Payments /\ due' \subseteq Payments
           /\ charge' \in [Payments -> ConfirmKeys \cup {NoKey}]
           /\ confirms[r].pc # "idle"
           /\ payments' = payments /\ orderKeys' = orderKeys
<1> USE DEF TypeOK, Enter
<1>1. OrdersOK' /\ StockOK' /\ invoices' \subseteq Payments
  BY OrdersUnchanged
<1>2. LocksOK'
  BY DEF LocksOK
<1> QED
  BY <1>1, <1>2 DEF orderVars

\* The steps that prepare a confirmation keep the types.
LEMMA PrepareType ==
    ASSUME TypeOK, NEW r \in ConfirmRequests,
           \/ ConfirmBusy(r) \/ ConfirmReplay(r) \/ ConfirmAlreadyPaid(r)
           \/ ConfirmRefused(r) \/ ConfirmExpired(r) \/ ConfirmInvalid(r)
           \/ ConfirmPrepare(r)
    PROVE  TypeOK'
<1> USE DEF Answers, Steps, KeyStatus
<1>1. CASE ConfirmBusy(r)
  <2>1. OrdersOK' /\ StockOK' /\ invoices' \subseteq Payments
    BY <1>1, OrdersUnchanged DEF ConfirmBusy
  <2>2. ConfirmsOK'
    BY <1>1, RequestType DEF ConfirmBusy, orderVars
  <2> QED
    BY <1>1, <2>1, <2>2 DEF ConfirmBusy, TypeOK, KeysOK, LocksOK, lockVars
<1>2. CASE ConfirmReplay(r) \/ ConfirmRefused(r) \/ ConfirmExpired(r) \/ ConfirmInvalid(r)
  <2>1. /\ Enter(r)
        /\ confirmKeys' = confirmKeys
        /\ \E answer \in Answers : Finish(r, answer)
    BY <1>2 DEF ConfirmReplay, ConfirmRefused, ConfirmExpired, ConfirmInvalid
  <2>2. ConfirmsOK'
    BY <2>1, EnterType, RequestType
  <2>3. KeysOK'
    BY <2>1, EnterType DEF KeysOK, TypeOK
  <2> QED
    BY <2>1, <2>2, <2>3, EnterType DEF TypeOK
<1>3. CASE ConfirmAlreadyPaid(r) \/ ConfirmPrepare(r)
  <2>1. /\ Enter(r)
        /\ \E status \in KeyStatus : SetKey(r, status)
        /\ \/ Finish(r, "paid")
           \/ Continue(r, "call")
    BY <1>3 DEF ConfirmAlreadyPaid, ConfirmPrepare
  <2>2. ConfirmsOK'
    BY <2>1, EnterType, RequestType
  <2>3. KeysOK'
    BY <2>1, EnterType, SetKeyType
  <2> QED
    BY <2>1, <2>2, <2>3, EnterType DEF TypeOK
<1> QED
  BY <1>1, <1>2, <1>3

\* So do the answers of the gateway, and the requests it leaves unrecorded.
LEMMA CallType ==
    ASSUME TypeOK, NEW r \in ConfirmRequests,
           \/ ConfirmApproved(r) \/ ConfirmLost(r) \/ ConfirmDeclined(r)
           \/ ConfirmRecordRefused(r) \/ ConfirmFailRefused(r) \/ ConfirmAbort(r)
    PROVE  TypeOK'
<1>1. /\ confirms[r].pc # "idle"
      /\ UNCHANGED <<orderVars, due, orderKeys, confirmKeys, lockVars>>
      /\ \/ \E pc \in Steps : Continue(r, pc)
         \/ \E answer \in Answers : Finish(r, answer)
      /\ charge' = charge \/ Approve(r)
  BY DEF ConfirmApproved, ConfirmLost, ConfirmDeclined, ConfirmRecordRefused,
         ConfirmFailRefused, ConfirmAbort, Approve, Steps, Answers
<1>2. OrdersOK' /\ StockOK' /\ invoices' \subseteq Payments
  BY <1>1, OrdersUnchanged
<1>3. ConfirmsOK'
  BY <1>1, RequestType DEF orderVars
<1>4. charge' \in [Payments -> ConfirmKeys \cup {NoKey}]
  BY <1>1 DEF Approve, TypeOK, ConfirmsOK
<1> QED
  BY <1>1, <1>2, <1>3, <1>4 DEF TypeOK, KeysOK, LocksOK, lockVars

\* So do the transactions that end a confirmation.
LEMMA EndType ==
    ASSUME TypeOK, NEW r \in ConfirmRequests,
           ConfirmRecord(r) \/ ConfirmFail(r)
    PROVE  TypeOK'
<1> DEFINE p == confirms[r].payment
<1> USE DEF Answers, KeyStatus
<1>1. /\ confirms[r].pc # "idle"
      /\ UNCHANGED <<orderKeys, lockVars, charge>>
      /\ \E status \in KeyStatus : SetKey(r, status)
      /\ \E answer \in Answers : Finish(r, answer)
      /\ p \in Payments
  BY DEF ConfirmRecord, ConfirmFail, TypeOK, ConfirmsOK
<1>2. /\ OrdersOK' /\ StockOK'
      /\ invoices' \subseteq Payments /\ due' \subseteq Payments
      /\ \A q \in Payments : payments'[q].status = "none" => payments[q].status = "none"
  <2>1. CASE Sell(p)
    <3> USE <2>1 DEF Sell, Confirmable, TypeOK
    <3>1. CheckoutOf(p) \in Checkouts
      BY <1>1 DEF OrdersOK
    <3>2. OrdersOK'
      <4> USE <1>1, <3>1 DEF OrdersOK
      <4>1. payments' = [q \in Payments |->
               IF q = p THEN [payments[p] EXCEPT !.status = "paid", !.cancelable = Amount]
                        ELSE payments[q]]
        OBVIOUS
      <4>2. "paid" \in PaymentStatus \cap CheckoutStatus /\ Amount \in 0..Amount
        BY AmountAssumption DEF PaymentStatus, CheckoutStatus
      <4>3. /\ payments' \in [Payments -> [status : PaymentStatus,
                                           checkout : Checkouts \cup {NoCheckout},
                                           cancelable : 0..Amount]]
            /\ \A q \in Payments : payments'[q].status # "none" =>
                                      payments[q].status # "none"
            /\ \A q \in Payments : payments'[q].checkout = payments[q].checkout
        BY <4>1, <4>2
      <4>4. checkouts' \in [Checkouts -> [status : CheckoutStatus,
                                         last : Payments \cup {NoPayment}]]
        BY <4>2
      <4> QED
        BY <4>3, <4>4 DEF CheckoutOf
    <3>3. StockOK'
      BY DEF StockOK, CaptureReserved, Reserved
    <3> QED
      BY <1>1, <3>2, <3>3 DEF OrdersOK
  <2>2. CASE UNCHANGED <<orderVars, due>>
    BY <2>2, OrdersUnchanged DEF TypeOK, orderVars
  <2>3. CASE payments[p].status = "ready" /\ Close(p, "failed")
    BY <1>1, <2>3, CloseType DEF Retryable
  <2> QED
    BY <2>1, <2>2, <2>3 DEF ConfirmRecord, ConfirmFail
<1>3. ConfirmsOK'
  BY <1>1, <1>2, RequestType
<1>4. KeysOK'
  BY <1>1, SetKeyType
<1> QED
  BY <1>1, <1>2, <1>3, <1>4 DEF TypeOK, LocksOK, lockVars

\* So does starting a request.
LEMMA StartType ==
    ASSUME TypeOK, NEW r \in ConfirmRequests, NEW p \in Payments, NEW k \in ConfirmKeys,
           NEW valid \in BOOLEAN, ConfirmStart(r, p, k, valid)
    PROVE  TypeOK'
<1> USE DEF ConfirmStart
<1>1. OrdersOK' /\ StockOK' /\ invoices' \subseteq Payments
  BY OrdersUnchanged
<1>2. ConfirmsOK'
  BY DEF TypeOK, ConfirmsOK, orderVars, Steps, Answers
<1> QED
  BY <1>1, <1>2 DEF TypeOK, KeysOK, LocksOK

\* So do releasing the locks of a request and leaving them behind in a crash.
LEMMA LeaveType ==
    ASSUME TypeOK, NEW r \in ConfirmRequests, ReleaseLocks(r) \/ Crash(r)
    PROVE  TypeOK'
<1>1. /\ confirms[r].pc # "idle"
      /\ UNCHANGED <<orderVars, due, orderKeys, confirmKeys, charge>>
      /\ confirms' = [confirms EXCEPT ![r] = Idle]
      /\ \E owner \in {Nobody, Gone} : GiveLocks(r, owner)
  BY DEF ReleaseLocks, Crash
<1>2. OrdersOK' /\ StockOK' /\ invoices' \subseteq Payments
  BY <1>1, OrdersUnchanged
<1>3. ConfirmsOK'
  BY <1>1, RequestType DEF orderVars
<1>4. LocksOK'
  BY <1>1 DEF GiveLocks, TypeOK, LocksOK
<1> QED
  BY <1>1, <1>2, <1>3, <1>4 DEF TypeOK, KeysOK

\* So does time: overdue attempts, lapsed locks and deleted keys.
LEMMA TimeType ==
    ASSUME TypeOK,
           \/ \E p \in Payments : PassExpiry(p) \/ ConfirmLockLapse(p)
           \/ \E c \in Checkouts : CheckoutLockLapse(c)
           \/ \E k \in OrderKeys : OrderKeyTtl(k)
           \/ \E k \in ConfirmKeys : ConfirmKeyTtl(k)
    PROVE  TypeOK'
<1>1. UNCHANGED <<orderVars, confirms, charge>>
  BY DEF PassExpiry, ConfirmLockLapse, CheckoutLockLapse, OrderKeyTtl, ConfirmKeyTtl
<1>2. OrdersOK' /\ StockOK' /\ invoices' \subseteq Payments
  BY <1>1, OrdersUnchanged
<1>3. ConfirmsOK' /\ charge' \in [Payments -> ConfirmKeys \cup {NoKey}]
  BY <1>1 DEF TypeOK, ConfirmsOK, orderVars
<1>4. LocksOK'
  BY DEF TypeOK, LocksOK, PassExpiry, ConfirmLockLapse, CheckoutLockLapse, OrderKeyTtl,
         ConfirmKeyTtl, lockVars
<1>5. KeysOK'
  <2>1. ASSUME NEW k \in OrderKeys, OrderKeyTtl(k) PROVE KeysOK'
    BY <2>1 DEF TypeOK, KeysOK, OrderKeyTtl
  <2>2. ASSUME NEW k \in ConfirmKeys, ConfirmKeyTtl(k) PROVE KeysOK'
    BY <2>2 DEF TypeOK, KeysOK, KeyStatus, NoEntry, ConfirmKeyTtl
  <2> QED
    BY <2>1, <2>2
    DEF TypeOK, KeysOK, PassExpiry, ConfirmLockLapse, CheckoutLockLapse
<1>6. due' \subseteq Payments
  BY DEF TypeOK, PassExpiry, ConfirmLockLapse, CheckoutLockLapse, OrderKeyTtl,
         ConfirmKeyTtl
<1> QED
  BY <1>2, <1>3, <1>4, <1>5, <1>6 DEF TypeOK

\* Every variable keeps its type: in particular no request that runs has lost
\* its attempt or its key, and no counter becomes negative.
LEMMA NextType == TypeOK /\ [Next]_vars => TypeOK'
<1> SUFFICES ASSUME TypeOK, [Next]_vars PROVE TypeOK'
  OBVIOUS
<1>1. ASSUME NEW p \in Payments, NEW c \in Checkouts, NEW k \in OrderKeys \cup {NoKey},
             CreateOrder(p, c, k)
      PROVE  TypeOK'
  BY <1>1, CreateOrderType
<1>2. ASSUME NEW p \in Payments, GetPaymentDetail(p) \/ RecordAuthFailure(p)
      PROVE  TypeOK'
  <2>1. /\ payments[p].status = "ready"
        /\ UNCHANGED <<orderKeys, confirmKeys, lockVars, confirms, charge>>
        /\ \E status \in Retryable : Close(p, status)
    BY <1>2 DEF GetPaymentDetail, RecordAuthFailure, Retryable
  <2>2. /\ OrdersOK' /\ StockOK' /\ invoices' \subseteq Payments /\ due' \subseteq Payments
        /\ \A q \in Payments : payments'[q].status = "none" => payments[q].status = "none"
    BY <2>1, CloseType
  <2> QED
    BY <2>1, <2>2 DEF TypeOK, KeysOK, LocksOK, ConfirmsOK, lockVars
<1>3. ASSUME NEW r \in ConfirmRequests, NEW p \in Payments, NEW k \in ConfirmKeys,
             NEW valid \in Matching, ConfirmStart(r, p, k, valid)
      PROVE  TypeOK'
  BY <1>3, StartType, MatchingAssumption
<1>4. ASSUME NEW r \in ConfirmRequests, ConfirmStep(r) \/ ConfirmAbort(r) \/ Crash(r)
      PROVE  TypeOK'
  BY <1>4, PrepareType, CallType, EndType, LeaveType DEF ConfirmStep
<1>5. CASE UNCHANGED vars
  BY <1>5 DEF vars, TypeOK, OrdersOK, StockOK, KeysOK, LocksOK, ConfirmsOK, CheckoutOf
<1> QED
  BY <1>1, <1>2, <1>3, <1>4, <1>5, TimeType DEF Next

\* Every reachable state of orders, confirmations and crashes is well typed.
THEOREM TypeCorrect == Spec => []TypeOK
BY InitType, NextType, PTL DEF Spec

-----------------------------------------------------------------------------
(* What a step can do to the orders: open an attempt, close one without a  *)
(* sale, sell one, or nothing.  Every property of the orders is proved     *)
(* from these four effects.                                                *)

Opens(p, c) ==
    /\ payments[p].status = "none"
    /\ checkouts[c].status \in {"none"} \cup Retryable
    /\ Reserve(c)
    /\ payments' = [payments EXCEPT ![p].status = "ready", ![p].checkout = c]
    /\ checkouts' = [checkouts EXCEPT ![c] = [status |-> "ready", last |-> p]]
    /\ UNCHANGED <<invoices, charge>>

Closes(p, status) ==
    payments[p].status = "ready" /\ Close(p, status) /\ UNCHANGED charge

Sells(p) ==
    /\ payments[p].status = "ready"
    /\ payments' = [payments EXCEPT ![p].status = "paid", ![p].cancelable = Amount]
    /\ checkouts' = [checkouts EXCEPT ![CheckoutOf(p)] = [status |-> "paid", last |-> p]]
    /\ CaptureReserved(CheckoutOf(p))
    /\ invoices' = invoices \cup {p}
    /\ \E r \in ConfirmRequests :
          /\ confirms[r].pc = "record"
          /\ confirms[r].payment = p
    /\ UNCHANGED charge

\* Each step of the program has one of the four effects.
LEMMA Effects ==
    ASSUME TypeOK, [Next]_vars
    PROVE  \/ \E p \in Payments, c \in Checkouts : Opens(p, c)
           \/ \E p \in Payments, status \in Retryable : Closes(p, status)
           \/ \E p \in Payments : Sells(p)
           \/ UNCHANGED orderVars
<1>1. ASSUME NEW p \in Payments, NEW c \in Checkouts, NEW k \in OrderKeys \cup {NoKey},
             CreateOrder(p, c, k)
      PROVE  Opens(p, c)
  BY <1>1 DEF CreateOrder, Opens
<1>2. ASSUME NEW p \in Payments, GetPaymentDetail(p) \/ RecordAuthFailure(p)
      PROVE  \E status \in Retryable : Closes(p, status)
  BY <1>2 DEF GetPaymentDetail, RecordAuthFailure, Retryable, Closes
<1>3. ASSUME NEW r \in ConfirmRequests, ConfirmRecord(r)
      PROVE  \/ UNCHANGED orderVars
             \/ \E p \in Payments : Sells(p)
  BY <1>3 DEF ConfirmRecord, Sell, Sells, Confirmable, TypeOK, ConfirmsOK
<1>4. ASSUME NEW r \in ConfirmRequests, ConfirmFail(r)
      PROVE  \/ UNCHANGED orderVars
             \/ \E p \in Payments : Closes(p, "failed")
  BY <1>4 DEF ConfirmFail, Closes, TypeOK, ConfirmsOK
<1>5. ASSUME NEW r \in ConfirmRequests,
             ConfirmStep(r) \/ ConfirmAbort(r) \/ Crash(r),
             ~ConfirmRecord(r), ~ConfirmFail(r)
      PROVE  UNCHANGED orderVars
  BY <1>5
  DEF ConfirmStep, ConfirmBusy, ConfirmReplay, ConfirmAlreadyPaid, ConfirmRefused,
      ConfirmExpired, ConfirmInvalid, ConfirmPrepare, Enter, ConfirmApproved, ConfirmLost,
      ConfirmDeclined, ConfirmRecordRefused, ConfirmFailRefused,
      ReleaseLocks, ConfirmAbort, Crash
<1>6. ASSUME \/ \E r \in ConfirmRequests, p \in Payments, k \in ConfirmKeys,
                   valid \in Matching : ConfirmStart(r, p, k, valid)
             \/ \E p \in Payments : PassExpiry(p) \/ ConfirmLockLapse(p)
             \/ \E c \in Checkouts : CheckoutLockLapse(c)
             \/ \E k \in OrderKeys : OrderKeyTtl(k)
             \/ \E k \in ConfirmKeys : ConfirmKeyTtl(k)
             \/ UNCHANGED vars
      PROVE  UNCHANGED orderVars
  BY <1>6 DEF ConfirmStart, PassExpiry, ConfirmLockLapse, CheckoutLockLapse,
              OrderKeyTtl, ConfirmKeyTtl, vars, orderVars
<1> QED
  BY <1>1, <1>2, <1>3, <1>4, <1>5, <1>6 DEF Next, Retryable

-----------------------------------------------------------------------------
(* A checkout is in the state of its last attempt.                         *)

\* An order makes its attempt the last one of its checkout.
LEMMA OpensTracks ==
    ASSUME TypeOK, CheckoutTracksPayments, NEW p \in Payments, NEW c \in Checkouts,
           Opens(p, c)
    PROVE  CheckoutTracksPayments'
<1> USE DEF CheckoutTracksPayments, LastDecides, OpenIsLast, CheckoutOf
<1>1. /\ \A q \in Payments \ {p} : payments'[q] = payments[q]
      /\ payments'[p].status = "ready" /\ payments'[p].checkout = c
      /\ \A d \in Checkouts \ {c} : checkouts'[d] = checkouts[d]
      /\ checkouts'[c] = [status |-> "ready", last |-> p]
      /\ payments[p].status = "none"
      /\ checkouts[c].status \in {"none", "failed", "expired"}
  BY DEF Opens, TypeOK, OrdersOK, Retryable
<1>2. ASSUME NEW d \in Checkouts PROVE LastDecides(d)'
  <2>1. CASE d = c
    BY <1>1, <2>1, NoneAssumption
  <2>2. CASE d # c
    <3>1. checkouts[d].last # p
      BY <1>1, NoneAssumption DEF TypeOK, OrdersOK, Settled
    <3>2. checkouts[d].last \in Payments \cup {NoPayment}
      BY DEF TypeOK, OrdersOK
    <3> QED
      BY <1>1, <2>2, <3>1, <3>2
  <2> QED
    BY <2>1, <2>2
<1>3. ASSUME NEW q \in Payments PROVE OpenIsLast(q)'
  <2>1. CASE q = p
    BY <1>1, <2>1
  <2>2. CASE q # p /\ payments[q].status \in {"ready"} \cup Settled
    <3>1. payments[q].checkout \in Checkouts /\ checkouts[payments[q].checkout].last = q
      BY <2>2 DEF TypeOK, OrdersOK, Settled, CheckoutOf
    <3>2. payments[q].checkout # c
      BY <1>1, <2>2, <3>1, NoneAssumption DEF Settled
    <3> QED
      BY <1>1, <2>2, <3>1, <3>2
  <2> QED
    BY <1>1, <2>1, <2>2
<1> QED
  BY <1>2, <1>3

\* An attempt that leaves "ready" for a final status takes its checkout along.
LEMMA EndsTracks ==
    ASSUME TypeOK, CheckoutTracksPayments, NEW p \in Payments, payments[p].status = "ready",
           \A q \in Payments \ {p} : payments'[q] = payments[q],
           payments'[p].status \in {"paid"} \cup Retryable,
           payments'[p].checkout = CheckoutOf(p),
           \A d \in Checkouts \ {CheckoutOf(p)} : checkouts'[d] = checkouts[d],
           checkouts'[CheckoutOf(p)] = [status |-> payments'[p].status, last |-> p]
    PROVE  CheckoutTracksPayments'
<1> USE DEF CheckoutTracksPayments, LastDecides, OpenIsLast, CheckoutOf
<1> DEFINE c == payments[p].checkout
<1>1. c \in Checkouts /\ checkouts[c].last = p
  BY DEF TypeOK, OrdersOK
<1>2. ASSUME NEW d \in Checkouts PROVE LastDecides(d)'
  <2>1. CASE d = c
    BY <2>1, NoneAssumption DEF Retryable
  <2>2. CASE d # c
    <3>1. checkouts[d].last # p /\ checkouts[d].last \in Payments \cup {NoPayment}
      BY <2>2, NoneAssumption DEF TypeOK, OrdersOK
    <3> QED
      BY <2>2, <3>1
  <2> QED
    BY <2>1, <2>2
<1>3. ASSUME NEW q \in Payments PROVE OpenIsLast(q)'
  <2>1. CASE q = p
    BY <2>1
  <2>2. CASE q # p /\ payments[q].status \in {"ready"} \cup Settled
    <3>1. payments[q].checkout \in Checkouts /\ checkouts[payments[q].checkout].last = q
      BY <2>2 DEF TypeOK, OrdersOK, Settled
    <3>2. payments[q].checkout # c
      BY <1>1, <2>2, <3>1
    <3> QED
      BY <2>2, <3>1, <3>2
  <2> QED
    BY <2>1, <2>2
<1> QED
  BY <1>2, <1>3

\* What Closes and Sells do to the two records of an attempt.
LEMMA ClosesRecords ==
    ASSUME TypeOK, CheckoutTracksPayments, NEW p \in Payments, NEW status \in Retryable,
           Closes(p, status)
    PROVE  /\ CheckoutOf(p) \in Checkouts /\ checkouts[CheckoutOf(p)].last = p
           /\ \A q \in Payments \ {p} : payments'[q] = payments[q]
           /\ payments'[p].status = status /\ payments'[p].checkout = CheckoutOf(p)
           /\ \A d \in Checkouts \ {CheckoutOf(p)} : checkouts'[d] = checkouts[d]
           /\ checkouts'[CheckoutOf(p)] = [status |-> status, last |-> p]
<1>1. CheckoutOf(p) \in Checkouts /\ checkouts[CheckoutOf(p)].last = p
  BY DEF Closes, CheckoutTracksPayments, OpenIsLast, TypeOK, OrdersOK
<1>2. checkouts[CheckoutOf(p)] \in [status : CheckoutStatus, last : Payments \cup {NoPayment}]
  BY <1>1 DEF TypeOK, OrdersOK
<1> QED
  BY <1>1, <1>2 DEF Closes, Close, TypeOK, OrdersOK, CheckoutOf

\* The same for a sale.
LEMMA SellsRecords ==
    ASSUME TypeOK, CheckoutTracksPayments, NEW p \in Payments, Sells(p)
    PROVE  /\ CheckoutOf(p) \in Checkouts /\ checkouts[CheckoutOf(p)].last = p
           /\ \A q \in Payments \ {p} : payments'[q] = payments[q]
           /\ payments'[p].status = "paid" /\ payments'[p].checkout = CheckoutOf(p)
           /\ \A d \in Checkouts \ {CheckoutOf(p)} : checkouts'[d] = checkouts[d]
           /\ checkouts'[CheckoutOf(p)] = [status |-> "paid", last |-> p]
<1>1. CheckoutOf(p) \in Checkouts /\ checkouts[CheckoutOf(p)].last = p
  BY DEF Sells, CheckoutTracksPayments, OpenIsLast, TypeOK, OrdersOK
<1> QED
  BY <1>1 DEF Sells, TypeOK, OrdersOK, CheckoutOf

\* At the start there are no checkouts.
LEMMA InitTracks == Init => CheckoutTracksPayments
BY DEF Init, CheckoutTracksPayments, LastDecides, OpenIsLast, Settled

\* Every step keeps each checkout in the state of its last attempt.
LEMMA NextTracks == TypeOK /\ CheckoutTracksPayments /\ [Next]_vars => CheckoutTracksPayments'
<1> SUFFICES ASSUME TypeOK, CheckoutTracksPayments, [Next]_vars
             PROVE  CheckoutTracksPayments'
  OBVIOUS
<1>1. ASSUME NEW p \in Payments, NEW c \in Checkouts, Opens(p, c)
      PROVE  CheckoutTracksPayments'
  BY <1>1, OpensTracks
<1>2. ASSUME NEW p \in Payments, NEW status \in Retryable, Closes(p, status)
      PROVE  CheckoutTracksPayments'
  <2>1. payments[p].status = "ready"
    BY <1>2 DEF Closes
  <2>2. /\ \A q \in Payments \ {p} : payments'[q] = payments[q]
        /\ payments'[p].status = status /\ payments'[p].checkout = CheckoutOf(p)
        /\ \A d \in Checkouts \ {CheckoutOf(p)} : checkouts'[d] = checkouts[d]
        /\ checkouts'[CheckoutOf(p)] = [status |-> status, last |-> p]
    BY <1>2, ClosesRecords
  <2>3. checkouts'[CheckoutOf(p)] = [status |-> payments'[p].status, last |-> p]
    BY <2>2
  <2>4. payments'[p].status \in {"paid"} \cup Retryable
    BY <2>2
  <2> QED
    BY <2>1, <2>2, <2>3, <2>4, EndsTracks
<1>3. ASSUME NEW p \in Payments, Sells(p) PROVE CheckoutTracksPayments'
  <2>1. payments[p].status = "ready"
    BY <1>3 DEF Sells
  <2>2. /\ \A q \in Payments \ {p} : payments'[q] = payments[q]
        /\ payments'[p].status = "paid" /\ payments'[p].checkout = CheckoutOf(p)
        /\ \A d \in Checkouts \ {CheckoutOf(p)} : checkouts'[d] = checkouts[d]
        /\ checkouts'[CheckoutOf(p)] = [status |-> "paid", last |-> p]
    BY <1>3, SellsRecords
  <2>3. checkouts'[CheckoutOf(p)] = [status |-> payments'[p].status, last |-> p]
    BY <2>2
  <2>4. payments'[p].status \in {"paid"} \cup Retryable
    BY <2>2
  <2> QED
    BY <2>1, <2>2, <2>3, <2>4, EndsTracks
<1>4. CASE UNCHANGED orderVars
  BY <1>4 DEF orderVars, CheckoutTracksPayments, LastDecides, OpenIsLast, CheckoutOf
<1> QED
  BY <1>1, <1>2, <1>3, <1>4, Effects

\* At every moment a checkout is in the state of its last attempt, and a ready
\* or paid attempt is the last one of its checkout.
THEOREM CheckoutsTracked == Spec => []CheckoutTracksPayments
<1>1. Init => TypeOK /\ CheckoutTracksPayments
  BY InitType, InitTracks
<1>2. TypeOK /\ CheckoutTracksPayments /\ [Next]_vars => (TypeOK /\ CheckoutTracksPayments)'
  BY NextType, NextTracks
<1> QED
  BY <1>1, <1>2, PTL DEF Spec

-----------------------------------------------------------------------------
(* Stock: the counters are exact, and the order flow implements            *)
(* StockLedger.                                                            *)

StockInv == TypeOK /\ CheckoutTracksPayments /\ StockExact

\* The checkouts that a SKU counts are finitely many, before and after a step.
LEMMA CountsFinite ==
    ASSUME NEW s \in Skus
    PROVE  /\ IsFiniteSet(Holding(s)) /\ IsFiniteSet(Owning(s))
           /\ IsFiniteSet(Holding(s)') /\ IsFiniteSet(Owning(s)')
<1>1. ASSUME NEW S, S \subseteq Checkouts PROVE IsFiniteSet(S)
  BY <1>1, FS_Subset, FiniteAssumption
<1> QED
  BY <1>1 DEF Holding, Owning

\* Nobody holds, and nobody owns, a unit at the start.
LEMMA InitStock == Init => StockExact
<1> SUFFICES ASSUME Init, NEW s \in Skus
             PROVE  /\ reserved[s] = Cardinality(Holding(s))
                    /\ sold[s] = Cardinality(Owning(s))
                    /\ reserved[s] + sold[s] <= TotalStock[s]
  BY DEF StockExact
<1>1. Holding(s) = {} /\ Owning(s) = {}
  BY DEF Init, Holding, Owning
<1>2. reserved[s] = 0 /\ sold[s] = 0 /\ TotalStock[s] \in Nat
  BY StockAssumption DEF Init
<1> QED
  BY <1>1, <1>2, FS_EmptySet

-----------------------------------------------------------------------------
(* How the sets that are counted move with each effect.                    *)

\* An order adds its checkout to the holders of its SKUs.
LEMMA OpensCounts ==
    ASSUME StockInv, NEW p \in Payments, NEW c \in Checkouts, Opens(p, c), NEW s \in Skus
    PROVE  /\ c \notin Holding(s)
           /\ Holding(s)' = IF s \in Items[c] THEN Holding(s) \cup {c} ELSE Holding(s)
           /\ Owning(s)' = Owning(s)
<1> USE DEF StockInv, Holding, Owning
<1>1. /\ \A q \in Payments \ {p} : payments'[q] = payments[q]
      /\ \A d \in Checkouts \ {c} : checkouts'[d] = checkouts[d]
      /\ checkouts'[c].status = "ready"
      /\ payments[p].status = "none"
      /\ checkouts[c].status \in {"none", "failed", "expired"}
  BY DEF Opens, TypeOK, OrdersOK, Retryable
<1>2. ASSUME NEW d \in Checkouts, checkouts[d].status = "paid"
      PROVE  checkouts[d].last \in Payments \ {p}
  BY <1>1, <1>2 DEF CheckoutTracksPayments, LastDecides, TypeOK, OrdersOK, Settled
<1>3. Owning(s)' = Owning(s)
  BY <1>1, <1>2
<1> QED
  BY <1>1, <1>3

\* An attempt that is open has its checkout among the holders.
LEMMA ReadyHolds ==
    ASSUME StockInv, NEW p \in Payments, payments[p].status = "ready"
    PROVE  /\ CheckoutOf(p) \in Checkouts
           /\ checkouts[CheckoutOf(p)].last = p
           /\ checkouts[CheckoutOf(p)].status = "ready"
           /\ \A s \in Skus : s \in Items[CheckoutOf(p)] => CheckoutOf(p) \in Holding(s)
<1>1. CheckoutOf(p) \in Checkouts /\ checkouts[CheckoutOf(p)].last = p
  BY DEF StockInv, TypeOK, OrdersOK, CheckoutTracksPayments, OpenIsLast
<1>2. checkouts[CheckoutOf(p)].status = "ready"
  BY <1>1, NoneAssumption DEF StockInv, CheckoutTracksPayments, LastDecides, Settled
<1> QED
  BY <1>1, <1>2 DEF Holding

\* So every SKU of that checkout has a unit reserved, and none is skipped.
LEMMA ReadyReserved ==
    ASSUME StockInv, NEW p \in Payments, payments[p].status = "ready", NEW s \in Skus
    PROVE  s \in Reserved(CheckoutOf(p)) <=> s \in Items[CheckoutOf(p)]
<1>1. ASSUME s \in Items[CheckoutOf(p)] PROVE reserved[s] > 0
  <2>1. Holding(s) # {}
    BY <1>1, ReadyHolds
  <2>2. Cardinality(Holding(s)) # 0 /\ Cardinality(Holding(s)) \in Nat
    BY <2>1, CountsFinite, FS_EmptySet, FS_CardinalityType
  <2> QED
    BY <2>2 DEF StockInv, StockExact
<1> QED
  BY <1>1 DEF Reserved

\* The end of an attempt without a sale takes its checkout from the holders.
LEMMA ClosesCounts ==
    ASSUME StockInv, NEW p \in Payments, NEW status \in Retryable, Closes(p, status),
           NEW s \in Skus
    PROVE  /\ Holding(s)' = Holding(s) \ {CheckoutOf(p)}
           /\ Owning(s)' = Owning(s)
<1> USE DEF StockInv, Holding, Owning
<1> DEFINE c == CheckoutOf(p)
<1>1. /\ c \in Checkouts
      /\ checkouts[c].last = p
      /\ \A q \in Payments \ {p} : payments'[q] = payments[q]
      /\ \A d \in Checkouts \ {c} : checkouts'[d] = checkouts[d]
      /\ checkouts'[c] = [status |-> status, last |-> p]
  BY ClosesRecords
<1>2. payments[p].status = "ready"
  BY DEF Closes
<1>3. checkouts[c].status = "ready" /\ checkouts'[c].status \notin {"ready", "paid"}
  BY <1>1, <1>2, ReadyHolds DEF Retryable
<1>4. ASSUME NEW d \in Checkouts, checkouts[d].status = "paid"
      PROVE  checkouts[d].last \in Payments \ {p}
  BY <1>1, <1>2, <1>3, <1>4
  DEF CheckoutTracksPayments, LastDecides, TypeOK, OrdersOK, Settled
<1> QED
  BY <1>1, <1>3, <1>4

\* A sale moves its checkout from the holders to the owners.
LEMMA SellsCounts ==
    ASSUME StockInv, NEW p \in Payments, Sells(p), NEW s \in Skus
    PROVE  /\ CheckoutOf(p) \notin Owning(s)
           /\ Holding(s)' = Holding(s) \ {CheckoutOf(p)}
           /\ Owning(s)' = IF s \in Items[CheckoutOf(p)] THEN Owning(s) \cup {CheckoutOf(p)}
                                                         ELSE Owning(s)
<1> USE DEF StockInv, Holding, Owning
<1> DEFINE c == CheckoutOf(p)
<1>1. /\ c \in Checkouts
      /\ checkouts[c].last = p
      /\ \A q \in Payments \ {p} : payments'[q] = payments[q]
      /\ payments'[p].status = "paid"
      /\ \A d \in Checkouts \ {c} : checkouts'[d] = checkouts[d]
      /\ checkouts'[c] = [status |-> "paid", last |-> p]
  BY SellsRecords
<1>2. payments[p].status = "ready" /\ checkouts[c].status = "ready"
  BY ReadyHolds DEF Sells
<1>3. ASSUME NEW d \in Checkouts, checkouts[d].status = "paid"
      PROVE  checkouts[d].last \in Payments \ {p}
  BY <1>1, <1>2, <1>3
  DEF CheckoutTracksPayments, LastDecides, TypeOK, OrdersOK, Settled
<1> QED
  BY <1>1, <1>2, <1>3

-----------------------------------------------------------------------------
(* The counters are exact.                                                 *)

\* Every step keeps the counters exact and within the stock.
LEMMA NextStock == StockInv /\ [Next]_vars => StockExact'
<1> SUFFICES ASSUME StockInv, [Next]_vars, NEW s \in Skus
             PROVE  /\ reserved'[s] = Cardinality(Holding(s)')
                    /\ sold'[s] = Cardinality(Owning(s)')
                    /\ reserved'[s] + sold'[s] <= TotalStock[s]
  BY DEF StockExact
<1> DEFINE held == Cardinality(Holding(s))
           owned == Cardinality(Owning(s))
<1>1. /\ reserved[s] = held /\ sold[s] = owned
      /\ held \in Nat /\ owned \in Nat
      /\ held + owned <= TotalStock[s] /\ TotalStock[s] \in Nat
  BY CountsFinite, FS_CardinalityType, StockAssumption DEF StockInv, StockExact
<1>2. ASSUME NEW p \in Payments, NEW c \in Checkouts, Opens(p, c)
      PROVE  /\ reserved'[s] = Cardinality(Holding(s)')
             /\ sold'[s] = Cardinality(Owning(s)')
             /\ reserved'[s] + sold'[s] <= TotalStock[s]
  <2>1. /\ s \in Items[c] => reserved[s] + sold[s] < TotalStock[s]
        /\ reserved'[s] = IF s \in Items[c] THEN reserved[s] + 1 ELSE reserved[s]
        /\ sold'[s] = sold[s]
    BY <1>2 DEF Opens, Reserve, HasStock
  <2>2. Cardinality(Holding(s)') = IF s \in Items[c] THEN held + 1 ELSE held
    BY <1>2, OpensCounts, CountsFinite, FS_AddElement
  <2>3. Cardinality(Owning(s)') = owned
    BY <1>2, OpensCounts
  <2> QED
    BY <1>1, <2>1, <2>2, <2>3
<1>3. ASSUME NEW p \in Payments, payments[p].status = "ready"
      PROVE  /\ s \in Reserved(CheckoutOf(p)) <=> CheckoutOf(p) \in Holding(s)
             /\ s \in Reserved(CheckoutOf(p)) => held > 0
             /\ Cardinality(Holding(s) \ {CheckoutOf(p)})
                  = IF s \in Reserved(CheckoutOf(p)) THEN held - 1 ELSE held
  <2>1. s \in Reserved(CheckoutOf(p)) <=> CheckoutOf(p) \in Holding(s)
    BY <1>3, ReadyReserved, ReadyHolds DEF Holding
  <2>2. s \in Reserved(CheckoutOf(p)) => held > 0
    BY <1>1 DEF Reserved
  <2> QED
    BY <2>1, <2>2, CountsFinite, FS_RemoveElement
<1>4. ASSUME NEW p \in Payments, NEW status \in Retryable, Closes(p, status)
      PROVE  /\ reserved'[s] = Cardinality(Holding(s)')
             /\ sold'[s] = Cardinality(Owning(s)')
             /\ reserved'[s] + sold'[s] <= TotalStock[s]
  <2>1. /\ payments[p].status = "ready"
        /\ reserved'[s] = IF s \in Reserved(CheckoutOf(p)) THEN reserved[s] - 1
                                                            ELSE reserved[s]
        /\ sold'[s] = sold[s]
    BY <1>4 DEF Closes, Close, ReleaseReserved
  <2>2. Holding(s)' = Holding(s) \ {CheckoutOf(p)} /\ Owning(s)' = Owning(s)
    BY <1>4, ClosesCounts
  <2> QED
    BY <1>1, <1>3, <2>1, <2>2
<1>5. ASSUME NEW p \in Payments, Sells(p)
      PROVE  /\ reserved'[s] = Cardinality(Holding(s)')
             /\ sold'[s] = Cardinality(Owning(s)')
             /\ reserved'[s] + sold'[s] <= TotalStock[s]
  <2> DEFINE c == CheckoutOf(p)
  <2>1. /\ payments[p].status = "ready"
        /\ reserved'[s] = IF s \in Reserved(c) THEN reserved[s] - 1 ELSE reserved[s]
        /\ sold'[s] = IF s \in Reserved(c) THEN sold[s] + 1 ELSE sold[s]
    BY <1>5 DEF Sells, CaptureReserved
  <2>2. s \in Reserved(c) <=> s \in Items[c]
    BY <2>1, ReadyReserved
  <2>3. Holding(s)' = Holding(s) \ {c}
    BY <1>5, SellsCounts
  <2>4. Cardinality(Owning(s)') = IF s \in Reserved(c) THEN owned + 1 ELSE owned
    BY <1>5, <2>2, SellsCounts, CountsFinite, FS_AddElement
  <2> QED
    BY <1>1, <1>3, <2>1, <2>3, <2>4
<1>6. CASE UNCHANGED orderVars
  <2>1. Holding(s)' = Holding(s) /\ Owning(s)' = Owning(s)
    BY <1>6 DEF Holding, Owning, orderVars
  <2> QED
    BY <1>1, <1>6, <2>1 DEF orderVars
<1> QED
  BY <1>2, <1>4, <1>5, <1>6, Effects DEF StockInv

\* In every reachable state the counters of each SKU are what the checkouts
\* say, and together they stay within its stock.
THEOREM StockCounted == Spec => []StockExact
<1>1. Init => StockInv
  BY InitType, InitTracks, InitStock DEF StockInv
<1>2. StockInv /\ [Next]_vars => StockInv'
  BY NextType, NextTracks, NextStock DEF StockInv
<1>3. StockInv => StockExact
  BY DEF StockInv
<1> QED
  BY <1>1, <1>2, <1>3, PTL DEF Spec

-----------------------------------------------------------------------------
(* The order flow implements the stock ledger.                             *)

\* What a checkout says of itself is its position in the ledger.
LEMMA PositionOf ==
    ASSUME StockInv, NEW c \in Checkouts
    PROVE  /\ Position(c) = "held" <=> checkouts[c].status = "ready"
           /\ Position(c) = "sold" <=> /\ checkouts[c].status = "paid"
                                       /\ payments[checkouts[c].last].status # "canceled"
           /\ Position(c) \in {"free", "held", "sold"}
<1>1. /\ checkouts[c].status \in CheckoutStatus
      /\ LastDecides(c)
  BY DEF StockInv, TypeOK, OrdersOK, CheckoutTracksPayments
<1> QED
  BY <1>1 DEF Position, LastDecides, CheckoutStatus, Settled

\* The purchases that keep a unit of a SKU are the ones its counters count.
LEMMA TakenCounts ==
    ASSUME StockInv, NEW s \in Skus
    PROVE  Cardinality(Ledger!Taken(s)) = reserved[s] + sold[s]
<1>1. Ledger!Taken(s) = Holding(s) \cup Owning(s)
  BY PositionOf DEF Ledger!Taken, Holding, Owning
<1>2. Holding(s) \cap Owning(s) = {}
  BY DEF Holding, Owning
<1>3. /\ Cardinality(Holding(s) \cup Owning(s))
           = Cardinality(Holding(s)) + Cardinality(Owning(s)) - Cardinality({})
      /\ Cardinality(Holding(s)) \in Nat /\ Cardinality(Owning(s)) \in Nat
  BY <1>2, CountsFinite, FS_Union, FS_CardinalityType
<1> QED
  BY <1>1, <1>3, FS_EmptySet DEF StockInv, StockExact

\* A step that changes attempt p and its checkout c only moves no other checkout.
LEMMA OthersStay ==
    ASSUME StockInv, NEW p \in Payments, NEW c \in Checkouts,
           \/ payments[p].status = "none"
           \/ payments[p].checkout = c,
           \A q \in Payments \ {p} : payments'[q] = payments[q],
           \A d \in Checkouts \ {c} : checkouts'[d] = checkouts[d],
           NEW d \in Checkouts \ {c}
    PROVE  Position(d)' = Position(d)
<1>1. LastDecides(d) /\ checkouts[d].last \in Payments \cup {NoPayment}
  BY DEF StockInv, TypeOK, OrdersOK, CheckoutTracksPayments
<1>2. checkouts[d].last # p
  BY <1>1, NoneAssumption DEF LastDecides, CheckoutOf, Settled
<1> QED
  BY <1>1, <1>2 DEF Position

\* Each of the four effects is a step of the ledger, or none.
LEMMA NextLedger ==
    StockInv /\ [Next]_vars =>
        [Ledger!Next]_([c \in Checkouts |-> Position(c)])
<1> SUFFICES ASSUME StockInv, [Next]_vars
             PROVE  [Ledger!Next]_([c \in Checkouts |-> Position(c)])
  OBVIOUS
<1> DEFINE position == [c \in Checkouts |-> Position(c)]
<1>1. ASSUME NEW p \in Payments, NEW c \in Checkouts, Opens(p, c) PROVE Ledger!Hold(c)
  <2>1. /\ payments[p].status = "none"
        /\ checkouts[c].status \in {"none", "failed", "expired"}
        /\ \A q \in Payments \ {p} : payments'[q] = payments[q]
        /\ payments'[p].status = "ready"
        /\ \A d \in Checkouts \ {c} : checkouts'[d] = checkouts[d]
        /\ checkouts'[c].last = p
    BY <1>1 DEF Opens, StockInv, TypeOK, OrdersOK, Retryable
  <2>2. Position(c) = "free"
    BY <2>1, PositionOf
  <2>3. Position(c)' = "held"
    BY <2>1, NoneAssumption DEF Position
  <2>4. \A s \in Items[c] : Cardinality(Ledger!Taken(s)) < TotalStock[s]
    BY <1>1, TakenCounts, ItemsAssumption DEF Opens, Reserve, HasStock
  <2>5. \A d \in Checkouts \ {c} : Position(d)' = Position(d)
    BY <2>1, OthersStay
  <2>6. position' = [position EXCEPT ![c] = "held"]
    BY <2>3, <2>5
  <2> QED
    BY <2>2, <2>4, <2>6 DEF Ledger!Hold, Ledger!Cardinality, Cardinality
<1>2. ASSUME NEW p \in Payments, NEW status \in Retryable, Closes(p, status),
             NEW c \in Checkouts, c = CheckoutOf(p)
      PROVE  Ledger!Release(c)
  <2>1. /\ \A q \in Payments \ {p} : payments'[q] = payments[q]
        /\ payments'[p].status = status
        /\ \A d \in Checkouts \ {c} : checkouts'[d] = checkouts[d]
        /\ checkouts'[c].last = p
    <3>1. /\ \A q \in Payments \ {p} : payments'[q] = payments[q]
          /\ payments'[p].status = status
          /\ \A d \in Checkouts \ {CheckoutOf(p)} : checkouts'[d] = checkouts[d]
          /\ checkouts'[CheckoutOf(p)] = [status |-> status, last |-> p]
      BY <1>2, ClosesRecords DEF StockInv
    <3> QED
      BY <1>2, <3>1
  <2>2. Position(c) = "held"
    BY <1>2, ReadyHolds, PositionOf DEF Closes
  <2>3. Position(c)' = "free"
    BY <2>1, NoneAssumption DEF Position, Retryable
  <2>4. \A d \in Checkouts \ {c} : Position(d)' = Position(d)
    BY <1>2, <2>1, OthersStay DEF CheckoutOf
  <2>5. position' = [position EXCEPT ![c] = "free"]
    BY <2>3, <2>4
  <2> QED
    BY <2>2, <2>5 DEF Ledger!Release
<1>3. ASSUME NEW p \in Payments, Sells(p), NEW c \in Checkouts, c = CheckoutOf(p)
      PROVE  Ledger!Sell(c)
  <2>1. /\ \A q \in Payments \ {p} : payments'[q] = payments[q]
        /\ payments'[p].status = "paid"
        /\ \A d \in Checkouts \ {c} : checkouts'[d] = checkouts[d]
        /\ checkouts'[c].last = p
    <3>1. /\ \A q \in Payments \ {p} : payments'[q] = payments[q]
          /\ payments'[p].status = "paid"
          /\ \A d \in Checkouts \ {CheckoutOf(p)} : checkouts'[d] = checkouts[d]
          /\ checkouts'[CheckoutOf(p)] = [status |-> "paid", last |-> p]
      BY <1>3, SellsRecords DEF StockInv
    <3> QED
      BY <1>3, <3>1
  <2>2. Position(c) = "held"
    BY <1>3, ReadyHolds, PositionOf DEF Sells
  <2>3. Position(c)' = "sold"
    BY <2>1, NoneAssumption DEF Position
  <2>4. \A d \in Checkouts \ {c} : Position(d)' = Position(d)
    BY <1>3, <2>1, OthersStay DEF CheckoutOf
  <2>5. position' = [position EXCEPT ![c] = "sold"]
    BY <2>3, <2>4
  <2> QED
    BY <2>2, <2>5 DEF Ledger!Sell
<1>4. CASE UNCHANGED orderVars
  <2>1. \A c \in Checkouts : Position(c)' = Position(c)
    BY <1>4 DEF Position, orderVars
  <2> QED
    BY <2>1
<1>5. ASSUME NEW p \in Payments, payments[p].status = "ready"
      PROVE  CheckoutOf(p) \in Checkouts
  BY <1>5, ReadyHolds
<1> QED
  BY <1>1, <1>2, <1>3, <1>4, <1>5, Effects DEF Ledger!Next, StockInv, Closes, Sells

\* Nobody holds a unit at the start.
LEMMA InitLedger == Init => Ledger!Init
BY DEF Init, Ledger!Init, Position

\* Behind keys, locks, retries and crashes the order flow is a stock ledger: a
\* purchase takes its units only when all of them are free, and sells or returns
\* what it took.
THEOREM ImplementsLedger == Spec => LedgerSpec
<1>1. Init => StockInv
  BY InitType, InitTracks, InitStock DEF StockInv
<1>2. StockInv /\ [Next]_vars => StockInv'
  BY NextType, NextTracks, NextStock DEF StockInv
<1> QED
  BY <1>1, <1>2, InitLedger, NextLedger, PTL DEF Spec, LedgerSpec, Ledger!Spec

-----------------------------------------------------------------------------
(* Attempts move one way.                                                  *)

\* The moves of one attempt, for a single step.
Moves(p) ==
    /\ payments[p].status \in Retryable => payments'[p] = payments[p]
    /\ payments[p].status \in Settled => payments'[p].status \in Settled
    /\ payments[p].status # "none" => payments'[p].checkout = CheckoutOf(p)

\* Each effect on the orders moves an attempt forward only.
LEMMA NextMoves ==
    ASSUME TypeOK, [Next]_vars, NEW q \in Payments
    PROVE  Moves(q)
<1> USE DEF Moves, TypeOK, OrdersOK, Retryable, Settled, CheckoutOf
<1>1. ASSUME NEW p \in Payments, NEW c \in Checkouts, Opens(p, c) PROVE Moves(q)
  BY <1>1 DEF Opens
<1>2. ASSUME NEW p \in Payments, NEW status \in Retryable, Closes(p, status)
      PROVE  Moves(q)
  BY <1>2 DEF Closes, Close
<1>3. ASSUME NEW p \in Payments, Sells(p) PROVE Moves(q)
  BY <1>3 DEF Sells
<1>4. CASE UNCHANGED orderVars
  BY <1>4 DEF orderVars
<1> QED
  BY <1>1, <1>2, <1>3, <1>4, Effects

\* An attempt that failed or expired never moves again and a paid one stays
\* paid, whatever orders, failure pages and confirmations race for it.
THEOREM AttemptsAreFinal == Spec => Finality
<1>1. TypeOK /\ [Next]_vars =>
        [\A p \in Payments :
          /\ payments[p].status \in Retryable => payments'[p] = payments[p]
          /\ payments[p].status \in Settled => payments'[p].status \in Settled
          /\ payments[p].status # "none" => payments'[p].checkout = CheckoutOf(p)]_vars
  BY NextMoves DEF Moves
<1> QED
  BY <1>1, InitType, NextType, PTL DEF Spec, Finality

-----------------------------------------------------------------------------
(* Every sale was approved by the gateway.                                 *)

\* A process that records a sale has seen an approval.
RecordsCharged ==
    \A r \in ConfirmRequests :
        confirms[r].pc = "record" => charge[confirms[r].payment] # NoKey

ChargeInv == TypeOK /\ PaidWasCharged /\ RecordsCharged

\* Only an approval of the gateway charges.
LEMMA ApprovalsOnly ==
    ASSUME [Next]_vars
    PROVE  charge' = charge \/ \E r \in ConfirmRequests : Approve(r)
<1>1. ASSUME \A r \in ConfirmRequests : ~Approve(r) PROVE charge' = charge
  BY <1>1
  DEF Next, vars, CreateOrder, PassExpiry, GetPaymentDetail, RecordAuthFailure,
      ConfirmStart, ConfirmStep, ConfirmBusy, ConfirmReplay, ConfirmAlreadyPaid,
      ConfirmRefused, ConfirmExpired, ConfirmInvalid, ConfirmPrepare, Enter,
      ConfirmApproved, ConfirmLost, ConfirmDeclined, ConfirmRecord,
      ConfirmRecordRefused, ConfirmFail, ConfirmFailRefused, ReleaseLocks,
      ConfirmAbort, Crash, ConfirmLockLapse, CheckoutLockLapse, OrderKeyTtl,
      ConfirmKeyTtl
<1> QED
  BY <1>1

\* An approval is never taken back.
LEMMA ChargeStays ==
    ASSUME TypeOK, [Next]_vars, NEW p \in Payments, charge[p] # NoKey
    PROVE  charge'[p] # NoKey
<1>1. ASSUME NEW r \in ConfirmRequests, Approve(r) PROVE charge'[p] # NoKey
  BY <1>1, NoneAssumption DEF Approve, TypeOK, ConfirmsOK
<1> QED
  BY <1>1, ApprovalsOnly

\* What a step does to the record of a running process.
LEMMA ConfirmsMove ==
    ASSUME TypeOK, [Next]_vars, NEW r \in ConfirmRequests
    PROVE  \/ confirms'[r] = confirms[r]
           \/ confirms'[r].pc \in {"idle", "prepare"} /\ confirms'[r].answer = "none"
           \/ ConfirmStep(r) /\ confirms[r].pc # "release"
           \/ ConfirmAbort(r)
<1> USE DEF TypeOK, ConfirmsOK
<1>1. ASSUME NEW q \in ConfirmRequests, ConfirmStep(q) \/ ConfirmAbort(q), q # r
      PROVE  confirms'[r] = confirms[r]
  BY <1>1
  DEF ConfirmStep, ConfirmBusy, ConfirmReplay, ConfirmAlreadyPaid, ConfirmRefused,
      ConfirmExpired, ConfirmInvalid, ConfirmPrepare, ConfirmApproved, ConfirmLost,
      ConfirmDeclined, ConfirmRecord, ConfirmRecordRefused, ConfirmFail,
      ConfirmFailRefused, ReleaseLocks, ConfirmAbort, Finish, Continue
<1>2. ASSUME NEW q \in ConfirmRequests, ReleaseLocks(q) \/ Crash(q)
      PROVE  confirms'[r] = confirms[r] \/ confirms'[r] = Idle
  BY <1>2 DEF ReleaseLocks, Crash
<1>3. ASSUME NEW q \in ConfirmRequests, NEW p \in Payments, NEW k \in ConfirmKeys,
             NEW valid \in Matching, ConfirmStart(q, p, k, valid)
      PROVE  \/ confirms'[r] = confirms[r]
             \/ confirms'[r].pc = "prepare" /\ confirms'[r].answer = "none"
  BY <1>3 DEF ConfirmStart
<1>4. ASSUME \/ \E p \in Payments, c \in Checkouts, k \in OrderKeys \cup {NoKey} :
                   CreateOrder(p, c, k)
             \/ \E p \in Payments : \/ PassExpiry(p) \/ GetPaymentDetail(p)
                                    \/ RecordAuthFailure(p) \/ ConfirmLockLapse(p)
             \/ \E c \in Checkouts : CheckoutLockLapse(c)
             \/ \E k \in OrderKeys : OrderKeyTtl(k)
             \/ \E k \in ConfirmKeys : ConfirmKeyTtl(k)
             \/ UNCHANGED vars
      PROVE  confirms' = confirms
  BY <1>4
  DEF CreateOrder, PassExpiry, GetPaymentDetail, RecordAuthFailure, ConfirmLockLapse,
      CheckoutLockLapse, OrderKeyTtl, ConfirmKeyTtl, vars
<1>5. ConfirmStep(r) => ReleaseLocks(r) \/ confirms[r].pc # "release"
  BY DEF ConfirmStep, ConfirmBusy, ConfirmReplay, ConfirmAlreadyPaid, ConfirmRefused,
      ConfirmExpired, ConfirmInvalid, ConfirmPrepare, Enter, ConfirmApproved, ConfirmLost,
      Approve, ConfirmDeclined, ConfirmRecord, ConfirmRecordRefused, ConfirmFail,
      ConfirmFailRefused
<1> QED
  BY <1>1, <1>2, <1>3, <1>4, <1>5 DEF Next, Idle

\* Only an approval brings a process to the point of recording a sale.
LEMMA NextRecords == ChargeInv /\ [Next]_vars => RecordsCharged'
<1> SUFFICES ASSUME ChargeInv, [Next]_vars, NEW r \in ConfirmRequests,
                    confirms'[r].pc = "record"
             PROVE  charge'[confirms'[r].payment] # NoKey
  BY DEF RecordsCharged
<1> USE DEF ChargeInv, TypeOK, ConfirmsOK
<1>1. CASE confirms'[r] = confirms[r]
  BY <1>1, ChargeStays DEF RecordsCharged
<1>2. CASE ConfirmStep(r) \/ ConfirmAbort(r)
  <2>1. ConfirmApproved(r)
    BY <1>2
    DEF ConfirmStep, ConfirmBusy, ConfirmReplay, ConfirmAlreadyPaid, ConfirmRefused,
        ConfirmExpired, ConfirmInvalid, ConfirmPrepare, ConfirmLost,
        ConfirmDeclined, ConfirmRecord, ConfirmRecordRefused, ConfirmFail,
        ConfirmFailRefused, ReleaseLocks, ConfirmAbort, Finish, Continue, Idle
  <2> QED
    BY <2>1, NoneAssumption DEF ConfirmApproved, Approve, Continue
<1> QED
  BY <1>1, <1>2, ConfirmsMove

\* Only a process that saw an approval makes a sale, and it adds the invoice.
LEMMA NextCharged == ChargeInv /\ [Next]_vars => PaidWasCharged'
<1> SUFFICES ASSUME ChargeInv, [Next]_vars PROVE PaidWasCharged'
  OBVIOUS
<1> USE DEF ChargeInv, TypeOK, OrdersOK, Settled
<1>1. ASSUME NEW p \in Payments, NEW c \in Checkouts, Opens(p, c) PROVE PaidWasCharged'
  BY <1>1, ChargeStays DEF Opens, PaidWasCharged
<1>2. ASSUME NEW p \in Payments, NEW status \in Retryable, Closes(p, status)
      PROVE  PaidWasCharged'
  BY <1>2, ChargeStays DEF Closes, Close, Retryable, PaidWasCharged
<1>3. ASSUME NEW p \in Payments, Sells(p) PROVE PaidWasCharged'
  <2>1. charge[p] # NoKey
    BY <1>3 DEF Sells, RecordsCharged
  <2>2. /\ payments' = [payments EXCEPT ![p].status = "paid", ![p].cancelable = Amount]
        /\ invoices' = invoices \cup {p}
    BY <1>3 DEF Sells
  <2>3. \A q \in Payments : payments'[q].status =
          IF q = p THEN "paid" ELSE payments[q].status
    BY <2>2
  <2> QED
    BY <2>1, <2>2, <2>3, ChargeStays DEF PaidWasCharged
<1>4. CASE UNCHANGED orderVars
  BY <1>4, ChargeStays DEF orderVars, PaidWasCharged
<1> QED
  BY <1>1, <1>2, <1>3, <1>4, Effects

\* No attempt is ever paid without an approval of the gateway, and the invoices
\* are those of the paid attempts.
THEOREM SalesAreCharged == Spec => []PaidWasCharged
<1>1. Init => ChargeInv
  <2>1. Init => PaidWasCharged /\ RecordsCharged
    BY DEF Init, PaidWasCharged, RecordsCharged, Settled, Idle
  <2> QED
    BY <2>1, InitType DEF ChargeInv
<1>2. ChargeInv /\ [Next]_vars => ChargeInv'
  BY NextType, NextRecords, NextCharged DEF ChargeInv
<1>3. ChargeInv => PaidWasCharged
  BY DEF ChargeInv
<1> QED
  BY <1>1, <1>2, <1>3, PTL DEF Spec

-----------------------------------------------------------------------------
(* Answers stay true.                                                      *)

\* An answer, or the entry of a key, is true of an attempt with this status.
Truth(answer, status) ==
    /\ answer \in {"paid", "succeeded"} => status \in Settled
    /\ answer \in {"rejected", "failed"} => status = "failed"

Telling == {"paid", "rejected"}

\* A key that has an answer names an attempt, and so does a process that has one.
AnswersName ==
    /\ \A k \in ConfirmKeys :
          confirmKeys[k].status \in {"succeeded", "failed"} =>
              confirmKeys[k].payment \in Payments
    /\ \A r \in ConfirmRequests :
          confirms[r].answer \in Telling => confirms[r].pc = "release"

AnswerInv == TypeOK /\ AnswersHold /\ AnswersName

\* What is true of an attempt stays true: failed and paid attempts are final.
LEMMA TruthStays ==
    ASSUME TypeOK, [Next]_vars, NEW p \in Payments, NEW answer,
           Truth(answer, payments[p].status)
    PROVE  Truth(answer, payments'[p].status)
BY NextMoves DEF Moves, Truth, Settled, Retryable

\* A key gets an answer only with the transaction that makes it true.
LEMMA KeysMove ==
    ASSUME TypeOK, [Next]_vars, NEW k \in ConfirmKeys,
           confirmKeys'[k].status \in {"succeeded", "failed"}
    PROVE  \/ confirmKeys'[k] = confirmKeys[k]
           \/ /\ confirmKeys'[k].payment \in Payments
              /\ Truth(confirmKeys'[k].status,
                      payments'[confirmKeys'[k].payment].status)
<1> USE DEF TypeOK, KeysOK, ConfirmsOK
<1>1. ASSUME NEW r \in ConfirmRequests, ConfirmAlreadyPaid(r), confirms[r].key = k
      PROVE  /\ confirmKeys'[k].payment \in Payments
             /\ Truth(confirmKeys'[k].status,
                      payments'[confirmKeys'[k].payment].status)
  BY <1>1 DEF ConfirmAlreadyPaid, Enter, SetKey, Truth, Settled, orderVars
<1>2. ASSUME NEW r \in ConfirmRequests, ConfirmRecord(r), confirms[r].key = k
      PROVE  /\ confirmKeys'[k].payment \in Payments
             /\ Truth(confirmKeys'[k].status,
                      payments'[confirmKeys'[k].payment].status)
  <2>1. /\ confirms[r].payment \in Payments
        /\ confirmKeys'[k] = [status |-> "succeeded", payment |-> confirms[r].payment,
                              valid |-> confirms[r].valid]
    BY <1>2 DEF ConfirmRecord, SetKey
  <2>2. payments'[confirms[r].payment].status = "paid"
    BY <1>2, <2>1 DEF ConfirmRecord, Sell, orderVars, OrdersOK
  <2> QED
    BY <2>1, <2>2 DEF Truth, Settled
<1>3. ASSUME NEW r \in ConfirmRequests, ConfirmFail(r), confirms[r].key = k
      PROVE  /\ confirmKeys'[k].payment \in Payments
             /\ Truth(confirmKeys'[k].status,
                      payments'[confirmKeys'[k].payment].status)
  <2>1. /\ confirms[r].payment \in Payments
        /\ confirmKeys'[k] = [status |-> "failed", payment |-> confirms[r].payment,
                              valid |-> confirms[r].valid]
    BY <1>3 DEF ConfirmFail, SetKey
  <2>2. payments'[confirms[r].payment].status = "failed"
    BY <1>3, <2>1 DEF ConfirmFail, Close, orderVars, OrdersOK
  <2> QED
    BY <2>1, <2>2 DEF Truth
<1>4. ASSUME NEW r \in ConfirmRequests, ConfirmPrepare(r), confirms[r].key = k
      PROVE  FALSE
  BY <1>4 DEF ConfirmPrepare, SetKey
<1>5. ASSUME NEW r \in ConfirmRequests, ConfirmStep(r),
             \/ confirms[r].key # k
             \/ ~(ConfirmAlreadyPaid(r) \/ ConfirmRecord(r) \/ ConfirmFail(r)
                                        \/ ConfirmPrepare(r))
      PROVE  confirmKeys'[k] = confirmKeys[k]
  BY <1>5
  DEF ConfirmStep, ConfirmBusy, ConfirmReplay, ConfirmAlreadyPaid, ConfirmRefused,
      ConfirmExpired, ConfirmInvalid, ConfirmPrepare, ConfirmApproved, ConfirmLost,
      ConfirmDeclined, ConfirmRecord, ConfirmRecordRefused, ConfirmFail,
      ConfirmFailRefused, ReleaseLocks, SetKey
<1>6. ASSUME NEW j \in ConfirmKeys, ConfirmKeyTtl(j)
      PROVE  confirmKeys'[k] = confirmKeys[k]
  BY <1>6 DEF ConfirmKeyTtl, NoEntry
<1>7. ASSUME \/ \E p \in Payments, c \in Checkouts, j \in OrderKeys \cup {NoKey} :
                   CreateOrder(p, c, j)
             \/ \E p \in Payments : \/ PassExpiry(p) \/ GetPaymentDetail(p)
                                    \/ RecordAuthFailure(p) \/ ConfirmLockLapse(p)
             \/ \E r \in ConfirmRequests, p \in Payments, j \in ConfirmKeys,
                   valid \in Matching : ConfirmStart(r, p, j, valid)
             \/ \E r \in ConfirmRequests : ConfirmAbort(r) \/ Crash(r)
             \/ \E c \in Checkouts : CheckoutLockLapse(c)
             \/ \E j \in OrderKeys : OrderKeyTtl(j)
             \/ UNCHANGED vars
      PROVE  confirmKeys' = confirmKeys
  BY <1>7
  DEF CreateOrder, PassExpiry, GetPaymentDetail, RecordAuthFailure, ConfirmLockLapse,
      ConfirmStart, ConfirmAbort, Crash, CheckoutLockLapse, OrderKeyTtl, vars
<1> QED
  BY <1>1, <1>2, <1>3, <1>4, <1>5, <1>6, <1>7 DEF Next

\* So does a process: it answers what it, or the key, has recorded.
LEMMA RequestsMove ==
    ASSUME AnswerInv, [Next]_vars, NEW r \in ConfirmRequests,
           confirms'[r].answer \in Telling
    PROVE  /\ confirms'[r].pc = "release"
           /\ confirms'[r].payment \in Payments
           /\ Truth(confirms'[r].answer, payments'[confirms'[r].payment].status)
<1> USE DEF AnswerInv, TypeOK, ConfirmsOK, Telling
<1>1. CASE confirms'[r] = confirms[r]
  <2>1. /\ confirms[r].pc = "release" /\ confirms[r].payment \in Payments
        /\ Truth(confirms[r].answer, payments[confirms[r].payment].status)
    BY <1>1 DEF AnswersName, AnswersHold, Truth
  <2> QED
    BY <1>1, <2>1, TruthStays DEF Truth
<1>2. CASE ConfirmStep(r) /\ confirms[r].pc # "release"
  <2>1. confirms[r].answer \notin Telling
    BY <1>2 DEF AnswersName
  <2>2. \/ ConfirmReplay(r) \/ ConfirmAlreadyPaid(r)
        \/ ConfirmRecord(r) \/ ConfirmFail(r)
    BY <1>2, <2>1
    DEF ConfirmStep, ConfirmBusy, ConfirmRefused, ConfirmExpired, ConfirmInvalid,
        ConfirmPrepare, ConfirmApproved, ConfirmLost, ConfirmDeclined,
        ConfirmRecordRefused, ConfirmFailRefused, ReleaseLocks, Finish, Continue, Idle
  <2>3. /\ confirms'[r].pc = "release"
        /\ confirms'[r].payment = confirms[r].payment
        /\ confirms[r].payment \in Payments
        /\ confirms[r].key \in ConfirmKeys
    BY <2>2 DEF ConfirmReplay, ConfirmAlreadyPaid, ConfirmRecord, ConfirmFail, Enter,
                Finish
  <2>4. ASSUME ConfirmReplay(r)
        PROVE  Truth(confirms'[r].answer, payments'[confirms[r].payment].status)
    BY <2>3, <2>4
    DEF ConfirmReplay, KeyConflict, Enter, Finish, AnswersHold, Truth, orderVars
  <2>5. ASSUME ConfirmAlreadyPaid(r)
        PROVE  /\ confirms'[r].answer = "paid"
               /\ payments'[confirms[r].payment].status = "paid"
    BY <2>5 DEF ConfirmAlreadyPaid, Enter, Finish, orderVars
  <2>6. ASSUME ConfirmRecord(r)
        PROVE  /\ confirms'[r].answer = "paid"
               /\ payments'[confirms[r].payment].status = "paid"
    BY <2>3, <2>6 DEF ConfirmRecord, Sell, Finish, orderVars, OrdersOK
  <2>7. ASSUME ConfirmFail(r)
        PROVE  /\ confirms'[r].answer = "rejected"
               /\ payments'[confirms[r].payment].status = "failed"
    BY <2>3, <2>7 DEF ConfirmFail, Close, Finish, orderVars, OrdersOK
  <2> QED
    BY <2>2, <2>3, <2>4, <2>5, <2>6, <2>7 DEF Truth, Settled
<1>3. CASE ConfirmAbort(r)
  BY <1>3 DEF ConfirmAbort, Finish
<1> QED
  BY <1>1, <1>2, <1>3, ConfirmsMove

\* Together: the invariant is kept.
LEMMA NextAnswers == AnswerInv /\ [Next]_vars => AnswerInv'
<1> SUFFICES ASSUME AnswerInv, [Next]_vars PROVE (AnswersHold /\ AnswersName)'
  BY NextType DEF AnswerInv
<1> USE DEF AnswerInv
<1>1. ASSUME NEW k \in ConfirmKeys, confirmKeys'[k].status \in {"succeeded", "failed"}
      PROVE  /\ confirmKeys'[k].payment \in Payments
             /\ Truth(confirmKeys'[k].status,
                      payments'[confirmKeys'[k].payment].status)
  <2>1. CASE confirmKeys'[k] = confirmKeys[k]
    <3>1. /\ confirmKeys[k].payment \in Payments
          /\ Truth(confirmKeys[k].status, payments[confirmKeys[k].payment].status)
      BY <1>1, <2>1 DEF AnswersName, AnswersHold, Truth
    <3> QED
      BY <2>1, <3>1, TruthStays DEF Truth
  <2> QED
    BY <1>1, <2>1, KeysMove
<1>2. AnswersHold'
  BY <1>1, RequestsMove DEF AnswersHold, Truth, Telling
<1>3. AnswersName'
  BY <1>1, RequestsMove DEF AnswersName
<1> QED
  BY <1>2, <1>3

\* A stored answer is replayed, and a computed answer is sent, only while it is
\* true of the payment.
THEOREM AnswersStayTrue == Spec => []AnswersHold
<1>1. Init => AnswerInv
  <2>1. Init => AnswersHold /\ AnswersName
    BY DEF Init, AnswersHold, AnswersName, Telling, NoEntry, Idle
  <2> QED
    BY <2>1, InitType DEF AnswerInv
<1>2. AnswerInv => AnswersHold
  BY DEF AnswerInv
<1> QED
  BY <1>1, <1>2, NextAnswers, PTL DEF Spec
==============================================================================
