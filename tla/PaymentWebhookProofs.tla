------------------------- MODULE PaymentWebhookProofs -------------------------
(***************************************************************************)
(* Theorems of PaymentWebhook, for every number of attempts, checkouts,    *)
(* processes and keys: late, repeated and reordered events keep the types, *)
(* what was sold stays charged, what was refunded stays refunded, and what *)
(* a sale has left stays its price less what was recorded.                 *)
(*                                                                         *)
(* An event only touches the orders, so the invariants of cancellations    *)
(* carry over.  What it needs of its own: an event names an attempt that   *)
(* was ordered, and a recorded refund shows in the status of its payment,  *)
(* which dates the payment after every approval.                           *)
(*                                                                         *)
(* CheckoutTracksPayments and StockExact are no invariants of the          *)
(* composition and are not used: the orders enter by their types alone.    *)
(***************************************************************************)
EXTENDS PaymentWebhook, PaymentCancelProofs

-----------------------------------------------------------------------------
(* What the gateway has to report.                                         *)

\* An approval names an attempt that was ordered.
ApprovedIsOpen == \A p \in Payments : charge[p] # NoKey => payments[p].status # "none"

\* A refund and what it left are part of the price.
RefundsAddUp ==
    \A p \in Payments, k \in CancelKeys : refunds[p][k].amount + refunds[p][k].left <= Amount

\* A recorded refund shows in the status.
RefundsShow ==
    \A p \in Payments, k \in CancelKeys :
        history[p][k] > 0 => payments[p].status \in {"canceled", "partial_canceled"}

WebhookDocsOK == handled \subseteq AllEvents /\ stamp \in [Payments -> 0..Amount]

WebhookInv ==
    /\ TypeOK /\ CancelInv /\ MoneyInv
    /\ PaidWasCharged /\ RecordsCharged
    /\ ApprovedIsOpen /\ RefundsAddUp /\ RefundsShow
    /\ WebhookDocsOK

\* Every event names an attempt that was ordered; an approval has time 0, and
\* the others name a sale.
LEMMA EventFields ==
    ASSUME WebhookInv, NEW e \in Events
    PROVE  /\ e \in AllEvents /\ e.payment \in Payments
           /\ payments[e.payment].status # "none" /\ CheckoutOf(e.payment) \in Checkouts
           /\ e.status = "DONE" => e.time = 0 /\ charge[e.payment] # NoKey
           /\ e.status # "DONE" => payments[e.payment].status \in Settled
<1>t. TypeOK /\ CancelDocsOK /\ MoneyInv /\ ApprovedIsOpen /\ Amount \in Nat
  BY AmountAssumption DEF WebhookInv, CancelInv
<1>1. ASSUME NEW p \in Payments, charge[p] # NoKey, e = Done(p)
      PROVE  /\ e \in AllEvents /\ e.payment = p /\ e.status = "DONE" /\ e.time = 0
             /\ payments[p].status # "none"
  BY <1>t, <1>1 DEF Done, AllEvents, ApprovedIsOpen
<1>2. ASSUME NEW p \in Payments, NEW k \in CancelKeys, refunds[p][k] # NoRefund, e = Canceled(p, k)
      PROVE  /\ e \in AllEvents /\ e.payment = p /\ e.status # "DONE"
             /\ payments[p].status \in Settled
  <2>1. refunds[p][k].left \in 0..Amount
    BY <1>t DEF CancelDocsOK
  <2>2. Amount - refunds[p][k].left \in 0..Amount
    BY <1>t, <2>1
  <2>3. payments[p].status \in Settled
    BY <1>t, <1>2 DEF MoneyInv, MoneyOf
  <2> QED
    BY <1>2, <2>2, <2>3 DEF Canceled, AllEvents
<1>3. \/ \E p \in Payments : charge[p] # NoKey /\ e = Done(p)
      \/ \E p \in Payments, k \in CancelKeys : refunds[p][k] # NoRefund /\ e = Canceled(p, k)
  BY DEF Events
<1>4. /\ e \in AllEvents /\ e.payment \in Payments
      /\ payments[e.payment].status # "none"
      /\ e.status = "DONE" => e.time = 0 /\ charge[e.payment] # NoKey
      /\ e.status # "DONE" => payments[e.payment].status \in Settled
  BY <1>1, <1>2, <1>3 DEF Settled
<1> QED
  BY <1>t, <1>4 DEF TypeOK, OrdersOK

\* A set of natural numbers that is not empty has a least element.
LEMMA LeastNumber ==
    ASSUME NEW L, L \subseteq Nat, L # {}
    PROVE  \E l \in L : \A n \in L : l <= n
<1>1. PICK x \in L : TRUE
  OBVIOUS
<1> DEFINE K == 0..x
           small == L \cap K
           below == {0..l : l \in small}
<1>2. IsFiniteSet(K)
  BY FS_Interval
<1>3. below \subseteq SUBSET K /\ below # {}
  <2>1. x \in small
    BY <1>1
  <2> QED
    BY <2>1
<1>4. PICK T \in below : \A U \in below : U \subseteq T => U = T
  <2> HIDE DEF K, below
  <2> QED
    BY <1>2, <1>3, LeastSubset
<1>5. PICK l \in small : T = 0..l
  OBVIOUS
<1>6. ASSUME NEW n \in L PROVE l <= n
  <2>1. l \in Nat /\ n \in Nat /\ x \in Nat /\ l <= x
    OBVIOUS
  <2>2. CASE n > x
    BY <2>1, <2>2
  <2>3. CASE n <= x /\ n < l
    <3>1. n \in small
      BY <2>1, <2>3
    <3>2. 0..n \subseteq 0..l
      BY <2>1, <2>3
    <3>3. 0..n = 0..l
      BY <1>4, <1>5, <3>1, <3>2
    <3>4. l \in 0..n
      BY <2>1, <3>3
    <3> QED
      BY <2>1, <2>3, <3>4
  <2> QED
    BY <2>1, <2>2, <2>3
<1> QED
  BY <1>5, <1>6

\* An approval is current only while no refund of the payment is recorded: a
\* recorded one dates the payment after it.
LEMMA CurrentUnrefunded ==
    ASSUME WebhookInv, NEW e \in Events, e.status = "DONE", Current(e),
           NEW k \in CancelKeys
    PROVE  history[e.payment][k] = 0
<1> DEFINE p == e.payment
           recorded == {j \in CancelKeys : history[p][j] > 0}
           times == {Amount - refunds[p][j].left : j \in recorded}
<1>t. /\ CancelDocsOK /\ RecordedWasMade /\ RefundsAddUp /\ RefundsShow
      /\ Amount \in Nat /\ p \in Payments /\ e.time = 0
  BY EventFields, AmountAssumption DEF WebhookInv, CancelInv
<1>1. \A j \in CancelKeys : history[p][j] \in 0..Amount /\ refunds[p][j].left \in 0..Amount
                            /\ refunds[p][j].amount \in 0..Amount
  BY <1>t DEF CancelDocsOK
<1> SUFFICES ASSUME history[p][k] > 0 PROVE FALSE
  BY <1>t, <1>1
<1>2. ASSUME NEW j \in recorded
      PROVE  Amount - refunds[p][j].left \in Nat /\ Amount - refunds[p][j].left > 0
  <2>1. refunds[p][j].amount = history[p][j] /\ history[p][j] > 0
    BY <1>t DEF RecordedWasMade
  <2>2. refunds[p][j].amount + refunds[p][j].left <= Amount
    BY <1>t DEF RefundsAddUp
  <2> QED
    BY <1>t, <1>1, <2>1, <2>2
<1>3. \E m \in times : \A n \in times : m >= n
  <2> DEFINE lefts == {refunds[p][j].left : j \in recorded}
  <2>1. lefts \subseteq Nat /\ lefts # {}
    BY <1>1
  <2>2. PICK l \in lefts : \A n \in lefts : l <= n
    <3> HIDE DEF lefts
    <3> QED
      BY <2>1, LeastNumber
  <2>4. Amount - l \in times
    OBVIOUS
  <2>5. ASSUME NEW n \in times PROVE Amount - l >= n
    <3>1. PICK j \in recorded : n = Amount - refunds[p][j].left
      OBVIOUS
    <3>2. l <= refunds[p][j].left /\ l \in Nat /\ refunds[p][j].left \in Nat
      BY <1>1, <2>1, <2>2
    <3> QED
      BY <1>t, <3>1, <3>2
  <2> QED
    BY <2>4, <2>5
<1>4. Max(times) \in times
  <2> HIDE DEF times
  <2> QED
    BY <1>3 DEF Max
<1>5. Max(times) \in Nat /\ Max(times) > 0
  BY <1>2, <1>4
<1>6. payments[p].status \in {"canceled", "partial_canceled"} /\ recorded # {}
  BY <1>t DEF RefundsShow
<1>7. Timestamp(p) = Max(times)
  BY <1>6 DEF Timestamp
<1>8. ~ (e.time < Timestamp(p))
  BY DEF Current, Older
<1> HIDE DEF times
<1> QED
  BY <1>t, <1>5, <1>7, <1>8

-----------------------------------------------------------------------------
(* Steps of orders and cancellations.                                      *)

\* An attempt that was ordered stays ordered, and is charged as before.
LEMMA OrderedStays ==
    ASSUME TypeOK, CancelInv, [CancelNext]_allVars, ApprovedIsOpen
    PROVE  ApprovedIsOpen'
<1>1. ASSUME NEW p \in Payments, payments[p].status # "none" PROVE payments'[p].status # "none"
  <2>1. CASE [Next]_vars
    <3>1. ASSUME NEW q \in Payments, NEW c \in Checkouts, Opens(q, c)
          PROVE  payments'[p].status # "none"
      BY <1>1, <3>1 DEF Opens, TypeOK, OrdersOK
    <3>2. ASSUME NEW q \in Payments, NEW status \in Retryable, Closes(q, status)
          PROVE  payments'[p].status # "none"
      BY <1>1, <3>2 DEF Closes, Close, Retryable, TypeOK, OrdersOK
    <3>3. ASSUME NEW q \in Payments, Sells(q) PROVE payments'[p].status # "none"
      BY <1>1, <3>3 DEF Sells, TypeOK, OrdersOK
    <3>4. CASE UNCHANGED orderVars
      BY <1>1, <3>4 DEF orderVars
    <3> QED
      BY <2>1, <3>1, <3>2, <3>3, <3>4, Effects
  <2>2. CASE UNCHANGED vars
    BY <1>1, <2>2 DEF vars
  <2>3. ASSUME NEW r \in CancelRequests, cancels[r].pc = "record",
               CanRefund(cancels[r].payment, cancels[r].amount), RecordRefund(r)
        PROVE  payments'[p].status # "none"
    <3>1. PICK q \in Payments, left \in 0..Amount : Refunds(q, left)
      BY <2>3, RecordRefunds
    <3> QED
      BY <1>1, <3>1, RefundWrites
  <2> QED
    BY <2>1, <2>2, <2>3, CancelSteps, CancelEffects
<1>2. ASSUME NEW p \in Payments, charge'[p] # NoKey PROVE payments'[p].status # "none"
  <2>1. CASE charge'[p] = charge[p]
    BY <1>1, <1>2, <2>1 DEF ApprovedIsOpen
  <2>2. ASSUME NEW r \in ConfirmRequests, Approve(r) PROVE payments'[p].status # "none"
    <3>1. charge'[p] = charge[p] \/ p = confirms[r].payment
      BY <2>2 DEF Approve, TypeOK
    <3>2. payments[confirms[r].payment].status # "none"
      BY <2>2 DEF Approve, TypeOK, ConfirmsOK
    <3> QED
      BY <1>1, <2>1, <3>1, <3>2
  <2>3. CASE [Next]_vars
    <3>1. charge' = charge \/ \E r \in ConfirmRequests : Approve(r)
      BY <2>3, ApprovalsOnly
    <3> QED
      BY <2>1, <2>2, <3>1
  <2>4. CASE CancelAction
    <3>1. charge' = charge
      BY <2>4, CancelEffects DEF vars, RecordRefund
    <3> QED
      BY <2>1, <3>1
  <2> QED
    BY <2>3, <2>4, CancelSteps
<1> QED
  BY <1>2 DEF ApprovedIsOpen

\* The gateway answers with what it has left.
LEMMA AnswersAddUp ==
    ASSUME CancelInv, [CancelNext]_allVars, RefundsAddUp
    PROVE  RefundsAddUp'
<1>t. CancelDocsOK /\ CancelsOK /\ Amount \in Nat
  BY AmountAssumption DEF CancelInv
<1>1. ASSUME UNCHANGED refunds PROVE RefundsAddUp'
  BY <1>1 DEF RefundsAddUp
<1>2. ASSUME NEW r \in CancelRequests, Refund(r) PROVE RefundsAddUp'
  <2> DEFINE q == cancels[r].payment
             k == cancels[r].key
             a == cancels[r].amount
             answer == [amount |-> a, left |-> balance[q] - a]
  <2>1. q \in Payments /\ k \in CancelKeys /\ a \in 0..Amount
    BY <1>t, <1>2, CancelFields DEF Refund
  <2>2. UNCHANGED refunds \/ refunds' = [refunds EXCEPT ![q][k] = answer]
    BY <1>2 DEF Refund, gatewayVars
  <2>3. CASE refunds' = [refunds EXCEPT ![q][k] = answer]
    <3>1. balance[q] \in 0..Amount
      BY <1>t, <2>1 DEF CancelDocsOK
    <3>2. answer.amount + answer.left <= Amount
      BY <1>t, <2>1, <3>1
    <3> HIDE DEF answer
    <3>3. ASSUME NEW x \in Payments, NEW y \in CancelKeys
          PROVE  refunds'[x][y] = answer \/ refunds'[x][y] = refunds[x][y]
      BY <1>t, <2>1, <2>3 DEF CancelDocsOK
    <3>4. ASSUME NEW x \in Payments, NEW y \in CancelKeys
          PROVE  refunds'[x][y].amount + refunds'[x][y].left <= Amount
      BY <3>2, <3>3 DEF RefundsAddUp
    <3> QED
      BY <3>4 DEF RefundsAddUp
  <2> QED
    BY <1>1, <2>2, <2>3
<1>3. CASE [Next]_vars /\ UNCHANGED cancelVars
  BY <1>1, <1>3 DEF cancelVars
<1>4. ASSUME NEW r \in CancelRequests, CancelStep(r) \/ CancelAbort(r) \/ CancelCrash(r)
      PROVE  UNCHANGED refunds \/ Refund(r)
  BY <1>4 DEF CancelStep, CancelAbort, CancelCrash, CancelPrepare, CancelNotPrepared,
              CancelAnswered, CancelLost, CancelDeclined, CancelRecord, CancelFail,
              CancelRelease, gatewayVars
<1>5. ASSUME \/ \E r \in CancelRequests, q \in Payments, k \in CancelKeys, want \in Wants :
                    CancelStart(r, q, k, want)
             \/ \E q \in Payments : CancelLockLapse(q)
             \/ \E q \in Payments, k \in CancelKeys : CancelKeyTtl(q, k)
      PROVE  UNCHANGED refunds
  BY <1>5 DEF CancelStart, CancelLockLapse, CancelKeyTtl, gatewayVars
<1> QED
  BY <1>1, <1>2, <1>3, <1>4, <1>5, CancelSteps DEF CancelAction

\* Recording a refund shows it, and it goes on showing.
LEMMA ShownStays ==
    ASSUME TypeOK, CancelInv, [CancelNext]_allVars, RefundsShow
    PROVE  RefundsShow'
<1> DEFINE shown == {"canceled", "partial_canceled"}
<1>1. ASSUME NEW p \in Payments, payments'[p] = payments[p], history'[p] = history[p],
             NEW k \in CancelKeys, history'[p][k] > 0
      PROVE  payments'[p].status \in shown
  BY <1>1 DEF RefundsShow
<1>2. CASE [Next]_vars /\ UNCHANGED cancelVars
  <2>1. ASSUME NEW p \in Payments, NEW k \in CancelKeys, history'[p][k] > 0
        PROVE  payments'[p].status \in shown
    <3>1. history' = history
      BY <1>2 DEF cancelVars
    <3>2. payments[p].status \in Settled
      BY <2>1, <3>1 DEF RefundsShow, Settled
    <3> QED
      BY <1>1, <1>2, <2>1, <3>1, <3>2, OrdersLeaveSettled
  <2> QED
    BY <2>1 DEF RefundsShow
<1>3. CASE UNCHANGED <<vars, history>>
  BY <1>3 DEF vars, RefundsShow
<1>4. ASSUME NEW r \in CancelRequests, cancels[r].pc = "record",
             CanRefund(cancels[r].payment, cancels[r].amount), RecordRefund(r)
      PROVE  RefundsShow'
  <2> DEFINE q == cancels[r].payment
             left == payments[q].cancelable - cancels[r].amount
  <2>1. q \in Payments /\ DOMAIN payments = Payments
    BY <1>4, CancelFields DEF CancelInv, TypeOK, OrdersOK
  <2>2. payments'[q].status \in shown
    BY <1>4, <2>1 DEF RecordRefund
  <2>3. ASSUME NEW x \in Payments, x # q
        PROVE  payments'[x] = payments[x] /\ history'[x] = history[x]
    BY <1>4, <2>1, <2>3 DEF RecordRefund, TypeOK, OrdersOK, CancelInv, CancelDocsOK
  <2>4. ASSUME NEW p \in Payments, NEW k \in CancelKeys, history'[p][k] > 0
        PROVE  payments'[p].status \in shown
    BY <1>1, <2>2, <2>3, <2>4
  <2> QED
    BY <2>4 DEF RefundsShow
<1> QED
  BY <1>2, <1>3, <1>4, CancelSteps, CancelEffects

\* Sales and invoices under cancellations.
LEMMA CancelCharged ==
    ASSUME TypeOK, CancelInv, PaidWasCharged, RecordsCharged, [CancelNext]_allVars
    PROVE  PaidWasCharged' /\ RecordsCharged'
<1>1. CASE [Next]_vars
  BY <1>1, NextRecords, NextCharged DEF ChargeInv
<1>2. CASE UNCHANGED vars
  BY <1>2, NextRecords, NextCharged DEF ChargeInv
<1>3. ASSUME NEW r \in CancelRequests, cancels[r].pc = "record",
             CanRefund(cancels[r].payment, cancels[r].amount), RecordRefund(r)
      PROVE  PaidWasCharged' /\ RecordsCharged'
  <2>1. PICK q \in Payments, left \in 0..Amount : Refunds(q, left)
    BY <1>3, RecordRefunds
  <2>2. /\ payments[q].status \in Settled /\ payments'[q].status \in Settled
        /\ \A x \in Payments : x # q => payments'[x] = payments[x]
        /\ UNCHANGED <<invoices, confirms, charge>>
    BY <2>1, RefundWrites DEF Refunds, Refundable, Settled
  <2>3. \A x \in Payments : payments'[x].status \in Settled <=> payments[x].status \in Settled
    BY <2>2
  <2> QED
    BY <2>2, <2>3 DEF PaidWasCharged, RecordsCharged
<1> QED
  BY <1>1, <1>2, <1>3, CancelSteps, CancelEffects

-----------------------------------------------------------------------------
(* Steps of webhooks.                                                      *)

\* What an approval does to the payments.
LEMMA DoneWrites ==
    ASSUME WebhookInv, NEW e \in Events, WebhookDone(e)
    PROVE  /\ payments'[e.payment].status = IF payments[e.payment].status \in Settled
                                            THEN payments[e.payment].status ELSE "paid"
           /\ payments'[e.payment].checkout = CheckoutOf(e.payment)
           /\ payments'[e.payment].cancelable = Amount
           /\ \A q \in Payments : q # e.payment => payments'[q] = payments[q]
           /\ payments' \in [Payments -> [status : PaymentStatus,
                                          checkout : Checkouts \cup {NoCheckout},
                                          cancelable : 0..Amount]]
<1> DEFINE p == e.payment
           status == IF payments[p].status \in Settled THEN payments[p].status ELSE "paid"
           new == [status |-> status, checkout |-> CheckoutOf(p), cancelable |-> Amount]
<1>1. /\ p \in Payments /\ CheckoutOf(p) \in Checkouts
      /\ payments \in [Payments -> [status : PaymentStatus,
                                    checkout : Checkouts \cup {NoCheckout},
                                    cancelable : 0..Amount]]
      /\ Amount \in 0..Amount
  BY EventFields, AmountAssumption DEF WebhookInv, TypeOK, OrdersOK
<1>2. payments' = [payments EXCEPT ![p].status = IF @ \in Settled THEN @ ELSE "paid",
                                   ![p].cancelable = Amount]
  BY DEF WebhookDone, PayAttempt
<1>3. payments'[p] = new /\ \A q \in Payments : q # p => payments'[q] = payments[q]
  BY <1>1, <1>2 DEF CheckoutOf
<1>4. new \in [status : PaymentStatus, checkout : Checkouts \cup {NoCheckout},
               cancelable : 0..Amount]
  BY <1>1 DEF Settled, PaymentStatus
<1>5. \A q \in Payments : payments'[q] \in [status : PaymentStatus,
                                            checkout : Checkouts \cup {NoCheckout},
                                            cancelable : 0..Amount]
  BY <1>1, <1>3, <1>4
<1>6. payments' = [q \in Payments |-> payments'[q]]
  BY <1>1, <1>2
<1> QED
  BY <1>3, <1>5, <1>6

\* What a cancellation event does to them.
LEMMA CanceledWrites ==
    ASSUME WebhookInv, NEW e \in Events, WebhookCanceled(e)
    PROVE  /\ payments[e.payment].status \in Settled
           /\ payments'[e.payment].status \in {"canceled", "partial_canceled"}
           /\ payments[e.payment].status = "canceled" => payments'[e.payment].status = "canceled"
           /\ payments'[e.payment].checkout = CheckoutOf(e.payment)
           /\ payments'[e.payment].cancelable = payments[e.payment].cancelable
           /\ \A q \in Payments : q # e.payment => payments'[q] = payments[q]
           /\ payments' \in [Payments -> [status : PaymentStatus,
                                          checkout : Checkouts \cup {NoCheckout},
                                          cancelable : 0..Amount]]
<1> DEFINE p == e.payment
           status == IF e.status = "CANCELED" THEN "canceled" ELSE "partial_canceled"
<1>1. /\ p \in Payments /\ payments[p].status \in Settled
      /\ payments \in [Payments -> [status : PaymentStatus,
                                    checkout : Checkouts \cup {NoCheckout},
                                    cancelable : 0..Amount]]
  BY EventFields DEF WebhookInv, TypeOK, OrdersOK, WebhookCanceled
<1>2. CASE payments[p].status = "canceled"
  BY <1>1, <1>2 DEF WebhookCanceled, CheckoutOf
<1>3. CASE payments[p].status # "canceled"
  <2>1. payments' = [payments EXCEPT ![p].status = status]
    BY <1>3 DEF WebhookCanceled
  <2>2. status \in {"canceled", "partial_canceled"} /\ status \in PaymentStatus
    BY DEF PaymentStatus
  <2> HIDE DEF status
  <2> QED
    BY <1>1, <1>3, <2>1, <2>2 DEF CheckoutOf
<1> QED
  BY <1>2, <1>3

\* The types survive a webhook.
LEMMA WebhookTypes ==
    ASSUME WebhookInv, NEW e \in Events, Webhook(e)
    PROVE  TypeOK' /\ WebhookDocsOK'
<1>t. TypeOK /\ WebhookDocsOK /\ e \in AllEvents /\ e.payment \in Payments /\ 0 \in 0..Amount
  BY EventFields, AmountAssumption DEF WebhookInv
<1>1. CASE WebhookIgnored(e)
  <2>1. UNCHANGED vars /\ handled' = handled \cup {e} /\ UNCHANGED stamp
    BY <1>1 DEF WebhookIgnored, Handle, allVars
  <2> QED
    BY <1>t, <2>1, NextType DEF WebhookDocsOK
<1>2. CASE WebhookDone(e)
  <2>1. /\ UNCHANGED <<orderKeys, confirmKeys, lockVars, confirms, charge>>
        /\ handled' = handled \cup {e} /\ stamp' = [stamp EXCEPT ![e.payment] = 0]
        /\ due' = due \ {e.payment}
        /\ checkouts' = [checkouts EXCEPT ![CheckoutOf(e.payment)] =
                            [status |-> "paid", last |-> e.payment]]
        /\ invoices' = invoices \/ invoices' = invoices \cup {e.payment}
        /\ CaptureReserved(CheckoutOf(e.payment)) \/ UNCHANGED stockVars
    BY <1>2 DEF WebhookDone, Handle, PayCheckout, PayInvoice, CaptureOnce
  <2>2. /\ \A q \in Payments : payments[q].status # "none" => payments'[q].status # "none"
        /\ \A q \in Payments : payments'[q].checkout = payments[q].checkout
        /\ payments'[e.payment].status # "none" /\ CheckoutOf(e.payment) \in Checkouts
        /\ \A q \in Payments : payments'[q].status # "none" => payments[q].status # "none"
        /\ payments' \in [Payments -> [status : PaymentStatus,
                                       checkout : Checkouts \cup {NoCheckout},
                                       cancelable : 0..Amount]]
    BY <1>2, DoneWrites, EventFields DEF Settled, CheckoutOf
  <2>3. OrdersOK'
    <3>1. checkouts' \in [Checkouts -> [status : CheckoutStatus, last : Payments \cup {NoPayment}]]
      BY <1>t, <2>1 DEF TypeOK, OrdersOK, CheckoutStatus
    <3> QED
      BY <1>t, <2>2, <3>1 DEF TypeOK, OrdersOK, CheckoutOf
  <2>4. StockOK'
    BY <1>t, <2>1 DEF TypeOK, StockOK, CaptureReserved, Reserved, stockVars
  <2>5. KeysOK' /\ LocksOK' /\ ConfirmsOK'
    BY <1>t, <2>1, <2>2 DEF TypeOK, KeysOK, LocksOK, ConfirmsOK, lockVars
  <2>6. invoices' \subseteq Payments /\ due' \subseteq Payments
        /\ charge' \in [Payments -> ConfirmKeys \cup {NoKey}]
    BY <1>t, <2>1 DEF TypeOK
  <2>7. WebhookDocsOK'
    BY <1>t, <2>1 DEF WebhookDocsOK
  <2> QED
    BY <2>3, <2>4, <2>5, <2>6, <2>7 DEF TypeOK
<1>3. CASE WebhookCanceled(e)
  <2>1. /\ UNCHANGED <<checkouts, stockVars, invoices, due, orderKeys, confirmKeys, lockVars,
                       confirms, charge>>
        /\ handled' = handled \cup {e}
        /\ UNCHANGED stamp \/ stamp' = [stamp EXCEPT ![e.payment] = e.time]
    BY <1>3 DEF WebhookCanceled, Handle
  <2>2. /\ \A q \in Payments : payments[q].status # "none" <=> payments'[q].status # "none"
        /\ \A q \in Payments : payments'[q].checkout = payments[q].checkout
        /\ payments' \in [Payments -> [status : PaymentStatus,
                                       checkout : Checkouts \cup {NoCheckout},
                                       cancelable : 0..Amount]]
    BY <1>3, CanceledWrites DEF Settled, CheckoutOf
  <2>3. OrdersOK'
    BY <1>t, <2>1, <2>2 DEF TypeOK, OrdersOK, CheckoutOf
  <2>4. StockOK' /\ KeysOK' /\ LocksOK' /\ ConfirmsOK'
    BY <1>t, <2>1, <2>2 DEF TypeOK, StockOK, KeysOK, LocksOK, ConfirmsOK, lockVars, stockVars
  <2>5. e.time \in 0..Amount
    BY <1>t DEF AllEvents
  <2>6. WebhookDocsOK'
    BY <1>t, <2>1, <2>5 DEF WebhookDocsOK
  <2> QED
    BY <1>t, <2>1, <2>3, <2>4, <2>6 DEF TypeOK
<1> QED
  BY <1>1, <1>2, <1>3 DEF Webhook

\* A webhook leaves keys, rows, requests and the gateway alone.
LEMMA WebhookLeaves ==
    ASSUME NEW e \in Events, Webhook(e)
    PROVE  UNCHANGED <<history, cancelRows, cancelKeys, cancelLock, cancels, balance, refunds,
                       confirms, charge>>
BY DEF Webhook, WebhookIgnored, WebhookDone, WebhookCanceled, allVars, vars, cancelVars

\* What a webhook does to a payment: nothing; or an approval sells it, or finds
\* it sold and without a recorded refund; or a refund finds it sold.
LEMMA WebhookMoves ==
    ASSUME WebhookInv, NEW e \in Events, Webhook(e), NEW p \in Payments
    PROVE  \/ payments'[p] = payments[p]
           \/ /\ charge[p] # NoKey
              /\ payments[p].status \notin Settled
              /\ payments'[p].status = "paid" /\ payments'[p].cancelable = Amount
           \/ /\ payments[p].status \in Settled
              /\ payments'[p].status = payments[p].status /\ payments'[p].cancelable = Amount
              /\ \A k \in CancelKeys : history[p][k] = 0
           \/ /\ payments[p].status \in Settled
              /\ payments'[p].status \in {"canceled", "partial_canceled"}
              /\ payments[p].status = "canceled" => payments'[p].status = "canceled"
              /\ payments'[p].cancelable = payments[p].cancelable
<1>1. CASE WebhookIgnored(e)
  BY <1>1 DEF WebhookIgnored, allVars, vars
<1>2. CASE WebhookDone(e)
  <2>1. e.status = "DONE" /\ Current(e)
    BY <1>2 DEF WebhookDone
  <2>2. charge[e.payment] # NoKey
    BY <2>1, EventFields
  <2>3. \A k \in CancelKeys : history[e.payment][k] = 0
    BY <2>1, CurrentUnrefunded
  <2> QED
    BY <1>2, <2>2, <2>3, DoneWrites
<1>3. CASE WebhookCanceled(e)
  BY <1>3, CanceledWrites
<1> QED
  BY <1>1, <1>2, <1>3 DEF Webhook

\* The documents and the gateway go on agreeing.
LEMMA WebhookMoney ==
    ASSUME WebhookInv, NEW e \in Events, Webhook(e)
    PROVE  MoneyInv'
<1>t. CancelDocsOK /\ CancelsOK /\ MoneyInv
  BY DEF WebhookInv, CancelInv
<1>u. history' = history /\ refunds' = refunds /\ balance' = balance /\ cancels' = cancels
  BY WebhookLeaves
<1>1. ASSUME NEW p \in Payments PROVE MoneyOf(p)'
  <2>0. MoneyOf(p)
    BY <1>t DEF MoneyInv
  <2>1. CASE payments'[p] = payments[p]
    BY <1>u, <2>0, <2>1, MoneyStays
  <2>2. CASE /\ payments[p].status \notin Settled
             /\ payments'[p].status = "paid" /\ payments'[p].cancelable = Amount
    BY <1>t, <1>u, <2>0, <2>2, MoneySold
  <2>3. CASE /\ payments[p].status \in Settled
             /\ payments'[p].status \in Settled
             /\ payments'[p].cancelable = payments[p].cancelable
    BY <1>u, <2>0, <2>3, RefundedIs DEF MoneyOf, GivenBack
  <2>4. CASE /\ payments[p].status \in Settled
             /\ payments'[p].status = payments[p].status /\ payments'[p].cancelable = Amount
             /\ \A k \in CancelKeys : history[p][k] = 0
    <3>1. Total(history[p], CancelKeys) = 0
      BY <1>t, <2>4, MoneyTypes, TotalOfZeros
    <3>2. RefundedAmount(p)' = 0 /\ Amount \in Nat
      BY <1>u, <3>1, RefundedIs, AmountAssumption
    <3>3. payments'[p].cancelable = Amount - RefundedAmount(p)'
      BY <2>4, <3>2
    <3> QED
      BY <1>u, <2>0, <2>4, <3>3 DEF MoneyOf, GivenBack
  <2> QED
    BY <2>1, <2>2, <2>3, <2>4, WebhookMoves DEF Settled
<1>2. ASSUME NEW r \in CancelRequests, Running(r)'
      PROVE  payments'[cancels'[r].payment].status \in Settled
  <2>1. Running(r) /\ cancels[r].payment \in Payments
    BY <1>t, <1>u, <1>2, CancelFields DEF Running
  <2>2. payments[cancels[r].payment].status \in Settled
    BY <1>t, <2>1 DEF MoneyInv, RunsOnSales
  <2> QED
    BY <1>u, <2>1, <2>2, WebhookMoves DEF Settled
<1> QED
  BY <1>1, <1>2 DEF MoneyInv, RunsOnSales

\* What was recorded goes on showing, and sales go on being charged and invoiced.
LEMMA WebhookKeeps ==
    ASSUME WebhookInv, NEW e \in Events, Webhook(e)
    PROVE  WebhookInv'
<1>t. /\ TypeOK /\ CancelInv /\ PaidWasCharged /\ RecordsCharged
      /\ ApprovedIsOpen /\ RefundsAddUp /\ RefundsShow /\ CancelDocsOK
  BY DEF WebhookInv, CancelInv
<1>u. UNCHANGED <<history, cancelRows, cancelKeys, cancelLock, cancels, balance, refunds,
                  confirms, charge>>
  BY WebhookLeaves
<1>1. CancelInv'
  BY <1>t, <1>u, CancelReadsDocs
<1>2. PaidWasCharged'
  <2>1. \A p \in Payments : payments'[p].status \in Settled => charge[p] # NoKey
    BY <1>t, WebhookMoves DEF PaidWasCharged
  <2>2. invoices' = {p \in Payments : payments'[p].status \in Settled}
    <3>1. CASE WebhookIgnored(e)
      BY <1>t, <3>1 DEF PaidWasCharged, WebhookIgnored, allVars, vars
    <3>2. CASE WebhookDone(e)
      <4>1. invoices' = IF payments'[e.payment].status = "paid" THEN invoices \cup {e.payment}
                        ELSE invoices
        BY <3>2 DEF WebhookDone, PayInvoice
      <4>2. /\ payments'[e.payment].status \in Settled /\ e.payment \in Payments
            /\ payments'[e.payment].status # "paid" => payments[e.payment].status \in Settled
            /\ \A q \in Payments : q # e.payment => payments'[q] = payments[q]
        BY <3>2, DoneWrites, EventFields DEF Settled
      <4> QED
        BY <1>t, <4>1, <4>2 DEF PaidWasCharged
    <3>3. CASE WebhookCanceled(e)
      <4>1. /\ payments[e.payment].status \in Settled /\ payments'[e.payment].status \in Settled
            /\ \A q \in Payments : q # e.payment => payments'[q] = payments[q]
            /\ invoices' = invoices
        BY <3>3, CanceledWrites DEF Settled, WebhookCanceled
      <4>2. \A q \in Payments : payments'[q].status \in Settled <=> payments[q].status \in Settled
        BY <4>1
      <4> QED
        BY <1>t, <4>1, <4>2 DEF PaidWasCharged
    <3> QED
      BY <3>1, <3>2, <3>3 DEF Webhook
  <2> QED
    BY <1>u, <2>1, <2>2 DEF PaidWasCharged
<1>3. RecordsCharged'
  BY <1>t, <1>u DEF RecordsCharged
<1>4. ApprovedIsOpen'
  BY <1>t, <1>u, WebhookMoves DEF ApprovedIsOpen, Settled
<1>5. RefundsAddUp'
  BY <1>t, <1>u DEF RefundsAddUp
<1>6. RefundsShow'
  <2> SUFFICES ASSUME NEW p \in Payments, NEW k \in CancelKeys, history[p][k] > 0
               PROVE  payments'[p].status \in {"canceled", "partial_canceled"}
    BY <1>u DEF RefundsShow
  <2>1. payments[p].status \in {"canceled", "partial_canceled"} /\ history[p][k] # 0
    BY <1>t DEF RefundsShow
  <2> QED
    BY <2>1, WebhookMoves DEF Settled
<1> QED
  BY <1>1, <1>2, <1>3, <1>4, <1>5, <1>6, WebhookTypes, WebhookMoney DEF WebhookInv

-----------------------------------------------------------------------------
(* The steps together.                                                     *)

\* The invariant at the start.
LEMMA InitWebhooks == WebhookInit => WebhookInv
<1> SUFFICES ASSUME WebhookInit PROVE WebhookInv
  OBVIOUS
<1>1. TypeOK /\ CancelInv /\ MoneyInv
  BY CancelInitInv, InitMoney DEF WebhookInit, StockInv
<1>2. PaidWasCharged /\ RecordsCharged /\ ApprovedIsOpen
  BY DEF WebhookInit, CancelInit, Init, PaidWasCharged, RecordsCharged, ApprovedIsOpen, Settled, Idle
<1>3. RefundsAddUp /\ RefundsShow
  BY AmountAssumption DEF WebhookInit, CancelInit, RefundsAddUp, RefundsShow, NoRefund
<1>4. WebhookDocsOK
  BY AmountAssumption DEF WebhookInit, WebhookDocsOK
<1> QED
  BY <1>1, <1>2, <1>3, <1>4 DEF WebhookInv

\* A step is one of orders and cancellations, or a webhook.
LEMMA ShopSteps ==
    [ShopNext]_shopVars =>
        ([CancelNext]_allVars /\ UNCHANGED webhookVars) \/ \E e \in Events : Webhook(e)
BY DEF ShopNext, shopVars

\* It survives every step.
LEMMA ShopKeeps == WebhookInv /\ [ShopNext]_shopVars => WebhookInv'
<1> SUFFICES ASSUME WebhookInv, [ShopNext]_shopVars PROVE WebhookInv'
  OBVIOUS
<1>1. CASE [CancelNext]_allVars /\ UNCHANGED webhookVars
  <2>t. /\ TypeOK /\ CancelInv /\ MoneyInv /\ PaidWasCharged /\ RecordsCharged
        /\ ApprovedIsOpen /\ RefundsAddUp /\ RefundsShow
    BY DEF WebhookInv
  <2>1. TypeOK' /\ CancelInv' /\ MoneyInv'
    BY <1>1, <2>t, CancelKeepsTypes, MoneyKeeps
  <2>2. PaidWasCharged' /\ RecordsCharged'
    BY <1>1, <2>t, CancelCharged
  <2>3. ApprovedIsOpen' /\ RefundsAddUp' /\ RefundsShow'
    BY <1>1, <2>t, OrderedStays, AnswersAddUp, ShownStays
  <2>4. WebhookDocsOK'
    BY <1>1 DEF webhookVars, WebhookInv, WebhookDocsOK
  <2> QED
    BY <2>1, <2>2, <2>3, <2>4 DEF WebhookInv
<1> QED
  BY <1>1, ShopSteps, WebhookKeeps

\* What no step does to a sale.
SalesSurvive ==
    \A p \in Payments :
        payments[p].status \in Settled =>
            /\ payments'[p].status \in Settled
            /\ payments'[p].cancelable <= payments[p].cancelable
            /\ payments[p].status = "canceled" => payments'[p].status = "canceled"

\* No step gives money back to a sale.
LEMMA ShopSurvives == WebhookInv /\ [ShopNext]_shopVars => SalesSurvive
<1> SUFFICES ASSUME WebhookInv, [ShopNext]_shopVars, NEW p \in Payments,
                    payments[p].status \in Settled
             PROVE  /\ payments'[p].status \in Settled
                    /\ payments'[p].cancelable <= payments[p].cancelable
                    /\ payments[p].status = "canceled" => payments'[p].status = "canceled"
  BY DEF SalesSurvive
<1>t. /\ TypeOK /\ CancelInv /\ CancelDocsOK /\ Amount \in Nat
      /\ payments[p].cancelable \in 0..Amount
  BY AmountAssumption DEF WebhookInv, CancelInv, TypeOK, OrdersOK
<1>1. CASE [CancelNext]_allVars
  BY <1>1, <1>t, CancelStaysPut, SalesStay DEF RefundsStayPut
<1>2. ASSUME NEW e \in Events, Webhook(e)
      PROVE  /\ payments'[p].status \in Settled
             /\ payments'[p].cancelable <= payments[p].cancelable
             /\ payments[p].status = "canceled" => payments'[p].status = "canceled"
  <2>1. CASE payments'[p] = payments[p]
    BY <1>t, <2>1
  <2>2. CASE /\ payments'[p].status = payments[p].status /\ payments'[p].cancelable = Amount
             /\ \A k \in CancelKeys : history[p][k] = 0
    <3>1. Total(history[p], CancelKeys) = 0
      BY <1>t, <2>2, MoneyTypes, TotalOfZeros
    <3>2. payments[p].cancelable = Amount - 0
      BY <3>1, RefundedIs DEF WebhookInv, MoneyInv, MoneyOf
    <3> QED
      BY <1>t, <2>2, <3>2
  <2>3. CASE /\ payments'[p].status \in {"canceled", "partial_canceled"}
             /\ payments[p].status = "canceled" => payments'[p].status = "canceled"
             /\ payments'[p].cancelable = payments[p].cancelable
    BY <1>t, <2>3 DEF Settled
  <2> QED
    BY <1>2, <2>1, <2>2, <2>3, WebhookMoves
<1> QED
  BY <1>1, <1>2, ShopSteps

\* Types: orders, refunds and webhooks together.
THEOREM WebhookTypeCorrect == ShopSpec => []WebhookTypeOK
<1>1. WebhookInv => WebhookTypeOK
  BY CancelTypesSplit DEF WebhookInv, CancelInv, WebhookTypeOK, WebhookDocsOK
<1> QED
  BY <1>1, InitWebhooks, ShopKeeps, PTL DEF ShopSpec

\* No webhook, however late, repeated or out of order, gives a payment back
\* money that the service has recorded as refunded, and none takes a sale back.
THEOREM RefundsOutliveWebhooks == ShopSpec => RefundsSurviveWebhooks
<1>1. WebhookInv /\ [ShopNext]_shopVars => [SalesSurvive]_shopVars
  BY ShopSurvives
<1>2. RefundsSurviveWebhooks <=> [][SalesSurvive]_shopVars
  BY PTL DEF RefundsSurviveWebhooks, SalesSurvive
<1> QED
  BY <1>1, <1>2, InitWebhooks, ShopKeeps, PTL DEF ShopSpec

\* With webhooks beside refunds and confirmations, every attempt that was sold
\* was approved by the gateway, and the invoices are those of the sales.
THEOREM SalesChargedWithWebhooks == ShopSpec => []PaidWasCharged
<1>1. WebhookInv => PaidWasCharged
  BY DEF WebhookInv
<1> QED
  BY <1>1, InitWebhooks, ShopKeeps, PTL DEF ShopSpec

\* With webhooks what a sale has left is still its price less what was recorded
\* as refunded, and the gateway never has more of it than that: webhooks move the
\* status ahead of the amount, and never the amount.
THEOREM HistoryRealWithWebhooks == ShopSpec => []HistoryIsReal
<1>1. WebhookInv => HistoryIsReal
  BY MoneyIsReal DEF WebhookInv
<1> QED
  BY <1>1, InitWebhooks, ShopKeeps, PTL DEF ShopSpec

\* With webhooks every refund that was not recorded still leaves its row behind.
THEOREM RefundsTracedWithWebhooks == ShopSpec => []RefundsAreTraceable
<1>1. WebhookInv => RefundsAreTraceable
  BY DEF WebhookInv, CancelInv
<1> QED
  BY <1>1, InitWebhooks, ShopKeeps, PTL DEF ShopSpec
==============================================================================
