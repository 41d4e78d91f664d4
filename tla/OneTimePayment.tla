---------------------------- MODULE OneTimePayment ----------------------------
(***************************************************************************)
(* One-time payments of application/payment_orders.py over the Mongo       *)
(* adapters: an order reserves limited stock and opens a payment attempt   *)
(* of a checkout; the attempt is confirmed at the payment gateway (Toss)   *)
(* under operation locks and an idempotency key, or it fails, or it        *)
(* expires, and a failed or expired checkout may be retried with a new     *)
(* attempt.  PaymentCancel adds refunds, PaymentWebhook the webhooks of    *)
(* the gateway.                                                            *)
(*                                                                         *)
(* A unit of work is one Mongo transaction: one action when it commits, no *)
(* change when it raises (the adapter aborts it).  Operation locks are     *)
(* written outside the transaction, and the call of the gateway lies       *)
(* between two transactions.                                               *)
(***************************************************************************)
EXTENDS Naturals, FiniteSets

CONSTANTS Payments,        \* payment attempts, documents of payments
          Checkouts,       \* documents of checkouts
          Skus,            \* SKUs with stock_policy = "limited"
          Items,           \* Items[c]: the SKUs of checkout c, one unit each
          TotalStock,      \* TotalStock[s]: total_stock of s
          Amount,          \* what every order costs
          ConfirmRequests, \* server processes that run confirm_payment
          OrderKeys,       \* Idempotency-Key values sent to create an order
          ConfirmKeys,     \* Idempotency-Key values sent to confirm
          Matching,        \* whether orderId and amount may match: a set of BOOLEANs
          NoPayment, NoCheckout, NoKey, \* None
          Nobody,          \* owner of a lock that is free or has lapsed
          Gone             \* owner of a lock whose process has crashed

ASSUME ItemsAssumption == Items \in [Checkouts -> SUBSET Skus]
ASSUME StockAssumption == TotalStock \in [Skus -> Nat]
ASSUME AmountAssumption == Amount \in Nat \ {0}
ASSUME MatchingAssumption == Matching \subseteq BOOLEAN
ASSUME FiniteAssumption == IsFiniteSet(Checkouts)
ASSUME NoneAssumption ==
    /\ NoPayment \notin Payments
    /\ NoCheckout \notin Checkouts
    /\ NoKey \notin ConfirmKeys
    /\ Nobody \notin ConfirmRequests
    /\ Gone \notin ConfirmRequests
    /\ Nobody # Gone

VARIABLES payments,     \* [status, checkout, cancelable] of each attempt
          checkouts,    \* [status, last] of each checkout
          reserved,     \* reserved_stock of each SKU
          sold,         \* sold_stock of each SKU
          invoices,     \* the attempts that have an invoice
          due,          \* the ready attempts with expires_at <= now
          orderKeys,    \* the attempt each order key was answered with
          confirmKeys,  \* [status, payment, valid] of each confirm key
          confirmLock,  \* owner of lock payment-confirm:<payment>
          checkoutLock, \* owner of lock checkout-confirm:<checkout>
          confirms,     \* each process in confirm_payment
          charge        \* at the gateway: the key an attempt was approved with

stockVars == <<reserved, sold>>
lockVars == <<confirmLock, checkoutLock>>
orderVars == <<payments, checkouts, reserved, sold, invoices>>
vars == <<payments, checkouts, reserved, sold, invoices, due, orderKeys,
          confirmKeys, confirmLock, checkoutLock, confirms, charge>>

PaymentStatus == {"none", "ready", "paid", "failed", "expired",
                  "partial_canceled", "canceled"}
CheckoutStatus == {"none", "ready", "paid", "failed", "expired"}
KeyStatus == {"none", "processing", "succeeded", "failed"}
Steps == {"idle", "prepare", "call", "record", "fail", "release"}
Answers == {"none", "paid", "rejected", "expired", "invalid", "error"}

Settled == {"paid", "partial_canceled", "canceled"}
Retryable == {"failed", "expired"}

NoEntry == [status |-> "none", payment |-> NoPayment, valid |-> TRUE]
Idle == [pc |-> "idle", payment |-> NoPayment, key |-> NoKey, valid |-> TRUE,
         late |-> FALSE, answer |-> "none"]

CheckoutOf(p) == payments[p].checkout

OrdersOK ==
    /\ payments \in [Payments -> [status : PaymentStatus,
                                  checkout : Checkouts \cup {NoCheckout},
                                  cancelable : 0..Amount]]
    /\ \A p \in Payments : payments[p].status # "none" => CheckoutOf(p) \in Checkouts
    /\ checkouts \in [Checkouts -> [status : CheckoutStatus,
                                    last : Payments \cup {NoPayment}]]

StockOK == reserved \in [Skus -> Nat] /\ sold \in [Skus -> Nat]

KeysOK ==
    /\ orderKeys \in [OrderKeys -> Payments \cup {NoPayment}]
    /\ confirmKeys \in [ConfirmKeys -> [status : KeyStatus,
                                        payment : Payments \cup {NoPayment},
                                        valid : BOOLEAN]]

LocksOK ==
    /\ confirmLock \in [Payments -> ConfirmRequests \cup {Nobody, Gone}]
    /\ checkoutLock \in [Checkouts -> ConfirmRequests \cup {Nobody, Gone}]

\* A request that has started names an attempt and a key.
ConfirmsOK ==
    /\ confirms \in [ConfirmRequests -> [pc : Steps,
                                         payment : Payments \cup {NoPayment},
                                         key : ConfirmKeys \cup {NoKey},
                                         valid : BOOLEAN, late : BOOLEAN,
                                         answer : Answers]]
    /\ \A r \in ConfirmRequests : confirms[r].pc # "idle" =>
          /\ confirms[r].payment \in Payments
          /\ confirms[r].key \in ConfirmKeys
          /\ payments[confirms[r].payment].status # "none"

TypeOK ==
    /\ OrdersOK
    /\ StockOK
    /\ invoices \subseteq Payments
    /\ due \subseteq Payments
    /\ KeysOK
    /\ LocksOK
    /\ ConfirmsOK
    /\ charge \in [Payments -> ConfirmKeys \cup {NoKey}]

-----------------------------------------------------------------------------
Init ==
    /\ payments = [p \in Payments |-> [status |-> "none", checkout |-> NoCheckout,
                                       cancelable |-> 0]]
    /\ checkouts = [c \in Checkouts |-> [status |-> "none", last |-> NoPayment]]
    /\ reserved = [s \in Skus |-> 0]
    /\ sold = [s \in Skus |-> 0]
    /\ invoices = {}
    /\ due = {}
    /\ orderKeys = [k \in OrderKeys |-> NoPayment]
    /\ confirmKeys = [k \in ConfirmKeys |-> NoEntry]
    /\ confirmLock = [p \in Payments |-> Nobody]
    /\ checkoutLock = [c \in Checkouts |-> Nobody]
    /\ confirms = [r \in ConfirmRequests |-> Idle]
    /\ charge = [p \in Payments |-> NoKey]

-----------------------------------------------------------------------------
(* Stock counters: each change carries its own condition, and a release or *)
(* a capture whose condition fails is silently skipped.                    *)

\* Mutant: stock is taken without looking at what is left.
HasStockUnchecked(c) == c \in Checkouts

HasStock(c) == \A s \in Items[c] : reserved[s] + sold[s] < TotalStock[s]

Reserve(c) ==
    /\ HasStock(c)
    /\ reserved' = [s \in Skus |-> IF s \in Items[c] THEN reserved[s] + 1
                                                     ELSE reserved[s]]
    /\ UNCHANGED sold

\* The SKUs of checkout c that have a unit reserved.
Reserved(c) == {s \in Items[c] : reserved[s] > 0}

ReleaseReserved(c) ==
    /\ reserved' = [s \in Skus |-> IF s \in Reserved(c) THEN reserved[s] - 1
                                                        ELSE reserved[s]]
    /\ UNCHANGED sold

CaptureReserved(c) ==
    /\ reserved' = [s \in Skus |-> IF s \in Reserved(c) THEN reserved[s] - 1
                                                        ELSE reserved[s]]
    /\ sold' = [s \in Skus |-> IF s \in Reserved(c) THEN sold[s] + 1 ELSE sold[s]]

-----------------------------------------------------------------------------
(* Orders, and the end of an attempt that is not confirmed.                *)

\* POST /payments/orders: a new checkout, or a new attempt of a failed or
\* expired one.  A key that has an answer is replayed and changes nothing.
CreateOrder(p, c, k) ==
    /\ payments[p].status = "none"
    /\ checkouts[c].status \in {"none"} \cup Retryable
    /\ k # NoKey => orderKeys[k] = NoPayment
    /\ Reserve(c)
    /\ payments' = [payments EXCEPT ![p].status = "ready", ![p].checkout = c]
    /\ checkouts' = [checkouts EXCEPT ![c] = [status |-> "ready", last |-> p]]
    /\ orderKeys' = IF k = NoKey THEN orderKeys ELSE [orderKeys EXCEPT ![k] = p]
    /\ UNCHANGED <<invoices, due, confirmKeys, lockVars, confirms, charge>>

\* Thirty minutes pass after the order.
PassExpiry(p) ==
    /\ payments[p].status = "ready"
    /\ p \notin due
    /\ due' = due \cup {p}
    /\ UNCHANGED <<orderVars, orderKeys, confirmKeys, lockVars, confirms, charge>>

\* The attempt and its checkout end without a sale and the stock is released.
Close(p, status) ==
    /\ payments' = [payments EXCEPT ![p].status = status]
    /\ checkouts' = [checkouts EXCEPT ![CheckoutOf(p)].status = status]
    /\ ReleaseReserved(CheckoutOf(p))
    /\ due' = due \ {p}
    /\ UNCHANGED invoices

\* GET /payments/{id}: expires an overdue attempt while reading it.
GetPaymentDetail(p) ==
    /\ payments[p].status = "ready"
    /\ p \in due
    /\ Close(p, "expired")
    /\ UNCHANGED <<orderKeys, confirmKeys, lockVars, confirms, charge>>

\* Mutant: the failure page does not look at the status of the attempt.
RecordAuthFailureAnyStatus(p) ==
    /\ payments[p].status # "none"
    /\ Close(p, IF p \in due THEN "expired" ELSE "failed")
    /\ UNCHANGED <<orderKeys, confirmKeys, lockVars, confirms, charge>>

\* POST /payments/{id}/auth-result: takes no lock, so it may run between the
\* two transactions of a confirmation.
RecordAuthFailure(p) ==
    /\ payments[p].status = "ready"
    /\ Close(p, IF p \in due THEN "expired" ELSE "failed")
    /\ UNCHANGED <<orderKeys, confirmKeys, lockVars, confirms, charge>>

-----------------------------------------------------------------------------
(* POST /payments/confirm                                                  *)

\* Mutant: an unknown payment is not refused.
ConfirmStartUnknown(r, p, k, valid) ==
    /\ confirms[r].pc = "idle"
    /\ confirmLock[p] = Nobody
    /\ confirmLock' = [confirmLock EXCEPT ![p] = r]
    /\ confirms' = [confirms EXCEPT ![r] =
          [pc |-> "prepare", payment |-> p, key |-> k, valid |-> valid,
           late |-> p \in due, answer |-> "none"]]
    /\ UNCHANGED <<orderVars, due, orderKeys, confirmKeys, checkoutLock, charge>>

\* Reads the clock and takes the lock of the payment.
ConfirmStart(r, p, k, valid) ==
    /\ confirms[r].pc = "idle"
    /\ payments[p].status # "none"
    /\ confirmLock[p] = Nobody
    /\ confirmLock' = [confirmLock EXCEPT ![p] = r]
    /\ confirms' = [confirms EXCEPT ![r] =
          [pc |-> "prepare", payment |-> p, key |-> k, valid |-> valid,
           late |-> p \in due, answer |-> "none"]]
    /\ UNCHANGED <<orderVars, due, orderKeys, confirmKeys, checkoutLock, charge>>

\* Process r has its answer; only the release of its locks is left.
Finish(r, answer) ==
    confirms' = [confirms EXCEPT ![r].pc = "release", ![r].answer = answer]

Continue(r, pc) == confirms' = [confirms EXCEPT ![r].pc = pc]

SetKey(r, status) ==
    confirmKeys' = [confirmKeys EXCEPT ![confirms[r].key] =
                       [status |-> status, payment |-> confirms[r].payment,
                        valid |-> confirms[r].valid]]

\* The key was used with another payload.
KeyConflict(r) ==
    LET entry == confirmKeys[confirms[r].key] IN
    /\ entry.status # "none"
    /\ \/ entry.payment # confirms[r].payment
       \/ entry.valid # confirms[r].valid

\* The transaction that prepares the confirmation finds the lock of the
\* checkout taken and gives up.
ConfirmBusy(r) ==
    /\ confirms[r].pc = "prepare"
    /\ checkoutLock[CheckoutOf(confirms[r].payment)] # Nobody
    /\ Finish(r, "error")
    /\ UNCHANGED <<orderVars, due, orderKeys, confirmKeys, lockVars, charge>>

\* Otherwise it holds that lock until the request ends.
Enter(r) ==
    LET c == CheckoutOf(confirms[r].payment) IN
    /\ confirms[r].pc = "prepare"
    /\ checkoutLock[c] = Nobody
    /\ checkoutLock' = [checkoutLock EXCEPT ![c] = r]
    /\ UNCHANGED <<orderVars, due, orderKeys, confirmLock, charge>>

ConfirmReplay(r) ==
    LET entry == confirmKeys[confirms[r].key] IN
    /\ Enter(r)
    /\ ~KeyConflict(r)
    /\ \/ entry.status = "succeeded" /\ Finish(r, "paid")
       \/ entry.status = "failed" /\ Finish(r, "rejected")
    /\ UNCHANGED confirmKeys

FreshKey(r) == confirmKeys[confirms[r].key].status = "none"

ConfirmAlreadyPaid(r) ==
    /\ Enter(r)
    /\ FreshKey(r)
    /\ payments[confirms[r].payment].status = "paid"
    /\ SetKey(r, "succeeded")
    /\ Finish(r, "paid")

\* The attempt and its checkout wait for a confirmation.
Confirmable(p) ==
    /\ payments[p].status = "ready"
    /\ checkouts[CheckoutOf(p)].status = "ready"

ConfirmRefused(r) ==
    /\ Enter(r)
    /\ \/ KeyConflict(r)
       \/ confirmKeys[confirms[r].key].status = "processing"
       \/ /\ payments[confirms[r].payment].status # "paid"
          /\ ~Confirmable(confirms[r].payment)
          /\ FreshKey(r)
    /\ Finish(r, "error")
    /\ UNCHANGED confirmKeys

\* The code marks the attempt and its checkout expired, releases the stock and
\* raises in the same transaction, which therefore aborts.
ConfirmExpired(r) ==
    /\ Enter(r)
    /\ FreshKey(r)
    /\ Confirmable(confirms[r].payment)
    /\ confirms[r].late
    /\ Finish(r, "expired")
    /\ UNCHANGED confirmKeys

\* So does a wrong orderId or amount.
ConfirmInvalid(r) ==
    /\ Enter(r)
    /\ FreshKey(r)
    /\ Confirmable(confirms[r].payment)
    /\ ~confirms[r].late
    /\ ~confirms[r].valid
    /\ Finish(r, "invalid")
    /\ UNCHANGED confirmKeys

ConfirmPrepare(r) ==
    /\ Enter(r)
    /\ FreshKey(r)
    /\ Confirmable(confirms[r].payment)
    /\ ~confirms[r].late
    /\ confirms[r].valid
    /\ SetKey(r, "processing")
    /\ Continue(r, "call")

\* The gateway approves the payment, or repeats its approval for the same key.
Approve(r) ==
    LET p == confirms[r].payment IN
    /\ confirms[r].pc = "call"
    /\ charge[p] \in {NoKey, confirms[r].key}
    /\ charge' = [charge EXCEPT ![p] = confirms[r].key]

ConfirmApproved(r) ==
    /\ Approve(r)
    /\ Continue(r, "record")
    /\ UNCHANGED <<orderVars, due, orderKeys, confirmKeys, lockVars>>

\* The approval never reaches the service (a timeout), or reaches it garbled.
ConfirmLost(r) ==
    /\ Approve(r)
    /\ Continue(r, "fail")
    /\ UNCHANGED <<orderVars, due, orderKeys, confirmKeys, lockVars>>

\* Mutant: "already processed" is taken for an approval.
ConfirmDeclinedAsPaid(r) ==
    /\ confirms[r].pc = "call"
    /\ Continue(r, "record")
    /\ UNCHANGED <<orderVars, due, orderKeys, confirmKeys, lockVars, charge>>

\* The gateway declines, is unreachable, or answers that the payment was
\* already processed under another key.
ConfirmDeclined(r) ==
    /\ confirms[r].pc = "call"
    /\ Continue(r, "fail")
    /\ UNCHANGED <<orderVars, due, orderKeys, confirmKeys, lockVars, charge>>

\* uniq_payments_paid_checkout: one attempt per checkout has status "paid".
OnlyPaid(p) ==
    \A q \in Payments \ {p} :
        payments[q].status = "paid" => CheckoutOf(q) # CheckoutOf(p)

\* The attempt is sold: its reservation is captured and it gets its invoice.
Sell(p) ==
    /\ Confirmable(p)
    /\ OnlyPaid(p)
    /\ payments' = [payments EXCEPT ![p].status = "paid", ![p].cancelable = Amount]
    /\ checkouts' = [checkouts EXCEPT ![CheckoutOf(p)] =
                        [status |-> "paid", last |-> p]]
    /\ CaptureReserved(CheckoutOf(p))
    /\ invoices' = invoices \cup {p}
    /\ due' = due \ {p}

\* A webhook may have sold it already.
ConfirmRecord(r) ==
    LET p == confirms[r].payment IN
    /\ confirms[r].pc = "record"
    /\ \/ Sell(p)
       \/ payments[p].status = "paid" /\ UNCHANGED <<orderVars, due>>
    /\ SetKey(r, "succeeded")
    /\ Finish(r, "paid")
    /\ UNCHANGED <<orderKeys, lockVars, charge>>

\* The gateway has the money, and nothing is recorded.
ConfirmRecordRefused(r) ==
    LET p == confirms[r].payment IN
    /\ confirms[r].pc = "record"
    /\ payments[p].status # "paid"
    /\ ~(Confirmable(p) /\ OnlyPaid(p))
    /\ Finish(r, "error")
    /\ UNCHANGED <<orderVars, due, orderKeys, confirmKeys, lockVars, charge>>

ConfirmFail(r) ==
    LET p == confirms[r].payment IN
    /\ confirms[r].pc = "fail"
    /\ \/ payments[p].status = "ready" /\ Close(p, "failed")
       \/ payments[p].status = "failed" /\ UNCHANGED <<orderVars, due>>
    /\ SetKey(r, "failed")
    /\ Finish(r, "rejected")
    /\ UNCHANGED <<orderKeys, lockVars, charge>>

\* Mutant: a failed call settles its key whatever became of the attempt.
ConfirmFailSettles(r) ==
    /\ confirms[r].pc = "fail"
    /\ payments[confirms[r].payment].status \notin {"ready", "failed"}
    /\ SetKey(r, "failed")
    /\ Finish(r, "rejected")
    /\ UNCHANGED <<orderVars, due, orderKeys, lockVars, charge>>

ConfirmFailRefused(r) ==
    /\ confirms[r].pc = "fail"
    /\ payments[confirms[r].payment].status \notin {"ready", "failed"}
    /\ Finish(r, "error")
    /\ UNCHANGED <<orderVars, due, orderKeys, confirmKeys, lockVars, charge>>

\* Any transaction of the request may abort (a write conflict, a lost primary);
\* nothing retries it.
ConfirmAbort(r) ==
    /\ confirms[r].pc \in {"prepare", "record", "fail"}
    /\ Finish(r, "error")
    /\ UNCHANGED <<orderVars, due, orderKeys, confirmKeys, lockVars, charge>>

\* The locks of process r pass to owner; a lock that lapsed and was taken by
\* another process is left alone.
GiveLocks(r, owner) ==
    /\ confirmLock' = [p \in Payments |-> IF confirmLock[p] = r THEN owner
                                                                ELSE confirmLock[p]]
    /\ checkoutLock' = [c \in Checkouts |-> IF checkoutLock[c] = r THEN owner
                                                                   ELSE checkoutLock[c]]

ReleaseLocks(r) ==
    /\ confirms[r].pc = "release"
    /\ GiveLocks(r, Nobody)
    /\ confirms' = [confirms EXCEPT ![r] = Idle]
    /\ UNCHANGED <<orderVars, due, orderKeys, confirmKeys, charge>>

\* The process dies; its locks stay until they lapse.
Crash(r) ==
    /\ confirms[r].pc # "idle"
    /\ GiveLocks(r, Gone)
    /\ confirms' = [confirms EXCEPT ![r] = Idle]
    /\ UNCHANGED <<orderVars, due, orderKeys, confirmKeys, charge>>

-----------------------------------------------------------------------------
(* Time: a lock lapses five minutes after it was taken, whoever holds it,  *)
(* and a key is deleted after a day: longer than any call of the gateway.  *)

ConfirmLockLapse(p) ==
    /\ confirmLock[p] # Nobody
    /\ confirmLock' = [confirmLock EXCEPT ![p] = Nobody]
    /\ UNCHANGED <<orderVars, due, orderKeys, confirmKeys, checkoutLock, confirms,
                   charge>>

CheckoutLockLapse(c) ==
    /\ checkoutLock[c] # Nobody
    /\ checkoutLock' = [checkoutLock EXCEPT ![c] = Nobody]
    /\ UNCHANGED <<orderVars, due, orderKeys, confirmKeys, confirmLock, confirms,
                   charge>>

OrderKeyTtl(k) ==
    /\ orderKeys[k] # NoPayment
    /\ orderKeys' = [orderKeys EXCEPT ![k] = NoPayment]
    /\ UNCHANGED <<orderVars, due, confirmKeys, lockVars, confirms, charge>>

\* Mutant: only the keys that have an answer get an expires_at.
ConfirmKeyTtlAnswered(k) ==
    /\ confirmKeys[k].status \in {"succeeded", "failed"}
    /\ confirmKeys' = [confirmKeys EXCEPT ![k] = NoEntry]
    /\ UNCHANGED <<orderVars, due, orderKeys, lockVars, confirms, charge>>

ConfirmKeyTtl(k) ==
    /\ confirmKeys[k].status # "none"
    /\ \A r \in ConfirmRequests :
          confirms[r].pc \in {"call", "record", "fail"} => confirms[r].key # k
    /\ confirmKeys' = [confirmKeys EXCEPT ![k] = NoEntry]
    /\ UNCHANGED <<orderVars, due, orderKeys, lockVars, confirms, charge>>

-----------------------------------------------------------------------------
\* What process r does next once a request has started.
ConfirmStep(r) ==
    \/ ConfirmBusy(r) \/ ConfirmReplay(r) \/ ConfirmAlreadyPaid(r)
    \/ ConfirmRefused(r) \/ ConfirmExpired(r) \/ ConfirmInvalid(r)
    \/ ConfirmPrepare(r)
    \/ ConfirmApproved(r) \/ ConfirmLost(r) \/ ConfirmDeclined(r)
    \/ ConfirmRecord(r) \/ ConfirmRecordRefused(r)
    \/ ConfirmFail(r) \/ ConfirmFailRefused(r)
    \/ ReleaseLocks(r)

Next ==
    \/ \E p \in Payments, c \in Checkouts, k \in OrderKeys \cup {NoKey} :
          CreateOrder(p, c, k)
    \/ \E p \in Payments : PassExpiry(p) \/ GetPaymentDetail(p) \/ RecordAuthFailure(p)
    \/ \E r \in ConfirmRequests, p \in Payments, k \in ConfirmKeys, valid \in Matching :
          ConfirmStart(r, p, k, valid)
    \/ \E r \in ConfirmRequests : ConfirmStep(r) \/ ConfirmAbort(r) \/ Crash(r)
    \/ \E p \in Payments : ConfirmLockLapse(p)
    \/ \E c \in Checkouts : CheckoutLockLapse(c)
    \/ \E k \in OrderKeys : OrderKeyTtl(k)
    \/ \E k \in ConfirmKeys : ConfirmKeyTtl(k)

Spec == Init /\ [][Next]_vars

\* A started process runs on, locks lapse and the TTL monitor of Mongo works;
\* nobody has to place an order, confirm, fail or look at a payment.
Fairness ==
    /\ \A r \in ConfirmRequests : WF_vars(ConfirmStep(r))
    /\ \A p \in Payments : WF_vars(ConfirmLockLapse(p))
    /\ \A c \in Checkouts : WF_vars(CheckoutLockLapse(c))
    /\ \A k \in ConfirmKeys : WF_vars(ConfirmKeyTtl(k))

-----------------------------------------------------------------------------
(* A checkout is in the state of its last attempt, and an attempt that is  *)
(* ready or was ever paid is the last one of its checkout: retries, the    *)
(* expiry on read and the failure page never leave two attempts open, or a *)
(* paid attempt behind a later one, also when locks lapse in the middle of *)
(* a confirmation.                                                         *)
LastDecides(c) ==
    LET p == checkouts[c].last IN
    /\ checkouts[c].status = "none" <=> p = NoPayment
    /\ p # NoPayment =>
          /\ CheckoutOf(p) = c
          /\ \/ payments[p].status = checkouts[c].status
             \/ payments[p].status \in Settled /\ checkouts[c].status = "paid"

OpenIsLast(p) ==
    payments[p].status \in {"ready"} \cup Settled =>
        checkouts[CheckoutOf(p)].last = p

CheckoutTracksPayments ==
    /\ \A c \in Checkouts : LastDecides(c)
    /\ \A p \in Payments : OpenIsLast(p)

(* The counters of a SKU are what the checkouts say: one reserved unit per *)
(* ready checkout, one sold unit per paid checkout that was not refunded   *)
(* in full.  A reservation released twice, a capture without a reservation *)
(* or a release that is rolled back on one side only breaks it, many steps *)
(* before the stock is oversold.                                           *)
Holding(s) == {c \in Checkouts : s \in Items[c] /\ checkouts[c].status = "ready"}

Owning(s) == {c \in Checkouts :
                 /\ s \in Items[c]
                 /\ checkouts[c].status = "paid"
                 /\ payments[checkouts[c].last].status # "canceled"}

StockExact ==
    \A s \in Skus : /\ reserved[s] = Cardinality(Holding(s))
                    /\ sold[s] = Cardinality(Owning(s))
                    /\ reserved[s] + sold[s] <= TotalStock[s]

\* No attempt is paid unless the gateway approved it, and each has its invoice:
\* a failed, lost or replayed approval never ends as a sale.
PaidWasCharged ==
    /\ \A p \in Payments : payments[p].status \in Settled => charge[p] # NoKey
    /\ invoices = {p \in Payments : payments[p].status \in Settled}

\* What an idempotency key replays, and what a request is about to answer, is
\* still true of the payment, however many requests and crashes lie between.
AnswersHold ==
    /\ \A k \in ConfirmKeys :
          LET entry == confirmKeys[k] IN
          /\ entry.status = "succeeded" => payments[entry.payment].status \in Settled
          /\ entry.status = "failed" => payments[entry.payment].status = "failed"
    /\ \A r \in ConfirmRequests :
          LET p == confirms[r].payment IN
          /\ confirms[r].answer = "paid" => payments[p].status \in Settled
          /\ confirms[r].answer = "rejected" => payments[p].status = "failed"

\* An attempt that failed or expired never moves again, a paid one only
\* towards a refund, and no attempt changes its checkout.
Finality ==
    [][\A p \in Payments :
          /\ payments[p].status \in Retryable => payments'[p] = payments[p]
          /\ payments[p].status \in Settled => payments'[p].status \in Settled
          /\ payments[p].status # "none" => payments'[p].checkout = CheckoutOf(p)]_vars

\* Every confirm key left in "processing" by a crash, an abort or a refusal is
\* freed in the end: locked_until_at is never read, only the TTL frees it.
KeysSettle ==
    \A k \in ConfirmKeys :
        confirmKeys[k].status = "processing" ~> confirmKeys[k].status # "processing"

-----------------------------------------------------------------------------
(* The order flow implements the stock ledger: a purchase is held while    *)
(* its last attempt is ready and sold while that attempt is paid and not   *)
(* refunded in full.                                                       *)
Position(c) ==
    LET p == checkouts[c].last IN
    IF p = NoPayment THEN "free"
    ELSE IF payments[p].status = "ready" THEN "held"
    ELSE IF payments[p].status \in {"paid", "partial_canceled"} THEN "sold"
    ELSE "free"

Ledger == INSTANCE StockLedger WITH position <- [c \in Checkouts |-> Position(c)]

LedgerSpec == Ledger!Spec
==============================================================================
