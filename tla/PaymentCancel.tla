---------------------------- MODULE PaymentCancel ----------------------------
(***************************************************************************)
(* Refunds of one-time payments: cancel_payment of payment_orders.py and   *)
(* cancel_admin_payment of admin_operations.py, which differ only in the   *)
(* scope of their idempotency keys and share the lock, the rows of         *)
(* payment_cancel_requests and the cancel history.  A key of CancelKeys    *)
(* belongs to one of the two scopes, and its hash includes the payment.    *)
(*                                                                         *)
(* Three steps again: a transaction stores a pending request and the key,  *)
(* the gateway refunds, a second transaction records the refund.           *)
(***************************************************************************)
EXTENDS OneTimePayment, FiniteSetsExt

CONSTANTS CancelRequests, \* server processes that run a cancellation
          CancelKeys,     \* Idempotency-Key values sent to cancel
          Whole,          \* cancelAmount is absent: all that is left
          Wants           \* the cancelAmounts clients send

ASSUME WantsAssumption == Wants \subseteq (1..Amount) \cup {Whole}
ASSUME CancelAssumption ==
    /\ CancelRequests \cap {Nobody, Gone} = {}
    /\ Whole \notin Nat
    /\ IsFiniteSet(CancelKeys)

VARIABLES history,     \* cancel_history: the amount recorded under each key
          cancelRows,  \* status of each row of payment_cancel_requests
          cancelKeys,  \* [status, want] of each cancel key
          cancelLock,  \* owner of lock payment-cancel:<payment>
          cancels,     \* each process in a cancellation
          balance,     \* at the gateway: what is left of a payment
          refunds      \* at the gateway: [amount, left] answered to each key

cancelVars == <<history, cancelRows, cancelKeys, cancelLock, cancels, balance, refunds>>
allVars == <<vars, cancelVars>>
gatewayVars == <<balance, refunds>>

Refundable == {"paid", "partial_canceled"}
RowStatus == {"none", "pending", "succeeded", "failed"}

NoCancelEntry == [status |-> "none", want |-> Whole]
NoRefund == [amount |-> 0, left |-> 0]
CancelIdle == [pc |-> "idle", payment |-> NoPayment, key |-> NoKey, want |-> Whole,
               amount |-> 0, left |-> 0, seen |-> {}]

CancelTypeOK ==
    /\ TypeOK
    /\ history \in [Payments -> [CancelKeys -> 0..Amount]]
    /\ cancelRows \in [Payments -> [CancelKeys -> RowStatus]]
    /\ cancelKeys \in [Payments -> [CancelKeys -> [status : KeyStatus,
                                                   want : (1..Amount) \cup {Whole}]]]
    /\ cancelLock \in [Payments -> CancelRequests \cup {Nobody, Gone}]
    /\ cancels \in [CancelRequests -> [pc : Steps, payment : Payments \cup {NoPayment},
                                       key : CancelKeys \cup {NoKey},
                                       want : (1..Amount) \cup {Whole},
                                       amount : 0..Amount, left : 0..Amount,
                                       seen : SUBSET CancelKeys]]
    /\ \A r \in CancelRequests : cancels[r].pc # "idle" =>
          /\ cancels[r].payment \in Payments
          /\ cancels[r].key \in CancelKeys
    /\ balance \in [Payments -> 0..Amount]
    /\ refunds \in [Payments -> [CancelKeys -> [amount : 0..Amount, left : 0..Amount]]]

CancelInit ==
    /\ Init
    /\ history = [p \in Payments |-> [k \in CancelKeys |-> 0]]
    /\ cancelRows = [p \in Payments |-> [k \in CancelKeys |-> "none"]]
    /\ cancelKeys = [p \in Payments |-> [k \in CancelKeys |-> NoCancelEntry]]
    /\ cancelLock = [p \in Payments |-> Nobody]
    /\ cancels = [r \in CancelRequests |-> CancelIdle]
    /\ balance = [p \in Payments |-> Amount]
    /\ refunds = [p \in Payments |-> [k \in CancelKeys |-> NoRefund]]

-----------------------------------------------------------------------------
CancelStart(r, p, k, want) ==
    /\ cancels[r].pc = "idle"
    /\ payments[p].status # "none"
    /\ cancelLock[p] = Nobody
    /\ cancelLock' = [cancelLock EXCEPT ![p] = r]
    /\ cancels' = [cancels EXCEPT ![r] =
          [pc |-> "prepare", payment |-> p, key |-> k, want |-> want,
           amount |-> 0, left |-> 0, seen |-> {}]]
    /\ UNCHANGED <<vars, history, cancelRows, cancelKeys, gatewayVars>>

CancelGoto(r, pc) == cancels' = [cancels EXCEPT ![r].pc = pc]

CancelEntry(r) == cancelKeys[cancels[r].payment][cancels[r].key]

SetCancelKey(r, status) ==
    cancelKeys' = [cancelKeys EXCEPT ![cancels[r].payment][cancels[r].key] =
                      [status |-> status, want |-> cancels[r].want]]

\* Mutant: the row is stored only when the outcome is known.
SetCancelRowLate(r, status) ==
    IF status = "pending" THEN UNCHANGED cancelRows
    ELSE cancelRows' = [cancelRows EXCEPT ![cancels[r].payment][cancels[r].key] = status]

SetCancelRow(r, status) ==
    cancelRows' = [cancelRows EXCEPT ![cancels[r].payment][cancels[r].key] = status]

\* What a request for `want` takes from a payment.
AmountOf(p, want) == IF want = Whole THEN payments[p].cancelable ELSE want

\* The payment can give `amount` back.
CanRefund(p, amount) ==
    /\ payments[p].status \in Refundable
    /\ amount \in 1..payments[p].cancelable

\* Mutant: the amount is not checked before the call.
PreparedUnchecked(r) ==
    /\ CancelEntry(r).status \in {"none", "failed"}
    /\ cancelRows[cancels[r].payment][cancels[r].key] # "pending"

\* A key that failed has no stored answer, so it may be tried again.
Prepared(r) ==
    LET p == cancels[r].payment IN
    /\ \/ CancelEntry(r).status = "none"
       \/ CancelEntry(r).status = "failed" /\ CancelEntry(r).want = cancels[r].want
    /\ CanRefund(p, AmountOf(p, cancels[r].want))
    /\ cancelRows[p][cancels[r].key] # "pending"

CancelPrepare(r) ==
    LET p == cancels[r].payment
        amount == AmountOf(p, cancels[r].want)
    IN  /\ cancels[r].pc = "prepare"
        /\ Prepared(r)
        /\ SetCancelRow(r, "pending")
        /\ SetCancelKey(r, "processing")
        /\ cancels' = [cancels EXCEPT ![r] =
              [pc |-> "call", payment |-> p, key |-> cancels[r].key, want |-> cancels[r].want,
               amount |-> amount, left |-> payments[p].cancelable - amount,
               seen |-> {k \in CancelKeys : history[p][k] > 0}]]
        /\ UNCHANGED <<vars, history, cancelLock, gatewayVars>>

\* The stored answer of a succeeded key is replayed; anything else is refused.
CancelNotPrepared(r) ==
    /\ cancels[r].pc = "prepare"
    /\ ~Prepared(r)
    /\ CancelGoto(r, "release")
    /\ UNCHANGED <<vars, history, cancelRows, cancelKeys, cancelLock, gatewayVars>>

\* The gateway refunds `amount` under the key of r, once: a repeated key gets
\* the answer it got before.
Refund(r) ==
    LET p == cancels[r].payment
        k == cancels[r].key
    IN  /\ cancels[r].pc = "call"
        /\ \/ /\ refunds[p][k] # NoRefund
              /\ UNCHANGED gatewayVars
           \/ /\ refunds[p][k] = NoRefund
              /\ balance[p] >= cancels[r].amount
              /\ balance' = [balance EXCEPT ![p] = @ - cancels[r].amount]
              /\ refunds' = [refunds EXCEPT ![p][k] =
                    [amount |-> cancels[r].amount,
                     left |-> balance[p] - cancels[r].amount]]

\* Mutant: any answer of the gateway is accepted.
MatchesAnything(r, answer) == cancels[r].pc = "call" /\ answer # NoRefund

\* The answer agrees with what the request expects and is a new cancellation.
Matches(r, answer) ==
    /\ answer.amount = cancels[r].amount
    /\ answer.left = cancels[r].left
    /\ cancels[r].key \notin cancels[r].seen

CancelAnswered(r) ==
    /\ Refund(r)
    /\ CancelGoto(r, IF Matches(r, refunds'[cancels[r].payment][cancels[r].key])
                     THEN "record" ELSE "fail")
    /\ UNCHANGED <<vars, history, cancelRows, cancelKeys, cancelLock>>

\* Refunded, but the answer never arrives.
CancelLost(r) ==
    /\ Refund(r)
    /\ CancelGoto(r, "fail")
    /\ UNCHANGED <<vars, history, cancelRows, cancelKeys, cancelLock>>

CancelDeclined(r) ==
    /\ cancels[r].pc = "call"
    /\ CancelGoto(r, "fail")
    /\ UNCHANGED <<vars, history, cancelRows, cancelKeys, cancelLock, gatewayVars>>

\* Mutant: a full refund keeps the stock.
RestoreSoldForgotten(c) == c \in Checkouts /\ UNCHANGED stockVars

\* The sold units of a checkout go back on sale.
RestoreSold(c) ==
    /\ sold' = [s \in Skus |-> IF s \in Items[c] /\ sold[s] > 0 THEN sold[s] - 1
                                                               ELSE sold[s]]
    /\ UNCHANGED reserved

RecordRefund(r) ==
    LET p == cancels[r].payment
        left == payments[p].cancelable - cancels[r].amount
    IN  /\ history' = [history EXCEPT ![p][cancels[r].key] = cancels[r].amount]
        /\ payments' = [payments EXCEPT ![p] =
              [status |-> IF left = 0 THEN "canceled" ELSE "partial_canceled",
               checkout |-> CheckoutOf(p), cancelable |-> left]]
        /\ IF left = 0 THEN RestoreSold(CheckoutOf(p)) ELSE UNCHANGED stockVars
        /\ SetCancelRow(r, "succeeded")
        /\ SetCancelKey(r, "succeeded")
        /\ UNCHANGED <<checkouts, invoices, due, orderKeys, confirmKeys, lockVars,
                       confirms, charge>>

\* When a webhook has canceled the payment meanwhile, the money is back with the
\* customer, the request is refused and its row stays pending.
CancelRecord(r) ==
    LET refundable == CanRefund(cancels[r].payment, cancels[r].amount) IN
    /\ cancels[r].pc = "record"
    /\ \/ refundable /\ RecordRefund(r)
       \/ ~refundable /\ UNCHANGED <<vars, history, cancelRows, cancelKeys>>
    /\ CancelGoto(r, "release")
    /\ UNCHANGED <<cancelLock, gatewayVars>>

CancelFail(r) ==
    /\ cancels[r].pc = "fail"
    /\ SetCancelRow(r, "failed")
    /\ SetCancelKey(r, "failed")
    /\ CancelGoto(r, "release")
    /\ UNCHANGED <<vars, history, cancelLock, gatewayVars>>

CancelAbort(r) ==
    /\ cancels[r].pc \in {"prepare", "record", "fail"}
    /\ CancelGoto(r, "release")
    /\ UNCHANGED <<vars, history, cancelRows, cancelKeys, cancelLock, gatewayVars>>

GiveCancelLock(r, owner) ==
    cancelLock' = [p \in Payments |-> IF cancelLock[p] = r THEN owner ELSE cancelLock[p]]

CancelRelease(r) ==
    /\ cancels[r].pc = "release"
    /\ GiveCancelLock(r, Nobody)
    /\ cancels' = [cancels EXCEPT ![r] = CancelIdle]
    /\ UNCHANGED <<vars, history, cancelRows, cancelKeys, gatewayVars>>

CancelCrash(r) ==
    /\ cancels[r].pc # "idle"
    /\ GiveCancelLock(r, Gone)
    /\ cancels' = [cancels EXCEPT ![r] = CancelIdle]
    /\ UNCHANGED <<vars, history, cancelRows, cancelKeys, gatewayVars>>

CancelLockLapse(p) ==
    /\ cancelLock[p] # Nobody
    /\ cancelLock' = [cancelLock EXCEPT ![p] = Nobody]
    /\ UNCHANGED <<vars, history, cancelRows, cancelKeys, cancels, gatewayVars>>

\* Mutant: only the keys that have an answer get an expires_at.
CancelKeyTtlAnswered(p, k) ==
    /\ cancelKeys[p][k].status \in {"succeeded", "failed"}
    /\ cancelKeys' = [cancelKeys EXCEPT ![p][k] = NoCancelEntry]
    /\ UNCHANGED <<vars, history, cancelRows, cancelLock, cancels, gatewayVars>>

CancelKeyTtl(p, k) ==
    /\ cancelKeys[p][k].status # "none"
    /\ \A r \in CancelRequests :
          cancels[r].pc \in {"call", "record", "fail"} =>
              cancels[r].payment # p \/ cancels[r].key # k
    /\ cancelKeys' = [cancelKeys EXCEPT ![p][k] = NoCancelEntry]
    /\ UNCHANGED <<vars, history, cancelRows, cancelLock, cancels, gatewayVars>>

CancelStep(r) ==
    \/ CancelPrepare(r) \/ CancelNotPrepared(r)
    \/ CancelAnswered(r) \/ CancelLost(r) \/ CancelDeclined(r)
    \/ CancelRecord(r) \/ CancelFail(r) \/ CancelRelease(r)

CancelAction ==
    \/ \E r \in CancelRequests, p \in Payments, k \in CancelKeys, want \in Wants :
          CancelStart(r, p, k, want)
    \/ \E r \in CancelRequests : CancelStep(r) \/ CancelAbort(r) \/ CancelCrash(r)
    \/ \E p \in Payments : CancelLockLapse(p)
    \/ \E p \in Payments, k \in CancelKeys : CancelKeyTtl(p, k)

CancelNext == (Next /\ UNCHANGED cancelVars) \/ CancelAction

CancelSpec == CancelInit /\ [][CancelNext]_allVars

CancelFairness ==
    /\ \A r \in CancelRequests : WF_allVars(CancelStep(r))
    /\ \A p \in Payments : WF_allVars(CancelLockLapse(p))
    /\ \A p \in Payments, k \in CancelKeys : WF_allVars(CancelKeyTtl(p, k))

CancelFairSpec == CancelSpec /\ Fairness /\ CancelFairness

-----------------------------------------------------------------------------
RefundedAmount(p) == MapThenSumSet(LAMBDA k : history[p][k], CancelKeys)

\* Every recorded refund was made by the gateway for that amount, and what the
\* service thinks is left is what it did not record: no retry, replay or lapsed
\* lock records money that did not go back, or records it twice.
HistoryIsReal ==
    \A p \in Payments :
        /\ \A k \in CancelKeys :
              history[p][k] > 0 => refunds[p][k].amount = history[p][k]
        /\ payments[p].status \in Settled =>
              /\ payments[p].cancelable = Amount - RefundedAmount(p)
              /\ balance[p] <= payments[p].cancelable

\* The status of a sale says how much of it is left.
StatusFollowsAmount ==
    \A p \in Payments : payments[p].status \in Settled =>
        payments[p].status = IF payments[p].cancelable = 0 THEN "canceled"
                             ELSE IF payments[p].cancelable = Amount THEN "paid"
                             ELSE "partial_canceled"

RefundsAreReal == HistoryIsReal /\ StatusFollowsAmount

\* A refund the gateway made and the service did not record always has a row
\* that is not "succeeded", for the operators who have to repair it; a stored
\* success always has its refund.
RefundsAreTraceable ==
    \A p \in Payments, k \in CancelKeys :
        /\ refunds[p][k] # NoRefund /\ history[p][k] = 0 =>
              cancelRows[p][k] \in {"pending", "failed"}
        /\ cancelRows[p][k] = "succeeded" => history[p][k] > 0
        /\ cancelKeys[p][k].status = "succeeded" => history[p][k] > 0

\* What was refunded stays refunded: an entry of the history never changes, and
\* a payment never gets cancelable money back.
RefundsAreFinal ==
    [][\A p \in Payments :
          /\ \A k \in CancelKeys : history[p][k] > 0 => history'[p][k] = history[p][k]
          /\ payments[p].status \in Settled =>
                payments'[p].cancelable <= payments[p].cancelable
          /\ payments[p].status = "canceled" => payments'[p] = payments[p]]_allVars

\* A cancel key left in "processing" by a crash or an abort is freed in the end.
CancelKeysSettle ==
    \A p \in Payments, k \in CancelKeys :
        cancelKeys[p][k].status = "processing" ~> cancelKeys[p][k].status # "processing"
==============================================================================
