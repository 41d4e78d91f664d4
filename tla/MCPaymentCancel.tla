--------------------------- MODULE MCPaymentCancel ---------------------------
(* Instances of PaymentCancel for TLC.                                     *)
EXTENDS PaymentCancel, TLC

CONSTANTS c1, s1

\* One purchase.
SingleItems == c1 :> {s1}
SingleStock == s1 :> 1

\* Just after an attempt p of checkout c1 was confirmed: what ConfirmRecord leaves
\* behind, taken as the start so that two cancellations race without the
\* confirmation that precedes them.
PaidInit ==
    \E p \in Payments, k \in ConfirmKeys :
        /\ payments = [q \in Payments |->
              IF q = p THEN [status |-> "paid", checkout |-> c1, cancelable |-> Amount]
              ELSE [status |-> "none", checkout |-> NoCheckout, cancelable |-> 0]]
        /\ checkouts = [c \in Checkouts |-> [status |-> "paid", last |-> p]]
        /\ reserved = [s \in Skus |-> 0]
        /\ sold = [s \in Skus |-> 1]
        /\ invoices = {p}
        /\ due = {}
        /\ orderKeys = [o \in OrderKeys |-> NoPayment]
        /\ confirmKeys = [j \in ConfirmKeys |-> NoEntry]
        /\ confirmLock = [q \in Payments |-> Nobody]
        /\ checkoutLock = [c \in Checkouts |-> Nobody]
        /\ confirms = [r \in ConfirmRequests |-> Idle]
        /\ charge = [q \in Payments |-> IF q = p THEN k ELSE NoKey]
        /\ history = [q \in Payments |-> [x \in CancelKeys |-> 0]]
        /\ cancelRows = [q \in Payments |-> [x \in CancelKeys |-> "none"]]
        /\ cancelKeys = [q \in Payments |-> [x \in CancelKeys |-> NoCancelEntry]]
        /\ cancelLock = [q \in Payments |-> Nobody]
        /\ cancels = [r \in CancelRequests |-> CancelIdle]
        /\ balance = [q \in Payments |-> Amount]
        /\ refunds = [q \in Payments |-> [x \in CancelKeys |-> NoRefund]]

PaidSpec == PaidInit /\ [][CancelNext]_allVars

\* Two cancel requests are alike, and so are two cancel keys.
CancelSymmetry == Permutations(CancelRequests) \cup Permutations(CancelKeys)
==============================================================================
