------------------------ MODULE SubscriptionLifecycle ------------------------
(***************************************************************************)
(* What the life of a subscription promises, whatever billing runs,        *)
(* retries, cancellations, resumptions and expirations do at once: one     *)
(* invoice for each billing cycle, open only while the subscription is     *)
(* past due, and a subscription that moves along the arrows                *)
(*                                                                         *)
(*      active -> past_due -> active | canceled                            *)
(*      active -> cancel_scheduled -> active | canceled                    *)
(*                                                                         *)
(* and whose due date moves on with every cycle that is paid.              *)
(* SubscriptionBilling implements it with calls of the payment gateway     *)
(* between what is read and what is written.                               *)
(***************************************************************************)
EXTENDS Naturals

CONSTANTS Subs,  \* the subscriptions
          Dates, \* the dates that name billing cycles
          Never  \* no due date

VARIABLES subs,    \* [status, end, next] of each subscription
          invoices \* status of the invoice of each cycle

lifeVars == <<subs, invoices>>

LifeInit ==
    /\ \A s \in Subs : subs[s].status = "active" /\ subs[s].next = subs[s].end
    /\ \A s \in Subs, d \in Dates : invoices[s][d] = "none"

\* Subscription s goes from status `from` to `to`; the others stay.
Moves(s, from, to) ==
    /\ subs[s].status = from
    /\ subs'[s].status = to
    /\ \A o \in Subs \ {s} : subs'[o] = subs[o]

\* The invoice of cycle d goes from status `from` to `to`.
Invoices(s, d, from, to) ==
    /\ invoices[s][d] = from
    /\ invoices' = [invoices EXCEPT ![s][d] = to]

\* A cycle is paid at once: the paid period ends at the next due date.
BillPaid(s, d) ==
    /\ Moves(s, "active", "active")
    /\ Invoices(s, d, "none", "paid")
    /\ subs'[s].next > subs[s].next
    /\ subs'[s].end = subs'[s].next

BillFailed(s, d) ==
    /\ Moves(s, "active", "past_due")
    /\ Invoices(s, d, "none", "issued")
    /\ subs'[s].next = subs[s].next
    /\ subs'[s].end = subs[s].end

Settle(s, d) ==
    /\ Moves(s, "past_due", "active")
    /\ Invoices(s, d, "issued", "paid")
    /\ subs'[s].next > subs[s].next
    /\ subs'[s].end = subs[s].end

\* The last retry failed: the subscription ends and still owes the cycle.
GiveUp(s, d) ==
    /\ Moves(s, "past_due", "canceled")
    /\ invoices[s][d] = "issued"
    /\ subs'[s].next = Never
    /\ UNCHANGED invoices

ScheduleEnd(s) ==
    /\ Moves(s, "active", "cancel_scheduled")
    /\ subs'[s].next = Never
    /\ subs'[s].end = subs[s].end
    /\ UNCHANGED invoices

TakeBack(s) ==
    /\ Moves(s, "cancel_scheduled", "active")
    /\ subs'[s].next = subs[s].end
    /\ subs'[s].end = subs[s].end
    /\ UNCHANGED invoices

End(s) ==
    /\ Moves(s, "cancel_scheduled", "canceled")
    /\ subs'[s].next = Never
    /\ UNCHANGED invoices

LifeNext ==
    \E s \in Subs :
        \/ \E d \in Dates : BillPaid(s, d) \/ BillFailed(s, d) \/ Settle(s, d) \/ GiveUp(s, d)
        \/ ScheduleEnd(s) \/ TakeBack(s) \/ End(s)

LifeSpec == LifeInit /\ [][LifeNext]_lifeVars
==============================================================================
