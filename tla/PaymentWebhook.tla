---------------------------- MODULE PaymentWebhook ----------------------------
(***************************************************************************)
(* receive_toss_payment_webhook of application/webhooks.py, composed with  *)
(* orders, confirmations and refunds.  The gateway reports each approval   *)
(* and each refund in an event of its own, which it may deliver late, out  *)
(* of order and more than once.  The event is stored first and handled in  *)
(* a transaction; an event that ends "failed" is handled again when it is  *)
(* delivered again, and one that aborts changes nothing.                   *)
(***************************************************************************)
EXTENDS PaymentCancel

VARIABLES handled, \* the events with status "processed" or "ignored"
          stamp    \* statusChangedAt of the last webhook applied to an attempt

webhookVars == <<handled, stamp>>
shopVars == <<allVars, webhookVars>>

\* An attempt was approved at time 0, and a refund happens at the time at which
\* that much has gone back: all that matters of statusChangedAt and canceledAt.
Done(p) == [payment |-> p, status |-> "DONE", time |-> 0]

Canceled(p, k) ==
    LET left == refunds[p][k].left IN
    [payment |-> p, status |-> IF left = 0 THEN "CANCELED" ELSE "PARTIAL_CANCELED",
     time |-> Amount - left]

\* What the gateway has to report.
Events ==
    {Done(p) : p \in {q \in Payments : charge[q] # NoKey}}
    \cup {Canceled(pk[1], pk[2]) : pk \in
             {qk \in Payments \X CancelKeys : refunds[qk[1]][qk[2]] # NoRefund}}

AllEvents == [payment : Payments, status : {"DONE", "CANCELED", "PARTIAL_CANCELED"},
              time : 0..Amount]

WebhookTypeOK ==
    /\ CancelTypeOK
    /\ handled \subseteq AllEvents
    /\ stamp \in [Payments -> 0..Amount]

WebhookInit ==
    /\ CancelInit
    /\ handled = {}
    /\ stamp = [p \in Payments |-> 0]

-----------------------------------------------------------------------------
Handle(e) == handled' = handled \cup {e}

\* A handled event of the same payment and status is at least as late.
Repeated(e) ==
    \E d \in handled : /\ d.payment = e.payment
                       /\ d.status = e.status
                       /\ d.time >= e.time

\* When the status of the attempt was last changed, as far as the service knows:
\* the latest refund it recorded, or the last webhook.
Timestamp(p) ==
    LET recorded == {k \in CancelKeys : history[p][k] > 0} IN
    IF payments[p].status \in {"canceled", "partial_canceled"} /\ recorded # {}
    THEN Max({Amount - refunds[p][k].left : k \in recorded})
    ELSE stamp[p]

\* Mutant: events are applied in the order in which they arrive.
OlderNever(e) == e \notin AllEvents

Older(e) == e.time < Timestamp(e.payment)

WebhookIgnored(e) ==
    /\ e \notin handled
    /\ Repeated(e) \/ Older(e)
    /\ Handle(e)
    /\ UNCHANGED <<allVars, stamp>>

Current(e) == e \notin handled /\ ~Repeated(e) /\ ~Older(e)

\* The checkout is already paid by this attempt, or ready: whichever attempt
\* it is waiting for.  Otherwise the event ends "failed".
Claims(p) ==
    LET checkout == checkouts[CheckoutOf(p)] IN
    \/ checkout.status = "paid" /\ checkout.last = p
    \/ checkout.status = "ready"

\* Mutant: what the gateway approved is added to what is there.
PayAttemptAgain(p) ==
    payments' = [payments EXCEPT ![p].status = IF @ \in Settled THEN @ ELSE "paid",
                                 ![p].cancelable = @ + Amount]

PayAttempt(p) ==
    payments' = [payments EXCEPT ![p].status = IF @ \in Settled THEN @ ELSE "paid",
                                 ![p].cancelable = Amount]

\* Mutant: the checkout is left as it is.
PayCheckoutForgotten(p) == p \in Payments /\ UNCHANGED checkouts

PayCheckout(p) ==
    checkouts' = [checkouts EXCEPT ![CheckoutOf(p)] = [status |-> "paid", last |-> p]]

PayInvoice(p) ==
    invoices' = IF payments'[p].status = "paid" THEN invoices \cup {p} ELSE invoices

\* Mutant: the reservation is kept.
CaptureForgotten(p) == p \in Payments /\ UNCHANGED stockVars

\* The reservation is captured by the first event that pays the checkout.
CaptureOnce(p) ==
    IF checkouts[CheckoutOf(p)].status = "ready" /\ payments'[p].status = "paid"
    THEN CaptureReserved(CheckoutOf(p)) ELSE UNCHANGED stockVars

WebhookDone(e) ==
    LET p == e.payment IN
    /\ Current(e)
    /\ e.status = "DONE"
    /\ Claims(p)
    /\ payments[p].status \notin Settled => OnlyPaid(p)
    /\ PayAttempt(p)
    /\ PayCheckout(p)
    /\ PayInvoice(p)
    /\ CaptureOnce(p)
    /\ due' = due \ {p}
    /\ stamp' = [stamp EXCEPT ![p] = 0]
    /\ Handle(e)
    /\ UNCHANGED <<orderKeys, confirmKeys, lockVars, confirms, charge, cancelVars>>

\* The status follows the gateway; cancelable amount, history and stock do not.
WebhookCanceled(e) ==
    LET p == e.payment IN
    /\ Current(e)
    /\ e.status # "DONE"
    /\ IF payments[p].status = "canceled" THEN UNCHANGED <<payments, stamp>>
       ELSE /\ payments' = [payments EXCEPT ![p].status =
                               IF e.status = "CANCELED" THEN "canceled"
                                                        ELSE "partial_canceled"]
            /\ stamp' = [stamp EXCEPT ![p] = e.time]
    /\ Handle(e)
    /\ UNCHANGED <<checkouts, stockVars, invoices, due, orderKeys, confirmKeys,
                   lockVars, confirms, charge, cancelVars>>

Webhook(e) == WebhookIgnored(e) \/ WebhookDone(e) \/ WebhookCanceled(e)

ShopNext ==
    \/ CancelNext /\ UNCHANGED webhookVars
    \/ \E e \in Events : Webhook(e)

ShopSpec == WebhookInit /\ [][ShopNext]_shopVars

-----------------------------------------------------------------------------
\* No webhook, however late or repeated, gives a payment back money that the
\* service has recorded as refunded.
RefundsSurviveWebhooks ==
    [][\A p \in Payments :
          payments[p].status \in Settled =>
              /\ payments'[p].status \in Settled
              /\ payments'[p].cancelable <= payments[p].cancelable
              /\ payments[p].status = "canceled" => payments'[p].status = "canceled"
      ]_shopVars
==============================================================================
