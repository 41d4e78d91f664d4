------------------------- MODULE SubscriptionAdjust -------------------------
(***************************************************************************)
(* Adjustments of a subscription by an administrator                       *)
(* (adjust_admin_subscription of application/admin_operations.py), beside  *)
(* the plan changes, billing runs and cancellations of SubscriptionChange. *)
(*                                                                         *)
(* An adjustment works under the lock subscription:<id>.  It reads the     *)
(* subscription, works out a new document, after a question to the gateway *)
(* when it synchronises a payment, and stores whole documents in one       *)
(* transaction without a condition.                                        *)
(***************************************************************************)
EXTENDS SubscriptionChange

CONSTANTS Adjusters,  \* server processes that adjust
          AdjustKeys, \* Idempotency-Key values of adjustments
          PostponeBy, \* half days a billing may be postponed by
          Horizon,    \* bound: the latest due date an adjustment sets
          Waived      \* stands for the payment of a cycle nobody was charged for

ASSUME AdjustAssumption ==
    /\ ({Nobody, Gone} \cup Changers) \cap Adjusters = {}
    /\ NoKey \notin AdjustKeys
    /\ PostponeBy \subseteq Nat
    /\ Horizon \in Nat
    /\ Waived \notin Keys \cup Tokens \cup {NoKey}

VARIABLES adjustKeys, \* status of each key
          adjusters,  \* each process in an adjustment
          unheard,    \* runs whose charge was made and whose answer is lost
          lost        \* the key an open cycle was charged under unheard, if any

adjustVars == <<adjustKeys, adjusters>>
gatewayVars == <<unheard, lost>>
everything == <<allVars, adjustVars, gatewayVars>>

ChargeKeys == Keys \cup Tokens \cup {NoKey}
AdjustPc == {"idle", "ask", "save"}
AdjusterIdle == [pc |-> "idle", sub |-> NoSub, key |-> NoKey, date |-> 0, paid |-> NoKey,
                 doc |-> [status |-> "active", end |-> 0, next |-> 0],
                 plan |-> OnlyPlan(FirstPlan)]
AdjustCycle == [invoice : InvoiceStatus, failed : Nat, retry : RetryStatus,
                paidWith : ChargeKeys \cup {Waived}]

AdjustTypeOK ==
    /\ now \in Nat
    /\ subs \in [Subs -> Subscription]
    /\ cycles \in [Subs -> [Dates -> AdjustCycle]]
    /\ RunsOK /\ PlansOK /\ ChangersOK
    /\ EditLockOK(Changers \cup Adjusters)
    /\ adjustKeys \in [AdjustKeys -> ChangeKeyStatus]
    /\ adjusters \in [Adjusters -> [pc : AdjustPc, sub : Subs \cup {NoSub},
                                    key : AdjustKeys \cup {NoKey}, date : Dates,
                                    paid : ChargeKeys \cup {Waived}, doc : Subscription,
                                    plan : PlanDoc]]
    /\ unheard \subseteq Runs
    /\ lost \in [Subs -> [Dates -> ChargeKeys]]

AdjustInit ==
    /\ ChangeInit
    /\ adjustKeys = [k \in AdjustKeys |-> "none"]
    /\ adjusters = [a \in Adjusters |-> AdjusterIdle]
    /\ unheard = {}
    /\ lost = [s \in Subs |-> [d \in Dates |-> NoKey]]

-----------------------------------------------------------------------------
\* What only the gateway knows of a charge whose answer did not arrive, until
\* the invoice the charge was for is settled.
OpenedUnheard(s, d) ==
    {CycleKey : b \in {b \in unheard : runs[b].sub = s /\ runs[b].date = d /\ runs'[b].sub = NoSub}}
    \cup {changers[c].token : c \in {c \in Changers :
             /\ changers[c].pc = "failed" /\ changers'[c].pc = "idle"
             /\ SubOf(c) = s /\ changers[c].date = d /\ changers[c].token \in upgraded}}

LostOf(s, d) ==
    IF cycles'[s][d].invoice # "issued" \/ cycles[s][d].invoice = "issued"
    THEN {IF cycles'[s][d].invoice = "issued" THEN lost[s][d] ELSE NoKey}
    ELSE IF OpenedUnheard(s, d) = {} THEN {NoKey} ELSE OpenedUnheard(s, d)

Gateway ==
    /\ unheard' = {b \in Runs : runs'[b].pc = "failed" /\
                       (b \in unheard \/ (runs[b].pc = "charge" /\ taken' # taken))}
    /\ lost' = [s \in Subs |-> [d \in Dates |-> CHOOSE k \in LostOf(s, d) : TRUE]]

-----------------------------------------------------------------------------
\* A key is not deleted within the calendar of the instances, which is a day.
\* A key in "processing" or with a stored answer does not come this far.
Adjustable(s, k) == adjustKeys[k] \in {"none", "failed"} /\ editLock[s] = Nobody

\* The subscription is read under the lock; doc is what is to be stored.
AdjustStart(a, s, k, pc, doc, d, paid) ==
    /\ adjusters[a].pc = "idle"
    /\ Adjustable(s, k)
    /\ editLock' = [editLock EXCEPT ![s] = a]
    /\ adjustKeys' = [adjustKeys EXCEPT ![k] = "processing"]
    /\ adjusters' = [adjusters EXCEPT ![a] =
          [pc |-> pc, sub |-> s, key |-> k, date |-> d, paid |-> paid, doc |-> doc,
           plan |-> plans[s]]]
    /\ UNCHANGED <<vars, plans, held, previews, changeKeys, changers, upgraded, overrun>>

Renewing(s) == subs[s].status \in {"active", "past_due"}

Postpone(a, s, k) ==
    /\ Renewing(s)
    /\ subs[s].next # Never
    /\ \E t \in PostponeBy :
          /\ subs[s].next + t <= Horizon
          /\ AdjustStart(a, s, k, "save", [subs[s] EXCEPT !.next = @ + t], 0, NoKey)

SetNextBilling(a, s, k) ==
    /\ Renewing(s)
    /\ \E t \in now + 1 .. Horizon :
          AdjustStart(a, s, k, "save", [subs[s] EXCEPT !.next = t], 0, NoKey)

OverrideStatus(a, s, k) ==
    /\ subs[s].status = "active"
    /\ AdjustStart(a, s, k, "save", [subs[s] EXCEPT !.status = "canceled", !.next = Never], 0, NoKey)

\* A failed payment is recorded as paid although nobody paid it; the due date
\* of the subscription stays.
ClearFailure(a, s, k, d) ==
    /\ subs[s].status = "past_due"
    /\ cycles[s][d].invoice = "issued"
    /\ cycles[s][d].failed > 0
    /\ \E status \in {"active", "cancel_scheduled"} :
          AdjustStart(a, s, k, "save", [subs[s] EXCEPT !.status = status], d, Waived)

\* The key is saved before the gateway is asked about the payment of an invoice.
AskGateway(a, s, k, d) ==
    /\ cycles[s][d].invoice # "none"
    /\ AdjustStart(a, s, k, "ask", subs[s], d, NoKey)

\* Mutant: the order of the gateway's payment is not compared.
ChargedForAny(s, d) == IF cycles[s][d].invoice = "paid" THEN cycles[s][d].paidWith ELSE CycleKey

\* The key under which the order of the invoice's payment was charged.
ChargedFor(s, d) == IF cycles[s][d].invoice = "paid" THEN cycles[s][d].paidWith ELSE lost[s][d]

\* The payment is "DONE": the subscription is renewed from its approval on.
GatewayDone(a) ==
    LET s == adjusters[a].sub
        d == adjusters[a].date
    IN  /\ adjusters[a].pc = "ask"
        /\ ChargedFor(s, d) \notin {NoKey, Waived}
        /\ adjusters[a].doc.status \in {"active", "past_due"}
        /\ \E approved \in DayStart(d) .. now :
              adjusters' = [adjusters EXCEPT ![a].pc = "save", ![a].paid = ChargedFor(s, d),
                    ![a].doc = [status |-> "active", end |-> approved + Period,
                                next |-> approved + Period]]
        /\ UNCHANGED <<allVars, adjustKeys>>

AdjustDone(a) ==
    /\ editLock' = [editLock EXCEPT ![adjusters[a].sub] = IF @ = a THEN Nobody ELSE @]
    /\ adjusters' = [adjusters EXCEPT ![a] = AdjusterIdle]
    /\ UNCHANGED <<previews, changeKeys, changers, upgraded, overrun>>

\* Not reached, not done, another order, or a subscription that has ended.
GatewayRefuses(a) ==
    /\ adjusters[a].pc = "ask"
    /\ adjustKeys' = [adjustKeys EXCEPT ![adjusters[a].key] = "failed"]
    /\ AdjustDone(a)
    /\ UNCHANGED <<vars, plans, held>>

\* The index on paid payments of a cycle lets a payment be stored again, not a
\* second one beside it.
PaidFits(a) ==
    cycles[adjusters[a].sub][adjusters[a].date].paidWith \in {NoKey, adjusters[a].paid}

AdjustSave(a) ==
    LET s == adjusters[a].sub
        d == adjusters[a].date
    IN  /\ adjusters[a].pc = "save"
        /\ IF adjusters[a].paid = NoKey
           THEN UNCHANGED cycles
           ELSE /\ PaidFits(a)
                /\ cycles' = [cycles EXCEPT ![s][d] =
                      [@ EXCEPT !.invoice = "paid", !.failed = 0, !.retry = "never",
                                !.paidWith = adjusters[a].paid]]
        /\ subs' = [subs EXCEPT ![s] = adjusters[a].doc]
        /\ plans' = [plans EXCEPT ![s] = adjusters[a].plan]
        /\ adjustKeys' = [adjustKeys EXCEPT ![adjusters[a].key] = "succeeded"]
        /\ AdjustDone(a)
        /\ UNCHANGED <<now, retryKeys, lockVars, runs, retries, taken, held>>

\* An index refuses, or the database aborts: the key stays "processing".
AdjustAborted(a) ==
    /\ adjusters[a].pc = "save"
    /\ AdjustDone(a)
    /\ UNCHANGED <<vars, plans, held, adjustKeys>>

AdjustCrash(a) ==
    /\ adjusters[a].pc # "idle"
    /\ editLock' = [s \in Subs |-> IF editLock[s] = a THEN Gone ELSE editLock[s]]
    /\ adjusters' = [adjusters EXCEPT ![a] = AdjusterIdle]
    /\ UNCHANGED <<vars, plans, held, previews, changeKeys, changers, upgraded, overrun, adjustKeys>>

-----------------------------------------------------------------------------
AdjustRequest(a, s, k) ==
    \/ Postpone(a, s, k) \/ SetNextBilling(a, s, k) \/ OverrideStatus(a, s, k)
    \/ \E d \in Dates : ClearFailure(a, s, k, d) \/ AskGateway(a, s, k, d)

AdjustStep(a) ==
    \/ GatewayDone(a) \/ GatewayRefuses(a)
    \/ AdjustSave(a) \/ AdjustAborted(a) \/ AdjustCrash(a)

AdjustNext ==
    /\ \/ ChangeNext /\ UNCHANGED adjustVars
       \/ \E a \in Adjusters, s \in Subs, k \in AdjustKeys : AdjustRequest(a, s, k)
       \/ \E a \in Adjusters : AdjustStep(a)
    /\ Gateway

AdjustSpec == AdjustInit /\ [][AdjustNext]_everything

-----------------------------------------------------------------------------
(* What is recorded as paid was taken by the gateway under the recorded    *)
(* key, for runs, upgrades and payments an administrator synchronises,     *)
(* except where an administrator waived the payment; and a change is       *)
(* answered as a success only if its token needed no money, or the money   *)
(* was taken.                                                              *)
RecordedWasTaken ==
    /\ \A s \in Subs, d \in Dates :
          /\ cycles[s][d].paidWith = CycleKey => CycleKey \in taken[s][d]
          /\ cycles[s][d].paidWith \in Tokens => cycles[s][d].paidWith \in upgraded
          /\ cycles[s][d].invoice = "paid" <=> cycles[s][d].paidWith # NoKey
    /\ \A k \in ChangeKeys :
          changeKeys[k].status = "succeeded" /\ MustPay(changeKeys[k].token) =>
             changeKeys[k].token \in upgraded
==============================================================================
