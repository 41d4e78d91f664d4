------------------------- MODULE SubscriptionChange -------------------------
(***************************************************************************)
(* Plan changes (application/subscription_changes.py) beside the billing   *)
(* runs, cancellations and resumptions of SubscriptionBilling.             *)
(*                                                                         *)
(* A change is previewed, which keeps nothing on the server: the token the *)
(* customer gets holds what was promised.  Its execution works under the   *)
(* lock subscription:<id>, which a cancellation and a resumption take too, *)
(* but no billing run; it charges an upgrade under the token, and stores   *)
(* the whole subscription it read before the charge.  A run stores whole   *)
(* documents as well, with the plan it charged.                            *)
(*                                                                         *)
(* A plan is named by its price.  Retries of failed invoices are left out: *)
(* a retry, too, stores the plan it read, and has no condition at all; and *)
(* so are crashes of a run and lapses of its locks, as there is one run.   *)
(***************************************************************************)
EXTENDS SubscriptionBilling

CONSTANTS Changers,   \* server processes that execute a change
          ChangeKeys, \* Idempotency-Key values of executions
          Tokens,     \* confirmation tokens
          Plans,      \* the plans of the product, by price
          FirstPlan,  \* the plan subscribed at checkout
          NoPlan, NoToken

ASSUME PlanAssumption ==
    /\ Plans \subseteq Nat
    /\ FirstPlan \in Plans
    /\ NoPlan \notin Plans
ASSUME ChangerAssumption ==
    /\ {Nobody, Gone} \cap Changers = {}
    /\ Tokens \cap (Keys \cup {NoKey, NoToken}) = {}
    /\ NoKey \notin ChangeKeys

VARIABLES plans,      \* [plan, pending, effective] of each subscription
          held,       \* the plan in the document a run works on
          previews,   \* what each token promises
          changeKeys, \* [status, token] of each key
          editLock,   \* owner of lock subscription:<sub>
          changers,   \* each process in a change
          upgraded,   \* at the gateway: the tokens charged
          overrun     \* subscriptions whose editLock lapsed under a live owner

requestVars == <<previews, changeKeys, editLock, changers, upgraded, overrun>>
changeVars == <<plans, held, requestVars>>
allVars == <<vars, changeVars>>

PlanDoc == [plan : Plans, pending : Plans \cup {NoPlan}, effective : Moments]
OnlyPlan(p) == [plan |-> p, pending |-> NoPlan, effective |-> Never]

Preview == [sub : Subs \cup {NoSub}, from : Plans, to : Plans, next : Nat,
            free : BOOLEAN, at : Nat]
NoPreview == [sub |-> NoSub, from |-> FirstPlan, to |-> FirstPlan, next |-> 0,
              free |-> FALSE, at |-> 0]
ChangeKeyStatus == {"none", "processing", "succeeded", "failed"}
NoChangeKey == [status |-> "none", token |-> NoToken]
ChangerIdle == [pc |-> "idle", token |-> NoToken, key |-> NoKey, date |-> 0,
                seen |-> [status |-> "active", end |-> 0, next |-> 0],
                plan |-> OnlyPlan(FirstPlan)]

SubOf(c) == previews[changers[c].token].sub

PlansOK ==
    /\ plans \in [Subs -> PlanDoc]
    /\ held \in [Runs -> PlanDoc]

ChangersOK ==
    /\ previews \in [Tokens -> Preview]
    /\ changeKeys \in [ChangeKeys -> [status : ChangeKeyStatus, token : Tokens \cup {NoToken}]]
    /\ changers \in [Changers -> [pc : {"idle", "lock", "charge", "paid", "failed", "save"},
                                  token : Tokens \cup {NoToken}, key : ChangeKeys \cup {NoKey},
                                  date : Dates, seen : Subscription, plan : PlanDoc]]
    /\ upgraded \subseteq Tokens
    /\ overrun \subseteq Subs
    /\ \A c \in Changers : changers[c].pc # "idle" =>
          /\ changers[c].token \in Tokens
          /\ changers[c].key \in ChangeKeys
          /\ SubOf(c) \in Subs

EditLockOK(owners) == editLock \in [Subs -> owners \cup {Nobody, Gone}]

\* A cycle may now be paid under the token of a change.
UpgradeCycle ==
    [invoice : InvoiceStatus, failed : Nat, retry : RetryStatus,
     paidWith : Keys \cup Tokens \cup {NoKey}]
ChangeTypeOK ==
    /\ now \in Nat
    /\ subs \in [Subs -> Subscription]
    /\ cycles \in [Subs -> [Dates -> UpgradeCycle]]
    /\ RunsOK /\ PlansOK /\ ChangersOK /\ EditLockOK(Changers)

ChangeInit ==
    /\ Init
    /\ plans = [s \in Subs |-> OnlyPlan(FirstPlan)]
    /\ held = [b \in Runs |-> OnlyPlan(FirstPlan)]
    /\ previews = [t \in Tokens |-> NoPreview]
    /\ changeKeys = [k \in ChangeKeys |-> NoChangeKey]
    /\ editLock = [s \in Subs |-> Nobody]
    /\ changers = [c \in Changers |-> ChangerIdle]
    /\ upgraded = {}
    /\ overrun = {}

-----------------------------------------------------------------------------
PeriodEnd(s) == IF subs[s].next = Never THEN subs[s].end ELSE subs[s].next

\* The price of an upgrade is what is left of the period of the difference: it
\* is zero for a plan that is not dearer and when the period is over.
PreviewChange(t, s, p) ==
    /\ previews[t] = NoPreview
    /\ subs[s].status = "active"
    /\ previews' = [previews EXCEPT ![t] =
          [sub |-> s, from |-> plans[s].plan, to |-> p, next |-> PeriodEnd(s),
           free |-> p <= plans[s].plan \/ PeriodEnd(s) <= now, at |-> now]]
    /\ UNCHANGED <<vars, plans, held, changeKeys, editLock, changers, upgraded, overrun>>

\* A preview is good for ten minutes, within a half day or across its end.
Late(t) == now > previews[t].at + 1

\* The decision, the amount and the date are computed again and compared.
StillPromised(t) ==
    LET s == previews[t].sub IN
    /\ subs[s].status = "active"
    /\ plans[s].plan = previews[t].from
    /\ PeriodEnd(s) = previews[t].next

\* A key that was used, or any key about the token, answers or refuses.
Executable(t, k) ==
    /\ StillPromised(t)
    /\ changeKeys[k].status = "none"
    /\ \A x \in ChangeKeys : changeKeys[x].token # t

\* Everything is looked at before the lock; the date names the cycle later.
ChangeStart(c, t, k) ==
    /\ changers[c].pc = "idle"
    /\ previews[t].sub # NoSub
    /\ ~Late(t)
    /\ Executable(t, k)
    /\ changers' = [changers EXCEPT ![c] =
          [ChangerIdle EXCEPT !.pc = "lock", !.token = t, !.key = k, !.date = now \div 2]]
    /\ UNCHANGED <<vars, plans, held, previews, changeKeys, editLock, upgraded, overrun>>

MustPay(t) == previews[t].to > previews[t].from /\ ~previews[t].free

\* And again under the lock, where the subscription is read for good.
ChangeLock(c) ==
    LET s == SubOf(c)
        t == changers[c].token
        k == changers[c].key
    IN  /\ changers[c].pc = "lock"
        /\ editLock[s] = Nobody
        /\ Executable(t, k)
        /\ editLock' = [editLock EXCEPT ![s] = c]
        /\ changeKeys' = [changeKeys EXCEPT ![k] = [status |-> "processing", token |-> t]]
        /\ changers' = [changers EXCEPT ![c].pc = IF MustPay(t) THEN "charge" ELSE "save",
                                        ![c].seen = subs[s], ![c].plan = plans[s]]
        /\ UNCHANGED <<vars, plans, held, previews, upgraded, overrun>>

ChangeTurnedAway(c) ==
    /\ changers[c].pc = "lock"
    /\ editLock[SubOf(c)] # Nobody \/ ~Executable(changers[c].token, changers[c].key)
    /\ changers' = [changers EXCEPT ![c] = ChangerIdle]
    /\ UNCHANGED <<vars, plans, held, previews, changeKeys, editLock, upgraded, overrun>>

\* The token is the gateway's idempotency key; the answer may be lost.
ChangeCharged(c) ==
    /\ changers[c].pc = "charge"
    /\ changers[c].token \notin upgraded
    /\ upgraded' = upgraded \cup {changers[c].token}
    /\ \E outcome \in {"paid", "failed"} : changers' = [changers EXCEPT ![c].pc = outcome]
    /\ UNCHANGED <<vars, plans, held, previews, changeKeys, editLock, overrun>>

\* Mutant: an answer for another order is taken for a success.
ChangeNotChargedPaid(c) ==
    /\ changers[c].pc = "charge"
    /\ changers' = [changers EXCEPT ![c].pc = "paid"]
    /\ UNCHANGED <<vars, plans, held, previews, changeKeys, editLock, upgraded, overrun>>

\* Declined, not reached, or answered for another order.
ChangeNotCharged(c) ==
    /\ changers[c].pc = "charge"
    /\ changers' = [changers EXCEPT ![c].pc = "failed"]
    /\ UNCHANGED <<vars, plans, held, previews, changeKeys, editLock, upgraded, overrun>>

\* The plan in the document the change stores: unchanged for the plan it has,
\* a cheaper one from the next period on, a dearer one at once.
ChangedPlan(c) ==
    LET t == previews[changers[c].token] IN
    CASE t.to = t.from -> changers[c].plan
      [] t.to < t.from -> [changers[c].plan EXCEPT !.pending = t.to, !.effective = t.next]
      [] t.to > t.from -> OnlyPlan(t.to)

\* The request ends and releases its lock.
ChangeDone(c) ==
    /\ editLock' = [editLock EXCEPT ![SubOf(c)] = IF @ = c THEN Nobody ELSE @]
    /\ changers' = [changers EXCEPT ![c] = ChangerIdle]

SaveChangeKey(c, status) ==
    changeKeys' = [changeKeys EXCEPT ![changers[c].key].status = status]

\* The payment and the invoice of an upgrade belong to the cycle of the date.
UpgradeFits(c) ==
    /\ cycles[SubOf(c)][changers[c].date].invoice = "none"
    /\ cycles[SubOf(c)][changers[c].date].paidWith = NoKey
UpgradeCycleSaved(c, cycle) ==
    cycles' = [cycles EXCEPT ![SubOf(c)][changers[c].date] = cycle]

\* The transaction stores the subscription as it was read, and its new plan.
ChangeSave(c) ==
    /\ \/ /\ changers[c].pc = "save"
          /\ UNCHANGED cycles
       \/ /\ changers[c].pc = "paid"
          /\ UpgradeFits(c)
          /\ UpgradeCycleSaved(c, [NoCycle EXCEPT !.invoice = "paid",
                                                  !.paidWith = changers[c].token])
    /\ subs' = [subs EXCEPT ![SubOf(c)] = changers[c].seen]
    /\ plans' = [plans EXCEPT ![SubOf(c)] = ChangedPlan(c)]
    /\ SaveChangeKey(c, "succeeded")
    /\ ChangeDone(c)
    /\ UNCHANGED <<now, retryKeys, lockVars, runs, retries, taken, held, previews,
                   upgraded, overrun>>

\* The failed payment and an open invoice are stored; the subscription is not.
ChangeFailed(c) ==
    /\ changers[c].pc = "failed"
    /\ cycles[SubOf(c)][changers[c].date].invoice = "none"
    /\ UpgradeCycleSaved(c, [NoCycle EXCEPT !.invoice = "issued", !.failed = 1])
    /\ SaveChangeKey(c, "failed")
    /\ ChangeDone(c)
    /\ UNCHANGED <<now, subs, retryKeys, lockVars, runs, retries, taken, plans, held,
                   previews, upgraded, overrun>>

\* There is no method to charge, an index refuses, or the database aborts: the
\* key stays "processing".
ChangeAborted(c) ==
    /\ changers[c].pc \in {"charge", "paid", "failed", "save"}
    /\ ChangeDone(c)
    /\ UNCHANGED <<vars, plans, held, previews, changeKeys, upgraded, overrun>>

ChangeCrash(c) ==
    /\ changers[c].pc # "idle"
    /\ editLock' = [s \in Subs |-> IF editLock[s] = c THEN Gone ELSE editLock[s]]
    /\ changers' = [changers EXCEPT ![c] = ChangerIdle]
    /\ UNCHANGED <<vars, plans, held, previews, changeKeys, upgraded, overrun>>

EditLockLapse(s) ==
    /\ editLock[s] # Nobody
    /\ editLock' = [editLock EXCEPT ![s] = Nobody]
    /\ overrun' = IF editLock[s] = Gone THEN overrun ELSE overrun \cup {s}
    /\ UNCHANGED <<vars, plans, held, previews, changeKeys, changers, upgraded>>

\* A key is deleted after a day.
ChangeKeyTtl(k) ==
    /\ changeKeys[k].status # "none"
    /\ Late(changeKeys[k].token)
    /\ \A c \in Changers : changers[c].key # k /\ changers[c].token # changeKeys[k].token
    /\ changeKeys' = [changeKeys EXCEPT ![k] = NoChangeKey]
    /\ UNCHANGED <<vars, plans, held, previews, editLock, changers, upgraded, overrun>>

-----------------------------------------------------------------------------
\* Mutant: the pending plan is charged and stays pending.
PromotedBeside(doc, d) ==
    IF doc.pending # NoPlan /\ doc.effective # Never /\ doc.effective <= DayEnd(d)
    THEN [doc EXCEPT !.plan = doc.pending] ELSE doc

\* Mutant: a subscription that no plan waits for loses its own.
PromotedAlways(doc, d) ==
    IF doc.effective = Never \/ doc.effective <= DayEnd(d) THEN OnlyPlan(doc.pending) ELSE doc

\* A pending plan that is due is the plan a run charges, and stores.
Promoted(doc, d) ==
    IF doc.pending # NoPlan /\ doc.effective # Never /\ doc.effective <= DayEnd(d)
    THEN OnlyPlan(doc.pending) ELSE doc

\* A run that is done with a subscription forgets the document.
Nothing == OnlyPlan(FirstPlan)

PlannedRunTake(b, s) ==
    /\ RunTake(b, s)
    /\ held' = [held EXCEPT ![b] = Promoted(plans[s], runs[b].date)]
    /\ UNCHANGED <<plans, requestVars>>

PlannedRunSave(b) ==
    /\ RunSave(b)
    /\ plans' = IF StillListed(b, runs[b].sub)
                THEN [plans EXCEPT ![runs[b].sub] = held[b]] ELSE plans
    /\ held' = [held EXCEPT ![b] = Nothing]
    /\ UNCHANGED requestVars

\* Mutant: the lock of the subscription is not looked at.
LockedCancelAnyway(s) == editLock[s] \in Changers \cup {Nobody} /\ ScheduleCancel(s)

\* Both are one update under the lock of the subscription.
LockedCancel(s) == editLock[s] = Nobody /\ ScheduleCancel(s)
LockedResume(s) == editLock[s] = Nobody /\ Resume(s)

OtherRunStep(b) ==
    \/ \E d \in Dates : RunStart(b, d)
    \/ \E s \in Subs : RunSkip(b, s)
    \/ RunCharged(b) \/ RunNotCharged(b) \/ RunAborted(b) \/ RunEnd(b)
OtherBillingStep ==
    \/ \E b \in Runs : OtherRunStep(b)
    \/ \E s \in Subs : LockedCancel(s) \/ LockedResume(s) \/ Expire(s)
    \/ Tick

PlannedBilling ==
    \/ /\ OtherBillingStep
       /\ held' = [b \in Runs |-> IF runs'[b].sub = NoSub THEN Nothing ELSE held[b]]
       /\ UNCHANGED <<plans, requestVars>>
    \/ \E b \in Runs, s \in Subs : PlannedRunTake(b, s)
    \/ \E b \in Runs : PlannedRunSave(b)

ChangeStep(c) ==
    \/ ChangeLock(c) \/ ChangeTurnedAway(c)
    \/ ChangeCharged(c) \/ ChangeNotCharged(c)
    \/ ChangeSave(c) \/ ChangeFailed(c) \/ ChangeAborted(c) \/ ChangeCrash(c)

ChangeNext ==
    \/ PlannedBilling
    \/ \E t \in Tokens, s \in Subs, p \in Plans : PreviewChange(t, s, p)
    \/ \E c \in Changers, t \in Tokens, k \in ChangeKeys : ChangeStart(c, t, k)
    \/ \E c \in Changers : ChangeStep(c)
    \/ \E s \in Subs : EditLockLapse(s)
    \/ \E k \in ChangeKeys : ChangeKeyTtl(k)

ChangeSpec == ChangeInit /\ [][ChangeNext]_allVars

-----------------------------------------------------------------------------
(* A plan that waits for the next period is cheaper than the one in force, *)
(* whatever changes and runs store over each other: nobody gets a dearer   *)
(* plan by waiting for it.                                                 *)
Cheaper(doc) == doc.pending = NoPlan \/ doc.pending < doc.plan
PendingIsCheaper == \A s \in Subs : Cheaper(plans[s])

(* A subscription has a plan dearer than the first only if an upgrade to a *)
(* plan as dear was charged at the gateway, or was free because the period *)
(* was over: no order of stale saves gives a plan away.                    *)
UpgradeWasPaid ==
    \A s \in Subs : plans[s].plan > FirstPlan =>
        \E t \in Tokens :
            /\ previews[t].sub = s
            /\ previews[t].to >= plans[s].plan
            /\ previews[t].free \/ t \in upgraded

(* A cancellation is not undone by the subscription that a plan change, an *)
(* adjustment or a billing run read earlier: a canceled subscription stays *)
(* canceled, and only a resumption makes one renew again whose customer    *)
(* asked to cancel it, unless the lock lapsed under its owner.             *)
CancellationHolds ==
    [][\A s \in Subs \ overrun' :
          /\ subs[s].status = "canceled" => subs'[s].status = "canceled"
          /\ subs[s].status = "cancel_scheduled" =>
                \/ subs'[s].status \in {"cancel_scheduled", "canceled"}
                \/ subs'[s] = Resumed(s) /\ editLock[s] = Nobody]_allVars
==============================================================================
