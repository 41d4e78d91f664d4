------------------------- MODULE SubscriptionBilling -------------------------
(***************************************************************************)
(* Recurring billing: the daily run of jobs/subscription_billing.py, the   *)
(* retry of a failed invoice of jobs/billing_retry.py, the expiration job  *)
(* and the cancellation and resumption of application/subscriptions.py.    *)
(*                                                                         *)
(* A run lists what is due under a lock for its date, then takes each      *)
(* subscription in turn: read it again and lock its cycle, charge it, and  *)
(* store the outcome in a transaction that is refused when the             *)
(* subscription is no longer what the run listed.  A retry reads           *)
(* everything before it takes its lock, charges, and stores whole          *)
(* documents without a condition.  Processes die at any step; a lock       *)
(* lapses, also under a slow holder.                                       *)
(*                                                                         *)
(* Time is counted in half days: the run of a date may work before a       *)
(* period that ends later that day is over.                                *)
(***************************************************************************)
EXTENDS Naturals, FiniteSets

CONSTANTS Subs,       \* the subscriptions
          Runs,       \* server processes that work as a billing run
          Retries,    \* server processes that work as a retry
          RetryKeys,  \* Idempotency-Key values sent to a retry
          CycleKey,   \* the key a run sends the gateway for a cycle
          LastDay,    \* bound: the last day of the calendar
          PeriodDays, \* length of a billing period (30 in the code)
          MaxFailed,  \* failed attempts that end a subscription (3 in the code)
          FirstEnds,  \* when the period paid at checkout may end
          NoKey, NoSub, Nobody, Never,
          Gone        \* owner of a lock whose process has crashed

ASSUME CalendarAssumption == LastDay \in Nat /\ PeriodDays \in Nat \ {0}
ASSUME MaxFailedAssumption == MaxFailed \in Nat
ASSUME FirstEndsAssumption == FirstEnds \subseteq Nat
ASSUME ProcessAssumption ==
    /\ Runs \cap Retries = {}
    /\ {Nobody, Gone} \cap (Runs \cup Retries) = {}
    /\ Nobody # Gone
ASSUME NoneAssumption ==
    /\ CycleKey \notin RetryKeys
    /\ NoKey \notin RetryKeys \cup {CycleKey}
    /\ NoSub \notin Subs
    /\ Never \notin Nat

VARIABLES now,       \* the clock, in half days
          subs,      \* [status, end, next] of each subscription
          cycles,    \* [invoice, failed, retry, paidWith] of each cycle
          retryKeys, \* status of each retry key
          runLock,   \* owner of lock internal-billing-run:billing:<date>
          cycleLock, \* owner of lock subscription-billing:<sub>:<cycle>
          retryLock, \* owner of lock subscription-retry:<invoice>
          runs,      \* each process in a billing run
          retries,   \* each process in a retry
          taken      \* at the gateway: the keys a cycle was charged under

lockVars == <<runLock, cycleLock, retryLock>>
dbVars == <<subs, cycles, retryKeys>>
vars == <<now, subs, cycles, retryKeys, runLock, cycleLock, retryLock, runs, retries, taken>>

Dates == 0..LastDay
DayStart(d) == 2 * d
DayEnd(d) == 2 * d + 1
Period == 2 * PeriodDays
Keys == RetryKeys \cup {CycleKey}

SubStatus == {"active", "past_due", "cancel_scheduled", "canceled"}
InvoiceStatus == {"none", "issued", "paid"}
RetryStatus == {"never", "later", "due"} \* of the last failed payment of a cycle
Outcomes == {"paid", "failed", "refused"}
Moments == Nat \cup {Never}
Subscription == [status : SubStatus, end : Nat, next : Moments]
Cycle == [invoice : InvoiceStatus, failed : Nat, retry : RetryStatus, paidWith : Keys \cup {NoKey}]

NoCycle == [invoice |-> "none", failed |-> 0, retry |-> "never", paidWith |-> NoKey]
RunIdle == [pc |-> "idle", date |-> 0, due |-> [s \in Subs |-> Never], sub |-> NoSub]
RetryIdle == [pc |-> "idle", sub |-> NoSub, date |-> 0, key |-> NoKey, failed |-> 0,
              seen |-> [status |-> "past_due", end |-> 0, next |-> Never]]

DbOK ==
    /\ subs \in [Subs -> Subscription]
    /\ cycles \in [Subs -> [Dates -> Cycle]]
    /\ retryKeys \in [RetryKeys -> {"none", "processing", "succeeded"}]
    /\ taken \in [Subs -> [Dates -> SUBSET Keys]]

LocksOK ==
    /\ runLock \in [Dates -> Runs \cup {Nobody, Gone}]
    /\ cycleLock \in [Subs -> [Dates -> Runs \cup {Nobody, Gone}]]
    /\ retryLock \in [Subs -> [Dates -> Retries \cup {Nobody, Gone}]]

RunsOK ==
    /\ runs \in [Runs -> [pc : {"idle", "next", "charge"} \cup Outcomes, date : Dates,
                          due : [Subs -> Moments], sub : Subs \cup {NoSub}]]
    /\ \A b \in Runs : runs[b].pc \in {"charge"} \cup Outcomes => runs[b].sub \in Subs

RetriesOK ==
    /\ retries \in [Retries -> [pc : {"idle", "lock", "charge", "paid", "failed"},
                                sub : Subs \cup {NoSub}, date : Dates,
                                key : RetryKeys \cup {NoKey}, failed : Nat,
                                seen : Subscription]]
    /\ \A r \in Retries : retries[r].pc # "idle" =>
          retries[r].sub \in Subs /\ retries[r].key \in RetryKeys

BillingTypeOK == now \in Nat /\ DbOK /\ LocksOK /\ RunsOK /\ RetriesOK

\* Every subscription was paid for once, at its checkout.
Init ==
    /\ now = 0
    /\ \E end \in [Subs -> FirstEnds] :
          subs = [s \in Subs |-> [status |-> "active", end |-> end[s], next |-> end[s]]]
    /\ cycles = [s \in Subs |-> [d \in Dates |-> NoCycle]]
    /\ retryKeys = [k \in RetryKeys |-> "none"]
    /\ runLock = [d \in Dates |-> Nobody]
    /\ cycleLock = [s \in Subs |-> [d \in Dates |-> Nobody]]
    /\ retryLock = [s \in Subs |-> [d \in Dates |-> Nobody]]
    /\ runs = [b \in Runs |-> RunIdle]
    /\ retries = [r \in Retries |-> RetryIdle]
    /\ taken = [s \in Subs |-> [d \in Dates |-> {}]]

-----------------------------------------------------------------------------
\* The gateway charges cycle d of s under key k.  A key it knows gets the
\* answer of its first call, whose order id is not that of the new payment: the
\* code takes that for a failure, like a decline.
Charge(s, d, k) ==
    /\ k \notin taken[s][d]
    /\ taken' = [taken EXCEPT ![s][d] = @ \cup {k}]

\* list_due_active_subscriptions
IsDue(s, d) ==
    /\ subs[s].status = "active"
    /\ subs[s].next # Never
    /\ subs[s].next <= DayEnd(d)

\* A run without a target changes nothing and is left out.
RunStart(b, d) ==
    /\ runs[b].pc = "idle"
    /\ DayStart(d) <= now
    /\ runLock[d] = Nobody
    /\ \E s \in Subs : IsDue(s, d)
    /\ runLock' = [runLock EXCEPT ![d] = b]
    /\ runs' = [runs EXCEPT ![b] =
          [pc |-> "next", date |-> d, sub |-> NoSub,
           due |-> [s \in Subs |-> IF IsDue(s, d) THEN subs[s].next ELSE Never]]]
    /\ UNCHANGED <<now, dbVars, cycleLock, retryLock, retries, taken>>

\* Mutant: the subscription is stored without a condition.
StillListedUnchecked(b, s) == runs[b].due[s] # Never /\ subs[s].status \in SubStatus

\* The subscription is what the run listed.
StillListed(b, s) ==
    /\ subs[s].status = "active"
    /\ subs[s].next = runs[b].due[s]

CanTake(b, s) ==
    /\ StillListed(b, s)
    /\ cycles[s][runs[b].date].invoice = "none"
    /\ cycleLock[s][runs[b].date] = Nobody

RunTake(b, s) ==
    /\ runs[b].pc = "next"
    /\ runs[b].due[s] # Never
    /\ CanTake(b, s)
    /\ cycleLock' = [cycleLock EXCEPT ![s][runs[b].date] = b]
    /\ runs' = [runs EXCEPT ![b].pc = "charge", ![b].sub = s]
    /\ UNCHANGED <<now, dbVars, runLock, retryLock, retries, taken>>

RunSkip(b, s) ==
    /\ runs[b].pc = "next"
    /\ runs[b].due[s] # Never
    /\ ~CanTake(b, s)
    /\ runs' = [runs EXCEPT ![b].due[s] = Never]
    /\ UNCHANGED <<now, dbVars, lockVars, retries, taken>>

\* Charged; the answer may be lost, which the code takes for a failure.
RunCharged(b) ==
    /\ runs[b].pc = "charge"
    /\ Charge(runs[b].sub, runs[b].date, CycleKey)
    /\ \E outcome \in {"paid", "failed"} : runs' = [runs EXCEPT ![b].pc = outcome]
    /\ UNCHANGED <<now, dbVars, lockVars, retries>>

\* Mutant: a declined charge is taken for a success.
RunNotChargedPaid(b) ==
    /\ runs[b].pc = "charge"
    /\ runs' = [runs EXCEPT ![b].pc = "paid"]
    /\ UNCHANGED <<now, dbVars, lockVars, retries, taken>>

\* Declined, not reached or answered for another order; or there is no
\* chargeable billing method, and then no retry is scheduled.
RunNotCharged(b) ==
    /\ runs[b].pc = "charge"
    /\ \E outcome \in {"failed", "refused"} : runs' = [runs EXCEPT ![b].pc = outcome]
    /\ UNCHANGED <<now, dbVars, lockVars, retries, taken>>

BilledSub(b, s) ==
    LET until == DayStart(runs[b].date) + Period IN
    IF runs[b].pc = "paid" THEN [status |-> "active", end |-> until, next |-> until]
                           ELSE [subs[s] EXCEPT !.status = "past_due"]

\* Mutant: a failed charge makes a failed invoice.
BilledCycleFailed(b) ==
    [NoCycle EXCEPT !.invoice = IF runs[b].pc = "paid" THEN "paid" ELSE "failed",
                    !.paidWith = IF runs[b].pc = "paid" THEN CycleKey ELSE NoKey]

BilledCycle(b) ==
    IF runs[b].pc = "paid"
    THEN [NoCycle EXCEPT !.invoice = "paid", !.paidWith = CycleKey]
    ELSE [NoCycle EXCEPT !.invoice = "issued", !.failed = 1,
                         !.retry = IF runs[b].pc = "failed" THEN "later" ELSE "never"]

\* The transaction of a run, and the lock of the cycle it frees.  Nothing is
\* stored, whatever the gateway did, when the subscription is not what the run
\* listed.
RunSave(b) ==
    LET s == runs[b].sub
        d == runs[b].date
    IN  /\ runs[b].pc \in Outcomes
        /\ IF StillListed(b, s)
           THEN /\ cycles[s][d].invoice = "none"
                /\ subs' = [subs EXCEPT ![s] = BilledSub(b, s)]
                /\ cycles' = [cycles EXCEPT ![s][d] = BilledCycle(b)]
           ELSE UNCHANGED <<subs, cycles>>
        /\ cycleLock' = [cycleLock EXCEPT ![s][d] = IF @ = b THEN Nobody ELSE @]
        /\ runs' = [runs EXCEPT ![b].pc = "next", ![b].due[s] = Never, ![b].sub = NoSub]
        /\ UNCHANGED <<now, retryKeys, runLock, retryLock, retries, taken>>

\* The unique index on invoices of a cycle aborts the transaction; the error
\* ends the run, whatever else it had listed.
RunAborted(b) ==
    LET s == runs[b].sub
        d == runs[b].date
    IN  /\ runs[b].pc \in Outcomes
        /\ StillListed(b, s)
        /\ cycles[s][d].invoice # "none"
        /\ cycleLock' = [cycleLock EXCEPT ![s][d] = IF @ = b THEN Nobody ELSE @]
        /\ runLock' = [runLock EXCEPT ![d] = IF @ = b THEN Nobody ELSE @]
        /\ runs' = [runs EXCEPT ![b] = RunIdle]
        /\ UNCHANGED <<now, dbVars, retryLock, retries, taken>>

RunEnd(b) ==
    /\ runs[b].pc = "next"
    /\ \A s \in Subs : runs[b].due[s] = Never
    /\ runLock' = [runLock EXCEPT ![runs[b].date] = IF @ = b THEN Nobody ELSE @]
    /\ runs' = [runs EXCEPT ![b] = RunIdle]
    /\ UNCHANGED <<now, dbVars, cycleLock, retryLock, retries, taken>>

\* The process dies; its locks stay until they lapse.
RunCrash(b) ==
    /\ runs[b].pc # "idle"
    /\ runLock' = [d \in Dates |-> IF runLock[d] = b THEN Gone ELSE runLock[d]]
    /\ cycleLock' = [s \in Subs |-> [d \in Dates |->
          IF cycleLock[s][d] = b THEN Gone ELSE cycleLock[s][d]]]
    /\ runs' = [runs EXCEPT ![b] = RunIdle]
    /\ UNCHANGED <<now, dbVars, retryLock, retries, taken>>

-----------------------------------------------------------------------------
\* Mutant: the status of the invoice is not looked at.
RetryableAnyInvoice(s, d, force) ==
    /\ subs[s].status = "past_due"
    /\ force \/ cycles[s][d].retry # "later"

\* An issued invoice of a past due subscription, whose retry is due or forced.
Retryable(s, d, force) ==
    /\ cycles[s][d].invoice = "issued"
    /\ subs[s].status = "past_due"
    /\ force \/ cycles[s][d].retry = "due"

\* All that a retry reads, it reads before it takes its lock.
RetryStart(r, s, d, k, force) ==
    /\ retries[r].pc = "idle"
    /\ retryKeys[k] = "none"
    /\ Retryable(s, d, force)
    /\ retries' = [retries EXCEPT ![r] =
          [pc |-> "lock", sub |-> s, date |-> d, key |-> k,
           failed |-> cycles[s][d].failed, seen |-> subs[s]]]
    /\ UNCHANGED <<now, dbVars, lockVars, runs, taken>>

RetryLock(r) ==
    LET s == retries[r].sub
        d == retries[r].date
    IN  /\ retries[r].pc = "lock"
        /\ retryLock[s][d] = Nobody
        /\ retryKeys[retries[r].key] = "none"
        /\ retryLock' = [retryLock EXCEPT ![s][d] = r]
        /\ retryKeys' = [retryKeys EXCEPT ![retries[r].key] = "processing"]
        /\ retries' = [retries EXCEPT ![r].pc = "charge"]
        /\ UNCHANGED <<now, subs, cycles, runLock, cycleLock, runs, taken>>

\* The lock is taken, or the index refuses a second document for the key.
RetryTurnedAway(r) ==
    /\ retries[r].pc = "lock"
    /\ \/ retryLock[retries[r].sub][retries[r].date] # Nobody
       \/ retryKeys[retries[r].key] # "none"
    /\ retries' = [retries EXCEPT ![r] = RetryIdle]
    /\ UNCHANGED <<now, dbVars, lockVars, runs, taken>>

RetryCharged(r) ==
    /\ retries[r].pc = "charge"
    /\ Charge(retries[r].sub, retries[r].date, retries[r].key)
    /\ \E outcome \in {"paid", "failed"} : retries' = [retries EXCEPT ![r].pc = outcome]
    /\ UNCHANGED <<now, dbVars, lockVars, runs>>

RetryNotCharged(r) ==
    /\ retries[r].pc = "charge"
    /\ retries' = [retries EXCEPT ![r].pc = "failed"]
    /\ UNCHANGED <<now, dbVars, lockVars, runs, taken>>

\* The request ends and frees its lock.
RetryDone(r) ==
    /\ retryLock' = [retryLock EXCEPT ![retries[r].sub][retries[r].date] =
                        IF @ = r THEN Nobody ELSE @]
    /\ retries' = [retries EXCEPT ![r] = RetryIdle]

\* Mutant: the subscription is not saved with the invoice it settles.
RestoredForgotten(r) == subs[retries[r].sub]

\* The subscription the retry read, active again and due a period later; the
\* end of its period stays.
Restored(r) ==
    LET seen == retries[r].seen IN
    [seen EXCEPT !.status = "active", !.next = (IF @ = Never THEN now ELSE @) + Period]

CycleOf(r) == cycles[retries[r].sub][retries[r].date]
SaveCycle(r, cycle) == cycles' = [cycles EXCEPT ![retries[r].sub][retries[r].date] = cycle]
SaveSub(r, sub) == subs' = [subs EXCEPT ![retries[r].sub] = sub]

\* The index on paid payments of a cycle aborts a second one, and with it the
\* transaction; the key stays in "processing".
RetryPaid(r) ==
    /\ retries[r].pc = "paid"
    /\ IF CycleOf(r).paidWith = NoKey
       THEN /\ SaveCycle(r, [CycleOf(r) EXCEPT !.invoice = "paid", !.retry = "never",
                                              !.paidWith = retries[r].key])
            /\ SaveSub(r, Restored(r))
            /\ retryKeys' = [retryKeys EXCEPT ![retries[r].key] = "succeeded"]
       ELSE UNCHANGED dbVars
    /\ RetryDone(r)
    /\ UNCHANGED <<now, runLock, cycleLock, runs, taken>>

Final(r) == retries[r].failed + 1 >= MaxFailed

\* The attempt is one more failure; the invoice is saved as it was read,
\* "issued".  The last attempt cancels the subscription that was read.
RetryFailed(r) ==
    /\ retries[r].pc = "failed"
    /\ SaveCycle(r, [CycleOf(r) EXCEPT !.invoice = "issued", !.failed = @ + 1,
                                       !.retry = IF Final(r) THEN "never" ELSE "later"])
    /\ IF Final(r)
       THEN SaveSub(r, [retries[r].seen EXCEPT !.status = "canceled", !.next = Never])
       ELSE UNCHANGED subs
    /\ retryKeys' = [retryKeys EXCEPT ![retries[r].key] = "succeeded"]
    /\ RetryDone(r)
    /\ UNCHANGED <<now, runLock, cycleLock, runs, taken>>

RetryCrash(r) ==
    /\ retries[r].pc # "idle"
    /\ retryLock' = [s \in Subs |-> [d \in Dates |->
          IF retryLock[s][d] = r THEN Gone ELSE retryLock[s][d]]]
    /\ retries' = [retries EXCEPT ![r] = RetryIdle]
    /\ UNCHANGED <<now, dbVars, runLock, cycleLock, runs, taken>>

-----------------------------------------------------------------------------
\* cancel_subscription_at_period_end: one conditional update.
ScheduleCancel(s) ==
    /\ subs[s].status = "active"
    /\ subs' = [subs EXCEPT ![s].status = "cancel_scheduled", ![s].next = Never]
    /\ UNCHANGED <<now, cycles, retryKeys, lockVars, runs, retries, taken>>

\* Mutant: the subscription is active again and has no due date.
ResumedNotDue(s) == [subs[s] EXCEPT !.status = "active"]

Resumed(s) == [subs[s] EXCEPT !.status = "active", !.next = subs[s].end]

Resume(s) ==
    /\ subs[s].status = "cancel_scheduled"
    /\ subs[s].end > now
    /\ subs' = [subs EXCEPT ![s] = Resumed(s)]
    /\ UNCHANGED <<now, cycles, retryKeys, lockVars, runs, retries, taken>>

\* The expiration job, for one of its targets.
Expire(s) ==
    /\ subs[s].status = "cancel_scheduled"
    /\ subs[s].end <= now
    /\ subs' = [subs EXCEPT ![s].status = "canceled", ![s].next = Never]
    /\ UNCHANGED <<now, cycles, retryKeys, lockVars, runs, retries, taken>>

-----------------------------------------------------------------------------
\* retry_scheduled_at passes, a day after the attempt failed.
RetryComesDue(s, d) ==
    /\ cycles[s][d].retry = "later"
    /\ cycles' = [cycles EXCEPT ![s][d].retry = "due"]
    /\ UNCHANGED <<now, subs, retryKeys, lockVars, runs, retries, taken>>

\* The calendar ends as its last day begins.
Tick ==
    /\ now < DayStart(LastDay)
    /\ now' = now + 1
    /\ UNCHANGED <<dbVars, lockVars, runs, retries, taken>>

RunLockLapse(d) ==
    /\ runLock[d] # Nobody
    /\ runLock' = [runLock EXCEPT ![d] = Nobody]
    /\ UNCHANGED <<now, dbVars, cycleLock, retryLock, runs, retries, taken>>

CycleLockLapse(s, d) ==
    /\ cycleLock[s][d] # Nobody
    /\ cycleLock' = [cycleLock EXCEPT ![s][d] = Nobody]
    /\ UNCHANGED <<now, dbVars, runLock, retryLock, runs, retries, taken>>

RetryLockLapse(s, d) ==
    /\ retryLock[s][d] # Nobody
    /\ retryLock' = [retryLock EXCEPT ![s][d] = Nobody]
    /\ UNCHANGED <<now, dbVars, runLock, cycleLock, runs, retries, taken>>

\* The TTL monitor deletes a key a day after it was stored.
RetryKeyTtl(k) ==
    /\ retryKeys[k] # "none"
    /\ \A r \in Retries : retries[r].key # k
    /\ retryKeys' = [retryKeys EXCEPT ![k] = "none"]
    /\ UNCHANGED <<now, subs, cycles, lockVars, runs, retries, taken>>

-----------------------------------------------------------------------------
RunStep(b) ==
    \/ \E s \in Subs : RunTake(b, s) \/ RunSkip(b, s)
    \/ RunCharged(b) \/ RunNotCharged(b)
    \/ RunSave(b) \/ RunAborted(b) \/ RunEnd(b)

RetryStep(r) ==
    \/ RetryLock(r) \/ RetryTurnedAway(r)
    \/ RetryCharged(r) \/ RetryNotCharged(r)
    \/ RetryPaid(r) \/ RetryFailed(r)

Next ==
    \/ \E b \in Runs, d \in Dates : RunStart(b, d)
    \/ \E b \in Runs : RunStep(b) \/ RunCrash(b)
    \/ \E r \in Retries, s \in Subs, d \in Dates, k \in RetryKeys, force \in BOOLEAN :
          RetryStart(r, s, d, k, force)
    \/ \E r \in Retries : RetryStep(r) \/ RetryCrash(r)
    \/ \E s \in Subs : ScheduleCancel(s) \/ Resume(s) \/ Expire(s)
    \/ \E d \in Dates : RunLockLapse(d)
    \/ \E s \in Subs, d \in Dates : CycleLockLapse(s, d) \/ RetryLockLapse(s, d)
                                   \/ RetryComesDue(s, d)
    \/ \E k \in RetryKeys : RetryKeyTtl(k)
    \/ Tick

Spec == Init /\ [][Next]_vars

-----------------------------------------------------------------------------
(* A subscription owes a cycle exactly while it is past due, and one cycle *)
(* only: no interleaving of runs, cancellations and a retry leaves an open *)
(* invoice behind an active subscription (it would never be retried) or a  *)
(* past due subscription without the invoice a retry needs.  Holds while   *)
(* retries come one at a time.                                             *)
OwesIffPastDue ==
    \A s \in Subs :
        LET owed == {d \in Dates : cycles[s][d].invoice = "issued"} IN
        /\ subs[s].status \in {"active", "cancel_scheduled"} => owed = {}
        /\ subs[s].status = "past_due" => \E d \in Dates : owed = {d}

(* A cycle is recorded as paid only if the gateway was charged under the   *)
(* recorded key, whichever of crashes, repeated keys, lost answers and     *)
(* lapsed locks came in between.                                           *)
PaymentsWereCharged ==
    \A s \in Subs, d \in Dates :
        cycles[s][d].paidWith # NoKey => cycles[s][d].paidWith \in taken[s][d]

(* And its invoice says the same, while retries come one at a time.        *)
PaidCyclesWereCharged ==
    /\ PaymentsWereCharged
    /\ \A s \in Subs, d \in Dates :
          cycles[s][d].invoice = "paid" <=> cycles[s][d].paidWith # NoKey

(* A cycle that a run recorded as paid was charged once, and no retry and  *)
(* no later run charges it again.                                          *)
RunsChargeOnce ==
    \A s \in Subs, d \in Dates :
        cycles[s][d].paidWith = CycleKey => taken[s][d] = {CycleKey}

(* The due date of a subscription is there exactly while somebody will be  *)
(* charged: a cancellation takes it away, and what revives the             *)
(* subscription brings it back.                                            *)
DueWhileRenewing ==
    \A s \in Subs :
        subs[s].next # Never <=> subs[s].status \in {"active", "past_due"}

(* The life of a subscription, as SubscriptionLifecycle promises it: a run *)
(* that charged while the customer canceled does not undo the cancellation,*)
(* a cycle is invoiced once, a paid invoice stays paid.  Holds while       *)
(* retries come one at a time.                                             *)
Life == INSTANCE SubscriptionLifecycle WITH
            invoices <- [s \in Subs |-> [d \in Dates |-> cycles[s][d].invoice]]
LifeSpec == Life!LifeSpec
==============================================================================
