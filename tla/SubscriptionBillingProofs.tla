---------------------- MODULE SubscriptionBillingProofs ----------------------
(***************************************************************************)
(* Theorems of SubscriptionBilling, for every number of subscriptions,     *)
(* dates, runs, retries and keys.                                          *)
(***************************************************************************)
EXTENDS SubscriptionBilling, TLAPS

-----------------------------------------------------------------------------
(* Types.                                                                  *)

\* Dates and periods are numbers.
LEMMA Calendar ==
    /\ 0 \in Dates /\ Dates \subseteq Nat
    /\ Period \in Nat /\ Period >= 2
    /\ \A d \in Dates : DayStart(d) \in Nat /\ DayEnd(d) = DayStart(d) + 1
BY CalendarAssumption DEF Dates, Period, DayStart, DayEnd

\* An entry of a table of tables is replaced.
LEMMA Put ==
    ASSUME NEW S, NEW D, NEW T, NEW f \in [S -> [D -> T]],
           NEW s \in S, NEW d \in D, NEW v \in T
    PROVE  /\ [f EXCEPT ![s][d] = v] \in [S -> [D -> T]]
           /\ \A x \in S, y \in D :
                 [f EXCEPT ![s][d] = v][x][y] = IF x = s /\ y = d THEN v ELSE f[x][y]
OBVIOUS

\* The initial state is well typed.
LEMMA InitType == Init => BillingTypeOK
<1> SUFFICES ASSUME Init PROVE BillingTypeOK
  OBVIOUS
<1> USE Calendar DEF Init
<1>1. DbOK
  <2>1. PICK end \in [Subs -> FirstEnds] :
           subs = [s \in Subs |-> [status |-> "active", end |-> end[s], next |-> end[s]]]
    OBVIOUS
  <2>2. \A s \in Subs : end[s] \in Nat
    BY FirstEndsAssumption
  <2>3. subs \in [Subs -> Subscription]
    BY <2>1, <2>2 DEF Subscription, SubStatus, Moments
  <2>4. NoCycle \in Cycle
    BY DEF Cycle, NoCycle, InvoiceStatus, RetryStatus
  <2> QED
    BY <2>3, <2>4 DEF DbOK
<1>2. LocksOK
  BY DEF LocksOK
<1>3. RunsOK
  BY DEF RunsOK, RunIdle, Moments, Outcomes
<1>4. RetriesOK
  BY DEF RetriesOK, RetryIdle, Subscription, SubStatus, Moments
<1> QED
  BY <1>1, <1>2, <1>3, <1>4 DEF BillingTypeOK

\* What a billing run does to its own record keeps its type.
LEMMA RunType ==
    ASSUME subs \in [Subs -> Subscription], RunsOK, NEW b \in Runs,
           RunStep(b) \/ RunCrash(b) \/ \E d \in Dates : RunStart(b, d)
    PROVE  RunsOK'
<1> USE DEF RunsOK
<1>1. ASSUME NEW d \in Dates, RunStart(b, d) PROVE RunsOK'
  <2>1. [s \in Subs |-> IF IsDue(s, d) THEN subs[s].next ELSE Never] \in [Subs -> Moments]
    BY DEF Subscription, Moments
  <2> QED
    BY <1>1, <2>1 DEF RunStart, Outcomes
<1>2. ASSUME NEW s \in Subs, RunTake(b, s) PROVE RunsOK'
  BY <1>2 DEF RunTake, Outcomes
<1>3. ASSUME NEW s \in Subs, RunSkip(b, s) PROVE RunsOK'
  BY <1>3 DEF RunSkip, Outcomes, Moments
<1>4. ASSUME RunCharged(b) \/ RunNotCharged(b) PROVE RunsOK'
  BY <1>4 DEF RunCharged, RunNotCharged, Outcomes
<1>5. ASSUME RunSave(b) PROVE RunsOK'
  <2> DEFINE idle == [runs EXCEPT ![b].pc = "next", ![b].sub = NoSub]
  <2>1. runs' = [idle EXCEPT ![b].due[runs[b].sub] = Never]
    BY <1>5 DEF RunSave
  <2>2. /\ idle \in [Runs -> [pc : {"idle", "next", "charge"} \cup Outcomes, date : Dates,
                             due : [Subs -> Moments], sub : Subs \cup {NoSub}]]
        /\ \A q \in Runs : idle[q].pc \in {"charge"} \cup Outcomes => idle[q].sub \in Subs
    BY DEF Outcomes
  <2> HIDE DEF idle
  <2> QED
    BY <2>1, <2>2 DEF Moments
<1>6. ASSUME RunAborted(b) \/ RunEnd(b) \/ RunCrash(b) PROVE RunsOK'
  <2>1. runs' = [runs EXCEPT ![b] = RunIdle]
    BY <1>6 DEF RunAborted, RunEnd, RunCrash
  <2>2. /\ RunIdle \in [pc : {"idle", "next", "charge"} \cup Outcomes, date : Dates,
                        due : [Subs -> Moments], sub : Subs \cup {NoSub}]
        /\ RunIdle.pc \notin {"charge"} \cup Outcomes
    BY Calendar DEF RunIdle, Outcomes, Moments
  <2> HIDE DEF RunIdle
  <2> QED
    BY <2>1, <2>2
<1> QED
  BY <1>1, <1>2, <1>3, <1>4, <1>5, <1>6 DEF RunStep

\* Every step keeps the types of the runs.
LEMMA RunsType ==
    ASSUME BillingTypeOK, Next
    PROVE  RunsOK'
<1>1. subs \in [Subs -> Subscription] /\ RunsOK
  BY DEF BillingTypeOK, DbOK
<1>2. CASE UNCHANGED runs
  BY <1>1, <1>2 DEF RunsOK
<1> QED
  BY <1>1, <1>2, RunType
  DEF Next, RetryStep, RetryStart, RetryLock, RetryTurnedAway, RetryCharged,
      RetryNotCharged, RetryPaid, RetryFailed, RetryCrash, ScheduleCancel, Resume,
      Expire, RunLockLapse, CycleLockLapse, RetryLockLapse, RetryComesDue, RetryKeyTtl,
      Tick

\* So does what a retry does to its record.
LEMMA RetriesType ==
    ASSUME BillingTypeOK, Next
    PROVE  RetriesOK'
<1> USE DEF BillingTypeOK, RetriesOK
<1>1. ASSUME NEW r \in Retries, NEW s \in Subs, NEW d \in Dates, NEW k \in RetryKeys,
             NEW force \in BOOLEAN, RetryStart(r, s, d, k, force)
      PROVE  RetriesOK'
  BY <1>1 DEF RetryStart, DbOK, Cycle
<1>2. ASSUME NEW r \in Retries, RetryLock(r) PROVE RetriesOK'
  BY <1>2 DEF RetryLock
<1>3. ASSUME NEW r \in Retries, RetryCharged(r) \/ RetryNotCharged(r) PROVE RetriesOK'
  BY <1>3 DEF RetryCharged, RetryNotCharged
<1>4. ASSUME NEW r \in Retries,
             RetryTurnedAway(r) \/ RetryPaid(r) \/ RetryFailed(r) \/ RetryCrash(r)
      PROVE  RetriesOK'
  <2>1. retries' = [retries EXCEPT ![r] = RetryIdle]
    BY <1>4 DEF RetryTurnedAway, RetryPaid, RetryFailed, RetryDone, RetryCrash
  <2> QED
    BY <2>1, Calendar DEF RetryIdle, Subscription, SubStatus, Moments
<1>5. CASE UNCHANGED retries
  BY <1>5
<1>6. ASSUME NEW b \in Runs, RunStep(b) \/ RunCrash(b) \/ \E d \in Dates : RunStart(b, d)
      PROVE  RetriesOK'
  <2>1. UNCHANGED retries
    BY <1>6 DEF RunStep, RunStart, RunTake, RunSkip, RunCharged, RunNotCharged, RunSave,
                RunAborted, RunEnd, RunCrash
  <2> QED
    BY <2>1, <1>5
<1>7. ASSUME NEW r \in Retries, RetryStep(r) \/ RetryCrash(r) PROVE RetriesOK'
  BY <1>2, <1>3, <1>4, <1>7 DEF RetryStep
<1> HIDE DEF BillingTypeOK, RetriesOK
<1> QED
  BY <1>1, <1>5, <1>6, <1>7
  DEF Next, ScheduleCancel, Resume, Expire, RunLockLapse, CycleLockLapse,
      RetryLockLapse, RetryComesDue, RetryKeyTtl, Tick

\* Locks are owned by processes, or by nobody.
LEMMA LocksType ==
    ASSUME BillingTypeOK, Next
    PROVE  LocksOK'
<1> USE DEF BillingTypeOK, LocksOK
<1>1. ASSUME NEW b \in Runs, NEW d \in Dates, RunStart(b, d) PROVE LocksOK'
  BY <1>1 DEF RunStart
<1>2. ASSUME NEW b \in Runs, NEW s \in Subs, RunTake(b, s) PROVE LocksOK'
  BY <1>2 DEF RunTake
<1>3. ASSUME NEW b \in Runs, RunSave(b) \/ RunAborted(b) PROVE LocksOK'
  <2> DEFINE s == runs[b].sub
             d == runs[b].date
  <2>1. s \in Subs /\ d \in Dates
    BY <1>3 DEF RunSave, RunAborted, RunsOK
  <2>2. /\ cycleLock' = [cycleLock EXCEPT ![s][d] = IF @ = b THEN Nobody ELSE @]
        /\ \/ runLock' = runLock
           \/ runLock' = [runLock EXCEPT ![d] = IF @ = b THEN Nobody ELSE @]
        /\ retryLock' = retryLock
    BY <1>3 DEF RunSave, RunAborted
  <2>3. cycleLock' \in [Subs -> [Dates -> Runs \cup {Nobody, Gone}]]
    BY <2>1, <2>2, Put
  <2> HIDE DEF s, d
  <2> QED
    BY <2>1, <2>2, <2>3
<1>4. ASSUME NEW b \in Runs, RunEnd(b) \/ RunCrash(b) PROVE LocksOK'
  BY <1>4 DEF RunEnd, RunCrash, RunsOK
<1>5. ASSUME NEW r \in Retries, RetryLock(r) PROVE LocksOK'
  BY <1>5 DEF RetryLock, RetriesOK
<1>6. ASSUME NEW r \in Retries, RetryPaid(r) \/ RetryFailed(r) PROVE LocksOK'
  <2> DEFINE s == retries[r].sub
             d == retries[r].date
  <2>1. s \in Subs /\ d \in Dates
    BY <1>6 DEF RetryPaid, RetryFailed, RetriesOK
  <2>2. /\ retryLock' = [retryLock EXCEPT ![s][d] = IF @ = r THEN Nobody ELSE @]
        /\ UNCHANGED <<runLock, cycleLock>>
    BY <1>6 DEF RetryPaid, RetryFailed, RetryDone
  <2>3. retryLock' \in [Subs -> [Dates -> Retries \cup {Nobody, Gone}]]
    BY <2>1, <2>2, Put
  <2> QED
    BY <2>2, <2>3
<1>7. ASSUME NEW r \in Retries, RetryCrash(r) PROVE LocksOK'
  BY <1>7 DEF RetryCrash
<1>8. ASSUME NEW d \in Dates, RunLockLapse(d) PROVE LocksOK'
  BY <1>8 DEF RunLockLapse
<1>9. ASSUME NEW s \in Subs, NEW d \in Dates, CycleLockLapse(s, d) \/ RetryLockLapse(s, d)
      PROVE  LocksOK'
  <2>1. CASE CycleLockLapse(s, d)
    BY <2>1, Put DEF CycleLockLapse
  <2>2. CASE RetryLockLapse(s, d)
    BY <2>2, Put DEF RetryLockLapse
  <2> QED
    BY <1>9, <2>1, <2>2
<1>10. CASE UNCHANGED lockVars
  BY <1>10 DEF lockVars
<1> QED
  BY <1>1, <1>2, <1>3, <1>4, <1>5, <1>6, <1>7, <1>8, <1>9, <1>10
  DEF Next, RunStep, RetryStep, RunSkip, RunCharged, RunNotCharged, RetryStart,
      RetryTurnedAway, RetryCharged, RetryNotCharged, ScheduleCancel, Resume, Expire,
      RetryComesDue, RetryKeyTtl, Tick, lockVars

\* A cycle stays a cycle when an attempt settles it, fails or becomes due.
LEMMA CycleType ==
    ASSUME NEW c \in Cycle, NEW schedule \in RetryStatus
    PROVE  /\ \A k \in RetryKeys :
                 [c EXCEPT !.invoice = "paid", !.retry = "never", !.paidWith = k] \in Cycle
           /\ [c EXCEPT !.invoice = "issued", !.failed = c.failed + 1,
                        !.retry = schedule] \in Cycle
           /\ [c EXCEPT !.retry = schedule] \in Cycle
<1>1. c.failed + 1 \in Nat
  BY DEF Cycle
<1> QED
  BY <1>1 DEF Cycle, InvoiceStatus, RetryStatus, Keys

\* What a run stores of a subscription is well typed.
LEMMA BilledType ==
    ASSUME subs \in [Subs -> Subscription], RunsOK, NEW b \in Runs, NEW s \in Subs
    PROVE  BilledSub(b, s) \in Subscription
<1> USE Calendar
<1>1. runs[b].date \in Dates
  BY DEF RunsOK
<1>2. DayStart(runs[b].date) \in Nat
  BY <1>1
<1>3. DayStart(runs[b].date) + Period \in Nat
  BY <1>2
<1> QED
  BY <1>3 DEF BilledSub, Subscription, SubStatus, Moments

\* What runs and retries store is well typed.
LEMMA StoredType ==
    ASSUME BillingTypeOK
    PROVE  /\ \A b \in Runs : BilledCycle(b) \in Cycle
           /\ \A b \in Runs, s \in Subs : BilledSub(b, s) \in Subscription
           /\ \A r \in Retries : Restored(r) \in Subscription
<1> USE Calendar DEF BillingTypeOK, DbOK
<1>1. \A b \in Runs : BilledCycle(b) \in Cycle
  BY DEF BilledCycle, Cycle, NoCycle, InvoiceStatus, RetryStatus, Keys
<1>2. \A b \in Runs, s \in Subs : BilledSub(b, s) \in Subscription
  BY BilledType
<1>3. ASSUME NEW r \in Retries PROVE Restored(r) \in Subscription
  <2>1. retries[r].seen \in Subscription
    BY DEF RetriesOK
  <2> DEFINE due == IF retries[r].seen.next = Never THEN now ELSE retries[r].seen.next
  <2>2. due \in Nat
    BY <2>1 DEF Subscription, Moments
  <2>3. due + Period \in Moments
    BY <2>2 DEF Moments
  <2>4. Restored(r) = [retries[r].seen EXCEPT !.status = "active", !.next = due + Period]
    BY DEF Restored
  <2> HIDE DEF due
  <2> QED
    BY <2>1, <2>3, <2>4 DEF Subscription, SubStatus
<1> QED
  BY <1>1, <1>2, <1>3

\* Documents keep their types.
LEMMA DbType ==
    ASSUME BillingTypeOK, Next
    PROVE  DbOK'
<1> USE DEF BillingTypeOK, DbOK
<1>1. ASSUME NEW s \in Subs, NEW d \in Dates, NEW k \in Keys, Charge(s, d, k),
             UNCHANGED dbVars
      PROVE  DbOK'
  BY <1>1, Put DEF Charge, dbVars
<1>2. ASSUME NEW b \in Runs, RunCharged(b) PROVE DbOK'
  <2>1. runs[b].sub \in Subs /\ runs[b].date \in Dates
    BY <1>2 DEF RunCharged, RunsOK
  <2> QED
    BY <1>1, <1>2, <2>1 DEF RunCharged, Keys
<1>3. ASSUME NEW r \in Retries, RetryCharged(r) PROVE DbOK'
  <2>1. retries[r].sub \in Subs /\ retries[r].date \in Dates /\ retries[r].key \in RetryKeys
    BY <1>3 DEF RetryCharged, RetriesOK
  <2> QED
    BY <1>1, <1>3, <2>1 DEF RetryCharged, Keys
<1>4. ASSUME NEW b \in Runs, RunSave(b) PROVE DbOK'
  <2> DEFINE s == runs[b].sub
             d == runs[b].date
  <2>1. s \in Subs /\ d \in Dates
    BY <1>4 DEF RunSave, RunsOK
  <2>2. \/ /\ subs' = [subs EXCEPT ![s] = BilledSub(b, s)]
           /\ cycles' = [cycles EXCEPT ![s][d] = BilledCycle(b)]
        \/ UNCHANGED <<subs, cycles>>
    BY <1>4 DEF RunSave
  <2>3. UNCHANGED <<retryKeys, taken>>
    BY <1>4 DEF RunSave
  <2>4. BilledCycle(b) \in Cycle /\ BilledSub(b, s) \in Subscription
    BY <2>1, StoredType
  <2>5. cycles' \in [Subs -> [Dates -> Cycle]]
    <3>1. CASE cycles' = [cycles EXCEPT ![s][d] = BilledCycle(b)]
      <4> HIDE DEF s, d
      <4> QED
        BY <2>1, <2>4, <3>1, Put
    <3> QED
      BY <2>2, <3>1
  <2> HIDE DEF s, d
  <2> QED
    BY <2>1, <2>2, <2>3, <2>4, <2>5
<1>5. ASSUME NEW r \in Retries, RetryPaid(r) \/ RetryFailed(r) PROVE DbOK'
  <2> DEFINE s == retries[r].sub
             d == retries[r].date
             k == retries[r].key
  <2>1. s \in Subs /\ d \in Dates /\ k \in RetryKeys /\ retries[r].seen \in Subscription
    BY <1>5 DEF RetryPaid, RetryFailed, RetriesOK
  <2>2. cycles[s][d] \in Cycle
    BY <2>1
  <2>3. \/ cycles' = cycles
        \/ \E cycle \in Cycle : cycles' = [cycles EXCEPT ![s][d] = cycle]
    <3>1. CASE RetryPaid(r)
      <4>1. [cycles[s][d] EXCEPT !.invoice = "paid", !.retry = "never", !.paidWith = k]
               \in Cycle
        BY <2>1, <2>2, CycleType DEF RetryStatus
      <4> QED
        BY <3>1, <4>1 DEF RetryPaid, SaveCycle, CycleOf, dbVars
    <3>2. CASE RetryFailed(r)
      <4>1. [cycles[s][d] EXCEPT !.invoice = "issued", !.failed = @ + 1,
                 !.retry = IF Final(r) THEN "never" ELSE "later"] \in Cycle
        <5>1. (IF Final(r) THEN "never" ELSE "later") \in RetryStatus
          BY DEF RetryStatus
        <5> QED
          BY <2>1, <2>2, <5>1, CycleType
      <4> QED
        BY <3>2, <4>1 DEF RetryFailed, SaveCycle, CycleOf
    <3> QED
      BY <1>5, <3>1, <3>2
  <2>4. cycles' \in [Subs -> [Dates -> Cycle]]
    <3>1. ASSUME NEW cycle \in Cycle, cycles' = [cycles EXCEPT ![s][d] = cycle]
          PROVE  cycles' \in [Subs -> [Dates -> Cycle]]
      <4> HIDE DEF s, d, k
      <4> QED
        BY <2>1, <3>1, Put
    <3> QED
      BY <2>3, <3>1
  <2>5. \/ subs' = subs
        \/ \E sub \in Subscription : subs' = [subs EXCEPT ![s] = sub]
    <3>1. [retries[r].seen EXCEPT !.status = "canceled", !.next = Never] \in Subscription
      BY <2>1 DEF Subscription, SubStatus, Moments
    <3> QED
      BY <1>5, <3>1, StoredType DEF RetryPaid, RetryFailed, SaveSub, dbVars
  <2>6. /\ taken' = taken
        /\ \/ retryKeys' = retryKeys
           \/ retryKeys' = [retryKeys EXCEPT ![k] = "succeeded"]
    BY <1>5 DEF RetryPaid, RetryFailed, dbVars
  <2> HIDE DEF s, d, k
  <2> QED
    BY <2>1, <2>4, <2>5, <2>6
<1>6. ASSUME NEW r \in Retries, RetryLock(r) PROVE DbOK'
  BY <1>6 DEF RetryLock
<1>7. ASSUME NEW s \in Subs, ScheduleCancel(s) \/ Resume(s) \/ Expire(s) PROVE DbOK'
  <2>1. \E sub \in Subscription : subs' = [subs EXCEPT ![s] = sub]
    <3>1. subs[s] \in Subscription
      OBVIOUS
    <3>2. CASE ScheduleCancel(s)
      BY <3>1, <3>2 DEF ScheduleCancel, Subscription, SubStatus, Moments
    <3>3. CASE Resume(s)
      BY <3>1, <3>3 DEF Resume, Resumed, Subscription, SubStatus, Moments
    <3>4. CASE Expire(s)
      BY <3>1, <3>4 DEF Expire, Subscription, SubStatus, Moments
    <3> QED
      BY <1>7, <3>2, <3>3, <3>4
  <2>2. UNCHANGED <<cycles, retryKeys, taken>>
    BY <1>7 DEF ScheduleCancel, Resume, Expire
  <2> QED
    BY <2>1, <2>2
<1>8. ASSUME NEW s \in Subs, NEW d \in Dates, RetryComesDue(s, d) PROVE DbOK'
  <2>1. cycles' = [cycles EXCEPT ![s][d] = [cycles[s][d] EXCEPT !.retry = "due"]]
    BY <1>8 DEF RetryComesDue
  <2>2. [cycles[s][d] EXCEPT !.retry = "due"] \in Cycle
    <3>1. cycles[s][d] \in Cycle /\ "due" \in RetryStatus
      BY DEF RetryStatus
    <3> QED
      BY <3>1, CycleType
  <2>3. cycles' \in [Subs -> [Dates -> Cycle]]
    BY <2>1, <2>2, Put
  <2> QED
    BY <1>8, <2>3 DEF RetryComesDue
<1>9. ASSUME NEW k \in RetryKeys, RetryKeyTtl(k) PROVE DbOK'
  BY <1>9 DEF RetryKeyTtl
<1>10. CASE UNCHANGED <<dbVars, taken>>
  BY <1>10 DEF dbVars
<1> HIDE DEF BillingTypeOK, DbOK
<1> QED
  BY <1>2, <1>3, <1>4, <1>5, <1>6, <1>7, <1>8, <1>9, <1>10
  DEF Next, RunStep, RetryStep, RunStart, RunTake, RunSkip, RunNotCharged, RunAborted,
      RunEnd, RunCrash, RetryStart, RetryTurnedAway, RetryNotCharged, RetryCrash,
      RunLockLapse, CycleLockLapse, RetryLockLapse, Tick

\* The clock is a number.
LEMMA ClockType ==
    ASSUME BillingTypeOK, Next
    PROVE  now' \in Nat
<1>1. CASE UNCHANGED now
  BY <1>1 DEF BillingTypeOK
<1>2. CASE Tick
  BY <1>2 DEF BillingTypeOK, Tick
<1> QED
  BY <1>1, <1>2
  DEF Next, RunStep, RetryStep, RunStart, RunTake, RunSkip, RunCharged, RunNotCharged,
      RunSave, RunAborted, RunEnd, RunCrash, RetryStart, RetryLock, RetryTurnedAway,
      RetryCharged, RetryNotCharged, RetryPaid, RetryFailed, RetryCrash, ScheduleCancel,
      Resume, Expire, RetryComesDue, RunLockLapse, CycleLockLapse, RetryLockLapse,
      RetryKeyTtl

\* Every step keeps the types.
LEMMA NextType == BillingTypeOK /\ [Next]_vars => BillingTypeOK'
<1> SUFFICES ASSUME BillingTypeOK, [Next]_vars PROVE BillingTypeOK'
  OBVIOUS
<1>1. CASE Next
  BY <1>1, ClockType, DbType, LocksType, RunsType, RetriesType DEF BillingTypeOK
<1>2. CASE UNCHANGED vars
  BY <1>2 DEF vars, BillingTypeOK, DbOK, LocksOK, RunsOK, RetriesOK
<1> QED
  BY <1>1, <1>2

\* Every variable keeps its type: a running step has a subscription and a key.
THEOREM BillingTypeCorrect == Spec => []BillingTypeOK
BY InitType, NextType, PTL DEF Spec

-----------------------------------------------------------------------------
(* Of all steps, a few touch subscriptions and charges.                    *)

\* Nothing happens to subscriptions, charges and invoices, no process learns
\* that it charged, and no retry begins.
Quiet ==
    /\ UNCHANGED <<subs, taken>>
    /\ \A s \in Subs, d \in Dates :
          /\ cycles'[s][d].invoice = cycles[s][d].invoice
          /\ cycles'[s][d].paidWith = cycles[s][d].paidWith
    /\ \A b \in Runs : runs'[b].pc = "paid" => runs'[b] = runs[b]
    /\ \A r \in Retries : retries'[r].pc # "idle" =>
          /\ retries[r].pc # "idle"
          /\ retries'[r].pc = "paid" => retries[r].pc = "paid"
          /\ retries'[r].sub = retries[r].sub
          /\ retries'[r].date = retries[r].date
          /\ retries'[r].key = retries[r].key
          /\ retries'[r].seen = retries[r].seen

\* Run b stores what became of the subscription it had listed.
Stores(b) ==
    LET s == runs[b].sub
        d == runs[b].date
    IN  /\ runs[b].pc \in Outcomes
        /\ StillListed(b, s)
        /\ cycles[s][d].invoice = "none"
        /\ subs' = [subs EXCEPT ![s] = BilledSub(b, s)]
        /\ cycles' = [cycles EXCEPT ![s][d] = BilledCycle(b)]
        /\ UNCHANGED <<taken, retries>>
        /\ \A q \in Runs : runs'[q].pc = "paid" => runs'[q] = runs[q]

\* What a step of a run can do.
LEMMA RunEffects ==
    ASSUME BillingTypeOK, NEW b \in Runs,
           RunStep(b) \/ RunCrash(b) \/ \E d \in Dates : RunStart(b, d)
    PROVE  Quiet \/ RunCharged(b) \/ Stores(b)
<1> USE DEF BillingTypeOK, RunsOK
<1>1. ASSUME NEW d \in Dates, RunStart(b, d) PROVE Quiet
  BY <1>1 DEF RunStart, Quiet, dbVars
<1>2. ASSUME NEW s \in Subs, RunTake(b, s) \/ RunSkip(b, s) PROVE Quiet
  BY <1>2 DEF RunTake, RunSkip, Quiet, dbVars
<1>3. CASE RunNotCharged(b)
  BY <1>3 DEF RunNotCharged, Quiet, dbVars
<1>4. CASE RunSave(b)
  <2>1. UNCHANGED <<taken, retries>> /\ runs[b].pc \in Outcomes
    BY <1>4 DEF RunSave
  <2>2. \A q \in Runs : runs'[q].pc = "paid" => runs'[q] = runs[q]
    <3>1. \A q \in Runs : q # b => runs'[q] = runs[q]
      BY <1>4 DEF RunSave
    <3>2. runs'[b].pc = "next"
      <4> DEFINE done == [runs EXCEPT ![b].pc = "next", ![b].sub = NoSub]
      <4>1. runs' = [done EXCEPT ![b].due[runs[b].sub] = Never]
        BY <1>4 DEF RunSave
      <4>2. done \in [Runs -> [pc : {"idle", "next", "charge"} \cup Outcomes, date : Dates,
                               due : [Subs -> Moments], sub : Subs \cup {NoSub}]]
            /\ done[b].pc = "next"
        BY DEF Outcomes
      <4> HIDE DEF done
      <4> QED
        BY <4>1, <4>2
    <3> QED
      BY <3>1, <3>2
  <2>3. CASE StillListed(b, runs[b].sub)
    BY <1>4, <2>1, <2>2, <2>3 DEF RunSave, Stores
  <2>4. CASE ~StillListed(b, runs[b].sub)
    BY <1>4, <2>1, <2>2, <2>4 DEF RunSave, Quiet
  <2> QED
    BY <2>3, <2>4
<1>5. CASE RunAborted(b)
  BY <1>5 DEF RunAborted, RunIdle, Quiet, dbVars
<1>6. CASE RunEnd(b) \/ RunCrash(b)
  BY <1>6 DEF RunEnd, RunCrash, RunIdle, Quiet, dbVars
<1> QED
  BY <1>1, <1>2, <1>3, <1>4, <1>5, <1>6 DEF RunStep

\* What a step of a retry can do.
LEMMA RetryEffects ==
    ASSUME BillingTypeOK, NEW r \in Retries, RetryStep(r) \/ RetryCrash(r)
    PROVE  \/ Quiet
           \/ RetryCharged(r)
           \/ RetryPaid(r) /\ CycleOf(r).paidWith = NoKey
           \/ RetryFailed(r)
<1> USE DEF BillingTypeOK, RetriesOK
<1>1. CASE RetryLock(r) \/ RetryTurnedAway(r)
  BY <1>1 DEF RetryLock, RetryTurnedAway, RetryIdle, Quiet, dbVars
<1>2. CASE RetryNotCharged(r)
  BY <1>2 DEF RetryNotCharged, Quiet, dbVars
<1>3. CASE RetryPaid(r) /\ CycleOf(r).paidWith # NoKey
  BY <1>3 DEF RetryPaid, RetryDone, RetryIdle, Quiet, dbVars
<1>4. CASE RetryCrash(r)
  BY <1>4 DEF RetryCrash, RetryIdle, Quiet, dbVars
<1> QED
  BY <1>1, <1>2, <1>3, <1>4 DEF RetryStep

\* What any step can do.
LEMMA Effects ==
    ASSUME BillingTypeOK, [Next]_vars
    PROVE  \/ Quiet
           \/ \E b \in Runs : RunCharged(b) \/ Stores(b)
           \/ \E r \in Retries, s \in Subs, d \in Dates, k \in RetryKeys, force \in BOOLEAN :
                 RetryStart(r, s, d, k, force)
           \/ \E r \in Retries :
                 \/ RetryCharged(r)
                 \/ RetryPaid(r) /\ CycleOf(r).paidWith = NoKey
                 \/ RetryFailed(r)
           \/ \E s \in Subs : ScheduleCancel(s) \/ Resume(s) \/ Expire(s)
<1>1. ASSUME NEW s \in Subs, NEW d \in Dates, RetryComesDue(s, d) PROVE Quiet
  <2>1. cycles' = [cycles EXCEPT ![s][d] = [cycles[s][d] EXCEPT !.retry = "due"]]
    BY <1>1 DEF RetryComesDue
  <2>2. /\ cycles \in [Subs -> [Dates -> Cycle]]
        /\ [cycles[s][d] EXCEPT !.retry = "due"] \in Cycle
        /\ [cycles[s][d] EXCEPT !.retry = "due"].invoice = cycles[s][d].invoice
        /\ [cycles[s][d] EXCEPT !.retry = "due"].paidWith = cycles[s][d].paidWith
    <3>1. cycles \in [Subs -> [Dates -> Cycle]] /\ cycles[s][d] \in Cycle
      BY DEF BillingTypeOK, DbOK
    <3> DEFINE c == cycles[s][d]
    <3>2. [c EXCEPT !.retry = "due"] \in Cycle
      BY <3>1, CycleType DEF RetryStatus
    <3>3. /\ [c EXCEPT !.retry = "due"].invoice = c.invoice
          /\ [c EXCEPT !.retry = "due"].paidWith = c.paidWith
      <4>1. c \in Cycle
        BY <3>1
      <4> HIDE DEF c
      <4> QED
        BY <4>1 DEF Cycle
    <3> QED
      BY <3>1, <3>2, <3>3
  <2>3. \A x \in Subs, y \in Dates :
           cycles'[x][y] = IF x = s /\ y = d THEN [cycles[s][d] EXCEPT !.retry = "due"]
                                             ELSE cycles[x][y]
    BY <2>1, <2>2, Put
  <2> QED
    BY <1>1, <2>2, <2>3 DEF RetryComesDue, Quiet
<1>2. ASSUME UNCHANGED <<subs, cycles, taken, runs, retries>> PROVE Quiet
  BY <1>2 DEF Quiet
<1>3. CASE UNCHANGED vars
  BY <1>2, <1>3 DEF vars
<1>4. ASSUME NEW s \in Subs, NEW d \in Dates,
             CycleLockLapse(s, d) \/ RetryLockLapse(s, d)
      PROVE  Quiet
  BY <1>2, <1>4 DEF CycleLockLapse, RetryLockLapse, dbVars
<1>5. ASSUME NEW d \in Dates, RunLockLapse(d) PROVE Quiet
  BY <1>2, <1>5 DEF RunLockLapse, dbVars
<1>6. ASSUME NEW k \in RetryKeys, RetryKeyTtl(k) PROVE Quiet
  BY <1>2, <1>6 DEF RetryKeyTtl
<1>7. CASE Tick
  BY <1>2, <1>7 DEF Tick, dbVars
<1> QED
  BY <1>1, <1>3, <1>4, <1>5, <1>6, <1>7, RunEffects, RetryEffects DEF Next

-----------------------------------------------------------------------------
(* Somebody is charged for a subscription exactly while it has a due date. *)

\* The due date survives every step.
LEMMA DueStep ==
    ASSUME BillingTypeOK, DueWhileRenewing, [Next]_vars
    PROVE  DueWhileRenewing'
<1> USE Calendar, NoneAssumption DEF BillingTypeOK, DueWhileRenewing
<1>1. CASE Quiet
  BY <1>1 DEF Quiet
<1>2. ASSUME NEW b \in Runs, RunCharged(b) PROVE DueWhileRenewing'
  BY <1>2 DEF RunCharged, dbVars
<1>3. ASSUME NEW b \in Runs, Stores(b) PROVE DueWhileRenewing'
  <2> DEFINE s == runs[b].sub
             until == DayStart(runs[b].date) + Period
  <2>1. s \in Subs /\ runs[b].date \in Dates
    BY <1>3 DEF Stores, RunsOK
  <2>2. DayStart(runs[b].date) \in Nat
    BY <2>1
  <2>3. until \in Nat
    BY <2>2
  <2>4. /\ BilledSub(b, s).next # Never
        /\ BilledSub(b, s).status \in {"active", "past_due"}
    <3>1. CASE runs[b].pc = "paid"
      BY <2>3, <3>1 DEF BilledSub
    <3>2. CASE runs[b].pc # "paid"
      <4>1. subs[s] \in Subscription /\ subs[s].status = "active" /\ subs[s].next # Never
        BY <1>3, <2>1 DEF Stores, StillListed, DbOK
      <4> QED
        BY <3>2, <4>1 DEF BilledSub, Subscription
    <3> QED
      BY <3>1, <3>2
  <2>5. subs' = [subs EXCEPT ![s] = BilledSub(b, s)]
    BY <1>3 DEF Stores
  <2> HIDE DEF s, until
  <2> QED
    BY <2>1, <2>4, <2>5 DEF DbOK
<1>4. ASSUME NEW r \in Retries, NEW s \in Subs, NEW d \in Dates, NEW k \in RetryKeys,
             NEW force \in BOOLEAN, RetryStart(r, s, d, k, force)
      PROVE  DueWhileRenewing'
  BY <1>4 DEF RetryStart, dbVars
<1>5. ASSUME NEW r \in Retries, RetryCharged(r) PROVE DueWhileRenewing'
  BY <1>5 DEF RetryCharged, dbVars
<1>6. ASSUME NEW r \in Retries, RetryPaid(r), CycleOf(r).paidWith = NoKey
      PROVE  DueWhileRenewing'
  <2>1. retries[r].sub \in Subs /\ retries[r].seen \in Subscription
    BY <1>6 DEF RetryPaid, RetriesOK
  <2>2. Restored(r).next # Never /\ Restored(r).status = "active"
    <3> DEFINE due == IF retries[r].seen.next = Never THEN now ELSE retries[r].seen.next
    <3>1. due \in Nat
      BY <2>1 DEF Subscription, Moments
    <3>2. due + Period \in Nat
      BY <3>1
    <3>3. Restored(r) = [retries[r].seen EXCEPT !.status = "active", !.next = due + Period]
      BY DEF Restored
    <3> HIDE DEF due
    <3> QED
      BY <2>1, <3>2, <3>3 DEF Subscription
  <2>3. subs' = [subs EXCEPT ![retries[r].sub] = Restored(r)]
    BY <1>6 DEF RetryPaid, SaveSub
  <2> QED
    BY <2>1, <2>2, <2>3 DEF DbOK
<1>7. ASSUME NEW r \in Retries, RetryFailed(r) PROVE DueWhileRenewing'
  <2>1. retries[r].sub \in Subs /\ retries[r].seen \in Subscription
    BY <1>7 DEF RetryFailed, RetriesOK
  <2>2. \/ subs' = subs
        \/ subs' = [subs EXCEPT ![retries[r].sub] =
                       [retries[r].seen EXCEPT !.status = "canceled", !.next = Never]]
    BY <1>7 DEF RetryFailed, SaveSub
  <2> DEFINE seen == retries[r].seen
             ended == [seen EXCEPT !.status = "canceled", !.next = Never]
  <2>3. ended.status = "canceled" /\ ended.next = Never
    BY <2>1 DEF Subscription
  <2>4. CASE subs' = subs
    BY <2>4
  <2>5. CASE subs' = [subs EXCEPT ![retries[r].sub] = ended]
    <3> HIDE DEF ended
    <3> QED
      BY <2>1, <2>3, <2>5 DEF DbOK
  <2> QED
    BY <2>2, <2>4, <2>5
<1>8. ASSUME NEW s \in Subs, ScheduleCancel(s) \/ Resume(s) \/ Expire(s)
      PROVE  DueWhileRenewing'
  <2>1. PICK sub : subs' = [subs EXCEPT ![s] = sub]
                   /\ (sub.next # Never <=> sub.status \in {"active", "past_due"})
    <3> DEFINE old == subs[s]
    <3>1. old \in Subscription
      BY DEF DbOK
    <3>2. CASE ScheduleCancel(s)
      <4> DEFINE new == [old EXCEPT !.status = "cancel_scheduled", !.next = Never]
      <4>1. subs' = [subs EXCEPT ![s] = new]
        BY <3>2 DEF ScheduleCancel, DbOK
      <4>2. new.status = "cancel_scheduled" /\ new.next = Never
        BY <3>1 DEF Subscription
      <4> HIDE DEF new
      <4> QED
        BY <4>1, <4>2
    <3>3. CASE Resume(s)
      <4> DEFINE new == [old EXCEPT !.status = "active", !.next = old.end]
      <4>1. subs' = [subs EXCEPT ![s] = new]
        BY <3>3 DEF Resume, Resumed
      <4>2. new.status = "active" /\ new.next # Never
        BY <3>1 DEF Subscription
      <4> HIDE DEF new
      <4> QED
        BY <4>1, <4>2
    <3>4. CASE Expire(s)
      <4> DEFINE new == [old EXCEPT !.status = "canceled", !.next = Never]
      <4>1. subs' = [subs EXCEPT ![s] = new]
        BY <3>4 DEF Expire, DbOK
      <4>2. new.status = "canceled" /\ new.next = Never
        BY <3>1 DEF Subscription
      <4> HIDE DEF new
      <4> QED
        BY <4>1, <4>2
    <3> QED
      BY <1>8, <3>2, <3>3, <3>4
  <2> QED
    BY <2>1 DEF DbOK
<1> QED
  BY <1>1, <1>2, <1>3, <1>4, <1>5, <1>6, <1>7, <1>8, Effects

\* A subscription has a due date exactly while somebody will be charged for it.
THEOREM RenewalsAreDue == Spec => []DueWhileRenewing
<1>1. Init => DueWhileRenewing
  <2> SUFFICES ASSUME Init PROVE DueWhileRenewing
    OBVIOUS
  <2>1. PICK end \in [Subs -> FirstEnds] :
           subs = [s \in Subs |-> [status |-> "active", end |-> end[s], next |-> end[s]]]
    BY DEF Init
  <2>2. \A s \in Subs : end[s] \in Nat
    BY FirstEndsAssumption
  <2> QED
    BY <2>1, <2>2, NoneAssumption DEF DueWhileRenewing
<1> QED
  BY <1>1, DueStep, BillingTypeCorrect, PTL DEF Spec

-----------------------------------------------------------------------------
(* What the steps of Effects write, one cycle at a time.                   *)

\* A charge of a run is remembered for its cycle alone.
LEMMA RunCharges ==
    ASSUME RunsOK, taken \in [Subs -> [Dates -> SUBSET Keys]], NEW b \in Runs, RunCharged(b)
    PROVE  /\ runs[b].pc = "charge" /\ runs[b].sub \in Subs /\ runs[b].date \in Dates
           /\ CycleKey \notin taken[runs[b].sub][runs[b].date]
           /\ UNCHANGED <<cycles, retries>>
           /\ \A q \in Runs : /\ runs'[q].sub = runs[q].sub /\ runs'[q].date = runs[q].date
                              /\ q # b => runs'[q].pc = runs[q].pc
           /\ \A x \in Subs, y \in Dates :
                 IF x = runs[b].sub /\ y = runs[b].date
                 THEN taken'[x][y] = taken[x][y] \cup {CycleKey}
                 ELSE taken'[x][y] = taken[x][y]
<1> DEFINE s == runs[b].sub
           d == runs[b].date
           keys == taken[s][d] \cup {CycleKey}
<1>1. /\ runs[b].pc = "charge" /\ s \in Subs /\ d \in Dates
      /\ \E outcome \in {"paid", "failed"} : runs' = [runs EXCEPT ![b].pc = outcome]
      /\ CycleKey \notin taken[s][d] /\ UNCHANGED <<cycles, retries>>
  BY DEF RunCharged, Charge, dbVars, RunsOK
<1>2. \A q \in Runs : /\ runs'[q].sub = runs[q].sub /\ runs'[q].date = runs[q].date
                      /\ q # b => runs'[q].pc = runs[q].pc
  BY <1>1 DEF RunsOK
<1>3. taken' = [taken EXCEPT ![s][d] = keys]
  BY DEF RunCharged, Charge
<1>4. taken \in [Subs -> [Dates -> SUBSET Keys]] /\ keys \in SUBSET Keys
  BY <1>1 DEF Keys
<1>5. keys = taken[s][d] \cup {CycleKey}
  OBVIOUS
<1> HIDE DEF s, d, keys
<1>6. \A x \in Subs, y \in Dates :
         taken'[x][y] = IF x = s /\ y = d THEN keys ELSE taken[x][y]
  BY <1>1, <1>3, <1>4, Put
<1> QED
  BY <1>1, <1>2, <1>5, <1>6 DEF s, d

\* So is a charge of a retry.
LEMMA RetryCharges ==
    ASSUME BillingTypeOK, NEW r \in Retries, RetryCharged(r)
    PROVE  /\ retries[r].pc = "charge"
           /\ retries[r].sub \in Subs /\ retries[r].date \in Dates
           /\ retries[r].key \in RetryKeys
           /\ UNCHANGED <<cycles, runs>>
           /\ \A q \in Retries : /\ retries'[q].sub = retries[q].sub
                                 /\ retries'[q].date = retries[q].date
                                 /\ retries'[q].key = retries[q].key
                                 /\ retries'[q].seen = retries[q].seen
                                 /\ q # r => retries'[q].pc = retries[q].pc
           /\ \A x \in Subs, y \in Dates :
                 IF x = retries[r].sub /\ y = retries[r].date
                 THEN taken'[x][y] = taken[x][y] \cup {retries[r].key}
                 ELSE taken'[x][y] = taken[x][y]
<1> DEFINE s == retries[r].sub
           d == retries[r].date
           k == retries[r].key
           keys == taken[s][d] \cup {k}
<1>1. /\ retries[r].pc = "charge" /\ s \in Subs /\ d \in Dates /\ k \in RetryKeys
      /\ \E outcome \in {"paid", "failed"} : retries' = [retries EXCEPT ![r].pc = outcome]
      /\ UNCHANGED <<cycles, runs>>
  BY DEF RetryCharged, dbVars, BillingTypeOK, RetriesOK
<1>2. \A q \in Retries : /\ retries'[q].sub = retries[q].sub
                         /\ retries'[q].date = retries[q].date
                         /\ retries'[q].key = retries[q].key
                         /\ retries'[q].seen = retries[q].seen
                         /\ q # r => retries'[q].pc = retries[q].pc
  BY <1>1 DEF BillingTypeOK, RetriesOK
<1>3. taken' = [taken EXCEPT ![s][d] = keys]
  BY DEF RetryCharged, Charge
<1>4. taken \in [Subs -> [Dates -> SUBSET Keys]] /\ keys \in SUBSET Keys
  BY <1>1 DEF BillingTypeOK, DbOK, Keys
<1>5. keys = taken[s][d] \cup {k}
  OBVIOUS
<1> HIDE DEF s, d, k, keys
<1>6. \A x \in Subs, y \in Dates :
         taken'[x][y] = IF x = s /\ y = d THEN keys ELSE taken[x][y]
  BY <1>1, <1>3, <1>4, Put
<1> QED
  BY <1>1, <1>2, <1>5, <1>6 DEF s, d, k

\* A run writes the invoice and the payment of its own cycle.
LEMMA RunWrites ==
    ASSUME BillingTypeOK, NEW b \in Runs, Stores(b)
    PROVE  /\ runs[b].sub \in Subs /\ runs[b].date \in Dates
           /\ \A x \in Subs, y \in Dates :
                 IF x = runs[b].sub /\ y = runs[b].date
                 THEN /\ cycles[x][y].invoice = "none"
                      /\ cycles'[x][y].invoice # "none"
                      /\ \/ runs[b].pc = "paid" /\ cycles'[x][y].invoice = "paid"
                                                /\ cycles'[x][y].paidWith = CycleKey
                         \/ runs[b].pc # "paid" /\ cycles'[x][y].invoice = "issued"
                                                /\ cycles'[x][y].paidWith = NoKey
                 ELSE cycles'[x][y] = cycles[x][y]
<1> DEFINE s == runs[b].sub
           d == runs[b].date
           cycle == BilledCycle(b)
<1>1. s \in Subs /\ d \in Dates
  BY DEF Stores, BillingTypeOK, RunsOK
<1>2. /\ cycle \in Cycle
      /\ cycle.invoice # "none"
      /\ \/ runs[b].pc = "paid" /\ cycle.invoice = "paid" /\ cycle.paidWith = CycleKey
         \/ runs[b].pc # "paid" /\ cycle.invoice = "issued" /\ cycle.paidWith = NoKey
  BY Calendar DEF BilledCycle, NoCycle, Cycle, InvoiceStatus, RetryStatus, Keys
<1>3. cycles' = [cycles EXCEPT ![s][d] = cycle] /\ cycles[s][d].invoice = "none"
  BY DEF Stores
<1>4. cycles \in [Subs -> [Dates -> Cycle]]
  BY DEF BillingTypeOK, DbOK
<1> HIDE DEF s, d, cycle
<1>5. \A x \in Subs, y \in Dates :
         cycles'[x][y] = IF x = s /\ y = d THEN cycle ELSE cycles[x][y]
  BY <1>1, <1>2, <1>3, <1>4, Put
<1> QED
  BY <1>1, <1>2, <1>3, <1>5 DEF s, d

\* A retry writes the invoice and the payment of its own cycle.
LEMMA RetryWrites ==
    ASSUME BillingTypeOK, NEW r \in Retries,
           (RetryPaid(r) /\ CycleOf(r).paidWith = NoKey) \/ RetryFailed(r)
    PROVE  /\ retries[r].pc # "idle"
           /\ retries[r].sub \in Subs /\ retries[r].date \in Dates
           /\ retries[r].key \in RetryKeys
           /\ UNCHANGED <<runs, taken>>
           /\ \A q \in Retries : retries'[q].pc # "idle" => retries'[q] = retries[q]
           /\ \A x \in Subs, y \in Dates :
                 IF x = retries[r].sub /\ y = retries[r].date
                 THEN /\ cycles'[x][y].invoice # "none"
                      /\ \/ /\ retries[r].pc = "paid" /\ cycles'[x][y].invoice = "paid"
                            /\ cycles'[x][y].paidWith = retries[r].key
                         \/ /\ retries[r].pc = "failed" /\ cycles'[x][y].invoice = "issued"
                            /\ cycles'[x][y].paidWith = cycles[x][y].paidWith
                 ELSE cycles'[x][y] = cycles[x][y]
<1> DEFINE s == retries[r].sub
           d == retries[r].date
           k == retries[r].key
           old == cycles[s][d]
<1>1. retries[r].pc # "idle" /\ s \in Subs /\ d \in Dates /\ k \in RetryKeys
  BY DEF RetryPaid, RetryFailed, BillingTypeOK, RetriesOK
<1>2. UNCHANGED <<runs, taken>>
  BY DEF RetryPaid, RetryFailed
<1>3. \A q \in Retries : retries'[q].pc # "idle" => retries'[q] = retries[q]
  BY DEF RetryPaid, RetryFailed, RetryDone, RetryIdle, BillingTypeOK, RetriesOK
<1>4. cycles \in [Subs -> [Dates -> Cycle]] /\ old \in Cycle
  BY <1>1 DEF BillingTypeOK, DbOK
<1>5. PICK cycle \in Cycle :
         /\ cycles' = [cycles EXCEPT ![s][d] = cycle]
         /\ cycle.invoice # "none"
         /\ \/ retries[r].pc = "paid" /\ cycle.invoice = "paid" /\ cycle.paidWith = k
            \/ retries[r].pc = "failed" /\ cycle.invoice = "issued"
               /\ cycle.paidWith = old.paidWith
  <2>1. CASE RetryPaid(r) /\ CycleOf(r).paidWith = NoKey
    <3> DEFINE new == [old EXCEPT !.invoice = "paid", !.retry = "never", !.paidWith = k]
    <3>1. new \in Cycle
      BY <1>1, <1>4, CycleType DEF InvoiceStatus, RetryStatus, Keys
    <3>2. new.invoice = "paid" /\ new.paidWith = k
      BY <1>4 DEF Cycle
    <3>3. cycles' = [cycles EXCEPT ![s][d] = new] /\ retries[r].pc = "paid"
      BY <2>1 DEF RetryPaid, SaveCycle, CycleOf
    <3> HIDE DEF new, s, d, k, old
    <3> QED
      BY <3>1, <3>2, <3>3
  <2>2. CASE RetryFailed(r)
    <3> DEFINE again == IF Final(r) THEN "never" ELSE "later"
               new == [old EXCEPT !.invoice = "issued", !.failed = @ + 1, !.retry = again]
    <3>1. new \in Cycle
      BY <1>4, CycleType DEF InvoiceStatus, RetryStatus
    <3>2. new.invoice = "issued" /\ new.paidWith = old.paidWith
      BY <1>4 DEF Cycle
    <3>3. cycles' = [cycles EXCEPT ![s][d] = new] /\ retries[r].pc = "failed"
      BY <2>2 DEF RetryFailed, SaveCycle, CycleOf
    <3> HIDE DEF new, s, d, k, old
    <3> QED
      BY <3>1, <3>2, <3>3
  <2> QED
    BY <2>1, <2>2
<1> HIDE DEF s, d, k, old
<1>6. \A x \in Subs, y \in Dates :
         cycles'[x][y] = IF x = s /\ y = d THEN cycle ELSE cycles[x][y]
  BY <1>1, <1>4, <1>5, Put
<1>7. cycles'[s][d] = cycle /\ old = cycles[s][d]
  BY <1>1, <1>6 DEF old
<1>8. \A x \in Subs, y \in Dates : x # s \/ y # d => cycles'[x][y] = cycles[x][y]
  BY <1>6
<1>9. /\ cycles'[s][d].invoice # "none"
      /\ \/ /\ retries[r].pc = "paid" /\ cycles'[s][d].invoice = "paid"
            /\ cycles'[s][d].paidWith = k
         \/ /\ retries[r].pc = "failed" /\ cycles'[s][d].invoice = "issued"
            /\ cycles'[s][d].paidWith = cycles[s][d].paidWith
  BY <1>5, <1>7
<1> QED
  BY <1>1, <1>2, <1>3, <1>8, <1>9 DEF s, d, k

-----------------------------------------------------------------------------
(* What is recorded as paid was charged.                                   *)

\* A process that knows it charged, charged.
ChargesKnown ==
    /\ PaymentsWereCharged
    /\ \A b \in Runs : runs[b].pc = "paid" =>
          CycleKey \in taken[runs[b].sub][runs[b].date]
    /\ \A r \in Retries : retries[r].pc = "paid" =>
          retries[r].key \in taken[retries[r].sub][retries[r].date]

\* Every step keeps what is known of charges.
LEMMA KnownStep ==
    ASSUME BillingTypeOK, ChargesKnown, [Next]_vars
    PROVE  ChargesKnown'
<1> USE DEF ChargesKnown, PaymentsWereCharged
<1>0. RunsOK /\ taken \in [Subs -> [Dates -> SUBSET Keys]]
  BY DEF BillingTypeOK, DbOK
<1>1. /\ \A b \in Runs : runs[b].pc \in {"charge", "paid"} => runs[b].sub \in Subs
      /\ \A b \in Runs : runs[b].date \in Dates
      /\ \A r \in Retries : retries[r].pc # "idle" =>
            retries[r].sub \in Subs /\ retries[r].key \in RetryKeys
      /\ \A r \in Retries : retries[r].date \in Dates
  BY DEF BillingTypeOK, RunsOK, RetriesOK, Outcomes
<1>2. CASE Quiet
  BY <1>1, <1>2 DEF Quiet
<1>3. ASSUME NEW b \in Runs, RunCharged(b) PROVE ChargesKnown'
  <2>1. /\ \A x \in Subs, y \in Dates : taken[x][y] \subseteq taken'[x][y]
        /\ CycleKey \in taken'[runs[b].sub][runs[b].date]
        /\ UNCHANGED <<cycles, retries>>
    BY <1>3, <1>0, RunCharges
  <2>2. PaymentsWereCharged'
    BY <2>1
  <2>3. ASSUME NEW q \in Runs, runs'[q].pc = "paid"
        PROVE  CycleKey \in taken'[runs'[q].sub][runs'[q].date]
    <3>1. runs'[q].sub = runs[q].sub /\ runs'[q].date = runs[q].date
          /\ (q # b => runs'[q].pc = runs[q].pc)
      BY <1>3, <1>0, RunCharges
    <3> QED
      BY <1>1, <2>1, <2>3, <3>1
  <2>4. \A r \in Retries : retries'[r].pc = "paid" =>
           retries'[r].key \in taken'[retries'[r].sub][retries'[r].date]
    BY <1>1, <2>1
  <2> QED
    BY <2>2, <2>3, <2>4
<1>4. ASSUME NEW b \in Runs, Stores(b) PROVE ChargesKnown'
  <2>1. /\ UNCHANGED <<taken, retries>>
        /\ \A q \in Runs : runs'[q].pc = "paid" => runs'[q] = runs[q]
    BY <1>4 DEF Stores
  <2> QED
    BY <1>4, <2>1, RunWrites
<1>5. ASSUME NEW r \in Retries, NEW s \in Subs, NEW d \in Dates, NEW k \in RetryKeys,
             NEW force \in BOOLEAN, RetryStart(r, s, d, k, force)
      PROVE  ChargesKnown'
  <2>1. /\ UNCHANGED <<cycles, runs, taken>>
        /\ \A q \in Retries : retries'[q].pc = "paid" => retries'[q] = retries[q]
    BY <1>5 DEF RetryStart, dbVars, BillingTypeOK, RetriesOK
  <2> QED
    BY <2>1
<1>6. ASSUME NEW r \in Retries, RetryCharged(r) PROVE ChargesKnown'
  <2>1. /\ \A x \in Subs, y \in Dates : taken[x][y] \subseteq taken'[x][y]
        /\ retries[r].key \in taken'[retries[r].sub][retries[r].date]
        /\ UNCHANGED <<cycles, runs>>
    BY <1>6, RetryCharges
  <2>2. PaymentsWereCharged'
    BY <2>1
  <2>3. \A b \in Runs : runs'[b].pc = "paid" =>
           CycleKey \in taken'[runs'[b].sub][runs'[b].date]
    BY <1>1, <2>1
  <2>4. ASSUME NEW q \in Retries, retries'[q].pc = "paid"
        PROVE  retries'[q].key \in taken'[retries'[q].sub][retries'[q].date]
    <3>1. /\ retries'[q].sub = retries[q].sub /\ retries'[q].date = retries[q].date
          /\ retries'[q].key = retries[q].key
          /\ (q # r => retries'[q].pc = retries[q].pc)
      BY <1>6, RetryCharges
    <3> QED
      BY <1>1, <2>1, <2>4, <3>1
  <2> QED
    BY <2>2, <2>3, <2>4
<1>7. ASSUME NEW r \in Retries,
             (RetryPaid(r) /\ CycleOf(r).paidWith = NoKey) \/ RetryFailed(r)
      PROVE  ChargesKnown'
  BY <1>7, RetryWrites
<1>8. ASSUME NEW s \in Subs, ScheduleCancel(s) \/ Resume(s) \/ Expire(s)
      PROVE  ChargesKnown'
  BY <1>8 DEF ScheduleCancel, Resume, Expire
<1> QED
  BY <1>2, <1>3, <1>4, <1>5, <1>6, <1>7, <1>8, Effects

\* Runs and retries know of their own charges alone.
LEMMA ChargesAreKnown == Spec => []ChargesKnown
<1>1. Init => ChargesKnown
  BY DEF Init, ChargesKnown, PaymentsWereCharged, NoCycle, RunIdle, RetryIdle
<1> QED
  BY <1>1, KnownStep, BillingTypeCorrect, PTL DEF Spec

\* Whichever processes crash, overlap or repeat a key, no cycle is recorded as
\* paid that the gateway did not charge under the recorded key.
THEOREM RecordedPaymentsWereCharged == Spec => []PaymentsWereCharged
BY ChargesAreKnown, PTL DEF ChargesKnown

-----------------------------------------------------------------------------
(* What a run recorded as paid is charged once.                            *)

\* Retries keep to cycles that a run left unpaid; runs to cycles without an
\* invoice, which no retry can have charged.
ChargesOnce ==
    /\ RunsChargeOnce
    /\ \A s \in Subs, d \in Dates :
          /\ cycles[s][d].invoice = "none" =>
                taken[s][d] \subseteq {CycleKey} /\ cycles[s][d].paidWith = NoKey
          /\ cycles[s][d].paidWith = CycleKey => cycles[s][d].invoice = "paid"
    /\ \A r \in Retries : retries[r].pc # "idle" =>
          LET cycle == cycles[retries[r].sub][retries[r].date] IN
          cycle.invoice # "none" /\ cycle.paidWith # CycleKey

\* Every step keeps runs and retries apart.
LEMMA OnceStep ==
    ASSUME BillingTypeOK, ChargesKnown, ChargesOnce, [Next]_vars
    PROVE  ChargesOnce'
<1> USE NoneAssumption DEF ChargesOnce, RunsChargeOnce
<1>0. RunsOK /\ taken \in [Subs -> [Dates -> SUBSET Keys]]
  BY DEF BillingTypeOK, DbOK
<1>1. /\ \A b \in Runs : runs[b].pc \in {"charge", "paid"} => runs[b].sub \in Subs
      /\ \A b \in Runs : runs[b].date \in Dates
      /\ \A r \in Retries : retries[r].pc # "idle" =>
            retries[r].sub \in Subs /\ retries[r].key \in RetryKeys
      /\ \A r \in Retries : retries[r].date \in Dates
  BY DEF BillingTypeOK, RunsOK, RetriesOK, Outcomes
<1>2. CASE Quiet
  BY <1>1, <1>2 DEF Quiet
<1>3. ASSUME NEW b \in Runs, RunCharged(b) PROVE ChargesOnce'
  BY <1>0, <1>1, <1>3, RunCharges
<1>4. ASSUME NEW b \in Runs, Stores(b) PROVE ChargesOnce'
  <2>1. UNCHANGED <<taken, retries>>
    BY <1>4 DEF Stores
  <2>2. runs[b].pc = "paid" => CycleKey \in taken[runs[b].sub][runs[b].date]
    BY DEF ChargesKnown
  <2> QED
    BY <1>1, <1>4, <2>1, <2>2, RunWrites
<1>5. ASSUME NEW r \in Retries, NEW s \in Subs, NEW d \in Dates, NEW k \in RetryKeys,
             NEW force \in BOOLEAN, RetryStart(r, s, d, k, force)
      PROVE  ChargesOnce'
  <2>1. /\ UNCHANGED <<cycles, taken>>
        /\ cycles[s][d].invoice = "issued"
        /\ retries'[r].sub = s /\ retries'[r].date = d
        /\ \A q \in Retries : q # r => retries'[q] = retries[q]
    BY <1>5 DEF RetryStart, Retryable, dbVars, BillingTypeOK, RetriesOK
  <2> QED
    BY <2>1
<1>6. ASSUME NEW r \in Retries, RetryCharged(r) PROVE ChargesOnce'
  <2>1. /\ retries[r].pc # "idle" /\ UNCHANGED cycles
        /\ retries[r].sub \in Subs /\ retries[r].date \in Dates
        /\ \A x \in Subs, y \in Dates :
              x # retries[r].sub \/ y # retries[r].date => taken'[x][y] = taken[x][y]
    BY <1>6, RetryCharges
  <2>2. \A x \in Subs, y \in Dates :
           cycles[x][y].invoice = "none" \/ cycles[x][y].paidWith = CycleKey =>
              taken'[x][y] = taken[x][y]
    BY <2>1
  <2>3. \A q \in Retries : retries'[q].pc # "idle" =>
           /\ retries[q].pc # "idle"
           /\ retries'[q].sub = retries[q].sub /\ retries'[q].date = retries[q].date
    BY <1>6, RetryCharges
  <2> QED
    BY <2>1, <2>2, <2>3
<1>7. ASSUME NEW r \in Retries,
             (RetryPaid(r) /\ CycleOf(r).paidWith = NoKey) \/ RetryFailed(r)
      PROVE  ChargesOnce'
  <2>1. /\ retries[r].pc # "idle" /\ retries[r].key # CycleKey
        /\ retries[r].sub \in Subs /\ retries[r].date \in Dates
        /\ UNCHANGED taken
        /\ \A q \in Retries : retries'[q].pc # "idle" => retries'[q] = retries[q]
    BY <1>7, RetryWrites
  <2>2. \A x \in Subs, y \in Dates :
           IF x = retries[r].sub /\ y = retries[r].date
           THEN /\ cycles'[x][y].invoice # "none"
                /\ cycles'[x][y].paidWith # CycleKey
           ELSE cycles'[x][y] = cycles[x][y]
    BY <1>7, <2>1, RetryWrites
  <2>3. RunsChargeOnce'
    BY <2>1, <2>2
  <2> QED
    BY <1>1, <2>1, <2>2, <2>3
<1>8. ASSUME NEW s \in Subs, ScheduleCancel(s) \/ Resume(s) \/ Expire(s)
      PROVE  ChargesOnce'
  BY <1>8 DEF ScheduleCancel, Resume, Expire
<1> QED
  BY <1>2, <1>3, <1>4, <1>5, <1>6, <1>7, <1>8, Effects

\* A cycle that a run recorded as paid was charged by runs alone, and once,
\* with any number of runs and retries at work and under lapsing locks.
THEOREM RunChargesHappenOnce == Spec => []RunsChargeOnce
<1>1. Init => ChargesOnce
  BY NoneAssumption DEF Init, ChargesOnce, RunsChargeOnce, NoCycle, RetryIdle
<1>2. ChargesOnce => RunsChargeOnce
  BY DEF ChargesOnce
<1> QED
  BY <1>1, <1>2, OnceStep, ChargesAreKnown, BillingTypeCorrect, PTL DEF Spec

-----------------------------------------------------------------------------
(* What holds while the retries of a subscription come one at a time.      *)

\* The lock of a retry is taken after everything was read, and does not keep
\* a second retry from working on what the first one is about to change.
RetriesApart ==
    \A r, o \in Retries :
        r # o /\ retries[r].pc # "idle" /\ retries[o].pc # "idle" =>
           retries[r].sub # retries[o].sub

\* A single process that retries keeps them apart.
LEMMA OneRetry == (\A r, o \in Retries : r = o) => RetriesApart
BY DEF RetriesApart

\* What a retry read is still so: nobody else touches a past due subscription.
RetriesFresh ==
    \A r \in Retries : retries[r].pc # "idle" =>
        /\ subs[retries[r].sub] = retries[r].seen
        /\ retries[r].seen.status = "past_due"
        /\ cycles[retries[r].sub][retries[r].date].invoice = "issued"

\* Every step keeps what a retry read.
LEMMA FreshStep ==
    ASSUME BillingTypeOK, RetriesFresh, RetriesApart, [Next]_vars
    PROVE  RetriesFresh'
<1> USE DEF RetriesFresh
<1>0. RunsOK /\ taken \in [Subs -> [Dates -> SUBSET Keys]]
  BY DEF BillingTypeOK, DbOK
<1>1. /\ subs \in [Subs -> Subscription]
      /\ \A r \in Retries : retries[r].pc # "idle" => retries[r].sub \in Subs
      /\ \A r \in Retries : retries[r].date \in Dates
      /\ retries \in [Retries -> [pc : {"idle", "lock", "charge", "paid", "failed"},
                                  sub : Subs \cup {NoSub}, date : Dates,
                                  key : RetryKeys \cup {NoKey}, failed : Nat,
                                  seen : Subscription]]
  BY DEF BillingTypeOK, DbOK, RetriesOK
<1>2. CASE Quiet
  <2>1. ASSUME NEW r \in Retries, retries'[r].pc # "idle"
        PROVE  /\ retries[r].pc # "idle" /\ retries'[r].sub = retries[r].sub
               /\ retries'[r].date = retries[r].date /\ retries'[r].seen = retries[r].seen
    BY <1>2, <2>1 DEF Quiet
  <2>2. /\ UNCHANGED subs
        /\ \A s \in Subs, d \in Dates : cycles'[s][d].invoice = cycles[s][d].invoice
    BY <1>2 DEF Quiet
  <2> QED
    BY <1>1, <2>1, <2>2
<1>3. ASSUME NEW b \in Runs, RunCharged(b) PROVE RetriesFresh'
  <2>1. UNCHANGED <<subs, cycles, retries>>
    BY <1>3 DEF RunCharged, dbVars
  <2> QED
    BY <2>1
<1>4. ASSUME NEW b \in Runs, Stores(b) PROVE RetriesFresh'
  <2>1. /\ subs[runs[b].sub].status = "active"
        /\ subs' = [subs EXCEPT ![runs[b].sub] = BilledSub(b, runs[b].sub)]
        /\ UNCHANGED retries
    BY <1>4 DEF Stores, StillListed
  <2>2. \A r \in Retries : retries[r].pc # "idle" => retries[r].sub # runs[b].sub
    BY <2>1
  <2>3. \A s \in Subs, d \in Dates : s # runs[b].sub => cycles'[s][d] = cycles[s][d]
    BY <1>4, RunWrites
  <2> QED
    BY <1>1, <2>1, <2>2, <2>3
<1>5. ASSUME NEW r \in Retries, NEW s \in Subs, NEW d \in Dates, NEW k \in RetryKeys,
             NEW force \in BOOLEAN, RetryStart(r, s, d, k, force)
      PROVE  RetriesFresh'
  <2>1. /\ UNCHANGED <<subs, cycles>>
        /\ subs[s].status = "past_due" /\ cycles[s][d].invoice = "issued"
        /\ retries' = [retries EXCEPT ![r] =
              [pc |-> "lock", sub |-> s, date |-> d, key |-> k,
               failed |-> cycles[s][d].failed, seen |-> subs[s]]]
    BY <1>5 DEF RetryStart, Retryable, dbVars
  <2>2. /\ retries'[r].sub = s /\ retries'[r].date = d /\ retries'[r].seen = subs[s]
        /\ \A o \in Retries \ {r} : retries'[o] = retries[o]
    BY <1>1, <2>1
  <2> QED
    BY <2>1, <2>2
<1>6. ASSUME NEW r \in Retries, RetryCharged(r) PROVE RetriesFresh'
  <2>1. /\ retries[r].pc # "idle" /\ UNCHANGED <<subs, cycles>>
        /\ \A q \in Retries : /\ retries'[q].sub = retries[q].sub
                              /\ retries'[q].date = retries[q].date
                              /\ retries'[q].seen = retries[q].seen
                              /\ q # r => retries'[q].pc = retries[q].pc
    BY <1>6, RetryCharges DEF RetryCharged, dbVars
  <2> QED
    BY <2>1
<1>7. ASSUME NEW r \in Retries,
             (RetryPaid(r) /\ CycleOf(r).paidWith = NoKey) \/ RetryFailed(r)
      PROVE  RetriesFresh'
  <2> SUFFICES ASSUME NEW o \in Retries, retries'[o].pc # "idle"
               PROVE  /\ subs'[retries'[o].sub] = retries'[o].seen
                      /\ retries'[o].seen.status = "past_due"
                      /\ cycles'[retries'[o].sub][retries'[o].date].invoice = "issued"
    OBVIOUS
  <2>1. /\ retries[r].pc # "idle" /\ retries'[o] = retries[o]
        /\ \A x \in Subs, y \in Dates : x # retries[r].sub => cycles'[x][y] = cycles[x][y]
    BY <1>7, RetryWrites
  <2>2. o # r
    <3>1. retries' = [retries EXCEPT ![r] = RetryIdle]
      BY <1>7 DEF RetryPaid, RetryFailed, RetryDone
    <3> QED
      BY <1>1, <3>1 DEF RetryIdle
  <2>3. retries[o].sub # retries[r].sub
    BY <2>1, <2>2 DEF RetriesApart
  <2>4. UNCHANGED subs \/ \E new : subs' = [subs EXCEPT ![retries[r].sub] = new]
    BY <1>7 DEF RetryPaid, RetryFailed, SaveSub, dbVars
  <2>5. subs'[retries[o].sub] = subs[retries[o].sub]
    BY <1>1, <2>1, <2>3, <2>4
  <2> QED
    BY <1>1, <2>1, <2>3, <2>5
<1>8. ASSUME NEW s \in Subs, ScheduleCancel(s) \/ Resume(s) \/ Expire(s)
      PROVE  RetriesFresh'
  <2>1. /\ subs[s].status # "past_due" /\ UNCHANGED <<cycles, retries>>
        /\ \A o \in Subs \ {s} : subs'[o] = subs[o]
    BY <1>1, <1>8 DEF ScheduleCancel, Resume, Expire
  <2> QED
    BY <1>1, <2>1
<1> QED
  BY <1>2, <1>3, <1>4, <1>5, <1>6, <1>7, <1>8, Effects

\* An invoice is paid exactly while its cycle records a payment.
InvoicesMatch ==
    \A s \in Subs, d \in Dates :
        cycles[s][d].invoice = "paid" <=> cycles[s][d].paidWith # NoKey

\* Every step stores both alike: a retry that fails does not open an invoice
\* that was paid.
LEMMA MatchStep ==
    ASSUME BillingTypeOK, RetriesFresh, InvoicesMatch, [Next]_vars
    PROVE  InvoicesMatch'
<1> USE DEF InvoicesMatch
<1>0. RunsOK /\ taken \in [Subs -> [Dates -> SUBSET Keys]]
  BY DEF BillingTypeOK, DbOK
<1>1. CASE Quiet
  BY <1>1 DEF Quiet
<1>2. CASE UNCHANGED cycles
  BY <1>2
<1>3. ASSUME NEW b \in Runs, Stores(b) PROVE InvoicesMatch'
  BY <1>3, RunWrites, NoneAssumption
<1>4. ASSUME NEW r \in Retries,
             (RetryPaid(r) /\ CycleOf(r).paidWith = NoKey) \/ RetryFailed(r)
      PROVE  InvoicesMatch'
  <2>1. /\ retries[r].pc # "idle" /\ retries[r].key # NoKey
        /\ \A x \in Subs, y \in Dates :
              IF x = retries[r].sub /\ y = retries[r].date
              THEN \/ cycles'[x][y].invoice = "paid" /\ cycles'[x][y].paidWith = retries[r].key
                   \/ /\ cycles'[x][y].invoice = "issued"
                      /\ cycles'[x][y].paidWith = cycles[x][y].paidWith
              ELSE cycles'[x][y] = cycles[x][y]
    BY <1>4, RetryWrites, NoneAssumption
  <2>2. cycles[retries[r].sub][retries[r].date].invoice = "issued"
    BY <2>1 DEF RetriesFresh
  <2> QED
    BY <2>1, <2>2
<1>5. ASSUME NEW b \in Runs, RunCharged(b) PROVE UNCHANGED cycles
  BY <1>5 DEF RunCharged, dbVars
<1>6. ASSUME NEW r \in Retries, RetryCharged(r) PROVE UNCHANGED cycles
  BY <1>6 DEF RetryCharged, dbVars
<1>7. ASSUME NEW r \in Retries, NEW s \in Subs, NEW d \in Dates, NEW k \in RetryKeys,
             NEW force \in BOOLEAN, RetryStart(r, s, d, k, force)
      PROVE  UNCHANGED cycles
  BY <1>7 DEF RetryStart, dbVars
<1>8. ASSUME NEW s \in Subs, ScheduleCancel(s) \/ Resume(s) \/ Expire(s)
      PROVE  UNCHANGED cycles
  BY <1>8 DEF ScheduleCancel, Resume, Expire
<1> QED
  BY <1>1, <1>2, <1>3, <1>4, <1>5, <1>6, <1>7, <1>8, Effects

\* A run lists what is due by the end of its date.
RunsInTime ==
    \A b \in Runs, s \in Subs :
        runs[b].due[s] # Never => runs[b].due[s] <= DayEnd(runs[b].date)

\* What a run does keeps its list in time.
LEMMA RunInTime ==
    ASSUME subs \in [Subs -> Subscription], RunsOK, RunsInTime, NEW b \in Runs,
           RunStep(b) \/ RunCrash(b) \/ \E d \in Dates : RunStart(b, d)
    PROVE  RunsInTime'
<1> USE DEF RunsOK, RunsInTime
<1>1. ASSUME NEW d \in Dates, RunStart(b, d) PROVE RunsInTime'
  <2> DEFINE list == [s \in Subs |-> IF IsDue(s, d) THEN subs[s].next ELSE Never]
  <2>1. runs' = [runs EXCEPT ![b] = [pc |-> "next", date |-> d, sub |-> NoSub, due |-> list]]
    BY <1>1 DEF RunStart
  <2>2. \A s \in Subs : list[s] # Never => list[s] <= DayEnd(d)
    BY DEF IsDue
  <2> HIDE DEF list
  <2>3. /\ runs'[b].due = list /\ runs'[b].date = d
        /\ \A q \in Runs \ {b} : runs'[q] = runs[q]
    BY <2>1
  <2> QED
    BY <2>2, <2>3
<1>2. ASSUME \A q \in Runs : /\ runs'[q].date = runs[q].date
                             /\ \A s \in Subs : runs'[q].due[s] \in {runs[q].due[s], Never}
      PROVE  RunsInTime'
  BY <1>2
<1>3. ASSUME NEW s \in Subs, RunTake(b, s) PROVE RunsInTime'
  BY <1>2, <1>3 DEF RunTake
<1>4. ASSUME NEW s \in Subs, RunSkip(b, s) PROVE RunsInTime'
  BY <1>2, <1>4 DEF RunSkip
<1>5. ASSUME RunCharged(b) \/ RunNotCharged(b) PROVE RunsInTime'
  BY <1>2, <1>5 DEF RunCharged, RunNotCharged
<1>6. ASSUME RunSave(b) PROVE RunsInTime'
  <2> DEFINE done == [runs EXCEPT ![b].pc = "next", ![b].sub = NoSub]
  <2>1. runs' = [done EXCEPT ![b].due[runs[b].sub] = Never] /\ runs[b].sub \in Subs
    BY <1>6 DEF RunSave
  <2>2. /\ done \in [Runs -> [pc : {"idle", "next", "charge"} \cup Outcomes, date : Dates,
                             due : [Subs -> Moments], sub : Subs \cup {NoSub}]]
        /\ \A q \in Runs : done[q].due = runs[q].due /\ done[q].date = runs[q].date
    BY DEF Outcomes
  <2> HIDE DEF done
  <2>3. \A q \in Runs : /\ runs'[q].date = runs[q].date
                        /\ \A s \in Subs : runs'[q].due[s] \in {runs[q].due[s], Never}
    BY <2>1, <2>2
  <2> QED
    BY <1>2, <2>3
<1>7. ASSUME RunAborted(b) \/ RunEnd(b) \/ RunCrash(b) PROVE RunsInTime'
  <2>1. runs' = [runs EXCEPT ![b] = RunIdle]
    BY <1>7 DEF RunAborted, RunEnd, RunCrash
  <2>2. \A s \in Subs : RunIdle.due[s] = Never
    BY DEF RunIdle
  <2> HIDE DEF RunIdle
  <2>3. /\ runs'[b] = RunIdle
        /\ \A q \in Runs \ {b} : runs'[q] = runs[q]
    BY <2>1
  <2> QED
    BY <2>2, <2>3
<1> QED
  BY <1>1, <1>3, <1>4, <1>5, <1>6, <1>7 DEF RunStep

\* Every step keeps the lists in time.
LEMMA InTimeStep ==
    ASSUME BillingTypeOK, RunsInTime, [Next]_vars
    PROVE  RunsInTime'
<1>1. subs \in [Subs -> Subscription] /\ RunsOK
  BY DEF BillingTypeOK, DbOK
<1>2. CASE UNCHANGED runs
  BY <1>2 DEF RunsInTime
<1> QED
  BY <1>1, <1>2, RunInTime
  DEF Next, RetryStep, RetryStart, RetryLock, RetryTurnedAway, RetryCharged,
      RetryNotCharged, RetryPaid, RetryFailed, RetryCrash, ScheduleCancel, Resume,
      Expire, RunLockLapse, CycleLockLapse, RetryLockLapse, RetryComesDue, RetryKeyTtl,
      Tick, vars

-----------------------------------------------------------------------------
(* The steps of a subscription's life.                                     *)

\* The status of the invoice of each cycle, as SubscriptionLifecycle sees it.
InvoiceTable == [s \in Subs |-> [d \in Dates |-> cycles[s][d].invoice]]

\* One invoice changes: so does one entry of the table.
LEMMA InvoiceMoves ==
    ASSUME NEW s \in Subs, NEW d \in Dates, NEW to,
           \A x \in Subs, y \in Dates :
              cycles'[x][y].invoice = IF x = s /\ y = d THEN to ELSE cycles[x][y].invoice
    PROVE  InvoiceTable' = [InvoiceTable EXCEPT ![s][d] = to]
<1>1. \A x \in Subs : InvoiceTable'[x] = [InvoiceTable EXCEPT ![s][d] = to][x]
  <2> TAKE x \in Subs
  <2>1. InvoiceTable'[x] = [y \in Dates |-> IF x = s /\ y = d THEN to
                                                              ELSE cycles[x][y].invoice]
    BY DEF InvoiceTable
  <2>2. CASE x = s
    <3>1. [InvoiceTable EXCEPT ![s][d] = to][s] = [InvoiceTable[s] EXCEPT ![d] = to]
      BY DEF InvoiceTable
    <3>2. InvoiceTable[s] = [y \in Dates |-> cycles[s][y].invoice]
      BY DEF InvoiceTable
    <3>3. [InvoiceTable[s] EXCEPT ![d] = to] =
             [y \in Dates |-> IF y = d THEN to ELSE cycles[s][y].invoice]
      BY <3>2
    <3> QED
      BY <2>1, <2>2, <3>1, <3>3
  <2>3. CASE x # s
    <3>1. [InvoiceTable EXCEPT ![s][d] = to][x] = [y \in Dates |-> cycles[x][y].invoice]
      BY <2>3 DEF InvoiceTable
    <3> QED
      BY <2>1, <2>3, <3>1
  <2> QED
    BY <2>2, <2>3
<1> QED
  BY <1>1 DEF InvoiceTable

\* No invoice changes: nor does the table.
LEMMA InvoicesStay ==
    ASSUME \A x \in Subs, y \in Dates : cycles'[x][y].invoice = cycles[x][y].invoice
    PROVE  UNCHANGED InvoiceTable
<1>1. \A x \in Subs : [y \in Dates |-> cycles'[x][y].invoice] =
                      [y \in Dates |-> cycles[x][y].invoice]
  OBVIOUS
<1> QED
  BY <1>1 DEF InvoiceTable

\* What a run stores is a cycle billed at once, paid or failed.
LEMMA RunLives ==
    ASSUME BillingTypeOK, DueWhileRenewing, RunsInTime, NEW b \in Runs, Stores(b)
    PROVE  \E s \in Subs, d \in Dates : Life!BillPaid(s, d) \/ Life!BillFailed(s, d)
<1> DEFINE s == runs[b].sub
           d == runs[b].date
           old == subs[s]
           new == BilledSub(b, s)
           until == DayStart(d) + Period
<1>1. /\ s \in Subs /\ d \in Dates
      /\ subs \in [Subs -> Subscription] /\ old \in Subscription
  BY RunWrites DEF BillingTypeOK, DbOK
<1>2. old.status = "active" /\ old.next = runs[b].due[s] /\ old.next # Never
  BY <1>1 DEF Stores, StillListed, DueWhileRenewing
<1>3. old.next \in Nat /\ old.next < until /\ until \in Nat
  <2>1. old.next \in Nat
    BY <1>1, <1>2 DEF Subscription, Moments
  <2>2. old.next <= DayEnd(d)
    BY <1>1, <1>2 DEF RunsInTime
  <2>3. DayStart(d) \in Nat /\ DayEnd(d) = DayStart(d) + 1 /\ Period \in Nat /\ Period >= 2
    BY <1>1, Calendar
  <2> HIDE DEF s, d, old
  <2> QED
    BY <2>1, <2>2, <2>3
<1>4. subs'[s] = new /\ \A o \in Subs \ {s} : subs'[o] = subs[o]
  BY <1>1 DEF Stores
<1>5. /\ \A x \in Subs, y \in Dates : x # s \/ y # d => cycles'[x][y] = cycles[x][y]
      /\ cycles[s][d].invoice = "none"
      /\ \/ runs[b].pc = "paid" /\ cycles'[s][d].invoice = "paid"
         \/ runs[b].pc # "paid" /\ cycles'[s][d].invoice = "issued"
  BY RunWrites
<1>6. InvoiceTable[s][d] = "none"
  BY <1>1, <1>5 DEF InvoiceTable
<1>7. PICK x \in Subs, y \in Dates : x = s /\ y = d
  BY <1>1
<1>8. CASE runs[b].pc = "paid"
  <2>1. new = [status |-> "active", end |-> until, next |-> until]
    BY <1>8 DEF BilledSub
  <2>2. new.status = "active" /\ new.end = new.next /\ new.next > old.next
    BY <1>3, <2>1
  <2>3. InvoiceTable' = [InvoiceTable EXCEPT ![s][d] = "paid"]
    <3>1. \A o \in Subs, e \in Dates :
             cycles'[o][e].invoice = IF o = s /\ e = d THEN "paid" ELSE cycles[o][e].invoice
      BY <1>5, <1>8
    <3> HIDE DEF s, d
    <3> QED
      BY <1>1, <3>1, InvoiceMoves
  <2> HIDE DEF new, until
  <2>4. Life!BillPaid(x, y)
    <3> HIDE DEF s, d
    <3>1. Life!Moves(x, "active", "active")
      BY <1>2, <1>7, <1>4, <2>2 DEF Life!Moves
    <3>2. Life!Invoices(x, y, "none", "paid")
      BY <1>6, <1>7, <2>3 DEF Life!Invoices, InvoiceTable
    <3> QED
      BY <1>2, <1>7, <1>4, <2>2, <3>1, <3>2 DEF Life!BillPaid
  <2> QED
    BY <2>4
<1>9. CASE runs[b].pc # "paid"
  <2>1. new = [old EXCEPT !.status = "past_due"]
    BY <1>9 DEF BilledSub
  <2>2. new.status = "past_due" /\ new.end = old.end /\ new.next = old.next
    BY <1>1, <2>1 DEF Subscription
  <2>3. InvoiceTable' = [InvoiceTable EXCEPT ![s][d] = "issued"]
    <3>1. \A o \in Subs, e \in Dates :
             cycles'[o][e].invoice = IF o = s /\ e = d THEN "issued" ELSE cycles[o][e].invoice
      BY <1>5, <1>9
    <3> HIDE DEF s, d
    <3> QED
      BY <1>1, <3>1, InvoiceMoves
  <2> HIDE DEF new, until
  <2>4. Life!BillFailed(x, y)
    <3> HIDE DEF s, d
    <3>1. Life!Moves(x, "active", "past_due")
      BY <1>2, <1>7, <1>4, <2>2 DEF Life!Moves
    <3>2. Life!Invoices(x, y, "none", "issued")
      BY <1>6, <1>7, <2>3 DEF Life!Invoices, InvoiceTable
    <3> QED
      BY <1>2, <1>7, <1>4, <2>2, <3>1, <3>2 DEF Life!BillFailed
  <2> QED
    BY <2>4
<1> QED
  BY <1>8, <1>9

\* A retry that stores something settles the cycle, or gives the subscription
\* up, or leaves both as they are.
LEMMA RetryLives ==
    ASSUME BillingTypeOK, DueWhileRenewing, RetriesFresh, NEW r \in Retries,
           (RetryPaid(r) /\ CycleOf(r).paidWith = NoKey) \/ RetryFailed(r)
    PROVE  \/ \E s \in Subs, d \in Dates : Life!Settle(s, d) \/ Life!GiveUp(s, d)
           \/ UNCHANGED Life!lifeVars
<1> DEFINE s == retries[r].sub
           d == retries[r].date
           old == subs[s]
<1>1. /\ s \in Subs /\ d \in Dates
      /\ subs \in [Subs -> Subscription] /\ old \in Subscription
  BY RetryWrites DEF BillingTypeOK, DbOK
<1>2. /\ retries[r].seen = old /\ old.status = "past_due" /\ cycles[s][d].invoice = "issued"
  BY RetryWrites DEF RetriesFresh
<1>3. old.next \in Nat
  BY <1>1, <1>2 DEF DueWhileRenewing, Subscription, Moments
<1>4. /\ \A x \in Subs, y \in Dates : x # s \/ y # d => cycles'[x][y] = cycles[x][y]
      /\ \/ retries[r].pc = "paid" /\ cycles'[s][d].invoice = "paid"
         \/ retries[r].pc = "failed" /\ cycles'[s][d].invoice = "issued"
  BY RetryWrites
<1>5. InvoiceTable[s][d] = "issued"
  BY <1>1, <1>2 DEF InvoiceTable
<1>6. PICK x \in Subs, y \in Dates : x = s /\ y = d
  BY <1>1
<1>7. CASE RetryPaid(r) /\ CycleOf(r).paidWith = NoKey
  <2> DEFINE new == Restored(r)
  <2>1. new = [old EXCEPT !.status = "active", !.next = old.next + Period]
    <3>1. old.next # Never
      BY <1>3, NoneAssumption
    <3> QED
      BY <1>2, <3>1 DEF Restored
  <2>2. new.status = "active" /\ new.end = old.end /\ new.next > old.next
    <3>1. old.next + Period > old.next
      BY <1>3, Calendar
    <3> DEFINE later == old.next + Period
    <3>2. new = [old EXCEPT !.status = "active", !.next = later]
      BY <2>1
    <3> HIDE DEF new, later
    <3>3. new.status = "active" /\ new.end = old.end /\ new.next = later
      BY <1>1, <3>2 DEF Subscription
    <3> QED
      BY <3>1, <3>3 DEF later
  <2>3. subs'[s] = new /\ \A o \in Subs \ {s} : subs'[o] = subs[o]
    BY <1>1, <1>7 DEF RetryPaid, SaveSub
  <2>4. retries[r].pc = "paid"
    BY <1>7 DEF RetryPaid
  <2>5. InvoiceTable' = [InvoiceTable EXCEPT ![s][d] = "paid"]
    <3>1. \A o \in Subs, e \in Dates :
             cycles'[o][e].invoice = IF o = s /\ e = d THEN "paid" ELSE cycles[o][e].invoice
      BY <1>4, <2>4
    <3> HIDE DEF s, d
    <3> QED
      BY <1>1, <3>1, InvoiceMoves
  <2> HIDE DEF new
  <2>6. Life!Settle(x, y)
    <3> HIDE DEF s, d
    <3>1. Life!Moves(x, "past_due", "active")
      BY <1>2, <1>6, <2>2, <2>3 DEF Life!Moves
    <3>2. Life!Invoices(x, y, "issued", "paid")
      BY <1>5, <1>6, <2>5 DEF Life!Invoices, InvoiceTable
    <3> QED
      BY <1>2, <1>6, <2>2, <2>3, <3>1, <3>2 DEF Life!Settle
  <2> QED
    BY <2>6
<1>8. CASE RetryFailed(r)
  <2>1. UNCHANGED InvoiceTable
    <3>1. retries[r].pc = "failed"
      BY <1>8 DEF RetryFailed
    <3>2. \A o \in Subs, e \in Dates : cycles'[o][e].invoice = cycles[o][e].invoice
      BY <1>2, <1>4, <3>1
    <3> QED
      BY <3>2, InvoicesStay
  <2>2. CASE Final(r)
    <3> DEFINE new == [old EXCEPT !.status = "canceled", !.next = Never]
    <3>1. subs' = [subs EXCEPT ![s] = new]
      BY <1>2, <1>8, <2>2 DEF RetryFailed, SaveSub
    <3>2. new.status = "canceled" /\ new.next = Never
      BY <1>1 DEF Subscription
    <3> HIDE DEF new
    <3>3. Life!GiveUp(x, y)
      <4> HIDE DEF s, d
      <4> QED
        BY <1>1, <1>2, <1>5, <1>6, <2>1, <3>1, <3>2
        DEF Life!GiveUp, Life!Moves, InvoiceTable
    <3> QED
      BY <3>3
  <2>3. CASE ~Final(r)
    <3>1. UNCHANGED subs
      BY <1>8, <2>3 DEF RetryFailed
    <3> QED
      BY <2>1, <3>1 DEF Life!lifeVars, InvoiceTable
  <2> QED
    BY <2>2, <2>3
<1> QED
  BY <1>7, <1>8

\* What the customer and the expiration job do is an arrow of its own.
LEMMA EndLives ==
    ASSUME BillingTypeOK, NEW s \in Subs, ScheduleCancel(s) \/ Resume(s) \/ Expire(s)
    PROVE  Life!ScheduleEnd(s) \/ Life!TakeBack(s) \/ Life!End(s)
<1> DEFINE old == subs[s]
<1>1. subs \in [Subs -> Subscription] /\ old \in Subscription
  BY DEF BillingTypeOK, DbOK
<1>2. UNCHANGED InvoiceTable
  BY DEF ScheduleCancel, Resume, Expire, InvoiceTable
<1>3. CASE ScheduleCancel(s)
  <2> DEFINE new == [old EXCEPT !.status = "cancel_scheduled", !.next = Never]
  <2>1. subs' = [subs EXCEPT ![s] = new] /\ old.status = "active"
    BY <1>1, <1>3 DEF ScheduleCancel
  <2>2. new.status = "cancel_scheduled" /\ new.next = Never /\ new.end = old.end
    BY <1>1 DEF Subscription
  <2> HIDE DEF new
  <2> QED
    BY <1>1, <1>2, <2>1, <2>2 DEF Life!ScheduleEnd, Life!Moves, InvoiceTable
<1>4. CASE Resume(s)
  <2> DEFINE new == [old EXCEPT !.status = "active", !.next = old.end]
  <2>1. subs' = [subs EXCEPT ![s] = new] /\ old.status = "cancel_scheduled"
    BY <1>4 DEF Resume, Resumed
  <2>2. new.status = "active" /\ new.next = old.end /\ new.end = old.end
    BY <1>1 DEF Subscription
  <2> HIDE DEF new
  <2> QED
    BY <1>1, <1>2, <2>1, <2>2 DEF Life!TakeBack, Life!Moves, InvoiceTable
<1>5. CASE Expire(s)
  <2> DEFINE new == [old EXCEPT !.status = "canceled", !.next = Never]
  <2>1. subs' = [subs EXCEPT ![s] = new] /\ old.status = "cancel_scheduled"
    BY <1>1, <1>5 DEF Expire
  <2>2. new.status = "canceled" /\ new.next = Never
    BY <1>1 DEF Subscription
  <2> HIDE DEF new
  <2> QED
    BY <1>1, <1>2, <2>1, <2>2 DEF Life!End, Life!Moves, InvoiceTable
<1> QED
  BY <1>3, <1>4, <1>5

\* Every step is a step of the life of a subscription, or none.
LEMMA LifeStep ==
    ASSUME BillingTypeOK, DueWhileRenewing, RunsInTime, RetriesFresh, [Next]_vars
    PROVE  [Life!LifeNext]_(Life!lifeVars)
<1>1. CASE Quiet
  <2>1. UNCHANGED subs /\ UNCHANGED InvoiceTable
    BY <1>1, InvoicesStay DEF Quiet
  <2> QED
    BY <2>1 DEF Life!lifeVars, InvoiceTable
<1>2. ASSUME UNCHANGED <<subs, cycles>> PROVE UNCHANGED Life!lifeVars
  BY <1>2 DEF Life!lifeVars
<1>3. ASSUME NEW b \in Runs, RunCharged(b) PROVE UNCHANGED Life!lifeVars
  BY <1>2, <1>3 DEF RunCharged, dbVars
<1>4. ASSUME NEW b \in Runs, Stores(b) PROVE Life!LifeNext
  BY <1>4, RunLives DEF Life!LifeNext
<1>5. ASSUME NEW r \in Retries, NEW s \in Subs, NEW d \in Dates, NEW k \in RetryKeys,
             NEW force \in BOOLEAN, RetryStart(r, s, d, k, force)
      PROVE  UNCHANGED Life!lifeVars
  BY <1>2, <1>5 DEF RetryStart, dbVars
<1>6. ASSUME NEW r \in Retries, RetryCharged(r) PROVE UNCHANGED Life!lifeVars
  BY <1>2, <1>6 DEF RetryCharged, dbVars
<1>7. ASSUME NEW r \in Retries,
             (RetryPaid(r) /\ CycleOf(r).paidWith = NoKey) \/ RetryFailed(r)
      PROVE  Life!LifeNext \/ UNCHANGED Life!lifeVars
  BY <1>7, RetryLives DEF Life!LifeNext
<1>8. ASSUME NEW s \in Subs, ScheduleCancel(s) \/ Resume(s) \/ Expire(s)
      PROVE  Life!LifeNext
  BY <1>8, EndLives DEF Life!LifeNext
<1> QED
  BY <1>1, <1>3, <1>4, <1>5, <1>6, <1>7, <1>8, Effects

\* No move of a life leaves an open invoice behind an active subscription, or
\* a past due one without its invoice.
LEMMA OwesStep ==
    ASSUME OwesIffPastDue, [Life!LifeNext]_(Life!lifeVars)
    PROVE  OwesIffPastDue'
<1> DEFINE owed(s) == {d \in Dates : InvoiceTable[s][d] = "issued"}
<1>1. OwesIffPastDue <=>
         \A s \in Subs :
            /\ subs[s].status \in {"active", "cancel_scheduled"} => owed(s) = {}
            /\ subs[s].status = "past_due" => \E d \in Dates : owed(s) = {d}
  <2>1. \A s \in Subs : owed(s) = {d \in Dates : cycles[s][d].invoice = "issued"}
    BY DEF InvoiceTable
  <2> HIDE DEF owed
  <2> QED
    BY <2>1 DEF OwesIffPastDue
<1>2. OwesIffPastDue' <=>
         \A s \in Subs :
            /\ subs'[s].status \in {"active", "cancel_scheduled"} =>
                  {d \in Dates : InvoiceTable'[s][d] = "issued"} = {}
            /\ subs'[s].status = "past_due" =>
                  \E e \in Dates : {d \in Dates : InvoiceTable'[s][d] = "issued"} = {e}
  <2> DEFINE owes(s) == {d \in Dates : InvoiceTable'[s][d] = "issued"}
  <2>1. \A s \in Subs : owes(s) = {d \in Dates : cycles'[s][d].invoice = "issued"}
    BY DEF InvoiceTable
  <2> HIDE DEF owes
  <2>2. OwesIffPastDue' <=>
           \A s \in Subs :
              /\ subs'[s].status \in {"active", "cancel_scheduled"} => owes(s) = {}
              /\ subs'[s].status = "past_due" => \E e \in Dates : owes(s) = {e}
    BY <2>1 DEF OwesIffPastDue
  <2> QED
    BY <2>2 DEF owes
<1>3. /\ \A s \in Subs :
            InvoiceTable[s] = [d \in Dates |-> InvoiceTable[s][d]]
      /\ InvoiceTable = [s \in Subs |-> InvoiceTable[s]]
  BY DEF InvoiceTable
<1>4. CASE UNCHANGED Life!lifeVars
  <2>1. subs' = subs /\ InvoiceTable' = InvoiceTable
    BY <1>4 DEF Life!lifeVars, InvoiceTable
  <2> QED
    BY <1>1, <1>2, <2>1
<1>5. ASSUME NEW s \in Subs, NEW from, NEW to, Life!Moves(s, from, to)
      PROVE  /\ subs[s].status = from /\ subs'[s].status = to
             /\ \A o \in Subs \ {s} : subs'[o] = subs[o]
  BY <1>5 DEF Life!Moves
<1>6. ASSUME NEW s \in Subs, NEW d \in Dates, NEW from, NEW to, Life!Invoices(s, d, from, to)
      PROVE  /\ InvoiceTable[s][d] = from
             /\ \A x \in Subs, y \in Dates :
                   InvoiceTable'[x][y] = IF x = s /\ y = d THEN to ELSE InvoiceTable[x][y]
  <2>1. InvoiceTable' = [InvoiceTable EXCEPT ![s][d] = to] /\ InvoiceTable[s][d] = from
    BY <1>6 DEF Life!Invoices, InvoiceTable
  <2> HIDE DEF InvoiceTable
  <2> QED
    BY <1>3, <2>1
<1>7. ASSUME NEW s \in Subs, NEW d \in Dates,
             Life!BillPaid(s, d) \/ Life!BillFailed(s, d) \/ Life!Settle(s, d)
      PROVE  OwesIffPastDue'
  <2>1. PICK from \in {"none", "issued"}, to \in {"paid", "issued"},
             old \in {"active", "past_due"}, new \in {"active", "past_due"} :
           /\ Life!Moves(s, old, new) /\ Life!Invoices(s, d, from, to)
           /\ from = "issued" <=> old = "past_due"
           /\ to = "issued" <=> new = "past_due"
    BY <1>7 DEF Life!BillPaid, Life!BillFailed, Life!Settle
  <2> HIDE DEF InvoiceTable
  <2> QED
    BY <1>1, <1>2, <1>5, <1>6, <2>1
<1>8. ASSUME NEW s \in Subs,
             \/ \E d \in Dates : Life!GiveUp(s, d)
             \/ Life!ScheduleEnd(s) \/ Life!TakeBack(s) \/ Life!End(s)
      PROVE  OwesIffPastDue'
  <2>1. /\ InvoiceTable' = InvoiceTable
        /\ \/ Life!Moves(s, "past_due", "canceled")
           \/ Life!Moves(s, "active", "cancel_scheduled")
           \/ Life!Moves(s, "cancel_scheduled", "active")
           \/ Life!Moves(s, "cancel_scheduled", "canceled")
    BY <1>8 DEF Life!GiveUp, Life!ScheduleEnd, Life!TakeBack, Life!End, InvoiceTable
  <2> HIDE DEF InvoiceTable
  <2> QED
    BY <1>1, <1>2, <1>5, <2>1
<1> QED
  BY <1>4, <1>7, <1>8 DEF Life!LifeNext

\* Before anything is billed, nothing is owed and nobody retries.
LEMMA InitLives ==
    ASSUME Init
    PROVE  Life!LifeInit /\ RunsInTime /\ RetriesFresh /\ InvoicesMatch /\ OwesIffPastDue
<1>1. PICK end \in [Subs -> FirstEnds] :
         subs = [s \in Subs |-> [status |-> "active", end |-> end[s], next |-> end[s]]]
  BY DEF Init
<1>2. \A s \in Subs : subs[s].status = "active" /\ subs[s].next = subs[s].end
  BY <1>1
<1>3. \A s \in Subs, d \in Dates :
         cycles[s][d].invoice = "none" /\ cycles[s][d].paidWith = NoKey
  BY DEF Init, NoCycle
<1>4. Life!LifeInit
  BY <1>2, <1>3 DEF Life!LifeInit
<1>5. RunsInTime /\ RetriesFresh
  BY DEF Init, RunsInTime, RetriesFresh, RunIdle, RetryIdle
<1>6. InvoicesMatch /\ OwesIffPastDue
  BY <1>2, <1>3 DEF InvoicesMatch, OwesIffPastDue
<1> QED
  BY <1>4, <1>5, <1>6

\* What a retry read stays so, as long as no second retry is at work.
LEMMA RetriesStayFresh == Spec /\ []RetriesApart => [](RetriesFresh /\ RunsInTime)
<1>1. Init => RetriesFresh /\ RunsInTime
  BY InitLives
<1> QED
  BY <1>1, FreshStep, InTimeStep, BillingTypeCorrect, PTL DEF Spec

\* Runs, a retry, cancellations, resumptions and expirations, in any order and
\* under crashes and lapsing locks, move a subscription along the arrows of
\* SubscriptionLifecycle: no cancellation is undone by a run that charged
\* meanwhile, no cycle is invoiced twice, no paid invoice is opened again.
\* Only two retries of one subscription at the same time could break it.
THEOREM ImplementsLifecycle == Spec /\ []RetriesApart => LifeSpec
<1>1. Init => Life!LifeInit
  BY InitLives
<1> QED
  BY <1>1, LifeStep, RetriesStayFresh, RenewalsAreDue, BillingTypeCorrect, PTL
  DEF Spec, LifeSpec, Life!LifeSpec

\* A past due subscription owes one cycle, the one a retry needs, and an active
\* one owes none, as long as its retries come one at a time.
THEOREM OwedOnce == Spec /\ []RetriesApart => []OwesIffPastDue
<1>1. Init => OwesIffPastDue
  BY InitLives
<1>2. BillingTypeOK /\ DueWhileRenewing /\ RunsInTime /\ RetriesFresh /\ OwesIffPastDue
      /\ [Next]_vars => OwesIffPastDue'
  BY LifeStep, OwesStep
<1> QED
  BY <1>1, <1>2, RetriesStayFresh, RenewalsAreDue, BillingTypeCorrect, PTL DEF Spec

\* An invoice is paid exactly while its cycle was charged under the key that is
\* recorded for it, as long as the retries of a subscription come one at a time.
THEOREM PaidCyclesCharged == Spec /\ []RetriesApart => []PaidCyclesWereCharged
<1>1. Init => InvoicesMatch
  BY InitLives
<1>2. PaymentsWereCharged /\ InvoicesMatch => PaidCyclesWereCharged
  BY DEF PaidCyclesWereCharged, InvoicesMatch
<1> QED
  BY <1>1, <1>2, MatchStep, RetriesStayFresh, RecordedPaymentsWereCharged,
     BillingTypeCorrect, PTL DEF Spec
==============================================================================
