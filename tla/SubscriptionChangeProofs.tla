----------------------- MODULE SubscriptionChangeProofs -----------------------
(***************************************************************************)
(* Theorems of SubscriptionAdjust, for every number of subscriptions,      *)
(* plans, tokens, keys, runs, changes and adjustments at once: plans wait  *)
(* only for cheaper ones and are paid for, what is recorded as paid was    *)
(* taken, and a cancellation holds.                                        *)
(*                                                                         *)
(* The steps are taken apart by what they do to one variable at a time:    *)
(* CycleMoves, SubMoves, PlanMoves, HeldMoves, ChangerMoves, KeyMoves,     *)
(* AdjusterMoves and EditLockMoves.  Each invariant then follows from a    *)
(* few of them, without a look at the actions.                             *)
(***************************************************************************)
EXTENDS SubscriptionAdjust, SubscriptionBillingProofs

-----------------------------------------------------------------------------
(* Types.                                                                  *)

\* A process that executes a change under the lock of the subscription.
Executes(c) == changers[c].pc \in {"charge", "paid", "failed", "save"}

Adjusts(a) == adjusters[a].pc # "idle"

\* What the type invariant leaves open.
AdjustDocsOK ==
    /\ AdjustTypeOK
    /\ now <= DayStart(LastDay)
    /\ taken \in [Subs -> [Dates -> SUBSET Keys]]
    /\ \A a \in Adjusters : Adjusts(a) =>
          adjusters[a].sub \in Subs /\ adjusters[a].key \in AdjustKeys

\* A step is one of billing, of a plan change or of an adjustment, and leaves
\* alone what belongs to the others.
BillingStep == PlannedBilling /\ UNCHANGED <<requestVars, adjustVars>>

PlanStep ==
    /\ \/ \E t \in Tokens, s \in Subs, p \in Plans : PreviewChange(t, s, p)
       \/ \E c \in Changers, t \in Tokens, k \in ChangeKeys : ChangeStart(c, t, k)
       \/ \E c \in Changers : ChangeStep(c)
       \/ \E s \in Subs : EditLockLapse(s)
       \/ \E k \in ChangeKeys : ChangeKeyTtl(k)
    /\ UNCHANGED <<now, runs, held, taken, adjustVars>>

AdminStep ==
    /\ \/ \E a \in Adjusters, s \in Subs, k \in AdjustKeys : AdjustRequest(a, s, k)
       \/ \E a \in Adjusters : AdjustStep(a)
    /\ UNCHANGED <<now, runs, held, taken, previews, changeKeys, changers, upgraded, overrun>>

\* A step of billing changes nothing of plan changes.
LEMMA BillingAlone ==
    ASSUME PlannedBilling
    PROVE  UNCHANGED requestVars
BY DEF PlannedBilling, PlannedRunTake, PlannedRunSave

\* An action of a plan change does not run the clock, billing or the gateway.
LEMMA PlanAlone ==
    ASSUME \/ \E t \in Tokens, s \in Subs, p \in Plans : PreviewChange(t, s, p)
           \/ \E c \in Changers, t \in Tokens, k \in ChangeKeys : ChangeStart(c, t, k)
           \/ \E c \in Changers : ChangeStep(c)
           \/ \E s \in Subs : EditLockLapse(s)
           \/ \E k \in ChangeKeys : ChangeKeyTtl(k)
    PROVE  UNCHANGED <<now, runs, held, taken>>
BY DEF PreviewChange, ChangeStart, ChangeStep, ChangeLock, ChangeTurnedAway, ChangeCharged,
       ChangeNotCharged, ChangeSave, ChangeFailed, ChangeAborted, ChangeCrash,
       EditLockLapse, ChangeKeyTtl, vars

\* Nor does one of an adjustment, which leaves plan changes alone as well.
LEMMA AdminAlone ==
    ASSUME \/ \E a \in Adjusters, s \in Subs, k \in AdjustKeys : AdjustRequest(a, s, k)
           \/ \E a \in Adjusters : AdjustStep(a)
    PROVE  UNCHANGED <<now, runs, held, taken, previews, changeKeys, changers, upgraded, overrun>>
<1>1. ASSUME NEW a, NEW s, NEW k, NEW pc, NEW doc, NEW d, NEW paid,
             AdjustStart(a, s, k, pc, doc, d, paid)
      PROVE  UNCHANGED <<now, runs, held, taken, previews, changeKeys, changers, upgraded, overrun>>
  BY <1>1 DEF AdjustStart, vars
<1>2. ASSUME NEW a \in Adjusters, NEW s \in Subs, NEW k \in AdjustKeys, AdjustRequest(a, s, k)
      PROVE  UNCHANGED <<now, runs, held, taken, previews, changeKeys, changers, upgraded, overrun>>
  <2>1. \E pc, doc, d, paid : AdjustStart(a, s, k, pc, doc, d, paid)
    BY <1>2 DEF AdjustRequest, Postpone, SetNextBilling, OverrideStatus, ClearFailure, AskGateway
  <2> QED
    BY <1>1, <2>1
<1>3. ASSUME NEW a \in Adjusters, AdjustStep(a)
      PROVE  UNCHANGED <<now, runs, held, taken, previews, changeKeys, changers, upgraded, overrun>>
  BY <1>3 DEF AdjustStep, GatewayDone, GatewayRefuses, AdjustSave, AdjustAborted, AdjustCrash,
              AdjustDone, allVars, changeVars, requestVars, vars
<1> QED
  BY <1>2, <1>3

\* There are no other steps.
LEMMA AdjustSteps ==
    ASSUME AdjustNext
    PROVE  BillingStep \/ PlanStep \/ AdminStep
<1>1. CASE PlannedBilling /\ UNCHANGED adjustVars
  BY <1>1, BillingAlone DEF BillingStep
<1>2. CASE /\ \/ \E t \in Tokens, s \in Subs, p \in Plans : PreviewChange(t, s, p)
              \/ \E c \in Changers, t \in Tokens, k \in ChangeKeys : ChangeStart(c, t, k)
              \/ \E c \in Changers : ChangeStep(c)
              \/ \E s \in Subs : EditLockLapse(s)
              \/ \E k \in ChangeKeys : ChangeKeyTtl(k)
           /\ UNCHANGED adjustVars
  <2>1. UNCHANGED <<now, runs, held, taken>>
    BY <1>2, PlanAlone
  <2> QED
    BY <1>2, <2>1 DEF PlanStep
<1>3. CASE \/ \E a \in Adjusters, s \in Subs, k \in AdjustKeys : AdjustRequest(a, s, k)
           \/ \E a \in Adjusters : AdjustStep(a)
  <2>1. UNCHANGED <<now, runs, held, taken, previews, changeKeys, changers, upgraded, overrun>>
    BY <1>3, AdminAlone
  <2> QED
    BY <1>3, <2>1 DEF AdminStep
<1> QED
  BY <1>1, <1>2, <1>3 DEF AdjustNext, ChangeNext

\* What was previewed is not previewed again, and what was charged, overrun or
\* taken stays so.
LEMMA Lasting ==
    ASSUME AdjustDocsOK, AdjustNext
    PROVE  /\ previews' \in [Tokens -> Preview]
           /\ \A t \in Tokens : previews[t].sub \in Subs => previews'[t] = previews[t]
           /\ upgraded \subseteq upgraded' /\ upgraded' \subseteq Tokens
           /\ overrun \subseteq overrun' /\ overrun' \subseteq Subs
<1>t. /\ previews \in [Tokens -> Preview] /\ upgraded \subseteq Tokens /\ overrun \subseteq Subs
      /\ subs \in [Subs -> Subscription] /\ plans \in [Subs -> PlanDoc] /\ now \in Nat
      /\ \A c \in Changers : changers[c].pc # "idle" => changers[c].token \in Tokens
  BY DEF AdjustDocsOK, AdjustTypeOK, PlansOK, ChangersOK
<1>1. ASSUME NEW t \in Tokens, NEW s \in Subs, NEW p \in Plans, PreviewChange(t, s, p)
      PROVE  /\ previews' \in [Tokens -> Preview]
             /\ \A x \in Tokens : previews[x].sub \in Subs => previews'[x] = previews[x]
  <2> DEFINE free == p <= plans[s].plan \/ PeriodEnd(s) <= now
             new == [sub |-> s, from |-> plans[s].plan, to |-> p, next |-> PeriodEnd(s),
                     free |-> free, at |-> now]
  <2>1. previews' = [previews EXCEPT ![t] = new] /\ previews[t].sub \notin Subs
    BY <1>1, NoneAssumption DEF PreviewChange, NoPreview
  <2>2. plans[s].plan \in Plans /\ PeriodEnd(s) \in Nat
    BY <1>t DEF PlanDoc, PeriodEnd, Subscription, Moments
  <2>3. free \in BOOLEAN
    OBVIOUS
  <2>4. new \in Preview
    <3> HIDE DEF free
    <3> QED
      BY <1>t, <2>2, <2>3 DEF Preview
  <2> HIDE DEF new
  <2> QED
    BY <1>t, <2>1, <2>4
<1>2. ASSUME UNCHANGED previews
      PROVE  /\ previews' \in [Tokens -> Preview]
             /\ \A t \in Tokens : previews[t].sub \in Subs => previews'[t] = previews[t]
  BY <1>t, <1>2
<1>3. /\ previews' \in [Tokens -> Preview]
      /\ \A t \in Tokens : previews[t].sub \in Subs => previews'[t] = previews[t]
  BY <1>1, <1>2, AdjustSteps
  DEF BillingStep, PlanStep, AdminStep, requestVars, ChangeStart, ChangeStep, ChangeLock,
      ChangeTurnedAway, ChangeCharged, ChangeNotCharged, ChangeSave, ChangeFailed,
      ChangeAborted, ChangeCrash, EditLockLapse, ChangeKeyTtl
<1>4. upgraded \subseteq upgraded' /\ upgraded' \subseteq Tokens
  <2>1. ASSUME NEW c \in Changers, ChangeCharged(c)
        PROVE  upgraded \subseteq upgraded' /\ upgraded' \subseteq Tokens
    BY <1>t, <2>1 DEF ChangeCharged
  <2>2. CASE UNCHANGED upgraded
    BY <1>t, <2>2
  <2> QED
    BY <2>1, <2>2, AdjustSteps
    DEF BillingStep, PlanStep, AdminStep, requestVars, PreviewChange, ChangeStart, ChangeStep,
        ChangeLock, ChangeTurnedAway, ChangeNotCharged, ChangeSave, ChangeFailed,
        ChangeAborted, ChangeCrash, EditLockLapse, ChangeKeyTtl
<1>5. overrun \subseteq overrun' /\ overrun' \subseteq Subs
  <2>1. ASSUME NEW s \in Subs, EditLockLapse(s)
        PROVE  overrun \subseteq overrun' /\ overrun' \subseteq Subs
    BY <1>t, <2>1 DEF EditLockLapse
  <2>2. CASE UNCHANGED overrun
    BY <1>t, <2>2
  <2> QED
    BY <2>1, <2>2, AdjustSteps
    DEF BillingStep, PlanStep, AdminStep, requestVars, PreviewChange, ChangeStart, ChangeStep,
        ChangeLock, ChangeTurnedAway, ChangeCharged, ChangeNotCharged, ChangeSave,
        ChangeFailed, ChangeAborted, ChangeCrash, ChangeKeyTtl
<1> QED
  BY <1>3, <1>4, <1>5

\* A step of billing is one of a run, of the calendar, or of the customer.
LEMMA BillingParts ==
    ASSUME BillingStep
    PROVE  \/ \E b \in Runs :
                 /\ OtherRunStep(b)
                 /\ held' = [q \in Runs |-> IF runs'[q].sub = NoSub THEN Nothing ELSE held[q]]
                 /\ UNCHANGED plans
           \/ \E b \in Runs, s \in Subs : PlannedRunTake(b, s)
           \/ \E b \in Runs : PlannedRunSave(b)
           \/ /\ \/ \E s \in Subs : LockedCancel(s) \/ LockedResume(s) \/ Expire(s)
                 \/ Tick
              /\ held' = [q \in Runs |-> IF runs'[q].sub = NoSub THEN Nothing ELSE held[q]]
              /\ UNCHANGED plans
BY DEF BillingStep, PlannedBilling, OtherBillingStep

\* Runs, their plans, the clock and what the gateway took are well typed.
LEMMA RunsTyped ==
    ASSUME AdjustDocsOK, AdjustNext
    PROVE  /\ RunsOK' /\ now' \in Nat /\ now' <= DayStart(LastDay)
           /\ taken' \in [Subs -> [Dates -> SUBSET Keys]]
<1>t. /\ RunsOK /\ now \in Nat /\ now <= DayStart(LastDay)
      /\ taken \in [Subs -> [Dates -> SUBSET Keys]]
      /\ subs \in [Subs -> Subscription]
      /\ DayStart(LastDay) \in Nat
  BY CalendarAssumption DEF AdjustDocsOK, AdjustTypeOK, DayStart
<1>1. CASE UNCHANGED <<runs, now, taken>>
  BY <1>t, <1>1 DEF RunsOK
<1>2. ASSUME NEW b \in Runs, RunCharged(b) PROVE taken' \in [Subs -> [Dates -> SUBSET Keys]]
  <2> DEFINE s == runs[b].sub
             d == runs[b].date
             keys == taken[s][d] \cup {CycleKey}
  <2>1. s \in Subs /\ d \in Dates
    BY <1>t, <1>2 DEF RunCharged, RunsOK
  <2>2. taken' = [taken EXCEPT ![s][d] = keys]
    BY <1>2 DEF RunCharged, Charge
  <2>3. keys \in SUBSET Keys
    BY <1>t, <2>1 DEF Keys
  <2> HIDE DEF s, d, keys
  <2> QED
    BY <1>t, <2>1, <2>2, <2>3, Put
<1>3. ASSUME NEW b \in Runs,
             \/ OtherRunStep(b)
             \/ PlannedRunSave(b)
             \/ \E s \in Subs : PlannedRunTake(b, s)
      PROVE  RunsOK' /\ now' = now /\ taken' \in [Subs -> [Dates -> SUBSET Keys]]
  <2>1. RunStep(b) \/ \E d \in Dates : RunStart(b, d)
    BY <1>3 DEF OtherRunStep, PlannedRunSave, PlannedRunTake, RunStep
  <2>2. RunsOK'
    BY <1>t, <2>1, RunType
  <2>3. now' = now /\ (taken' = taken \/ RunCharged(b))
    BY <2>1 DEF RunStep, RunStart, RunTake, RunSkip, RunCharged, RunNotCharged, RunSave,
                RunAborted, RunEnd
  <2> QED
    BY <1>t, <1>2, <2>2, <2>3
<1>4. CASE \E s \in Subs : LockedCancel(s) \/ LockedResume(s) \/ Expire(s)
  BY <1>1, <1>4 DEF LockedCancel, LockedResume, ScheduleCancel, Resume, Expire
<1>5. CASE Tick
  BY <1>t, <1>5 DEF Tick, RunsOK
<1> QED
  BY <1>t, <1>1, <1>3, <1>4, <1>5, AdjustSteps, BillingParts DEF PlanStep, AdminStep

-----------------------------------------------------------------------------
(* What the steps do, one variable at a time.                              *)

\* The record of a process that works on a change.
Changer == [pc : {"idle", "lock", "charge", "paid", "failed", "save"},
            token : Tokens \cup {NoToken}, key : ChangeKeys \cup {NoKey},
            date : Dates, seen : Subscription, plan : PlanDoc]

\* A change that begins has looked up its token.
LEMMA ChangeStarts ==
    ASSUME AdjustDocsOK, NEW c \in Changers, NEW t \in Tokens, NEW k \in ChangeKeys,
           ChangeStart(c, t, k)
    PROVE  /\ changers' \in [Changers -> Changer]
           /\ \A o \in Changers \ {c} : changers'[o] = changers[o]
           /\ changers'[c].pc = "lock" /\ changers'[c].token = t /\ changers'[c].key = k
           /\ previews[t].sub \in Subs
<1>1. now \in Nat /\ now <= 2 * LastDay /\ LastDay \in Nat
  BY CalendarAssumption DEF AdjustDocsOK, AdjustTypeOK, DayStart
<1> DEFINE day == now \div 2
           new == [ChangerIdle EXCEPT !.pc = "lock", !.token = t, !.key = k, !.date = day]
<1>2. day \in Dates
  BY <1>1 DEF Dates
<1>3. previews[t].sub \in Subs
  BY DEF ChangeStart, AdjustDocsOK, AdjustTypeOK, ChangersOK, Preview
<1>4. changers \in [Changers -> Changer]
  BY DEF AdjustDocsOK, AdjustTypeOK, ChangersOK, Changer
<1>5. changers' = [changers EXCEPT ![c] = new]
  BY DEF ChangeStart
<1>6. new \in Changer /\ new.pc = "lock" /\ new.token = t /\ new.key = k
  <2>1. FirstPlan \in Plans
    BY PlanAssumption
  <2> HIDE DEF day
  <2> QED
    BY <1>2, <2>1, Calendar
    DEF ChangerIdle, Changer, OnlyPlan, PlanDoc, Subscription, SubStatus, Moments
<1> HIDE DEF new
<1> QED
  BY <1>3, <1>4, <1>5, <1>6

\* A change that takes its lock reads the subscription for good.
LEMMA ChangeLocks ==
    ASSUME AdjustDocsOK, NEW c \in Changers, ChangeLock(c)
    PROVE  /\ changers[c].pc = "lock"
           /\ changers[c].token \in Tokens /\ changers[c].key \in ChangeKeys
           /\ SubOf(c) \in Subs
           /\ changers' \in [Changers -> Changer]
           /\ \A o \in Changers \ {c} : changers'[o] = changers[o]
           /\ changers'[c].pc = IF MustPay(changers[c].token) THEN "charge" ELSE "save"
           /\ changers'[c].token = changers[c].token /\ changers'[c].key = changers[c].key
           /\ changers'[c].date = changers[c].date
           /\ changers'[c].seen = subs[SubOf(c)] /\ changers'[c].plan = plans[SubOf(c)]
<1> DEFINE old == changers[c]
           pc == IF MustPay(changers[c].token) THEN "charge" ELSE "save"
           sub == subs[SubOf(c)]
           plan == plans[SubOf(c)]
           waits == [changers EXCEPT ![c].pc = pc]
           sees == [waits EXCEPT ![c].seen = sub]
<1>1. /\ old.pc = "lock" /\ old.token \in Tokens /\ old.key \in ChangeKeys
      /\ SubOf(c) \in Subs /\ changers \in [Changers -> Changer] /\ old \in Changer
  BY DEF ChangeLock, AdjustDocsOK, AdjustTypeOK, ChangersOK, Changer
<1>2. changers' = [sees EXCEPT ![c].plan = plan]
  BY DEF ChangeLock
<1>3. sub \in Subscription /\ plan \in PlanDoc
  BY <1>1 DEF AdjustDocsOK, AdjustTypeOK, PlansOK
<1>4. pc \in {"charge", "save"}
  OBVIOUS
<1> HIDE DEF pc, sub, plan
<1>5. /\ waits \in [Changers -> Changer] /\ \A o \in Changers \ {c} : waits[o] = changers[o]
      /\ waits[c].pc = pc /\ waits[c].token = old.token /\ waits[c].key = old.key
      /\ waits[c].date = old.date
  BY <1>1, <1>4 DEF Changer
<1> HIDE DEF waits
<1>6. /\ sees \in [Changers -> Changer] /\ \A o \in Changers \ {c} : sees[o] = changers[o]
      /\ sees[c].pc = pc /\ sees[c].token = old.token /\ sees[c].key = old.key
      /\ sees[c].date = old.date /\ sees[c].seen = sub
  BY <1>3, <1>5 DEF Changer
<1> HIDE DEF sees
<1>7. /\ changers' \in [Changers -> Changer]
      /\ \A o \in Changers \ {c} : changers'[o] = changers[o]
      /\ changers'[c].pc = pc /\ changers'[c].token = old.token /\ changers'[c].key = old.key
      /\ changers'[c].date = old.date /\ changers'[c].seen = sub /\ changers'[c].plan = plan
  BY <1>2, <1>3, <1>6 DEF Changer
<1> QED
  BY <1>1, <1>7 DEF pc, sub, plan

\* A process works on a change as before, or has taken its lock, or has learnt
\* what became of its charge; otherwise it is not under its lock.
LEMMA ChangerMoves ==
    ASSUME AdjustDocsOK, AdjustNext
    PROVE  /\ changers' \in [Changers -> Changer]
           /\ \A c \in Changers : changers'[c].pc # "idle" =>
                 /\ changers'[c].token \in Tokens /\ changers'[c].key \in ChangeKeys
                 /\ previews[changers'[c].token].sub \in Subs
           /\ \A c \in Changers : Executes(c)' =>
                 \/ ChangeLock(c)
                 \/ /\ Executes(c)
                    /\ changers'[c].token = changers[c].token
                    /\ changers'[c].key = changers[c].key
                    /\ changers'[c].date = changers[c].date
                    /\ changers'[c].seen = changers[c].seen
                    /\ changers'[c].plan = changers[c].plan
                    /\ changers'[c].pc = "save" => changers[c].pc = "save"
                    /\ changers'[c].pc = "paid" =>
                          changers[c].pc = "paid" \/ changers[c].token \in upgraded'
<1>t. /\ changers \in [Changers -> Changer]
      /\ \A c \in Changers : changers[c].pc # "idle" =>
            /\ changers[c].token \in Tokens /\ changers[c].key \in ChangeKeys
            /\ previews[changers[c].token].sub \in Subs
  BY DEF AdjustDocsOK, AdjustTypeOK, ChangersOK, Changer, SubOf
<1>1. CASE UNCHANGED changers
  BY <1>t, <1>1 DEF Executes
<1>2. ASSUME NEW c \in Changers, NEW t \in Tokens, NEW k \in ChangeKeys, ChangeStart(c, t, k)
      PROVE  /\ changers' \in [Changers -> Changer]
             /\ \A o \in Changers \ {c} : changers'[o] = changers[o]
             /\ changers'[c].pc = "lock" /\ changers'[c].token = t /\ changers'[c].key = k
             /\ previews[t].sub \in Subs
  BY <1>2, ChangeStarts
<1>3. CASE \E c \in Changers, t \in Tokens, k \in ChangeKeys : ChangeStart(c, t, k)
  BY <1>t, <1>2, <1>3 DEF Executes
<1>4. CASE \E c \in Changers : ChangeLock(c)
  <2> PICK c \in Changers : ChangeLock(c)
    BY <1>4
  <2>1. /\ changers[c].pc = "lock"
        /\ changers' \in [Changers -> Changer]
        /\ \A o \in Changers \ {c} : changers'[o] = changers[o]
        /\ changers'[c].token = changers[c].token /\ changers'[c].key = changers[c].key
    BY ChangeLocks
  <2> QED
    BY <1>t, <2>1 DEF Executes
<1>5. CASE \E c \in Changers : ChangeCharged(c) \/ ChangeNotCharged(c)
  <2> PICK c \in Changers : ChangeCharged(c) \/ ChangeNotCharged(c)
    BY <1>5
  <2>1. PICK outcome \in {"paid", "failed"} :
           /\ changers' = [changers EXCEPT ![c].pc = outcome]
           /\ outcome = "paid" => changers[c].token \in upgraded'
    BY DEF ChangeCharged, ChangeNotCharged
  <2>2. changers[c].pc = "charge"
    BY DEF ChangeCharged, ChangeNotCharged
  <2>3. /\ changers' \in [Changers -> Changer]
        /\ \A o \in Changers : /\ changers'[o].token = changers[o].token
                               /\ changers'[o].key = changers[o].key
                               /\ changers'[o].date = changers[o].date
                               /\ changers'[o].seen = changers[o].seen
                               /\ changers'[o].plan = changers[o].plan
                               /\ changers'[o].pc = IF o = c THEN outcome ELSE changers[o].pc
    BY <1>t, <2>1 DEF Changer
  <2> QED
    BY <1>t, <2>1, <2>2, <2>3 DEF Executes
<1>6. ASSUME NEW c \in Changers, changers' = [changers EXCEPT ![c] = ChangerIdle]
      PROVE  /\ changers' \in [Changers -> Changer]
             /\ \A o \in Changers \ {c} : changers'[o] = changers[o]
             /\ changers'[c].pc = "idle"
  <2>1. ChangerIdle \in Changer /\ ChangerIdle.pc = "idle"
    BY PlanAssumption, Calendar
    DEF ChangerIdle, Changer, OnlyPlan, PlanDoc, Subscription, SubStatus, Moments
  <2> HIDE DEF ChangerIdle
  <2> QED
    BY <1>t, <1>6, <2>1
<1>7. CASE \E c \in Changers : \/ ChangeTurnedAway(c) \/ ChangeSave(c) \/ ChangeFailed(c)
                               \/ ChangeAborted(c) \/ ChangeCrash(c)
  <2> PICK c \in Changers : changers' = [changers EXCEPT ![c] = ChangerIdle]
    BY <1>7 DEF ChangeTurnedAway, ChangeSave, ChangeFailed, ChangeAborted, ChangeCrash, ChangeDone
  <2> QED
    BY <1>t, <1>6 DEF Executes
<1>8. CASE \/ \E t \in Tokens, s \in Subs, p \in Plans : PreviewChange(t, s, p)
           \/ \E s \in Subs : EditLockLapse(s)
           \/ \E k \in ChangeKeys : ChangeKeyTtl(k)
  BY <1>1, <1>8 DEF PreviewChange, EditLockLapse, ChangeKeyTtl
<1>9. CASE PlanStep
  BY <1>3, <1>4, <1>5, <1>7, <1>8, <1>9 DEF PlanStep, ChangeStep
<1> QED
  BY <1>1, <1>9, AdjustSteps DEF BillingStep, AdminStep, requestVars

\* A key is taken with its lock, gets its answer from the process that has it,
\* or is deleted while nobody works on it.
LEMMA KeyMoves ==
    ASSUME AdjustDocsOK, AdjustNext
    PROVE  /\ changeKeys' \in [ChangeKeys -> [status : ChangeKeyStatus, token : Tokens \cup {NoToken}]]
           /\ \A k \in ChangeKeys :
                 \/ changeKeys'[k] = changeKeys[k]
                 \/ /\ changeKeys'[k].status = "none" /\ UNCHANGED changers
                    /\ \A c \in Changers : changers[c].key # k
                 \/ \E c \in Changers : ChangeLock(c) /\ changers[c].key = k
                 \/ \E c \in Changers :
                       /\ Executes(c) /\ changers[c].key = k /\ changers'[c].pc = "idle"
                       /\ changeKeys'[k].token = changeKeys[k].token
                       /\ changeKeys'[k].status = "succeeded" => changers[c].pc \in {"save", "paid"}
           /\ \A c \in Changers : ChangeLock(c) =>
                 /\ changeKeys[changers[c].key].status = "none"
                 /\ changeKeys'[changers[c].key] =
                       [status |-> "processing", token |-> changers[c].token]
<1> DEFINE Key == [status : ChangeKeyStatus, token : Tokens \cup {NoToken}]
<1>t. /\ changeKeys \in [ChangeKeys -> Key] /\ changers \in [Changers -> Changer]
      /\ \A c \in Changers : changers[c].pc # "idle" =>
            /\ changers[c].token \in Tokens /\ changers[c].key \in ChangeKeys
  BY DEF AdjustDocsOK, AdjustTypeOK, ChangersOK, Changer
<1>1. ASSUME NEW c \in Changers, ChangeLock(c)
      PROVE  /\ changeKeys' \in [ChangeKeys -> Key]
             /\ \A k \in ChangeKeys \ {changers[c].key} : changeKeys'[k] = changeKeys[k]
             /\ changeKeys[changers[c].key].status = "none"
             /\ changeKeys'[changers[c].key] =
                       [status |-> "processing", token |-> changers[c].token]
  BY <1>t, <1>1 DEF ChangeLock, Executable, ChangeKeyStatus
<1>2. CASE UNCHANGED changeKeys
  <2>1. \A c \in Changers : ~ChangeLock(c)
    <3> SUFFICES ASSUME NEW c \in Changers, ChangeLock(c) PROVE FALSE
      OBVIOUS
    <3>1. /\ changeKeys[changers[c].key].status = "none"
          /\ changeKeys'[changers[c].key] =
                [status |-> "processing", token |-> changers[c].token]
      BY <1>1
    <3>2. changeKeys'[changers[c].key].status = "processing"
      BY <3>1
    <3>3. changeKeys'[changers[c].key].status = changeKeys[changers[c].key].status
      BY <1>2
    <3> QED
      BY <3>1, <3>2, <3>3
  <2> QED
    BY <1>t, <1>2, <2>1
<1>3. ASSUME NEW c \in Changers, ChangeSave(c) \/ ChangeFailed(c)
      PROVE  /\ changeKeys' \in [ChangeKeys -> Key]
             /\ \A o \in Changers : ~ChangeLock(o)
             /\ Executes(c) /\ changers'[c].pc = "idle"
             /\ \A k \in ChangeKeys \ {changers[c].key} : changeKeys'[k] = changeKeys[k]
             /\ changeKeys'[changers[c].key].token = changeKeys[changers[c].key].token
             /\ changeKeys'[changers[c].key].status = "succeeded" =>
                   changers[c].pc \in {"save", "paid"}
  <2>1. PICK status \in {"succeeded", "failed"} :
           /\ changeKeys' = [changeKeys EXCEPT ![changers[c].key].status = status]
           /\ status = "succeeded" => changers[c].pc \in {"save", "paid"}
    BY <1>3 DEF ChangeSave, ChangeFailed, SaveChangeKey
  <2>2. changers[c].pc \in {"paid", "failed", "save"} /\ changers' = [changers EXCEPT ![c] = ChangerIdle]
    BY <1>3 DEF ChangeSave, ChangeFailed, ChangeDone
  <2>3. changers[c].key \in ChangeKeys
    BY <1>t, <2>2
  <2>4. changers'[c].pc = "idle"
    BY <1>t, <2>2 DEF ChangerIdle
  <2>5. ASSUME NEW o \in Changers, ChangeLock(o) PROVE FALSE
    <3>1. changers'[o].pc \in {"charge", "save"} /\ \A x \in Changers \ {o} : changers'[x] = changers[x]
      BY <2>5, ChangeLocks
    <3>2. changers[o].pc = "lock"
      BY <2>5, ChangeLocks
    <3> QED
      BY <2>2, <2>4, <3>1, <3>2
  <2> QED
    BY <1>t, <2>1, <2>2, <2>3, <2>4, <2>5 DEF Executes, ChangeKeyStatus
<1>4. ASSUME NEW k \in ChangeKeys, ChangeKeyTtl(k)
      PROVE  /\ changeKeys' \in [ChangeKeys -> Key]
             /\ \A o \in ChangeKeys \ {k} : changeKeys'[o] = changeKeys[o]
             /\ changeKeys'[k].status = "none" /\ UNCHANGED changers
             /\ \A c \in Changers : changers[c].key # k
             /\ \A c \in Changers : ~ChangeLock(c)
  <2>1. changeKeys' = [changeKeys EXCEPT ![k] = NoChangeKey] /\ UNCHANGED changers
        /\ \A c \in Changers : changers[c].key # k
    BY <1>4 DEF ChangeKeyTtl
  <2>2. ASSUME NEW o \in Changers, ChangeLock(o) PROVE FALSE
    <3>1. changers'[o].pc \in {"charge", "save"} /\ changers[o].pc = "lock"
      BY <2>2, ChangeLocks
    <3> QED
      BY <2>1, <3>1
  <2> QED
    BY <1>t, <2>1, <2>2 DEF NoChangeKey, ChangeKeyStatus
<1> HIDE DEF Key
<1>5. CASE \E c \in Changers : ChangeLock(c)
  <2> PICK c \in Changers : ChangeLock(c)
    BY <1>5
  <2>1. /\ changeKeys' \in [ChangeKeys -> Key]
        /\ \A k \in ChangeKeys : changeKeys'[k] = changeKeys[k] \/ changers[c].key = k
    BY <1>1
  <2> QED
    BY <1>1, <2>1 DEF Key
<1>6. CASE \E c \in Changers : ChangeSave(c) \/ ChangeFailed(c)
  <2> PICK c \in Changers : ChangeSave(c) \/ ChangeFailed(c)
    BY <1>6
  <2> QED
    BY <1>3 DEF Key
<1>7. CASE \E k \in ChangeKeys : ChangeKeyTtl(k)
  <2> PICK k \in ChangeKeys : ChangeKeyTtl(k)
    BY <1>7
  <2> QED
    BY <1>4 DEF Key
<1>8. CASE PlanStep
  <2>1. CASE \/ \E t \in Tokens, s \in Subs, p \in Plans : PreviewChange(t, s, p)
             \/ \E c \in Changers, t \in Tokens, k \in ChangeKeys : ChangeStart(c, t, k)
             \/ \E s \in Subs : EditLockLapse(s)
    BY <1>2, <2>1 DEF PreviewChange, ChangeStart, EditLockLapse
  <2>2. CASE \E c \in Changers : \/ ChangeTurnedAway(c) \/ ChangeCharged(c) \/ ChangeNotCharged(c)
                                 \/ ChangeAborted(c) \/ ChangeCrash(c)
    BY <1>2, <2>2 DEF ChangeTurnedAway, ChangeCharged, ChangeNotCharged, ChangeAborted, ChangeCrash
  <2> QED
    BY <1>5, <1>6, <1>7, <1>8, <2>1, <2>2 DEF PlanStep, ChangeStep
<1> QED
  BY <1>2, <1>8, AdjustSteps DEF BillingStep, AdminStep, requestVars

\* The record of a process that works on an adjustment.
Adjuster == [pc : AdjustPc, sub : Subs \cup {NoSub}, key : AdjustKeys \cup {NoKey},
             date : Dates, paid : ChargeKeys \cup {Waived}, doc : Subscription, plan : PlanDoc]

\* Every adjustment begins with the subscription as it is under the lock, and
\* one that asks nobody is of a subscription that renews.
LEMMA AdjustBegins ==
    ASSUME AdjustDocsOK, NEW a \in Adjusters, NEW s \in Subs, NEW k \in AdjustKeys,
           AdjustRequest(a, s, k)
    PROVE  \E pc \in {"ask", "save"}, doc \in Subscription, d \in Dates, paid \in {NoKey, Waived} :
              /\ AdjustStart(a, s, k, pc, doc, d, paid)
              /\ pc = "save" => Renewing(s)
              /\ pc = "ask" => doc = subs[s]
<1> DEFINE sub == subs[s]
<1>1. sub \in Subscription /\ 0 \in Dates /\ now \in Nat
  BY Calendar DEF AdjustDocsOK, AdjustTypeOK
<1>2. /\ \A t \in Nat : [sub EXCEPT !.next = t] \in Subscription
      /\ [sub EXCEPT !.status = "canceled", !.next = Never] \in Subscription
      /\ \A status \in {"active", "cancel_scheduled"} : [sub EXCEPT !.status = status] \in Subscription
  <2> HIDE DEF sub
  <2> QED
    BY <1>1 DEF Subscription, SubStatus, Moments
<1>3. ASSUME Postpone(a, s, k)
      PROVE  Renewing(s) /\ \E doc \in Subscription : AdjustStart(a, s, k, "save", doc, 0, NoKey)
  <2>1. PICK t \in PostponeBy :
           AdjustStart(a, s, k, "save", [sub EXCEPT !.next = sub.next + t], 0, NoKey)
    BY <1>3 DEF Postpone
  <2>2. sub.next \in Nat /\ t \in Nat
    BY <1>1, <1>3, AdjustAssumption DEF Postpone, Subscription, Moments
  <2>3. sub.next + t \in Nat
    BY <2>2
  <2> QED
    BY <1>2, <1>3, <2>1, <2>3 DEF Postpone
<1>4. ASSUME SetNextBilling(a, s, k)
      PROVE  Renewing(s) /\ \E doc \in Subscription : AdjustStart(a, s, k, "save", doc, 0, NoKey)
  <2>1. PICK t \in now + 1 .. Horizon :
           AdjustStart(a, s, k, "save", [sub EXCEPT !.next = t], 0, NoKey)
    BY <1>4 DEF SetNextBilling
  <2>2. t \in Nat
    BY <1>1, AdjustAssumption
  <2> QED
    BY <1>2, <1>4, <2>1, <2>2 DEF SetNextBilling
<1>5. ASSUME OverrideStatus(a, s, k)
      PROVE  Renewing(s) /\ \E doc \in Subscription : AdjustStart(a, s, k, "save", doc, 0, NoKey)
  BY <1>2, <1>5 DEF OverrideStatus, Renewing
<1>6. ASSUME NEW d \in Dates, ClearFailure(a, s, k, d)
      PROVE  Renewing(s) /\ \E doc \in Subscription : AdjustStart(a, s, k, "save", doc, d, Waived)
  BY <1>2, <1>6 DEF ClearFailure, Renewing
<1>7. ASSUME NEW d \in Dates, AskGateway(a, s, k, d)
      PROVE  AdjustStart(a, s, k, "ask", sub, d, NoKey)
  BY <1>7 DEF AskGateway
<1> QED
  BY <1>1, <1>3, <1>4, <1>5, <1>6, <1>7 DEF AdjustRequest

\* What the first step of an adjustment keeps.
LEMMA AdjustStarts ==
    ASSUME AdjustDocsOK, NEW a \in Adjusters, NEW s \in Subs, NEW k \in AdjustKeys,
           NEW pc \in {"ask", "save"}, NEW doc \in Subscription, NEW d \in Dates,
           NEW paid \in {NoKey, Waived}, AdjustStart(a, s, k, pc, doc, d, paid)
    PROVE  /\ adjusters' \in [Adjusters -> Adjuster]
           /\ \A o \in Adjusters \ {a} : adjusters'[o] = adjusters[o]
           /\ adjusters'[a].pc = pc /\ adjusters'[a].sub = s /\ adjusters'[a].key = k
           /\ adjusters'[a].paid = paid /\ adjusters'[a].doc = doc
           /\ adjusters'[a].plan = plans[s]
           /\ ~Adjusts(a) /\ editLock[s] = Nobody
           /\ editLock' = [editLock EXCEPT ![s] = a]
           /\ adjustKeys' = [adjustKeys EXCEPT ![k] = "processing"]
           /\ UNCHANGED <<subs, cycles, plans>>
<1>1. adjusters \in [Adjusters -> Adjuster] /\ plans[s] \in PlanDoc
  BY DEF AdjustDocsOK, AdjustTypeOK, PlansOK, Adjuster
<1>2. adjusters' = [adjusters EXCEPT ![a] = [pc |-> pc, sub |-> s, key |-> k, date |-> d,
                                             paid |-> paid, doc |-> doc, plan |-> plans[s]]]
  BY DEF AdjustStart
<1>3. [pc |-> pc, sub |-> s, key |-> k, date |-> d, paid |-> paid, doc |-> doc,
       plan |-> plans[s]] \in Adjuster
  BY <1>1 DEF Adjuster, AdjustPc, ChargeKeys
<1>4. /\ ~Adjusts(a) /\ editLock[s] = Nobody
      /\ editLock' = [editLock EXCEPT ![s] = a]
      /\ adjustKeys' = [adjustKeys EXCEPT ![k] = "processing"]
      /\ UNCHANGED <<subs, cycles, plans>>
  BY DEF AdjustStart, Adjustable, Adjusts, vars
<1> QED
  BY <1>1, <1>2, <1>3, <1>4

\* An answer of the gateway makes the adjustment one of a renewed subscription.
LEMMA GatewayAnswers ==
    ASSUME AdjustDocsOK, NEW a \in Adjusters, GatewayDone(a)
    PROVE  /\ adjusters' \in [Adjusters -> Adjuster]
           /\ \A o \in Adjusters \ {a} : adjusters'[o] = adjusters[o]
           /\ adjusters[a].pc = "ask" /\ adjusters[a].doc.status \in {"active", "past_due"}
           /\ adjusters[a].sub \in Subs
           /\ adjusters'[a].pc = "save" /\ adjusters'[a].sub = adjusters[a].sub
           /\ adjusters'[a].key = adjusters[a].key
           /\ adjusters'[a].date = adjusters[a].date
           /\ adjusters'[a].paid = ChargedFor(adjusters[a].sub, adjusters[a].date)
           /\ adjusters'[a].plan = adjusters[a].plan
           /\ UNCHANGED <<subs, cycles, plans, editLock, adjustKeys>>
<1> DEFINE s == adjusters[a].sub
           d == adjusters[a].date
           key == ChargedFor(s, d)
           asked == [adjusters EXCEPT ![a].pc = "save"]
           paid == [asked EXCEPT ![a].paid = key]
<1>1. /\ adjusters \in [Adjusters -> Adjuster] /\ s \in Subs /\ d \in Dates
      /\ adjusters[a].pc = "ask" /\ adjusters[a].doc.status \in {"active", "past_due"}
  BY DEF GatewayDone, AdjustDocsOK, AdjustTypeOK, Adjuster, Adjusts
<1>2. key \in ChargeKeys \cup {Waived}
  <2>1. cycles[s][d].paidWith \in ChargeKeys \cup {Waived} /\ lost[s][d] \in ChargeKeys
    BY <1>1 DEF AdjustDocsOK, AdjustTypeOK, AdjustCycle
  <2> QED
    BY <2>1 DEF ChargedFor
<1>3. PICK approved \in DayStart(d) .. now :
         adjusters' = [paid EXCEPT ![a].doc =
            [status |-> "active", end |-> approved + Period, next |-> approved + Period]]
  BY DEF GatewayDone
<1> DEFINE doc == [status |-> "active", end |-> approved + Period, next |-> approved + Period]
<1>4. doc \in Subscription
  <2>1. DayStart(d) \in Nat /\ now \in Nat /\ Period \in Nat
    BY <1>1, Calendar DEF AdjustDocsOK, AdjustTypeOK
  <2>2. approved + Period \in Nat
    BY <2>1
  <2> QED
    BY <2>2 DEF Subscription, SubStatus, Moments
<1>5. UNCHANGED <<subs, cycles, plans, editLock, adjustKeys>>
  BY DEF GatewayDone, allVars, changeVars, requestVars, vars
<1> HIDE DEF doc, key
<1>6. /\ asked \in [Adjusters -> Adjuster]
      /\ \A o \in Adjusters \ {a} : asked[o] = adjusters[o]
      /\ asked[a].pc = "save" /\ asked[a].sub = s /\ asked[a].date = d
      /\ asked[a].plan = adjusters[a].plan /\ asked[a].key = adjusters[a].key
  BY <1>1 DEF Adjuster, AdjustPc
<1> HIDE DEF asked
<1>7. /\ paid \in [Adjusters -> Adjuster]
      /\ \A o \in Adjusters \ {a} : paid[o] = adjusters[o]
      /\ paid[a].pc = "save" /\ paid[a].sub = s /\ paid[a].date = d
      /\ paid[a].plan = adjusters[a].plan /\ paid[a].key = adjusters[a].key
      /\ paid[a].paid = key
  BY <1>2, <1>6 DEF Adjuster
<1> HIDE DEF paid
<1>8. /\ adjusters' \in [Adjusters -> Adjuster]
      /\ \A o \in Adjusters \ {a} : adjusters'[o] = adjusters[o]
      /\ adjusters'[a].pc = "save" /\ adjusters'[a].sub = s /\ adjusters'[a].date = d
      /\ adjusters'[a].plan = adjusters[a].plan /\ adjusters'[a].key = adjusters[a].key
      /\ adjusters'[a].paid = key
  BY <1>3, <1>4, <1>7 DEF Adjuster, doc
<1> QED
  BY <1>1, <1>5, <1>8 DEF key

\* The steps in which an adjustment ends.
AdjustEnds(a) == GatewayRefuses(a) \/ AdjustSave(a) \/ AdjustAborted(a) \/ AdjustCrash(a)

\* They leave the process idle.
LEMMA AdjustStops ==
    ASSUME AdjustDocsOK, NEW a \in Adjusters, AdjustEnds(a)
    PROVE  /\ adjusters' \in [Adjusters -> Adjuster]
           /\ \A o \in Adjusters \ {a} : adjusters'[o] = adjusters[o]
           /\ adjusters'[a].pc = "idle" /\ Adjusts(a)
<1>1. adjusters \in [Adjusters -> Adjuster]
  BY DEF AdjustDocsOK, AdjustTypeOK, Adjuster
<1>2. AdjusterIdle \in Adjuster /\ AdjusterIdle.pc = "idle"
  BY PlanAssumption, Calendar
  DEF AdjusterIdle, Adjuster, AdjustPc, ChargeKeys, OnlyPlan, PlanDoc, Subscription,
      SubStatus, Moments
<1>3. adjusters' = [adjusters EXCEPT ![a] = AdjusterIdle] /\ Adjusts(a)
  BY DEF AdjustEnds, GatewayRefuses, AdjustSave, AdjustAborted, AdjustCrash, AdjustDone, Adjusts
<1> HIDE DEF AdjusterIdle
<1> QED
  BY <1>1, <1>2, <1>3

\* An adjustment goes on as before, is answered by the gateway, or begins.
LEMMA AdjusterMoves ==
    ASSUME AdjustDocsOK, AdjustNext
    PROVE  /\ adjusters' \in [Adjusters -> Adjuster]
           /\ \A a \in Adjusters : Adjusts(a)' =>
                 /\ adjusters'[a].sub \in Subs /\ adjusters'[a].key \in AdjustKeys
                 /\ \/ Adjusts(a) /\ adjusters'[a] = adjusters[a]
                    \/ GatewayDone(a)
                    \/ /\ UNCHANGED <<subs, cycles, plans, runs, held, taken, changers, previews, upgraded>>
                       /\ adjusters'[a].plan = plans[adjusters'[a].sub]
                       /\ adjusters'[a].paid \in {NoKey, Waived}
                       /\ editLock[adjusters'[a].sub] = Nobody
                       /\ editLock'[adjusters'[a].sub] = a
                       /\ adjusters'[a].pc = "save" => Renewing(adjusters'[a].sub)
                       /\ adjusters'[a].pc = "ask" =>
                             adjusters'[a].doc = subs[adjusters'[a].sub]
<1>t. /\ adjusters \in [Adjusters -> Adjuster]
      /\ \A a \in Adjusters : Adjusts(a) =>
            adjusters[a].sub \in Subs /\ adjusters[a].key \in AdjustKeys
      /\ editLock \in [Subs -> Changers \cup Adjusters \cup {Nobody, Gone}]
  BY DEF AdjustDocsOK, AdjustTypeOK, Adjuster, EditLockOK
<1>1. CASE UNCHANGED adjusters
  BY <1>t, <1>1 DEF Adjusts
<1>2. CASE AdminStep /\ \E a \in Adjusters, s \in Subs, k \in AdjustKeys : AdjustRequest(a, s, k)
  <2> PICK a \in Adjusters, s \in Subs, k \in AdjustKeys : AdjustRequest(a, s, k)
    BY <1>2
  <2> PICK pc \in {"ask", "save"}, doc \in Subscription, d \in Dates, paid \in {NoKey, Waived} :
         /\ AdjustStart(a, s, k, pc, doc, d, paid)
         /\ pc = "save" => Renewing(s)
         /\ pc = "ask" => doc = subs[s]
    BY AdjustBegins
  <2>1. /\ adjusters' \in [Adjusters -> Adjuster]
        /\ \A o \in Adjusters \ {a} : adjusters'[o] = adjusters[o]
        /\ adjusters'[a].pc = pc /\ adjusters'[a].sub = s /\ adjusters'[a].key = k
        /\ adjusters'[a].paid = paid /\ adjusters'[a].doc = doc
        /\ adjusters'[a].plan = plans[s]
        /\ editLock[s] = Nobody
        /\ editLock' = [editLock EXCEPT ![s] = a]
        /\ UNCHANGED <<subs, cycles, plans>>
    BY AdjustStarts
  <2>2. UNCHANGED <<runs, held, taken, changers, previews, upgraded>>
    BY <1>2 DEF AdminStep
  <2>3. editLock'[s] = a
    BY <1>t, <2>1
  <2> QED
    BY <1>t, <2>1, <2>2, <2>3 DEF Adjusts
<1>3. CASE \E a \in Adjusters : GatewayDone(a)
  <2> PICK a \in Adjusters : GatewayDone(a)
    BY <1>3
  <2>1. /\ adjusters' \in [Adjusters -> Adjuster]
        /\ \A o \in Adjusters \ {a} : adjusters'[o] = adjusters[o]
        /\ adjusters[a].pc = "ask"
        /\ adjusters'[a].sub = adjusters[a].sub /\ adjusters'[a].key = adjusters[a].key
    BY GatewayAnswers
  <2> QED
    BY <1>t, <2>1 DEF Adjusts
<1>4. CASE \E a \in Adjusters : AdjustEnds(a)
  <2> PICK a \in Adjusters : AdjustEnds(a)
    BY <1>4
  <2>1. /\ adjusters' \in [Adjusters -> Adjuster]
        /\ \A o \in Adjusters \ {a} : adjusters'[o] = adjusters[o]
        /\ adjusters'[a].pc = "idle"
    BY AdjustStops
  <2> QED
    BY <1>t, <2>1 DEF Adjusts
<1>5. CASE AdminStep
  BY <1>2, <1>3, <1>4, <1>5 DEF AdminStep, AdjustStep, AdjustEnds
<1> QED
  BY <1>1, <1>5, AdjustSteps DEF BillingStep, PlanStep, adjustVars

\* A lock goes only with its owner, unless it lapses under it.
LEMMA EditLockMoves ==
    ASSUME AdjustDocsOK, AdjustNext
    PROVE  /\ editLock' \in [Subs -> Changers \cup Adjusters \cup {Nobody, Gone}]
           /\ \A s \in Subs :
                 \/ editLock'[s] = editLock[s]
                 \/ editLock[s] \in {Nobody, Gone}
                 \/ s \in overrun'
                 \/ editLock[s] \in Changers /\ changers'[editLock[s]].pc = "idle"
                 \/ editLock[s] \in Adjusters /\ adjusters'[editLock[s]].pc = "idle"
           /\ \A c \in Changers : ChangeLock(c) =>
                 editLock[SubOf(c)] = Nobody /\ editLock'[SubOf(c)] = c
<1> DEFINE Owners == Changers \cup Adjusters \cup {Nobody, Gone}
<1>t. /\ editLock \in [Subs -> Owners]
      /\ changers \in [Changers -> Changer]
      /\ \A c \in Changers : changers[c].pc # "idle" => SubOf(c) \in Subs
      /\ \A a \in Adjusters : Adjusts(a) => adjusters[a].sub \in Subs
      /\ adjusters \in [Adjusters -> Adjuster]
      /\ overrun \subseteq Subs
  BY DEF AdjustDocsOK, AdjustTypeOK, ChangersOK, EditLockOK, Changer, Adjuster
<1>0. ASSUME NEW c \in Changers, ChangeLock(c)
      PROVE  /\ editLock' \in [Subs -> Owners]
             /\ \A s \in Subs \ {SubOf(c)} : editLock'[s] = editLock[s]
             /\ editLock[SubOf(c)] = Nobody /\ editLock'[SubOf(c)] = c
             /\ \A o \in Changers : ChangeLock(o) => o = c
  <2>1. /\ SubOf(c) \in Subs
        /\ \A o \in Changers \ {c} : changers'[o] = changers[o]
    BY <1>0, ChangeLocks
  <2>2. ASSUME NEW o \in Changers, ChangeLock(o) PROVE o = c
    <3>1. changers[o].pc = "lock" /\ changers'[o].pc \in {"charge", "save"}
      BY <2>2, ChangeLocks
    <3> QED
      BY <2>1, <3>1
  <2>3. editLock' = [editLock EXCEPT ![SubOf(c)] = c] /\ editLock[SubOf(c)] = Nobody
    BY <1>0 DEF ChangeLock
  <2> QED
    BY <1>t, <2>1, <2>2, <2>3
<1>1. CASE \E c \in Changers : ChangeLock(c)
  BY <1>0, <1>1
<1>n. ASSUME UNCHANGED editLock, NEW c \in Changers, ChangeLock(c) PROVE FALSE
  <2>1. editLock[SubOf(c)] = Nobody /\ editLock'[SubOf(c)] = c
    BY <1>0, <1>n
  <2> QED
    BY <1>n, <2>1, ChangerAssumption
<1>2. CASE UNCHANGED editLock
  BY <1>t, <1>2, <1>n
<1>i. ASSUME NEW c \in Changers, NEW o \in Changers, ChangeLock(o),
             changers' = [changers EXCEPT ![c] = ChangerIdle], changers[c].pc # "lock"
      PROVE  FALSE
  <2>1. changers[o].pc = "lock" /\ changers'[o].pc \in {"charge", "save"}
    BY <1>i, ChangeLocks
  <2> QED
    BY <1>t, <1>i, <2>1
<1>3. ASSUME NEW c \in Changers, ChangeDone(c), changers[c].pc \notin {"idle", "lock"}
      PROVE  /\ editLock' \in [Subs -> Owners]
             /\ \A s \in Subs : editLock'[s] = editLock[s] \/ editLock[s] = c
             /\ changers'[c].pc = "idle"
             /\ \A o \in Changers : ~ChangeLock(o)
  <2>1. /\ editLock' = [editLock EXCEPT ![SubOf(c)] = IF @ = c THEN Nobody ELSE @]
        /\ changers' = [changers EXCEPT ![c] = ChangerIdle]
    BY <1>3 DEF ChangeDone
  <2>2. \A o \in Changers : ~ChangeLock(o)
    BY <1>3, <1>i, <2>1
  <2>3. changers'[c].pc = "idle"
    BY <1>t, <2>1 DEF ChangerIdle
  <2> QED
    BY <1>t, <2>1, <2>2, <2>3
<1>4. CASE \E c \in Changers : ChangeSave(c) \/ ChangeFailed(c) \/ ChangeAborted(c)
  <2> PICK c \in Changers : ChangeDone(c) /\ changers[c].pc \notin {"idle", "lock"}
    BY <1>4 DEF ChangeSave, ChangeFailed, ChangeAborted
  <2> QED
    BY <1>3, <1>t
<1>5. CASE \E c \in Changers : ChangeCrash(c)
  <2> PICK c \in Changers : ChangeCrash(c)
    BY <1>5
  <2>1. /\ editLock' = [s \in Subs |-> IF editLock[s] = c THEN Gone ELSE editLock[s]]
        /\ changers' = [changers EXCEPT ![c] = ChangerIdle]
    BY DEF ChangeCrash
  <2>2. changers'[c].pc = "idle"
    BY <1>t, <2>1 DEF ChangerIdle
  <2>3. ASSUME NEW o \in Changers, ChangeLock(o) PROVE FALSE
    <3>1. /\ editLock[SubOf(o)] = Nobody /\ editLock'[SubOf(o)] = o
          /\ SubOf(o) \in Subs
      BY <1>0, <2>3, ChangeLocks
    <3> QED
      BY <2>1, <3>1, ChangerAssumption
  <2> QED
    BY <1>t, <2>1, <2>2, <2>3
<1>6. CASE \E s \in Subs : EditLockLapse(s)
  <2> PICK s \in Subs : EditLockLapse(s)
    BY <1>6
  <2>1. /\ editLock' = [editLock EXCEPT ![s] = Nobody]
        /\ editLock[s] = Gone \/ s \in overrun'
    BY DEF EditLockLapse
  <2>2. ASSUME NEW o \in Changers, ChangeLock(o) PROVE FALSE
    <3>1. changers[o].pc = "lock" /\ changers'[o].pc \in {"charge", "save"}
      BY <2>2, ChangeLocks
    <3> QED
      BY <3>1 DEF EditLockLapse
  <2> QED
    BY <1>t, <2>1, <2>2
<1>7. CASE PlanStep
  <2>1. CASE \/ \E t \in Tokens, s \in Subs, p \in Plans : PreviewChange(t, s, p)
             \/ \E c \in Changers, t \in Tokens, k \in ChangeKeys : ChangeStart(c, t, k)
             \/ \E k \in ChangeKeys : ChangeKeyTtl(k)
    BY <1>2, <2>1 DEF PreviewChange, ChangeStart, ChangeKeyTtl
  <2>2. CASE \E c \in Changers : ChangeTurnedAway(c) \/ ChangeCharged(c) \/ ChangeNotCharged(c)
    BY <1>2, <2>2 DEF ChangeTurnedAway, ChangeCharged, ChangeNotCharged
  <2> QED
    BY <1>1, <1>4, <1>5, <1>6, <1>7, <2>1, <2>2 DEF PlanStep, ChangeStep
<1>8. CASE AdminStep
  <2>u. UNCHANGED changers
    BY <1>8 DEF AdminStep
  <2>n. ASSUME NEW o \in Changers, ChangeLock(o) PROVE FALSE
    <3>1. changers[o].pc = "lock" /\ changers'[o].pc \in {"charge", "save"}
      BY <2>n, ChangeLocks
    <3> QED
      BY <2>u, <3>1
  <2>1. CASE \E a \in Adjusters, s \in Subs, k \in AdjustKeys : AdjustRequest(a, s, k)
    <3> PICK a \in Adjusters, s \in Subs, k \in AdjustKeys : AdjustRequest(a, s, k)
      BY <2>1
    <3>1. editLock[s] = Nobody /\ editLock' = [editLock EXCEPT ![s] = a]
      <4> PICK pc \in {"ask", "save"}, doc \in Subscription, d \in Dates, paid \in {NoKey, Waived} :
                 AdjustStart(a, s, k, pc, doc, d, paid)
        BY AdjustBegins
      <4> QED
        BY DEF AdjustStart, Adjustable
    <3> QED
      BY <1>t, <2>n, <3>1
  <2>2. CASE \E a \in Adjusters : AdjustEnds(a)
    <3> PICK a \in Adjusters : AdjustEnds(a)
      BY <2>2
    <3>1. adjusters'[a].pc = "idle" /\ Adjusts(a)
      BY AdjustStops
    <3>2. /\ editLock' \in [Subs -> Owners]
          /\ \A s \in Subs : editLock'[s] = editLock[s] \/ editLock[s] = a
      <4>1. CASE AdjustDone(a)
        BY <1>t, <3>1, <4>1 DEF AdjustDone
      <4>2. CASE AdjustCrash(a)
        BY <1>t, <4>2 DEF AdjustCrash
      <4> QED
        BY <4>1, <4>2 DEF AdjustEnds, GatewayRefuses, AdjustSave, AdjustAborted
    <3> QED
      BY <1>t, <2>n, <3>1, <3>2
  <2>3. CASE \E a \in Adjusters : GatewayDone(a)
    BY <1>2, <2>3, GatewayAnswers
  <2> QED
    BY <1>8, <2>1, <2>2, <2>3 DEF AdminStep, AdjustStep, AdjustEnds
<1> QED
  BY <1>2, <1>7, <1>8, AdjustSteps DEF BillingStep, requestVars

\* A cycle is stored by a run, a change or an adjustment, each of which
\* names what it was paid with, if it was paid.
LEMMA CycleMoves ==
    ASSUME AdjustDocsOK, AdjustNext
    PROVE  /\ cycles' \in [Subs -> [Dates -> AdjustCycle]]
           /\ \A s \in Subs, d \in Dates :
                 \/ cycles'[s][d] = cycles[s][d]
                 \/ cycles'[s][d].invoice = "issued" /\ cycles'[s][d].paidWith = NoKey
                 \/ /\ cycles'[s][d].invoice = "paid"
                    /\ \/ \E b \in Runs : /\ runs[b].pc = "paid"
                                          /\ runs[b].sub = s /\ runs[b].date = d
                                          /\ cycles'[s][d].paidWith = CycleKey
                       \/ \E c \in Changers : /\ changers[c].pc = "paid"
                                              /\ cycles'[s][d].paidWith = changers[c].token
                       \/ \E a \in Adjusters : /\ adjusters[a].pc = "save"
                                               /\ adjusters[a].sub = s /\ adjusters[a].date = d
                                               /\ adjusters[a].paid # NoKey
                                               /\ cycles'[s][d].paidWith = adjusters[a].paid
<1>t. /\ cycles \in [Subs -> [Dates -> AdjustCycle]]
      /\ \A b \in Runs : runs[b].pc \in Outcomes => runs[b].sub \in Subs
      /\ \A b \in Runs : runs[b].date \in Dates
      /\ changers \in [Changers -> Changer] /\ adjusters \in [Adjusters -> Adjuster]
      /\ \A c \in Changers : changers[c].pc # "idle" =>
            SubOf(c) \in Subs /\ changers[c].token \in Tokens
      /\ \A a \in Adjusters : Adjusts(a) => adjusters[a].sub \in Subs
      /\ \A c \in Changers : changers[c].date \in Dates
      /\ \A a \in Adjusters : adjusters[a].date \in Dates
  BY DEF AdjustDocsOK, AdjustTypeOK, RunsOK, ChangersOK, Changer, Adjuster
<1>0. NoCycle \in AdjustCycle
  BY DEF NoCycle, AdjustCycle, InvoiceStatus, RetryStatus, ChargeKeys
<1>1. CASE UNCHANGED cycles
  BY <1>t, <1>1
<1>2. ASSUME NEW x \in Subs, NEW y \in Dates, NEW new \in AdjustCycle,
             cycles' = [cycles EXCEPT ![x][y] = new]
      PROVE  /\ cycles' \in [Subs -> [Dates -> AdjustCycle]]
             /\ \A s \in Subs, d \in Dates :
                   cycles'[s][d] = IF s = x /\ d = y THEN new ELSE cycles[s][d]
  BY <1>t, <1>2, Put
<1>3. CASE \E b \in Runs : RunSave(b)
  <2> PICK b \in Runs : RunSave(b)
    BY <1>3
  <2> DEFINE x == runs[b].sub
             y == runs[b].date
             new == BilledCycle(b)
  <2>1. x \in Subs /\ y \in Dates
    BY <1>t DEF RunSave
  <2>2. /\ new \in AdjustCycle
        /\ \/ new.invoice = "issued" /\ new.paidWith = NoKey
           \/ new.invoice = "paid" /\ runs[b].pc = "paid" /\ new.paidWith = CycleKey
    BY Calendar
    DEF BilledCycle, NoCycle, AdjustCycle, InvoiceStatus, RetryStatus, ChargeKeys, Keys
  <2>3. CASE cycles' = [cycles EXCEPT ![x][y] = new]
    <3> HIDE DEF x, y, new
    <3>1. /\ cycles' \in [Subs -> [Dates -> AdjustCycle]]
          /\ \A s \in Subs, d \in Dates :
                cycles'[s][d] = IF s = x /\ d = y THEN new ELSE cycles[s][d]
      BY <1>2, <2>1, <2>2, <2>3
    <3> QED
      BY <2>2, <3>1 DEF x, y
  <2>4. UNCHANGED cycles \/ cycles' = [cycles EXCEPT ![x][y] = new]
    BY DEF RunSave
  <2> QED
    BY <1>1, <2>3, <2>4
<1>4. CASE \E c \in Changers : ChangeSave(c) \/ ChangeFailed(c)
  <2> PICK c \in Changers : ChangeSave(c) \/ ChangeFailed(c)
    BY <1>4
  <2> DEFINE x == SubOf(c)
             y == changers[c].date
             sold == [NoCycle EXCEPT !.invoice = "paid", !.paidWith = changers[c].token]
             open == [NoCycle EXCEPT !.invoice = "issued", !.failed = 1]
  <2>1. x \in Subs /\ y \in Dates /\ changers[c].token \in Tokens
    BY <1>t DEF ChangeSave, ChangeFailed
  <2>2. /\ sold \in AdjustCycle /\ sold.invoice = "paid" /\ sold.paidWith = changers[c].token
        /\ open \in AdjustCycle /\ open.invoice = "issued" /\ open.paidWith = NoKey
    BY <2>1 DEF NoCycle, AdjustCycle, InvoiceStatus, RetryStatus, ChargeKeys
  <2>3. \/ UNCHANGED cycles
        \/ changers[c].pc = "paid" /\ cycles' = [cycles EXCEPT ![x][y] = sold]
        \/ cycles' = [cycles EXCEPT ![x][y] = open]
    BY DEF ChangeSave, ChangeFailed, UpgradeCycleSaved
  <2>4. CASE changers[c].pc = "paid" /\ cycles' = [cycles EXCEPT ![x][y] = sold]
    <3> HIDE DEF x, y, sold
    <3>1. /\ cycles' \in [Subs -> [Dates -> AdjustCycle]]
          /\ \A s \in Subs, d \in Dates :
                cycles'[s][d] = IF s = x /\ d = y THEN sold ELSE cycles[s][d]
      BY <1>2, <2>1, <2>2, <2>4
    <3> QED
      BY <2>2, <2>4, <3>1
  <2>5. CASE cycles' = [cycles EXCEPT ![x][y] = open]
    <3> HIDE DEF x, y, open
    <3>1. /\ cycles' \in [Subs -> [Dates -> AdjustCycle]]
          /\ \A s \in Subs, d \in Dates :
                cycles'[s][d] = IF s = x /\ d = y THEN open ELSE cycles[s][d]
      BY <1>2, <2>1, <2>2, <2>5
    <3> QED
      BY <2>2, <3>1
  <2> QED
    BY <1>1, <2>3, <2>4, <2>5
<1>5. CASE \E a \in Adjusters : AdjustSave(a)
  <2> PICK a \in Adjusters : AdjustSave(a)
    BY <1>5
  <2> DEFINE x == adjusters[a].sub
             y == adjusters[a].date
             old == cycles[x][y]
             paid == adjusters[a].paid
             new == [old EXCEPT !.invoice = "paid", !.failed = 0, !.retry = "never",
                                !.paidWith = paid]
  <2>1. adjusters[a].pc = "save" /\ x \in Subs /\ y \in Dates /\ paid \in ChargeKeys \cup {Waived}
    BY <1>t DEF AdjustSave, Adjusts, Adjuster
  <2>2. old \in AdjustCycle
    BY <1>t, <2>1
  <2>3. \/ UNCHANGED cycles
        \/ paid # NoKey /\ cycles' = [cycles EXCEPT ![x][y] = new]
    BY DEF AdjustSave
  <2>4. new \in AdjustCycle /\ new.invoice = "paid" /\ new.paidWith = paid
    <3> HIDE DEF old, paid
    <3> QED
      BY <2>1, <2>2 DEF AdjustCycle, InvoiceStatus, RetryStatus
  <2>5. CASE paid # NoKey /\ cycles' = [cycles EXCEPT ![x][y] = new]
    <3> HIDE DEF x, y, new
    <3>1. /\ cycles' \in [Subs -> [Dates -> AdjustCycle]]
          /\ \A s \in Subs, d \in Dates :
                cycles'[s][d] = IF s = x /\ d = y THEN new ELSE cycles[s][d]
      BY <1>2, <2>1, <2>4, <2>5
    <3> QED
      BY <2>1, <2>4, <2>5, <3>1 DEF x, y
  <2> QED
    BY <1>1, <2>3, <2>5
<1>6. CASE BillingStep
  <2>1. UNCHANGED cycles \/ \E b \in Runs : RunSave(b)
    BY <1>6, BillingParts
    DEF OtherRunStep, RunStart, RunSkip, RunCharged, RunNotCharged, RunAborted, RunEnd, dbVars,
        PlannedRunTake, RunTake, PlannedRunSave, LockedCancel, LockedResume, ScheduleCancel,
        Resume, Expire, Tick
  <2> QED
    BY <1>1, <1>3, <2>1
<1>7. CASE PlanStep
  <2>1. UNCHANGED cycles \/ \E c \in Changers : ChangeSave(c) \/ ChangeFailed(c)
    BY <1>7
    DEF PlanStep, PreviewChange, ChangeStart, ChangeStep, ChangeLock, ChangeTurnedAway,
        ChangeCharged, ChangeNotCharged, ChangeAborted, ChangeCrash, EditLockLapse,
        ChangeKeyTtl, vars
  <2> QED
    BY <1>1, <1>4, <2>1
<1>8. CASE AdminStep
  <2>1. ASSUME NEW a \in Adjusters, NEW s \in Subs, NEW k \in AdjustKeys, AdjustRequest(a, s, k)
        PROVE  UNCHANGED cycles
    <3> PICK pc \in {"ask", "save"}, doc \in Subscription, d \in Dates, paid \in {NoKey, Waived} :
               AdjustStart(a, s, k, pc, doc, d, paid)
      BY <2>1, AdjustBegins
    <3> QED
      BY DEF AdjustStart, vars
  <2>2. ASSUME NEW a \in Adjusters, AdjustStep(a) PROVE UNCHANGED cycles \/ AdjustSave(a)
    BY <2>2, GatewayAnswers DEF AdjustStep, GatewayRefuses, AdjustAborted, AdjustCrash, vars
  <2> QED
    BY <1>1, <1>5, <1>8, <2>1, <2>2 DEF AdminStep
<1> QED
  BY <1>6, <1>7, <1>8, AdjustSteps

\* A subscription is stored by a run that still finds it active, by a request
\* of the customer, at the end of a canceled period, or as a change or an
\* adjustment read it.
LEMMA SubMoves ==
    ASSUME AdjustDocsOK, AdjustNext
    PROVE  /\ subs' \in [Subs -> Subscription]
           /\ \A s \in Subs :
                 \/ subs'[s] = subs[s]
                 \/ subs[s].status = "active" /\ subs'[s].status \in {"active", "past_due"}
                 \/ /\ subs[s].status = "active" /\ subs'[s].status = "cancel_scheduled"
                    /\ editLock[s] = Nobody
                 \/ /\ subs[s].status = "cancel_scheduled" /\ subs'[s] = Resumed(s)
                    /\ editLock[s] = Nobody
                 \/ subs[s].status = "cancel_scheduled" /\ subs'[s].status = "canceled"
                 \/ \E c \in Changers : /\ Executes(c) /\ SubOf(c) = s
                                        /\ subs'[s] = changers[c].seen
                 \/ \E a \in Adjusters : /\ adjusters[a].pc = "save" /\ adjusters[a].sub = s
                                         /\ ~Adjusts(a)'
<1>t. /\ subs \in [Subs -> Subscription] /\ RunsOK
      /\ changers \in [Changers -> Changer] /\ adjusters \in [Adjusters -> Adjuster]
      /\ \A c \in Changers : changers[c].pc # "idle" => SubOf(c) \in Subs
      /\ \A a \in Adjusters : Adjusts(a) => adjusters[a].sub \in Subs
  BY DEF AdjustDocsOK, AdjustTypeOK, ChangersOK, Changer, Adjuster
<1>1. CASE UNCHANGED subs
  BY <1>t, <1>1
<1>2. CASE \E b \in Runs : RunSave(b)
  <2> PICK b \in Runs : RunSave(b)
    BY <1>2
  <2> DEFINE x == runs[b].sub
             new == BilledSub(b, x)
  <2>1. x \in Subs
    BY <1>t DEF RunSave, RunsOK
  <2>2. new \in Subscription
    BY <1>t, <2>1, BilledType
  <2>3. \/ UNCHANGED subs
        \/ subs' = [subs EXCEPT ![x] = new] /\ subs[x].status = "active"
    BY DEF RunSave, StillListed
  <2>4. new.status \in {"active", "past_due"}
    <3> DEFINE old == subs[x]
    <3>1. old \in Subscription
      BY <1>t, <2>1
    <3>2. [old EXCEPT !.status = "past_due"].status = "past_due"
      <4> HIDE DEF old
      <4> QED
        BY <3>1 DEF Subscription
    <3> QED
      BY <3>2 DEF BilledSub
  <2> HIDE DEF x, new
  <2> QED
    BY <1>t, <1>1, <2>1, <2>2, <2>3, <2>4
<1>3. CASE \E s \in Subs : LockedCancel(s) \/ LockedResume(s) \/ Expire(s)
  <2> PICK s \in Subs : LockedCancel(s) \/ LockedResume(s) \/ Expire(s)
    BY <1>3
  <2> DEFINE old == subs[s]
             ends == [old EXCEPT !.status = "cancel_scheduled", !.next = Never]
             renews == [old EXCEPT !.status = "active", !.next = old.end]
             ended == [old EXCEPT !.status = "canceled", !.next = Never]
  <2>1. old \in Subscription
    BY <1>t
  <2>2. /\ ends \in Subscription /\ ends.status = "cancel_scheduled"
        /\ renews \in Subscription
        /\ ended \in Subscription /\ ended.status = "canceled"
    <3>1. old.end \in Moments
      BY <2>1 DEF Subscription, Moments
    <3> HIDE DEF old
    <3> QED
      BY <2>1, <3>1 DEF Subscription, SubStatus, Moments
  <2>3. \/ /\ old.status = "active" /\ editLock[s] = Nobody
           /\ subs' = [subs EXCEPT ![s] = ends]
        \/ /\ old.status = "cancel_scheduled" /\ editLock[s] = Nobody
           /\ subs' = [subs EXCEPT ![s] = renews] /\ renews = Resumed(s)
        \/ /\ old.status = "cancel_scheduled"
           /\ subs' = [subs EXCEPT ![s] = ended]
    <3>1. CASE LockedCancel(s)
      BY <1>t, <3>1 DEF LockedCancel, ScheduleCancel
    <3>2. CASE LockedResume(s)
      BY <1>t, <3>2 DEF LockedResume, Resume, Resumed
    <3>3. CASE Expire(s)
      BY <1>t, <3>3 DEF Expire
    <3> QED
      BY <3>1, <3>2, <3>3
  <2>4. \E new \in Subscription : subs' = [subs EXCEPT ![s] = new]
    BY <2>2, <2>3
  <2>5. /\ subs' \in [Subs -> Subscription]
        /\ \A o \in Subs \ {s} : subs'[o] = subs[o]
    BY <1>t, <2>4
  <2>6. \/ /\ subs[s].status = "active" /\ subs'[s].status = "cancel_scheduled"
           /\ editLock[s] = Nobody
        \/ /\ subs[s].status = "cancel_scheduled" /\ subs'[s] = Resumed(s)
           /\ editLock[s] = Nobody
        \/ subs[s].status = "cancel_scheduled" /\ subs'[s].status = "canceled"
    <3> HIDE DEF ends, renews, ended
    <3> QED
      BY <1>t, <2>2, <2>3
  <2> QED
    BY <2>5, <2>6
<1>4. CASE \E c \in Changers : ChangeSave(c)
  <2> PICK c \in Changers : ChangeSave(c)
    BY <1>4
  <2>1. Executes(c) /\ SubOf(c) \in Subs /\ changers[c].seen \in Subscription
    BY <1>t DEF ChangeSave, Executes, Changer
  <2>2. subs' = [subs EXCEPT ![SubOf(c)] = changers[c].seen]
    BY DEF ChangeSave
  <2> QED
    BY <1>t, <2>1, <2>2
<1>5. CASE \E a \in Adjusters : AdjustSave(a)
  <2> PICK a \in Adjusters : AdjustSave(a)
    BY <1>5
  <2>1. /\ adjusters[a].pc = "save" /\ adjusters[a].sub \in Subs
        /\ adjusters[a].doc \in Subscription
    BY <1>t DEF AdjustSave, Adjusts, Adjuster
  <2>2. subs' = [subs EXCEPT ![adjusters[a].sub] = adjusters[a].doc]
    BY DEF AdjustSave
  <2>3. ~Adjusts(a)'
    BY AdjustStops DEF AdjustEnds, Adjusts
  <2> QED
    BY <1>t, <2>1, <2>2, <2>3
<1>6. CASE BillingStep
  <2>1. \/ UNCHANGED subs \/ \E b \in Runs : RunSave(b)
        \/ \E s \in Subs : LockedCancel(s) \/ LockedResume(s) \/ Expire(s)
    BY <1>6, BillingParts
    DEF OtherRunStep, RunStart, RunSkip, RunCharged, RunNotCharged, RunAborted, RunEnd, dbVars,
        PlannedRunTake, RunTake, PlannedRunSave, Tick
  <2> QED
    BY <1>1, <1>2, <1>3, <2>1
<1>7. CASE PlanStep
  <2>1. UNCHANGED subs \/ \E c \in Changers : ChangeSave(c)
    BY <1>7
    DEF PlanStep, PreviewChange, ChangeStart, ChangeStep, ChangeLock, ChangeTurnedAway,
        ChangeCharged, ChangeNotCharged, ChangeFailed, ChangeAborted, ChangeCrash,
        EditLockLapse, ChangeKeyTtl, vars
  <2> QED
    BY <1>1, <1>4, <2>1
<1>8. CASE AdminStep
  <2>1. ASSUME NEW a \in Adjusters, NEW s \in Subs, NEW k \in AdjustKeys, AdjustRequest(a, s, k)
        PROVE  UNCHANGED subs
    <3> PICK pc \in {"ask", "save"}, doc \in Subscription, d \in Dates, paid \in {NoKey, Waived} :
               AdjustStart(a, s, k, pc, doc, d, paid)
      BY <2>1, AdjustBegins
    <3> QED
      BY DEF AdjustStart, vars
  <2>2. ASSUME NEW a \in Adjusters, AdjustStep(a) PROVE UNCHANGED subs \/ AdjustSave(a)
    BY <2>2, GatewayAnswers DEF AdjustStep, GatewayRefuses, AdjustAborted, AdjustCrash, vars
  <2> QED
    BY <1>1, <1>5, <1>8, <2>1, <2>2 DEF AdminStep
<1> QED
  BY <1>6, <1>7, <1>8, AdjustSteps

\* The plan a change stores is well typed: the one it read with a plan that
\* waits, or the dearer one alone.
LEMMA ChangedPlans ==
    ASSUME AdjustDocsOK, NEW c \in Changers, changers[c].pc # "idle"
    PROVE  LET t == previews[changers[c].token] IN
           /\ ChangedPlan(c) \in PlanDoc
           /\ \/ ChangedPlan(c) = changers[c].plan
              \/ /\ t.to < t.from /\ ChangedPlan(c).plan = changers[c].plan.plan
                 /\ ChangedPlan(c).pending = t.to
              \/ t.to > t.from /\ ChangedPlan(c) = OnlyPlan(t.to)
<1> DEFINE t == previews[changers[c].token]
           old == changers[c].plan
           waiting == [old EXCEPT !.pending = t.to, !.effective = t.next]
<1>1. t \in Preview /\ old \in PlanDoc
  BY DEF AdjustDocsOK, AdjustTypeOK, ChangersOK
<1>2. t.to \in Nat /\ t.from \in Nat /\ t.to \in Plans /\ t.next \in Nat
  BY <1>1, PlanAssumption DEF Preview
<1>3. waiting \in PlanDoc /\ waiting.plan = old.plan /\ waiting.pending = t.to
  <2> HIDE DEF t, old
  <2> QED
    BY <1>1, <1>2 DEF PlanDoc, Moments
<1>4. OnlyPlan(t.to) \in PlanDoc
  BY <1>2 DEF OnlyPlan, PlanDoc, Moments
<1>5. CASE t.to = t.from
  BY <1>1, <1>2, <1>5 DEF ChangedPlan
<1>6. CASE t.to < t.from
  <2>1. ChangedPlan(c) = waiting
    BY <1>2, <1>6 DEF ChangedPlan
  <2> HIDE DEF waiting
  <2> QED
    BY <1>3, <1>6, <2>1
<1>7. CASE t.to > t.from
  <2>1. ChangedPlan(c) = OnlyPlan(t.to)
    BY <1>2, <1>7 DEF ChangedPlan
  <2> QED
    BY <1>4, <1>7, <2>1
<1> QED
  BY <1>2, <1>5, <1>6, <1>7

\* A run works on a plan that waited, or on the one in force.
LEMMA PromotedPlans ==
    ASSUME AdjustDocsOK, NEW s \in Subs, NEW d
    PROVE  /\ Promoted(plans[s], d) \in PlanDoc
           /\ \/ Promoted(plans[s], d) = plans[s]
              \/ plans[s].pending # NoPlan /\ Promoted(plans[s], d) = OnlyPlan(plans[s].pending)
BY DEF AdjustDocsOK, AdjustTypeOK, PlansOK, Promoted, PlanDoc, OnlyPlan, Moments

\* A plan is stored by a run, a change or an adjustment that works on it.
LEMMA PlanMoves ==
    ASSUME AdjustDocsOK, AdjustNext
    PROVE  /\ plans' \in [Subs -> PlanDoc]
           /\ \A s \in Subs :
                 \/ plans'[s] = plans[s]
                 \/ \E b \in Runs : runs[b].sub = s /\ plans'[s] = held[b]
                 \/ \E c \in Changers : /\ changers[c].pc \in {"save", "paid"} /\ SubOf(c) = s
                                        /\ plans'[s] = ChangedPlan(c)
                 \/ \E a \in Adjusters : /\ Adjusts(a) /\ adjusters[a].sub = s
                                         /\ plans'[s] = adjusters[a].plan
<1>t. /\ plans \in [Subs -> PlanDoc] /\ held \in [Runs -> PlanDoc]
      /\ \A b \in Runs : runs[b].pc \in Outcomes => runs[b].sub \in Subs
      /\ \A c \in Changers : changers[c].pc # "idle" => SubOf(c) \in Subs
      /\ \A a \in Adjusters : Adjusts(a) => adjusters[a].sub \in Subs
      /\ adjusters \in [Adjusters -> Adjuster]
  BY DEF AdjustDocsOK, AdjustTypeOK, PlansOK, RunsOK, ChangersOK, Adjuster
<1>1. CASE UNCHANGED plans
  BY <1>t, <1>1
<1>2. CASE \E b \in Runs : PlannedRunSave(b)
  <2> PICK b \in Runs : PlannedRunSave(b)
    BY <1>2
  <2>1. runs[b].sub \in Subs
    BY <1>t DEF PlannedRunSave, RunSave
  <2>2. UNCHANGED plans \/ plans' = [plans EXCEPT ![runs[b].sub] = held[b]]
    BY DEF PlannedRunSave
  <2> QED
    BY <1>t, <2>1, <2>2
<1>3. CASE \E c \in Changers : ChangeSave(c)
  <2> PICK c \in Changers : ChangeSave(c)
    BY <1>3
  <2>1. /\ changers[c].pc \in {"save", "paid"} /\ SubOf(c) \in Subs
        /\ plans' = [plans EXCEPT ![SubOf(c)] = ChangedPlan(c)]
    BY <1>t DEF ChangeSave
  <2>2. ChangedPlan(c) \in PlanDoc
    BY <2>1, ChangedPlans
  <2> QED
    BY <1>t, <2>1, <2>2
<1>4. CASE \E a \in Adjusters : AdjustSave(a)
  <2> PICK a \in Adjusters : AdjustSave(a)
    BY <1>4
  <2>1. /\ Adjusts(a) /\ adjusters[a].sub \in Subs /\ adjusters[a].plan \in PlanDoc
        /\ plans' = [plans EXCEPT ![adjusters[a].sub] = adjusters[a].plan]
    BY <1>t DEF AdjustSave, Adjusts, Adjuster
  <2> QED
    BY <1>t, <2>1
<1>5. CASE BillingStep
  BY <1>1, <1>2, <1>5, BillingParts DEF PlannedRunTake
<1>6. CASE PlanStep
  <2>1. UNCHANGED plans \/ \E c \in Changers : ChangeSave(c)
    BY <1>6
    DEF PlanStep, PreviewChange, ChangeStart, ChangeStep, ChangeLock, ChangeTurnedAway,
        ChangeCharged, ChangeNotCharged, ChangeFailed, ChangeAborted, ChangeCrash,
        EditLockLapse, ChangeKeyTtl
  <2> QED
    BY <1>1, <1>3, <2>1
<1>7. CASE AdminStep
  <2>1. ASSUME NEW a \in Adjusters, NEW s \in Subs, NEW k \in AdjustKeys, AdjustRequest(a, s, k)
        PROVE  UNCHANGED plans
    <3> PICK pc \in {"ask", "save"}, doc \in Subscription, d \in Dates, paid \in {NoKey, Waived} :
               AdjustStart(a, s, k, pc, doc, d, paid)
      BY <2>1, AdjustBegins
    <3> QED
      BY DEF AdjustStart
  <2>2. ASSUME NEW a \in Adjusters, AdjustStep(a) PROVE UNCHANGED plans \/ AdjustSave(a)
    BY <2>2, GatewayAnswers DEF AdjustStep, GatewayRefuses, AdjustAborted, AdjustCrash
  <2> QED
    BY <1>1, <1>4, <1>7, <2>1, <2>2 DEF AdminStep
<1> QED
  BY <1>5, <1>6, <1>7, AdjustSteps

\* A run that leaves the record of its subscription alone.
StaysWith(b) ==
    /\ runs'[b].sub = runs[b].sub /\ runs'[b].date = runs[b].date
    /\ runs'[b].pc = "paid" => runs[b].pc = "paid" \/ RunCharged(b)

\* A run has no subscription, stays with the one it has, or takes one.
LEMMA RunMoves ==
    ASSUME AdjustDocsOK, NEW b \in Runs,
           RunStep(b) \/ \E d \in Dates : RunStart(b, d)
    PROVE  /\ \A q \in Runs \ {b} : runs'[q] = runs[q]
           /\ \/ runs'[b].sub = NoSub /\ runs'[b].pc \in {"idle", "next"}
              \/ StaysWith(b)
              \/ runs'[b].pc = "charge" /\ runs[b].pc = "next"
                 /\ \E s \in Subs : RunTake(b, s)
<1>t. /\ runs \in [Runs -> [pc : {"idle", "next", "charge"} \cup Outcomes, date : Dates,
                            due : [Subs -> Moments], sub : Subs \cup {NoSub}]]
      /\ RunsOK /\ taken \in [Subs -> [Dates -> SUBSET Keys]]
  BY DEF AdjustDocsOK, AdjustTypeOK, RunsOK
<1>1. ASSUME NEW d \in Dates, RunStart(b, d)
      PROVE  /\ \A q \in Runs \ {b} : runs'[q] = runs[q]
             /\ runs'[b].sub = NoSub /\ runs'[b].pc = "next"
  BY <1>t, <1>1 DEF RunStart
<1>2. ASSUME NEW s \in Subs, RunTake(b, s)
      PROVE  /\ \A q \in Runs \ {b} : runs'[q] = runs[q]
             /\ runs'[b].pc = "charge" /\ runs[b].pc = "next"
  BY <1>t, <1>2 DEF RunTake
<1>3. ASSUME NEW s \in Subs, RunSkip(b, s)
      PROVE  StaysWith(b) /\ \A q \in Runs \ {b} : runs'[q] = runs[q]
  <2>1. runs' = [runs EXCEPT ![b].due[s] = Never] /\ runs[b].pc = "next"
    BY <1>3 DEF RunSkip
  <2> QED
    BY <1>t, <2>1 DEF StaysWith
<1>4. ASSUME RunCharged(b) \/ RunNotCharged(b)
      PROVE  StaysWith(b) /\ \A q \in Runs \ {b} : runs'[q] = runs[q]
  <2>1. PICK outcome \in Outcomes : /\ runs' = [runs EXCEPT ![b].pc = outcome]
                                    /\ outcome = "paid" => RunCharged(b)
    BY <1>4 DEF RunCharged, RunNotCharged, Outcomes
  <2> QED
    BY <1>t, <2>1 DEF StaysWith
<1>5. ASSUME RunSave(b)
      PROVE  /\ \A q \in Runs \ {b} : runs'[q] = runs[q]
             /\ runs'[b].sub = NoSub /\ runs'[b].pc = "next"
  <2> DEFINE next == [runs EXCEPT ![b].pc = "next", ![b].sub = NoSub]
  <2>1. runs' = [next EXCEPT ![b].due[runs[b].sub] = Never]
    BY <1>5 DEF RunSave
  <2>2. /\ next \in [Runs -> [pc : {"idle", "next", "charge"} \cup Outcomes, date : Dates,
                             due : [Subs -> Moments], sub : Subs \cup {NoSub}]]
        /\ next[b].pc = "next" /\ next[b].sub = NoSub
        /\ \A q \in Runs \ {b} : next[q] = runs[q]
    BY <1>t
  <2> HIDE DEF next
  <2> QED
    BY <2>1, <2>2
<1>6. ASSUME RunAborted(b) \/ RunEnd(b)
      PROVE  /\ \A q \in Runs \ {b} : runs'[q] = runs[q]
             /\ runs'[b].sub = NoSub /\ runs'[b].pc = "idle"
  BY <1>t, <1>6 DEF RunAborted, RunEnd, RunIdle
<1> QED
  BY <1>1, <1>2, <1>3, <1>4, <1>5, <1>6 DEF RunStep

\* The plan a run works on is the one of the subscription it took, promoted.
LEMMA HeldMoves ==
    ASSUME AdjustDocsOK, AdjustNext
    PROVE  /\ held' \in [Runs -> PlanDoc]
           /\ \A b \in Runs :
                 \/ runs'[b].sub = NoSub
                 \/ runs'[b].sub = runs[b].sub /\ held'[b] = held[b]
                 \/ \E d \in Dates : /\ runs'[b].sub \in Subs /\ UNCHANGED plans
                                     /\ held'[b] = Promoted(plans[runs'[b].sub], d)
<1>t. /\ held \in [Runs -> PlanDoc] /\ RunsOK /\ Nothing \in PlanDoc
      /\ runs \in [Runs -> [pc : {"idle", "next", "charge"} \cup Outcomes, date : Dates,
                            due : [Subs -> Moments], sub : Subs \cup {NoSub}]]
  BY PlanAssumption
  DEF AdjustDocsOK, AdjustTypeOK, PlansOK, RunsOK, Nothing, OnlyPlan, PlanDoc, Moments
<1>1. ASSUME held' = [q \in Runs |-> IF runs'[q].sub = NoSub THEN Nothing ELSE held[q]]
      PROVE  /\ held' \in [Runs -> PlanDoc]
             /\ \A b \in Runs : runs'[b].sub = NoSub \/ held'[b] = held[b]
  <2> HIDE DEF Nothing
  <2> QED
    BY <1>t, <1>1
<1>2. ASSUME NEW b \in Runs, OtherRunStep(b),
             held' = [q \in Runs |-> IF runs'[q].sub = NoSub THEN Nothing ELSE held[q]]
      PROVE  /\ held' \in [Runs -> PlanDoc]
             /\ \A q \in Runs : \/ runs'[q].sub = NoSub
                                \/ runs'[q].sub = runs[q].sub /\ held'[q] = held[q]
  <2>1. RunStep(b) \/ \E d \in Dates : RunStart(b, d)
    BY <1>2 DEF OtherRunStep, RunStep
  <2>2. /\ \A q \in Runs \ {b} : runs'[q] = runs[q]
        /\ \/ runs'[b].sub = NoSub
           \/ StaysWith(b)
           \/ runs'[b].pc = "charge" /\ runs[b].pc = "next"
    BY <2>1, RunMoves
  <2>3. ~ (runs'[b].pc = "charge" /\ runs[b].pc = "next")
    BY <1>2, <1>t
    DEF OtherRunStep, RunStart, RunSkip, RunCharged, RunNotCharged, RunAborted, RunEnd, RunIdle
  <2> QED
    BY <1>1, <1>2, <2>2, <2>3 DEF StaysWith
<1>3. ASSUME NEW b \in Runs, NEW s \in Subs, PlannedRunTake(b, s)
      PROVE  /\ held' \in [Runs -> PlanDoc]
             /\ \A q \in Runs \ {b} : runs'[q] = runs[q] /\ held'[q] = held[q]
             /\ runs'[b].sub = s /\ UNCHANGED plans
             /\ runs[b].date \in Dates /\ held'[b] = Promoted(plans[s], runs[b].date)
  <2>1. /\ held' = [held EXCEPT ![b] = Promoted(plans[s], runs[b].date)] /\ UNCHANGED plans
        /\ runs' = [runs EXCEPT ![b].pc = "charge", ![b].sub = s]
    BY <1>3 DEF PlannedRunTake, RunTake
  <2>2. Promoted(plans[s], runs[b].date) \in PlanDoc
    BY PromotedPlans
  <2> QED
    BY <1>t, <2>1, <2>2
<1>4. ASSUME NEW b \in Runs, PlannedRunSave(b)
      PROVE  /\ held' \in [Runs -> PlanDoc]
             /\ \A q \in Runs \ {b} : runs'[q] = runs[q] /\ held'[q] = held[q]
             /\ runs'[b].sub = NoSub
  <2>1. held' = [held EXCEPT ![b] = Nothing]
    BY <1>4 DEF PlannedRunSave
  <2>2. runs'[b].sub = NoSub /\ \A q \in Runs \ {b} : runs'[q] = runs[q]
    <3> DEFINE next == [runs EXCEPT ![b].pc = "next", ![b].sub = NoSub]
    <3>1. runs' = [next EXCEPT ![b].due[runs[b].sub] = Never]
      BY <1>4 DEF PlannedRunSave, RunSave
    <3>2. /\ next \in [Runs -> [pc : {"idle", "next", "charge"} \cup Outcomes, date : Dates,
                               due : [Subs -> Moments], sub : Subs \cup {NoSub}]]
          /\ next[b].sub = NoSub /\ \A q \in Runs \ {b} : next[q] = runs[q]
      BY <1>t
    <3> HIDE DEF next
    <3> QED
      BY <3>1, <3>2
  <2> HIDE DEF Nothing
  <2> QED
    BY <1>t, <2>1, <2>2
<1>5. CASE BillingStep
  <2>1. CASE /\ \/ \E s \in Subs : LockedCancel(s) \/ LockedResume(s) \/ Expire(s)
                \/ Tick
             /\ held' = [q \in Runs |-> IF runs'[q].sub = NoSub THEN Nothing ELSE held[q]]
    <3>1. UNCHANGED runs
      BY <2>1 DEF LockedCancel, LockedResume, ScheduleCancel, Resume, Expire, Tick
    <3> QED
      BY <1>1, <2>1, <3>1
  <2>2. CASE \E b \in Runs :
                /\ OtherRunStep(b)
                /\ held' = [q \in Runs |-> IF runs'[q].sub = NoSub THEN Nothing ELSE held[q]]
    BY <1>2, <2>2
  <2>3. CASE \E b \in Runs, s \in Subs : PlannedRunTake(b, s)
    BY <1>3, <2>3
  <2>4. CASE \E b \in Runs : PlannedRunSave(b)
    BY <1>4, <2>4
  <2> QED
    BY <1>5, <2>1, <2>2, <2>3, <2>4, BillingParts
<1>6. CASE UNCHANGED <<runs, held>>
  BY <1>t, <1>6
<1> QED
  BY <1>5, <1>6, AdjustSteps DEF PlanStep, AdminStep

\* What is lost of a charge was lost before, or is the key of a run whose
\* answer did not arrive, or the token of a change that was charged.
LEMMA LostMoves ==
    ASSUME AdjustDocsOK, AdjustNext
    PROVE  /\ lost' \in [Subs -> [Dates -> ChargeKeys]]
           /\ \A s \in Subs, d \in Dates :
                 \/ lost'[s][d] \in {lost[s][d], NoKey}
                 \/ /\ lost'[s][d] = CycleKey
                    /\ \E b \in unheard : runs[b].sub = s /\ runs[b].date = d
                 \/ lost'[s][d] \in upgraded
<1>t. /\ lost \in [Subs -> [Dates -> ChargeKeys]] /\ upgraded \subseteq Tokens
  BY DEF AdjustDocsOK, AdjustTypeOK, ChangersOK
<1>1. lost' = [s \in Subs |-> [d \in Dates |-> CHOOSE k \in LostOf(s, d) : TRUE]]
  BY DEF AdjustNext, Gateway
<1>2. ASSUME NEW s \in Subs, NEW d \in Dates, NEW k \in OpenedUnheard(s, d)
      PROVE  \/ k = CycleKey /\ \E b \in unheard : runs[b].sub = s /\ runs[b].date = d
             \/ k \in upgraded
  BY <1>2 DEF OpenedUnheard
<1>3. ASSUME NEW s \in Subs, NEW d \in Dates
      PROVE  /\ LostOf(s, d) # {}
             /\ \A k \in LostOf(s, d) : k \in {lost[s][d], NoKey} \/ k \in OpenedUnheard(s, d)
  BY DEF LostOf
<1>4. ASSUME NEW s \in Subs, NEW d \in Dates
      PROVE  /\ lost'[s][d] \in ChargeKeys
             /\ \/ lost'[s][d] \in {lost[s][d], NoKey}
                \/ /\ lost'[s][d] = CycleKey
                   /\ \E b \in unheard : runs[b].sub = s /\ runs[b].date = d
                \/ lost'[s][d] \in upgraded
  <2> DEFINE k == CHOOSE x \in LostOf(s, d) : TRUE
  <2>1. k \in LostOf(s, d)
    BY <1>3
  <2>2. lost'[s][d] = k
    BY <1>1
  <2> HIDE DEF k
  <2> QED
    BY <1>t, <1>2, <1>3, <2>1, <2>2 DEF ChargeKeys, Keys
<1>5. lost' \in [Subs -> [Dates -> ChargeKeys]]
  <2>1. \A s \in Subs : [d \in Dates |-> CHOOSE k \in LostOf(s, d) : TRUE] \in [Dates -> ChargeKeys]
    <3> SUFFICES ASSUME NEW s \in Subs, NEW d \in Dates
                 PROVE  (CHOOSE k \in LostOf(s, d) : TRUE) \in ChargeKeys
      OBVIOUS
    <3>1. lost'[s][d] = (CHOOSE k \in LostOf(s, d) : TRUE)
      BY <1>1
    <3> QED
      BY <1>4, <3>1
  <2> QED
    BY <1>1, <2>1
<1> QED
  BY <1>4, <1>5

\* The keys of adjustments keep their type.
LEMMA AdjustKeysTyped ==
    ASSUME AdjustDocsOK, AdjustNext
    PROVE  adjustKeys' \in [AdjustKeys -> ChangeKeyStatus]
<1>t. adjustKeys \in [AdjustKeys -> ChangeKeyStatus]
  BY DEF AdjustDocsOK, AdjustTypeOK
<1>1. ASSUME NEW a \in Adjusters, NEW s \in Subs, NEW k \in AdjustKeys, AdjustRequest(a, s, k)
      PROVE  adjustKeys' \in [AdjustKeys -> ChangeKeyStatus]
  <2> PICK pc \in {"ask", "save"}, doc \in Subscription, d \in Dates, paid \in {NoKey, Waived} :
             AdjustStart(a, s, k, pc, doc, d, paid)
    BY <1>1, AdjustBegins
  <2> QED
    BY <1>t DEF AdjustStart, ChangeKeyStatus
<1>2. ASSUME NEW a \in Adjusters, AdjustStep(a)
      PROVE  adjustKeys' \in [AdjustKeys -> ChangeKeyStatus]
  BY <1>t, <1>2
  DEF AdjustStep, GatewayDone, GatewayRefuses, AdjustSave, AdjustAborted, AdjustCrash,
      ChangeKeyStatus
<1> QED
  BY <1>t, <1>1, <1>2, AdjustSteps DEF BillingStep, PlanStep, AdminStep, adjustVars

\* Every step keeps the types.
LEMMA DocsStep ==
    ASSUME AdjustDocsOK, [AdjustNext]_everything
    PROVE  AdjustDocsOK'
<1>1. CASE AdjustNext
  <2>1. RunsOK' /\ now' \in Nat /\ now' <= DayStart(LastDay)
        /\ taken' \in [Subs -> [Dates -> SUBSET Keys]]
    BY <1>1, RunsTyped
  <2>2. subs' \in [Subs -> Subscription] /\ cycles' \in [Subs -> [Dates -> AdjustCycle]]
    BY <1>1, SubMoves, CycleMoves
  <2>3. PlansOK'
    BY <1>1, PlanMoves, HeldMoves DEF PlansOK
  <2>4. ChangersOK'
    <3>1. /\ previews' \in [Tokens -> Preview]
          /\ changeKeys' \in [ChangeKeys -> [status : ChangeKeyStatus, token : Tokens \cup {NoToken}]]
          /\ changers' \in [Changers -> Changer]
          /\ upgraded' \subseteq Tokens /\ overrun' \subseteq Subs
      BY <1>1, Lasting, KeyMoves, ChangerMoves
    <3>2. \A c \in Changers : changers'[c].pc # "idle" =>
             /\ changers'[c].token \in Tokens /\ changers'[c].key \in ChangeKeys
             /\ previews'[changers'[c].token].sub \in Subs
      BY <1>1, ChangerMoves, Lasting
    <3> QED
      BY <3>1, <3>2 DEF ChangersOK, Changer, SubOf
  <2>5. EditLockOK(Changers \cup Adjusters)'
    BY <1>1, EditLockMoves DEF EditLockOK
  <2>6. adjusters' \in [Adjusters -> Adjuster]
        /\ \A a \in Adjusters : Adjusts(a)' =>
              adjusters'[a].sub \in Subs /\ adjusters'[a].key \in AdjustKeys
    BY <1>1, AdjusterMoves
  <2>7. unheard' \subseteq Runs /\ lost' \in [Subs -> [Dates -> ChargeKeys]]
    BY <1>1, LostMoves DEF AdjustNext, Gateway
  <2>8. adjustKeys' \in [AdjustKeys -> ChangeKeyStatus]
    BY <1>1, AdjustKeysTyped
  <2> QED
    BY <2>1, <2>2, <2>3, <2>4, <2>5, <2>6, <2>7, <2>8 DEF AdjustDocsOK, AdjustTypeOK, Adjuster
<1>2. CASE UNCHANGED everything
  BY <1>2
  DEF everything, allVars, changeVars, requestVars, vars, adjustVars, gatewayVars, AdjustDocsOK,
      AdjustTypeOK, RunsOK, PlansOK, ChangersOK, EditLockOK, SubOf, Adjusts
<1> QED
  BY <1>1, <1>2

\* The initial state is well typed.
LEMMA DocsInit == AdjustInit => AdjustDocsOK
<1> SUFFICES ASSUME AdjustInit PROVE AdjustDocsOK
  OBVIOUS
<1>1. BillingTypeOK /\ Init
  BY InitType DEF AdjustInit, ChangeInit
<1>2. now = 0 /\ 0 <= DayStart(LastDay)
  BY <1>1, CalendarAssumption DEF Init, DayStart
<1>3. cycles \in [Subs -> [Dates -> AdjustCycle]]
  <2>1. cycles = [s \in Subs |-> [d \in Dates |-> NoCycle]] /\ NoCycle \in AdjustCycle
    BY <1>1 DEF Init, NoCycle, AdjustCycle, InvoiceStatus, RetryStatus, ChargeKeys
  <2> QED
    BY <2>1
<1>4. OnlyPlan(FirstPlan) \in PlanDoc
  BY PlanAssumption DEF OnlyPlan, PlanDoc, Moments
<1>5. PlansOK
  BY <1>4 DEF AdjustInit, ChangeInit, PlansOK
<1>6. ChangersOK
  <2>1. NoPreview \in Preview
    BY PlanAssumption DEF NoPreview, Preview
  <2>2. ChangerIdle \in Changer /\ ChangerIdle.pc = "idle"
    BY <1>4, Calendar DEF ChangerIdle, Changer, Subscription, SubStatus, Moments
  <2>3. NoChangeKey \in [status : ChangeKeyStatus, token : Tokens \cup {NoToken}]
    BY DEF NoChangeKey, ChangeKeyStatus
  <2> HIDE DEF NoPreview, ChangerIdle, NoChangeKey
  <2> QED
    BY <2>1, <2>2, <2>3 DEF AdjustInit, ChangeInit, ChangersOK, Changer
<1>7. EditLockOK(Changers \cup Adjusters)
  BY DEF AdjustInit, ChangeInit, EditLockOK
<1>8. /\ adjusters \in [Adjusters -> Adjuster] /\ \A a \in Adjusters : ~Adjusts(a)
      /\ adjustKeys \in [AdjustKeys -> ChangeKeyStatus]
      /\ unheard \subseteq Runs /\ lost \in [Subs -> [Dates -> ChargeKeys]]
  <2>1. AdjusterIdle \in Adjuster /\ AdjusterIdle.pc = "idle"
    BY <1>4, Calendar DEF AdjusterIdle, Adjuster, AdjustPc, ChargeKeys, Subscription, SubStatus, Moments
  <2> HIDE DEF AdjusterIdle
  <2> QED
    BY <2>1 DEF AdjustInit, Adjusts, ChargeKeys, ChangeKeyStatus
<1> QED
  BY <1>1, <1>2, <1>3, <1>5, <1>6, <1>7, <1>8
  DEF AdjustDocsOK, AdjustTypeOK, BillingTypeOK, DbOK, Adjuster

\* By induction on the steps.
LEMMA DocsStayTyped == AdjustSpec => []AdjustDocsOK
BY DocsInit, DocsStep, PTL DEF AdjustSpec

\* Every variable keeps its type, whatever changes, adjustments and runs are
\* at work (AdjustTypeOK).
THEOREM AdjustTypes == AdjustSpec => []AdjustTypeOK
<1>1. AdjustDocsOK => AdjustTypeOK
  BY DEF AdjustDocsOK
<1> QED
  BY <1>1, DocsStayTyped, PTL

-----------------------------------------------------------------------------
(* Keys and promises.                                                      *)

\* A key that is used is about a token that was previewed, and while the
\* process that took it is at work, it is its own and says "processing".
KeysHeld ==
    /\ \A k \in ChangeKeys : changeKeys[k].status # "none" =>
          changeKeys[k].token \in Tokens /\ previews[changeKeys[k].token].sub \in Subs
    /\ \A c \in Changers : Executes(c) =>
          /\ changeKeys[changers[c].key].status = "processing"
          /\ changeKeys[changers[c].key].token = changers[c].token
          /\ \A o \in Changers \ {c} : Executes(o) => changers[o].key # changers[c].key

\* The plan a change works on is the one its customer was shown, it stores
\* without a charge only what is free, and takes only a charge for a charge.
PromisesKept ==
    \A c \in Changers : Executes(c) =>
        /\ changers[c].plan.plan = previews[changers[c].token].from
        /\ changers[c].pc = "save" => ~MustPay(changers[c].token)
        /\ changers[c].pc = "paid" => changers[c].token \in upgraded

\* What is known of a process that works on a change.
LEMMA AtWork ==
    ASSUME AdjustDocsOK, NEW c \in Changers, changers[c].pc # "idle"
    PROVE  /\ changers[c].token \in Tokens /\ changers[c].key \in ChangeKeys
           /\ SubOf(c) \in Subs /\ previews[changers[c].token] \in Preview
           /\ changers[c].seen \in Subscription /\ changers[c].plan \in PlanDoc
BY DEF AdjustDocsOK, AdjustTypeOK, ChangersOK, Changer

\* One process takes its lock at a time, and others stay what they are.
LEMMA OneLocks ==
    ASSUME AdjustDocsOK, NEW c \in Changers, ChangeLock(c), NEW o \in Changers \ {c}
    PROVE  ~ChangeLock(o)
<1> SUFFICES ASSUME ChangeLock(o) PROVE FALSE
  OBVIOUS
<1>1. changers'[o] = changers[o]
  BY ChangeLocks
<1>2. changers[o].pc = "lock" /\ changers'[o].pc = IF MustPay(changers[o].token) THEN "charge" ELSE "save"
  BY ChangeLocks
<1> QED
  BY <1>1, <1>2

\* Keys stay with the processes that took them.
LEMMA KeysStep ==
    ASSUME AdjustDocsOK, KeysHeld, AdjustNext
    PROVE  KeysHeld'
<1>1. ASSUME NEW k \in ChangeKeys, changeKeys'[k].status # "none"
      PROVE  changeKeys'[k].token \in Tokens /\ previews'[changeKeys'[k].token].sub \in Subs
  <2>1. CASE changeKeys'[k] = changeKeys[k]
    BY <1>1, <2>1, Lasting DEF KeysHeld
  <2>2. ASSUME NEW c \in Changers, ChangeLock(c), changers[c].key = k
        PROVE  changeKeys'[k].token \in Tokens /\ previews'[changeKeys'[k].token].sub \in Subs
    <3>0. changeKeys'[k] = [status |-> "processing", token |-> changers[c].token]
      BY <2>2, KeyMoves
    <3>1. changeKeys'[k].token = changers[c].token
      BY <3>0
    <3>2. changers[c].token \in Tokens /\ previews[changers[c].token].sub \in Subs
      BY <2>2, ChangeLocks DEF SubOf
    <3> QED
      BY <3>1, <3>2, Lasting
  <2>3. ASSUME NEW c \in Changers, Executes(c), changers[c].key = k,
               changeKeys'[k].token = changeKeys[k].token
        PROVE  changeKeys'[k].token \in Tokens /\ previews'[changeKeys'[k].token].sub \in Subs
    BY <2>3, Lasting DEF KeysHeld
  <2> QED
    BY <1>1, <2>1, <2>2, <2>3, KeyMoves
<1>2. ASSUME NEW c \in Changers, Executes(c)'
      PROVE  /\ changeKeys'[changers'[c].key].status = "processing"
             /\ changeKeys'[changers'[c].key].token = changers'[c].token
  <2>1. CASE ChangeLock(c)
    <3>1. changeKeys'[changers[c].key] = [status |-> "processing", token |-> changers[c].token]
      BY <2>1, KeyMoves
    <3>2. changers'[c].key = changers[c].key /\ changers'[c].token = changers[c].token
      BY <2>1, ChangeLocks
    <3> QED
      BY <3>1, <3>2
  <2>2. CASE /\ Executes(c) /\ changers'[c].token = changers[c].token
             /\ changers'[c].key = changers[c].key
    <3> DEFINE k == changers[c].key
    <3>1. /\ k \in ChangeKeys /\ changeKeys[k].status = "processing"
          /\ changeKeys[k].token = changers[c].token
          /\ \A o \in Changers \ {c} : Executes(o) => changers[o].key # k
      BY <2>2, AtWork DEF KeysHeld, Executes
    <3>2. ASSUME NEW o \in Changers, ChangeLock(o) PROVE changers[o].key # k
      BY <3>1, <3>2, KeyMoves
    <3>3. changers'[c].pc # "idle"
      BY <1>2 DEF Executes
    <3>4. changeKeys'[k] = changeKeys[k]
      BY <3>1, <3>2, <3>3, KeyMoves
    <3> QED
      BY <2>2, <3>1, <3>4
  <2> QED
    BY <1>2, <2>1, <2>2, ChangerMoves
<1>3. ASSUME NEW c \in Changers, Executes(c)', NEW o \in Changers \ {c}, Executes(o)'
      PROVE  changers'[o].key # changers'[c].key
  <2>1. ASSUME NEW x \in Changers, NEW y \in Changers \ {x}, ChangeLock(x),
               Executes(y), changers'[y].key = changers[y].key
        PROVE  changers'[x].key # changers'[y].key
    <3>1. /\ changeKeys[changers[x].key].status = "none"
          /\ changers'[x].key = changers[x].key
      BY <2>1, KeyMoves, ChangeLocks
    <3>2. changeKeys[changers[y].key].status = "processing"
      BY <2>1 DEF KeysHeld
    <3> QED
      BY <2>1, <3>1, <3>2
  <2>2. CASE ChangeLock(c)
    <3>1. ~ChangeLock(o)
      BY <2>2, OneLocks
    <3>2. Executes(o) /\ changers'[o].key = changers[o].key
      BY <1>3, <3>1, ChangerMoves
    <3> QED
      BY <2>1, <2>2, <3>2
  <2>3. CASE ChangeLock(o)
    <3>1. ~ChangeLock(c)
      BY <2>3, OneLocks
    <3>2. Executes(c) /\ changers'[c].key = changers[c].key
      BY <1>3, <3>1, ChangerMoves
    <3> QED
      BY <2>1, <2>3, <3>2
  <2>4. CASE ~ChangeLock(c) /\ ~ChangeLock(o)
    <3>1. /\ Executes(c) /\ changers'[c].key = changers[c].key
          /\ Executes(o) /\ changers'[o].key = changers[o].key
      BY <1>3, <2>4, ChangerMoves
    <3> QED
      BY <3>1 DEF KeysHeld
  <2> QED
    BY <2>2, <2>3, <2>4
<1> QED
  BY <1>1, <1>2, <1>3 DEF KeysHeld, Executes

\* What was promised is what is stored.
LEMMA PromisesStep ==
    ASSUME AdjustDocsOK, PromisesKept, AdjustNext
    PROVE  PromisesKept'
<1> SUFFICES ASSUME NEW c \in Changers, Executes(c)'
             PROVE  /\ changers'[c].plan.plan = previews'[changers'[c].token].from
                    /\ changers'[c].pc = "save" => ~MustPay(changers[c].token)'
                    /\ changers'[c].pc = "paid" => changers'[c].token \in upgraded'
  BY DEF PromisesKept, Executes, MustPay
<1>1. CASE ChangeLock(c)
  <2> DEFINE t == changers[c].token
  <2>1. /\ t \in Tokens /\ SubOf(c) \in Subs
        /\ changers'[c].pc = IF MustPay(t) THEN "charge" ELSE "save"
        /\ changers'[c].token = t /\ changers'[c].plan = plans[SubOf(c)]
    BY <1>1, ChangeLocks
  <2>2. plans[SubOf(c)].plan = previews[t].from
    BY <1>1 DEF ChangeLock, Executable, StillPromised, SubOf
  <2>3. previews'[t] = previews[t]
    BY <2>1, Lasting DEF SubOf
  <2> HIDE DEF t
  <2> QED
    BY <2>1, <2>2, <2>3 DEF MustPay
<1>2. CASE ~ChangeLock(c)
  <2> DEFINE t == changers[c].token
  <2>1. /\ Executes(c) /\ changers'[c].token = t /\ changers'[c].plan = changers[c].plan
        /\ changers'[c].pc = "save" => changers[c].pc = "save"
        /\ changers'[c].pc = "paid" => changers[c].pc = "paid" \/ t \in upgraded'
    BY <1>2, ChangerMoves
  <2>2. t \in Tokens /\ previews[t].sub \in Subs
    BY <2>1, AtWork DEF SubOf, Executes
  <2>3. previews'[t] = previews[t] /\ upgraded \subseteq upgraded'
    BY <2>2, Lasting
  <2>4. /\ changers[c].plan.plan = previews[t].from
        /\ changers[c].pc = "save" => ~MustPay(t)
        /\ changers[c].pc = "paid" => t \in upgraded
    BY <2>1 DEF PromisesKept
  <2> HIDE DEF t
  <2> QED
    BY <2>1, <2>3, <2>4 DEF MustPay
<1> QED
  BY <1>1, <1>2

-----------------------------------------------------------------------------
(* Plans.                                                                  *)

\* What UpgradeWasPaid says of one document.
PaidFor(s, doc) ==
    doc.plan > FirstPlan =>
        \E t \in Tokens :
            /\ previews[t].sub = s
            /\ previews[t].to >= doc.plan
            /\ previews[t].free \/ t \in upgraded

GoodPlan(s, doc) == Cheaper(doc) /\ PaidFor(s, doc)

\* Whoever may store a plan later holds a good one.
PlansGood ==
    /\ \A s \in Subs : GoodPlan(s, plans[s])
    /\ \A b \in Runs : runs[b].sub \in Subs => GoodPlan(runs[b].sub, held[b])
    /\ \A c \in Changers : Executes(c) => GoodPlan(SubOf(c), changers[c].plan)
    /\ \A a \in Adjusters : Adjusts(a) => GoodPlan(adjusters[a].sub, adjusters[a].plan)

\* The same of a document after the step.
StaysGood(s, doc) ==
    /\ Cheaper(doc)
    /\ doc.plan > FirstPlan =>
          \E t \in Tokens :
              /\ previews'[t].sub = s
              /\ previews'[t].to >= doc.plan
              /\ previews'[t].free \/ t \in upgraded'

\* A document that is good stays good.
LEMMA GoodLasts ==
    ASSUME AdjustDocsOK, AdjustNext, NEW s \in Subs, NEW doc, GoodPlan(s, doc)
    PROVE  StaysGood(s, doc)
<1>1. /\ \A t \in Tokens : previews[t].sub \in Subs => previews'[t] = previews[t]
      /\ upgraded \subseteq upgraded'
  BY Lasting
<1> QED
  BY <1>1 DEF GoodPlan, PaidFor, StaysGood

\* The plan a change stores is paid for.
LEMMA ChangedIsGood ==
    ASSUME AdjustDocsOK, PromisesKept, PlansGood,
           NEW c \in Changers, changers[c].pc \in {"save", "paid"}
    PROVE  GoodPlan(SubOf(c), ChangedPlan(c))
<1> DEFINE t == changers[c].token
           p == previews[t]
           old == changers[c].plan
           new == ChangedPlan(c)
<1>1. /\ t \in Tokens /\ p.to \in Nat /\ p.from \in Nat /\ old.plan \in Nat
      /\ old.plan = p.from /\ FirstPlan \in Nat /\ p.to # NoPlan
      /\ changers[c].pc = "save" => ~MustPay(t)
      /\ changers[c].pc = "paid" => t \in upgraded
  BY AtWork, PlanAssumption DEF PromisesKept, Executes, Preview, PlanDoc
<1>2. Cheaper(old) /\ PaidFor(SubOf(c), old)
  BY DEF PlansGood, Executes, GoodPlan
<1>3. \/ new = old
      \/ p.to < p.from /\ new.plan = old.plan /\ new.pending = p.to
      \/ p.to > p.from /\ new = OnlyPlan(p.to)
  BY AtWork, ChangedPlans
<1>4. ASSUME p.to > p.from PROVE p.free \/ t \in upgraded
  BY <1>1, <1>4 DEF MustPay
<1>5. p.sub = SubOf(c)
  BY DEF SubOf
<1> HIDE DEF t, p, old, new
<1>6. CASE new = old
  BY <1>2, <1>6 DEF GoodPlan, new
<1>7. CASE p.to < p.from /\ new.plan = old.plan /\ new.pending = p.to
  BY <1>1, <1>2, <1>7 DEF GoodPlan, Cheaper, PaidFor, new
<1>8. CASE p.to > p.from /\ new = OnlyPlan(p.to)
  <2>1. new.plan = p.to /\ new.pending = NoPlan
    BY <1>8 DEF OnlyPlan
  <2>2. PaidFor(SubOf(c), new)
    BY <1>1, <1>4, <1>5, <1>8, <2>1 DEF PaidFor, p
  <2> QED
    BY <2>1, <2>2 DEF GoodPlan, Cheaper, new
<1> QED
  BY <1>3, <1>6, <1>7, <1>8

\* A plan that waited is cheaper than one that was paid for.
LEMMA PromotedIsGood ==
    ASSUME AdjustDocsOK, PlansGood, NEW s \in Subs, NEW d
    PROVE  GoodPlan(s, Promoted(plans[s], d))
<1> DEFINE old == plans[s]
           new == Promoted(plans[s], d)
<1>1. /\ old.plan \in Nat /\ FirstPlan \in Nat
      /\ old.pending # NoPlan => old.pending \in Nat
      /\ \A t \in Tokens : previews[t].to \in Nat
  BY PlanAssumption DEF AdjustDocsOK, AdjustTypeOK, PlansOK, PlanDoc, ChangersOK, Preview
<1>2. Cheaper(old) /\ PaidFor(s, old)
  BY DEF PlansGood, GoodPlan
<1>3. new = old \/ (old.pending # NoPlan /\ new = OnlyPlan(old.pending))
  BY PromotedPlans
<1> HIDE DEF old, new
<1>4. CASE new = old
  BY <1>2, <1>4 DEF GoodPlan, new
<1>5. CASE old.pending # NoPlan /\ new = OnlyPlan(old.pending)
  <2>1. new.plan = old.pending /\ new.pending = NoPlan /\ new.plan < old.plan
    BY <1>2, <1>5 DEF OnlyPlan, Cheaper
  <2>2. PaidFor(s, new)
    <3> SUFFICES ASSUME new.plan > FirstPlan
                 PROVE  \E t \in Tokens : /\ previews[t].sub = s
                                          /\ previews[t].to >= new.plan
                                          /\ previews[t].free \/ t \in upgraded
      BY DEF PaidFor
    <3>1. PICK t \in Tokens : /\ previews[t].sub = s
                              /\ previews[t].to >= old.plan
                              /\ previews[t].free \/ t \in upgraded
      BY <1>1, <1>2, <1>5, <2>1 DEF PaidFor
    <3>2. previews[t].to >= new.plan
      BY <1>1, <1>5, <2>1, <3>1
    <3> QED
      BY <3>1, <3>2
  <2> QED
    BY <2>1, <2>2 DEF GoodPlan, Cheaper, new
<1> QED
  BY <1>3, <1>4, <1>5

\* Whatever is stored, and held, is good.
LEMMA PlansStep ==
    ASSUME AdjustDocsOK, PromisesKept, PlansGood, AdjustNext
    PROVE  PlansGood'
<1>1. ASSUME NEW s \in Subs PROVE StaysGood(s, plans'[s])
  <2>1. CASE plans'[s] = plans[s]
    BY <2>1, GoodLasts DEF PlansGood
  <2>2. CASE \E b \in Runs : runs[b].sub = s /\ plans'[s] = held[b]
    BY <2>2, GoodLasts DEF PlansGood
  <2>3. CASE \E c \in Changers : /\ changers[c].pc \in {"save", "paid"} /\ SubOf(c) = s
                                 /\ plans'[s] = ChangedPlan(c)
    BY <2>3, ChangedIsGood, GoodLasts
  <2>4. CASE \E a \in Adjusters : /\ Adjusts(a) /\ adjusters[a].sub = s
                                  /\ plans'[s] = adjusters[a].plan
    BY <2>4, GoodLasts DEF PlansGood
  <2> QED
    BY <2>1, <2>2, <2>3, <2>4, PlanMoves
<1>2. ASSUME NEW b \in Runs, runs'[b].sub \in Subs PROVE StaysGood(runs'[b].sub, held'[b])
  <2>1. CASE runs'[b].sub = runs[b].sub /\ held'[b] = held[b]
    BY <1>2, <2>1, GoodLasts DEF PlansGood
  <2>2. CASE \E d \in Dates : held'[b] = Promoted(plans[runs'[b].sub], d)
    BY <1>2, <2>2, PromotedIsGood, GoodLasts
  <2>3. runs'[b].sub # NoSub
    BY <1>2, NoneAssumption
  <2> QED
    BY <2>1, <2>2, <2>3, HeldMoves
<1>3. ASSUME NEW c \in Changers, Executes(c)'
      PROVE  StaysGood(previews'[changers'[c].token].sub, changers'[c].plan)
  <2>1. CASE ChangeLock(c)
    <3>1. /\ SubOf(c) \in Subs /\ changers'[c].token = changers[c].token
          /\ changers[c].token \in Tokens /\ changers'[c].plan = plans[SubOf(c)]
      BY <2>1, ChangeLocks
    <3>2. previews'[changers'[c].token].sub = SubOf(c)
      BY <3>1, Lasting DEF SubOf
    <3> QED
      BY <3>1, <3>2, GoodLasts DEF PlansGood
  <2>2. CASE ~ChangeLock(c)
    <3>1. /\ Executes(c) /\ changers'[c].token = changers[c].token
          /\ changers'[c].plan = changers[c].plan
      BY <1>3, <2>2, ChangerMoves
    <3>2. SubOf(c) \in Subs /\ changers[c].token \in Tokens
      BY <3>1, AtWork DEF Executes
    <3>3. previews'[changers'[c].token].sub = SubOf(c)
      BY <3>1, <3>2, Lasting DEF SubOf
    <3> QED
      BY <3>1, <3>2, <3>3, GoodLasts DEF PlansGood
  <2> QED
    BY <2>1, <2>2
<1>4. ASSUME NEW a \in Adjusters, Adjusts(a)'
      PROVE  StaysGood(adjusters'[a].sub, adjusters'[a].plan)
  <2>1. adjusters'[a].sub \in Subs
    BY <1>4, AdjusterMoves
  <2>2. CASE Adjusts(a) /\ adjusters'[a] = adjusters[a]
    BY <2>1, <2>2, GoodLasts DEF PlansGood
  <2>3. CASE GatewayDone(a)
    <3>1. /\ Adjusts(a) /\ adjusters'[a].sub = adjusters[a].sub
          /\ adjusters'[a].plan = adjusters[a].plan
      BY <2>3, GatewayAnswers DEF Adjusts
    <3> QED
      BY <2>1, <3>1, GoodLasts DEF PlansGood
  <2>4. CASE adjusters'[a].plan = plans[adjusters'[a].sub]
    BY <2>1, <2>4, GoodLasts DEF PlansGood
  <2> QED
    BY <1>4, <2>2, <2>3, <2>4, AdjusterMoves
<1> QED
  BY <1>1, <1>2, <1>3, <1>4
  DEF PlansGood, GoodPlan, PaidFor, Cheaper, StaysGood, Executes, Adjusts, SubOf

-----------------------------------------------------------------------------
(* Money.                                                                  *)

\* What k is taken for was charged, if k is a key of a charge.
Real(s, d, k) ==
    /\ k = CycleKey => CycleKey \in taken[s][d]
    /\ k \in Tokens => k \in upgraded

\* RecordedWasTaken, and the same of whatever may be recorded later: what a
\* run or an adjustment is about to store, and what only the gateway knows.
ChargesGood ==
    /\ RecordedWasTaken
    /\ \A s \in Subs, d \in Dates : Real(s, d, lost[s][d])
    /\ \A b \in Runs : runs[b].pc = "paid" \/ b \in unheard =>
          runs[b].sub \in Subs /\ Real(runs[b].sub, runs[b].date, CycleKey)
    /\ \A a \in Adjusters : adjusters[a].pc = "save" =>
          Real(adjusters[a].sub, adjusters[a].date, adjusters[a].paid)

\* The same after the step.
StaysReal(s, d, k) ==
    /\ k = CycleKey => CycleKey \in taken'[s][d]
    /\ k \in Tokens => k \in upgraded'

\* Only the charge of a run changes what the gateway took for cycles.
LEMMA TakenMoves ==
    ASSUME AdjustDocsOK, AdjustNext
    PROVE  UNCHANGED taken \/ \E b \in Runs : RunCharged(b)
BY AdjustSteps, BillingParts
DEF PlanStep, AdminStep, OtherRunStep, RunStart, RunSkip, RunNotCharged, RunAborted, RunEnd,
    PlannedRunTake, RunTake, PlannedRunSave, RunSave, LockedCancel, LockedResume,
    ScheduleCancel, Resume, Expire, Tick

\* What was taken stays taken.
LEMMA TakenLasts ==
    ASSUME AdjustDocsOK, AdjustNext, NEW s \in Subs, NEW d \in Dates
    PROVE  taken[s][d] \subseteq taken'[s][d]
<1>1. RunsOK /\ taken \in [Subs -> [Dates -> SUBSET Keys]]
  BY DEF AdjustDocsOK, AdjustTypeOK
<1>2. CASE \E b \in Runs : RunCharged(b)
  <2> PICK b \in Runs : RunCharged(b)
    BY <1>2
  <2>1. taken'[s][d] \in {taken[s][d] \cup {CycleKey}, taken[s][d]}
    BY <1>1, RunCharges
  <2> QED
    BY <2>1
<1> QED
  BY <1>2, TakenMoves

\* What is real stays so.
LEMMA RealLasts ==
    ASSUME AdjustDocsOK, AdjustNext, NEW s \in Subs, NEW d \in Dates, NEW k, Real(s, d, k)
    PROVE  StaysReal(s, d, k)
BY Lasting, TakenLasts DEF Real, StaysReal

\* A run that has been paid, or has failed under a charge that nobody heard
\* of, was so before, or is charging right now.
LEMMA RunPays ==
    ASSUME AdjustDocsOK, AdjustNext, NEW b \in Runs, runs'[b].pc = "paid" \/ b \in unheard'
    PROVE  /\ runs'[b].sub \in Subs /\ runs'[b].date \in Dates
           /\ runs'[b].sub = runs[b].sub /\ runs'[b].date = runs[b].date
           /\ \/ runs[b].pc = "paid" \/ b \in unheard
              \/ CycleKey \in taken'[runs[b].sub][runs[b].date]
<1>t. RunsOK /\ RunsOK' /\ taken \in [Subs -> [Dates -> SUBSET Keys]]
  BY RunsTyped DEF AdjustDocsOK, AdjustTypeOK
<1>1. unheard' = {q \in Runs : runs'[q].pc = "failed" /\
                     (q \in unheard \/ (runs[q].pc = "charge" /\ taken' # taken))}
  BY DEF AdjustNext, Gateway
<1>2. runs'[b].pc \in {"paid", "failed"}
  BY <1>1
<1>3. runs'[b].sub \in Subs /\ runs'[b].date \in Dates
  BY <1>t, <1>2 DEF RunsOK, Outcomes
<1>4. ASSUME RunCharged(b)
      PROVE  /\ runs'[b].sub = runs[b].sub /\ runs'[b].date = runs[b].date
             /\ CycleKey \in taken'[runs[b].sub][runs[b].date]
  BY <1>t, <1>4, RunCharges
<1>5. CASE UNCHANGED runs
  <2>1. b \in unheard' => b \in unheard
    BY <1>1, <1>2, <1>5
  <2> QED
    BY <1>3, <1>5, <2>1
<1>6. ASSUME NEW q \in Runs, RunStep(q) \/ \E d \in Dates : RunStart(q, d)
      PROVE  /\ runs'[b].sub = runs[b].sub /\ runs'[b].date = runs[b].date
             /\ \/ runs[b].pc = "paid" \/ b \in unheard
                \/ CycleKey \in taken'[runs[b].sub][runs[b].date]
  <2>1. CASE q # b
    <3>1. runs'[b] = runs[b]
      BY <1>6, <2>1, RunMoves
    <3>2. b \in unheard' => b \in unheard
      BY <1>1, <1>2, <3>1
    <3> QED
      BY <3>1, <3>2
  <2>2. CASE q = b
    <3>1. StaysWith(b)
      BY <1>2, <1>6, <2>2, RunMoves
    <3>2. ASSUME taken' # taken PROVE RunCharged(b)
      BY <1>6, <2>2, <3>2
      DEF RunStep, RunStart, RunTake, RunSkip, RunNotCharged, RunSave, RunAborted, RunEnd
    <3> QED
      BY <1>1, <1>4, <3>1, <3>2 DEF StaysWith
  <2> QED
    BY <2>1, <2>2
<1>7. UNCHANGED runs \/ \E q \in Runs : RunStep(q) \/ \E d \in Dates : RunStart(q, d)
  BY AdjustSteps, BillingParts
  DEF PlanStep, AdminStep, OtherRunStep, RunStep, PlannedRunTake, PlannedRunSave,
      LockedCancel, LockedResume, ScheduleCancel, Resume, Expire, Tick
<1> QED
  BY <1>3, <1>5, <1>6, <1>7

\* The payment the gateway tells of was charged.
LEMMA ChargedForIsReal ==
    ASSUME ChargesGood, NEW s \in Subs, NEW d \in Dates
    PROVE  Real(s, d, ChargedFor(s, d))
BY DEF ChargesGood, RecordedWasTaken, Real, ChargedFor

\* What a cycle is recorded as paid with was charged.
LEMMA CyclesStep ==
    ASSUME AdjustDocsOK, PromisesKept, ChargesGood, AdjustNext, NEW s \in Subs, NEW d \in Dates
    PROVE  /\ StaysReal(s, d, cycles'[s][d].paidWith)
           /\ cycles'[s][d].invoice = "paid" <=> cycles'[s][d].paidWith # NoKey
<1> DEFINE old == cycles[s][d]
           new == cycles'[s][d]
<1>a. /\ NoKey # CycleKey /\ NoKey \notin Tokens
  BY NoneAssumption, ChangerAssumption
<1>b. /\ CycleKey \notin Tokens
  BY ChangerAssumption DEF Keys
<1>1. CASE new = old
  <2>1. Real(s, d, old.paidWith) /\ (old.invoice = "paid" <=> old.paidWith # NoKey)
    BY DEF ChargesGood, RecordedWasTaken, Real
  <2> QED
    BY <1>1, <2>1, RealLasts
<1>2. CASE new.invoice = "issued" /\ new.paidWith = NoKey
  BY <1>a, <1>2 DEF StaysReal
<1>3. ASSUME NEW b \in Runs, runs[b].pc = "paid", runs[b].sub = s, runs[b].date = d,
             new.paidWith = CycleKey
      PROVE  StaysReal(s, d, new.paidWith) /\ new.paidWith # NoKey
  <2>1. Real(s, d, CycleKey)
    BY <1>3 DEF ChargesGood
  <2> QED
    BY <1>a, <1>3, <2>1, RealLasts
<1>4. ASSUME NEW c \in Changers, changers[c].pc = "paid", new.paidWith = changers[c].token
      PROVE  StaysReal(s, d, new.paidWith) /\ new.paidWith # NoKey
  <2>1. changers[c].token \in upgraded /\ changers[c].token \in Tokens
    BY <1>4, AtWork DEF PromisesKept, Executes
  <2>2. changers[c].token \in upgraded'
    BY <2>1, Lasting
  <2> QED
    BY <1>a, <1>b, <1>4, <2>1, <2>2 DEF StaysReal
<1>5. ASSUME NEW a \in Adjusters, adjusters[a].pc = "save", adjusters[a].sub = s,
             adjusters[a].date = d, new.paidWith = adjusters[a].paid
      PROVE  StaysReal(s, d, new.paidWith)
  BY <1>5, RealLasts DEF ChargesGood
<1> HIDE DEF old, new
<1> QED
  BY <1>1, <1>2, <1>3, <1>4, <1>5, CycleMoves DEF old, new

\* A change that is answered as a success was free or paid for.
LEMMA AnswersStep ==
    ASSUME AdjustDocsOK, KeysHeld, PromisesKept, ChargesGood, AdjustNext,
           NEW k \in ChangeKeys, changeKeys'[k].status = "succeeded"
    PROVE  LET t == changeKeys'[k].token IN
           previews'[t].to > previews'[t].from /\ ~previews'[t].free => t \in upgraded'
<1>1. CASE changeKeys'[k] = changeKeys[k]
  <2> DEFINE t == changeKeys[k].token
  <2>1. t \in Tokens /\ previews[t].sub \in Subs
    BY <1>1 DEF KeysHeld
  <2>2. previews'[t] = previews[t] /\ upgraded \subseteq upgraded'
    BY <2>1, Lasting
  <2>3. MustPay(t) => t \in upgraded
    BY <1>1 DEF ChargesGood, RecordedWasTaken
  <2> QED
    BY <1>1, <2>2, <2>3 DEF MustPay
<1>2. ASSUME NEW c \in Changers, ChangeLock(c), changers[c].key = k PROVE FALSE
  <2>1. changeKeys'[k] = [status |-> "processing", token |-> changers[c].token]
    BY <1>2, KeyMoves
  <2> QED
    BY <2>1
<1>3. ASSUME NEW c \in Changers, Executes(c), changers[c].key = k,
             changeKeys'[k].token = changeKeys[k].token,
             changers[c].pc \in {"save", "paid"}
      PROVE  LET t == changeKeys'[k].token IN
             previews'[t].to > previews'[t].from /\ ~previews'[t].free => t \in upgraded'
  <2> DEFINE t == changers[c].token
  <2>1. changeKeys'[k].token = t
    BY <1>3 DEF KeysHeld
  <2>2. t \in Tokens /\ previews[t].sub \in Subs
    BY <1>3, AtWork DEF SubOf
  <2>3. previews'[t] = previews[t] /\ upgraded \subseteq upgraded'
    BY <2>2, Lasting
  <2>4. ~MustPay(t) \/ t \in upgraded
    BY <1>3 DEF PromisesKept
  <2> QED
    BY <2>1, <2>3, <2>4 DEF MustPay
<1> QED
  BY <1>1, <1>2, <1>3, KeyMoves

\* Nothing is recorded, or about to be recorded, that was not taken.
LEMMA ChargesStep ==
    ASSUME AdjustDocsOK, KeysHeld, PromisesKept, ChargesGood, AdjustNext
    PROVE  ChargesGood'
<1>a. /\ NoKey # CycleKey /\ NoKey \notin Tokens /\ Waived # CycleKey /\ Waived \notin Tokens
      /\ CycleKey \notin Tokens
  BY NoneAssumption, ChangerAssumption, AdjustAssumption DEF Keys
<1>1. RecordedWasTaken'
  <2>1. ASSUME NEW s \in Subs, NEW d \in Dates
        PROVE  /\ cycles'[s][d].paidWith = CycleKey => CycleKey \in taken'[s][d]
               /\ cycles'[s][d].paidWith \in Tokens => cycles'[s][d].paidWith \in upgraded'
               /\ cycles'[s][d].invoice = "paid" <=> cycles'[s][d].paidWith # NoKey
    BY CyclesStep DEF StaysReal
  <2>2. \A k \in ChangeKeys : changeKeys'[k].status = "succeeded" =>
           LET t == changeKeys'[k].token IN
           previews'[t].to > previews'[t].from /\ ~previews'[t].free => t \in upgraded'
    BY AnswersStep
  <2> QED
    BY <2>1, <2>2 DEF RecordedWasTaken, MustPay
<1>2. ASSUME NEW s \in Subs, NEW d \in Dates PROVE StaysReal(s, d, lost'[s][d])
  <2>1. CASE lost'[s][d] = lost[s][d]
    BY <2>1, RealLasts DEF ChargesGood
  <2>2. CASE lost'[s][d] = NoKey
    BY <1>a, <2>2 DEF StaysReal
  <2>3. CASE /\ lost'[s][d] = CycleKey
             /\ \E b \in unheard : runs[b].sub = s /\ runs[b].date = d
    <3>1. unheard \subseteq Runs
      BY DEF AdjustDocsOK, AdjustTypeOK
    <3>2. Real(s, d, CycleKey)
      BY <2>3, <3>1 DEF ChargesGood
    <3> QED
      BY <2>3, <3>2, RealLasts
  <2>4. CASE lost'[s][d] \in upgraded
    <3>1. upgraded \subseteq upgraded' /\ upgraded \subseteq Tokens
      BY Lasting DEF AdjustDocsOK, AdjustTypeOK, ChangersOK
    <3> QED
      BY <1>a, <2>4, <3>1 DEF StaysReal
  <2> QED
    BY <2>1, <2>2, <2>3, <2>4, LostMoves
<1>3. ASSUME NEW b \in Runs, runs'[b].pc = "paid" \/ b \in unheard'
      PROVE  runs'[b].sub \in Subs /\ StaysReal(runs'[b].sub, runs'[b].date, CycleKey)
  <2>1. /\ runs'[b].sub \in Subs /\ runs'[b].date \in Dates
        /\ runs'[b].sub = runs[b].sub /\ runs'[b].date = runs[b].date
        /\ \/ runs[b].pc = "paid" \/ b \in unheard
           \/ CycleKey \in taken'[runs[b].sub][runs[b].date]
    BY <1>3, RunPays
  <2>2. CASE runs[b].pc = "paid" \/ b \in unheard
    <3>1. Real(runs[b].sub, runs[b].date, CycleKey)
      BY <2>2 DEF ChargesGood
    <3> QED
      BY <2>1, <3>1, RealLasts
  <2> QED
    BY <1>a, <2>1, <2>2 DEF StaysReal
<1>4. ASSUME NEW a \in Adjusters, adjusters'[a].pc = "save"
      PROVE  StaysReal(adjusters'[a].sub, adjusters'[a].date, adjusters'[a].paid)
  <2>0. Adjusts(a)'
    BY <1>4 DEF Adjusts
  <2>1. CASE adjusters'[a] = adjusters[a]
    <3>1. adjusters[a].sub \in Subs /\ adjusters[a].date \in Dates
      BY <1>4, <2>1 DEF AdjustDocsOK, AdjustTypeOK, Adjusts
    <3>2. Real(adjusters[a].sub, adjusters[a].date, adjusters[a].paid)
      BY <1>4, <2>1 DEF ChargesGood
    <3> QED
      BY <2>1, <3>1, <3>2, RealLasts
  <2>2. CASE GatewayDone(a)
    <3>1. /\ adjusters[a].sub \in Subs /\ adjusters[a].date \in Dates
          /\ adjusters'[a].sub = adjusters[a].sub /\ adjusters'[a].date = adjusters[a].date
          /\ adjusters'[a].paid = ChargedFor(adjusters[a].sub, adjusters[a].date)
      BY <2>2, GatewayAnswers DEF AdjustDocsOK, AdjustTypeOK
    <3> QED
      BY <3>1, ChargedForIsReal, RealLasts
  <2>3. CASE adjusters'[a].paid \in {NoKey, Waived}
    BY <1>a, <2>3 DEF StaysReal
  <2> QED
    BY <2>0, <2>1, <2>2, <2>3, AdjusterMoves
<1> QED
  BY <1>1, <1>2, <1>3, <1>4 DEF ChargesGood, Real, StaysReal

-----------------------------------------------------------------------------
(* Cancellations.                                                          *)

\* A change works on a subscription that was active.  While the lock has not
\* lapsed under its owner, a subscription that is worked on belongs to one
\* process, and renews; an adjustment of another one is still asking, and will
\* store nothing.
LocksGood ==
    /\ \A c \in Changers : Executes(c) => changers[c].seen.status = "active"
    /\ \A s \in Subs \ overrun :
          /\ \A c \in Changers : Executes(c) /\ SubOf(c) = s => editLock[s] = c /\ Renewing(s)
          /\ \A a \in Adjusters : Adjusts(a) /\ adjusters[a].sub = s =>
                /\ editLock[s] = a
                /\ adjusters[a].pc = "save" \/ adjusters[a].doc.status \in {"active", "past_due"}
                      => Renewing(s)

\* Nobody who is at work on a subscription has the name of no owner, and
\* changes and adjustments are not the same requests.
LEMMA OwnersDiffer ==
    /\ \A c \in Changers : c \notin {Nobody, Gone} /\ c \notin Adjusters
    /\ \A a \in Adjusters : a \notin {Nobody, Gone}
BY ChangerAssumption, AdjustAssumption

\* A process that stays at work keeps its lock, unless the lock lapses.
LEMMA LockLasts ==
    ASSUME AdjustDocsOK, AdjustNext, NEW s \in Subs \ overrun',
           \/ editLock[s] \in Changers /\ changers'[editLock[s]].pc # "idle"
           \/ editLock[s] \in Adjusters /\ adjusters'[editLock[s]].pc # "idle"
    PROVE  editLock'[s] = editLock[s]
BY EditLockMoves, OwnersDiffer

\* A subscription that a change or an adjustment may store goes on renewing.
LEMMA RenewingLasts ==
    ASSUME AdjustDocsOK, LocksGood, AdjustNext, NEW s \in Subs \ overrun, Renewing(s),
           \/ editLock[s] \in Changers
           \/ editLock[s] \in Adjusters /\ adjusters'[editLock[s]].pc # "idle"
    PROVE  Renewing(s)'
<1>1. /\ editLock[s] # Nobody
      /\ \A a \in Adjusters : ~(adjusters[a].pc = "save" /\ adjusters[a].sub = s /\ ~Adjusts(a)')
  <2>1. ASSUME NEW a \in Adjusters, adjusters[a].pc = "save", adjusters[a].sub = s
        PROVE  editLock[s] = a
    BY <2>1 DEF LocksGood, Adjusts
  <2> QED
    BY <2>1, OwnersDiffer DEF Adjusts
<1>2. \A c \in Changers : Executes(c) => changers[c].seen.status = "active"
  BY DEF LocksGood
<1>3. subs[s].status \in {"active", "past_due"}
  BY DEF Renewing
<1>4. subs'[s].status \in {"active", "past_due"}
  BY <1>1, <1>2, <1>3, SubMoves
<1> QED
  BY <1>4 DEF Renewing

\* Whoever is at work has the lock, and what it works on renews.
LEMMA LocksStep ==
    ASSUME AdjustDocsOK, LocksGood, AdjustNext
    PROVE  LocksGood'
<1>1. ASSUME NEW c \in Changers, Executes(c)'
      PROVE  /\ changers'[c].seen.status = "active"
             /\ \A s \in Subs \ overrun' : previews'[changers'[c].token].sub = s =>
                   editLock'[s] = c /\ Renewing(s)'
  <2>1. CASE ChangeLock(c)
    <3>1. /\ SubOf(c) \in Subs /\ changers[c].token \in Tokens
          /\ changers'[c].token = changers[c].token /\ changers'[c].seen = subs[SubOf(c)]
      BY <2>1, ChangeLocks
    <3>2. subs[SubOf(c)].status = "active" /\ UNCHANGED subs
      BY <2>1 DEF ChangeLock, Executable, StillPromised, SubOf, vars
    <3>3. previews'[changers[c].token] = previews[changers[c].token]
      BY <3>1, Lasting DEF SubOf
    <3>4. editLock'[SubOf(c)] = c
      BY <2>1, EditLockMoves
    <3> QED
      BY <3>1, <3>2, <3>3, <3>4 DEF SubOf, Renewing
  <2>2. CASE ~ChangeLock(c)
    <3>1. /\ Executes(c) /\ changers'[c].token = changers[c].token
          /\ changers'[c].seen = changers[c].seen
      BY <1>1, <2>2, ChangerMoves
    <3>2. SubOf(c) \in Subs /\ changers[c].token \in Tokens
      BY <3>1, AtWork DEF Executes
    <3>3. previews'[changers'[c].token].sub = SubOf(c)
      BY <3>1, <3>2, Lasting DEF SubOf
    <3>4. ASSUME NEW s \in Subs \ overrun', SubOf(c) = s
          PROVE  editLock'[s] = c /\ Renewing(s)'
      <4>1. s \notin overrun
        BY Lasting
      <4>2. editLock[s] = c /\ Renewing(s)
        BY <3>1, <3>4, <4>1 DEF LocksGood
      <4>3. changers'[c].pc # "idle"
        BY <1>1 DEF Executes
      <4>4. editLock'[s] = c
        BY <4>2, <4>3, LockLasts
      <4> QED
        BY <4>1, <4>2, <4>4, RenewingLasts
    <3> QED
      BY <3>1, <3>3, <3>4 DEF LocksGood
  <2> QED
    BY <2>1, <2>2
<1>2. ASSUME NEW a \in Adjusters, Adjusts(a)', NEW s \in Subs \ overrun', adjusters'[a].sub = s
      PROVE  /\ editLock'[s] = a
             /\ adjusters'[a].pc = "save" \/ adjusters'[a].doc.status \in {"active", "past_due"}
                   => Renewing(s)'
  <2>0. s \notin overrun
    BY Lasting
  <2>1. CASE Adjusts(a) /\ adjusters'[a] = adjusters[a]
    <3>1. /\ editLock[s] = a
          /\ adjusters[a].pc = "save" \/ adjusters[a].doc.status \in {"active", "past_due"}
                => Renewing(s)
      BY <1>2, <2>0, <2>1 DEF LocksGood
    <3>2. editLock'[s] = a
      BY <1>2, <3>1, LockLasts DEF Adjusts
    <3> QED
      BY <1>2, <2>0, <2>1, <3>1, <3>2, RenewingLasts DEF Adjusts
  <2>2. CASE GatewayDone(a)
    <3>1. /\ Adjusts(a) /\ adjusters[a].doc.status \in {"active", "past_due"}
          /\ adjusters[a].sub = s /\ UNCHANGED <<subs, editLock>>
      BY <1>2, <2>2, GatewayAnswers DEF Adjusts
    <3>2. editLock[s] = a /\ Renewing(s)
      BY <2>0, <3>1 DEF LocksGood
    <3> QED
      BY <3>1, <3>2 DEF Renewing
  <2>3. CASE /\ UNCHANGED subs /\ editLock'[s] = a
             /\ adjusters'[a].pc = "save" => Renewing(s)
             /\ adjusters'[a].pc = "ask" => adjusters'[a].doc = subs[s]
    <3>1. adjusters'[a].pc \in {"ask", "save"}
      BY <1>2, AdjusterMoves DEF Adjusts, Adjuster, AdjustPc
    <3> QED
      BY <2>3, <3>1 DEF Renewing
  <2> QED
    BY <1>2, <2>1, <2>2, <2>3, AdjusterMoves
<1> QED
  BY <1>1, <1>2 DEF LocksGood, Executes, Adjusts, SubOf

-----------------------------------------------------------------------------
(* All of it together.                                                     *)

AdjustInv ==
    /\ AdjustDocsOK
    /\ KeysHeld /\ PromisesKept
    /\ PlansGood /\ ChargesGood /\ LocksGood

\* At first nobody is at work, every subscription has the first plan, and
\* nothing is recorded as paid.
LEMMA AdjustInvInit == AdjustInit => AdjustInv
<1> SUFFICES ASSUME AdjustInit PROVE AdjustInv
  OBVIOUS
<1>1. AdjustDocsOK
  BY DocsInit
<1>2. /\ \A k \in ChangeKeys : changeKeys[k].status = "none"
      /\ \A c \in Changers : ~Executes(c)
      /\ \A a \in Adjusters : adjusters[a].pc = "idle"
      /\ unheard = {} /\ \A s \in Subs, d \in Dates : lost[s][d] = NoKey
  BY DEF AdjustInit, ChangeInit, NoChangeKey, ChangerIdle, AdjusterIdle, Executes
<1>3. /\ \A s \in Subs, d \in Dates : cycles[s][d].invoice = "none" /\ cycles[s][d].paidWith = NoKey
      /\ \A b \in Runs : runs[b].pc = "idle" /\ runs[b].sub = NoSub
  BY DEF AdjustInit, ChangeInit, Init, NoCycle, RunIdle
<1>4. KeysHeld /\ PromisesKept
  BY <1>2 DEF KeysHeld, PromisesKept
<1>5. PlansGood
  <2>1. \A s \in Subs : plans[s] = OnlyPlan(FirstPlan)
    BY DEF AdjustInit, ChangeInit
  <2>2. Cheaper(OnlyPlan(FirstPlan)) /\ ~(OnlyPlan(FirstPlan).plan > FirstPlan)
    BY PlanAssumption DEF Cheaper, OnlyPlan
  <2> QED
    BY <1>2, <1>3, <2>1, <2>2, NoneAssumption DEF PlansGood, GoodPlan, PaidFor, Adjusts
<1>6. ChargesGood
  BY <1>2, <1>3, NoneAssumption, ChangerAssumption DEF ChargesGood, RecordedWasTaken, Real
<1>7. LocksGood
  BY <1>2 DEF LocksGood, Adjusts
<1> QED
  BY <1>1, <1>4, <1>5, <1>6, <1>7 DEF AdjustInv

\* Every step keeps the invariant.
LEMMA AdjustInvStep == AdjustInv /\ [AdjustNext]_everything => AdjustInv'
<1>1. ASSUME AdjustInv, AdjustNext PROVE AdjustInv'
  BY <1>1, DocsStep, KeysStep, PromisesStep, PlansStep, ChargesStep, LocksStep DEF AdjustInv
<1>2. ASSUME AdjustInv, UNCHANGED everything PROVE AdjustInv'
  <2>1. AdjustDocsOK'
    BY <1>2, DocsStep DEF AdjustInv
  <2>2. /\ UNCHANGED <<now, subs, cycles, runs, taken, plans, held, previews, changeKeys>>
        /\ UNCHANGED <<editLock, changers, upgraded, overrun, adjustKeys, adjusters>>
        /\ UNCHANGED <<unheard, lost>>
    BY <1>2 DEF everything, allVars, changeVars, requestVars, vars, adjustVars, gatewayVars
  <2>3. KeysHeld' /\ PromisesKept'
    BY <1>2, <2>2 DEF AdjustInv, KeysHeld, PromisesKept, Executes, MustPay
  <2>4. PlansGood'
    BY <1>2, <2>2
    DEF AdjustInv, PlansGood, GoodPlan, Cheaper, PaidFor, Executes, Adjusts, SubOf
  <2>5. ChargesGood'
    BY <1>2, <2>2 DEF AdjustInv, ChargesGood, RecordedWasTaken, Real, MustPay
  <2>6. LocksGood'
    BY <1>2, <2>2 DEF AdjustInv, LocksGood, Executes, Adjusts, SubOf, Renewing
  <2> QED
    BY <2>1, <2>3, <2>4, <2>5, <2>6 DEF AdjustInv
<1> QED
  BY <1>1, <1>2

\* By induction on the steps.
LEMMA AdjustInvHolds == AdjustSpec => []AdjustInv
BY AdjustInvInit, AdjustInvStep, PTL DEF AdjustSpec

\* Nobody waits for a dearer plan (PendingIsCheaper): a change lets only a
\* cheaper plan wait, and beside it stands the plan the change was previewed
\* for, whatever was stored in between.
THEOREM WaitsForCheaper == AdjustSpec => []PendingIsCheaper
<1>1. AdjustInv => PendingIsCheaper
  BY DEF AdjustInv, PlansGood, GoodPlan, PendingIsCheaper
<1> QED
  BY <1>1, AdjustInvHolds, PTL

\* No order of stale saves gives a plan away (UpgradeWasPaid): whoever may
\* store a dearer plan holds one that was charged, or was free.
THEOREM UpgradesPaid == AdjustSpec => []UpgradeWasPaid
<1>1. AdjustInv => UpgradeWasPaid
  BY DEF AdjustInv, PlansGood, GoodPlan, PaidFor, UpgradeWasPaid
<1> QED
  BY <1>1, AdjustInvHolds, PTL

\* What is recorded as paid, and answered as a success, was taken by the
\* gateway or waived (RecordedWasTaken), for any number of runs, changes and
\* adjustments at once.
THEOREM RecordedTaken == AdjustSpec => []RecordedWasTaken
<1>1. AdjustInv => RecordedWasTaken
  BY DEF AdjustInv, ChargesGood
<1> QED
  BY <1>1, AdjustInvHolds, PTL

\* A step leaves a cancellation to the customer and to its own end.
LEMMA CancellationStep ==
    ASSUME AdjustInv, AdjustNext, NEW s \in Subs \ overrun'
    PROVE  /\ subs[s].status = "canceled" => subs'[s].status = "canceled"
           /\ subs[s].status = "cancel_scheduled" =>
                 \/ subs'[s].status \in {"cancel_scheduled", "canceled"}
                 \/ subs'[s] = Resumed(s) /\ editLock[s] = Nobody
<1>1. AdjustDocsOK /\ LocksGood
  BY DEF AdjustInv
<1>2. s \notin overrun
  BY <1>1, Lasting
<1>3. /\ \A c \in Changers : Executes(c) /\ SubOf(c) = s => Renewing(s)
      /\ \A a \in Adjusters : adjusters[a].pc = "save" /\ adjusters[a].sub = s => Renewing(s)
  BY <1>1, <1>2 DEF LocksGood, Adjusts
<1>4. ASSUME subs[s].status \in {"canceled", "cancel_scheduled"}
      PROVE  /\ \A c \in Changers : ~(Executes(c) /\ SubOf(c) = s)
             /\ \A a \in Adjusters : ~(adjusters[a].pc = "save" /\ adjusters[a].sub = s)
  BY <1>3, <1>4 DEF Renewing
<1> QED
  BY <1>1, <1>4, SubMoves

\* Changes, adjustments and runs do not undo a cancellation with what they
\* read before it (CancellationHolds), unless a lock lapsed under its owner.
THEOREM CancellationsHold == AdjustSpec => CancellationHolds
<1> DEFINE Holds ==
      \A s \in Subs \ overrun' :
          /\ subs[s].status = "canceled" => subs'[s].status = "canceled"
          /\ subs[s].status = "cancel_scheduled" =>
                \/ subs'[s].status \in {"cancel_scheduled", "canceled"}
                \/ subs'[s] = Resumed(s) /\ editLock[s] = Nobody
<1>1. AdjustInv /\ [AdjustNext]_everything => [Holds]_allVars
  <2>1. ASSUME AdjustInv, AdjustNext PROVE Holds
    BY <2>1, CancellationStep
  <2>2. UNCHANGED everything => UNCHANGED allVars
    BY DEF everything
  <2> QED
    BY <2>1, <2>2
<1>2. CancellationHolds <=> [][Holds]_allVars
  BY PTL DEF CancellationHolds
<1> HIDE DEF Holds
<1> QED
  BY <1>1, <1>2, AdjustInvHolds, PTL DEF AdjustSpec
==============================================================================
