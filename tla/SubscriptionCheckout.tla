------------------------ MODULE SubscriptionCheckout ------------------------
(***************************************************************************)
(* The checkout of a subscription (application/subscription_checkout.py):  *)
(* a pending subscription, and its confirmation, which issues a billing    *)
(* key, charges the first payment and stores the billing method with it.   *)
(* It extends BillingMethods, whose methods it writes: the same user may   *)
(* register, choose and delete methods meanwhile.                          *)
(*                                                                         *)
(* The subscriptions are those of one user for one product.  A             *)
(* confirmation works under a lock that lapses after five minutes, also    *)
(* under a process that is still waiting for the gateway.                  *)
(***************************************************************************)
EXTENDS BillingMethods

CONSTANTS Confirmers,  \* server processes that confirm
          ConfirmKeys, \* Idempotency-Key values of confirmations
          LastDay,     \* bound: the last day of the calendar
          NoSub, Nobody,
          Gone         \* owner of a lock whose process has crashed

ASSUME ConfirmAssumption ==
    /\ LastDay \in Nat
    /\ Confirmers \cap {Nobody, Gone} = {}
    /\ Nobody # Gone
    /\ NoSub \notin Subs
    /\ NoKey \notin ConfirmKeys

VARIABLES today,       \* the date
          cycles,      \* [invoice, paidWith] of each subscription and date
          confirmKeys, \* [status, sub] of each key
          confirmLock, \* owner of lock subscriptions-confirm:<sub>
          confirmers,  \* each confirming process
          taken,       \* at the gateway: the keys a subscription was charged under
          overrun      \* subscriptions whose lock lapsed under a live owner

checkoutVars == <<subs, today, cycles, confirmKeys, confirmLock, confirmers, taken, overrun>>
vars == <<methodVars, checkoutVars>>

Days == 0..LastDay
Cycle == [invoice : {"none", "issued", "paid"}, paidWith : ConfirmKeys \cup {NoKey}]
ConfirmerIdle == [pc |-> "idle", sub |-> NoSub, key |-> NoKey, card |-> NoCard,
                  day |-> 0, isDefault |-> FALSE, open |-> FALSE]

CheckoutTypeOK ==
    /\ MethodsTypeOK
    /\ subs \in [Subs -> SubStatus]
    /\ today \in Days
    /\ cycles \in [Subs -> [Days -> Cycle]]
    /\ confirmKeys \in [ConfirmKeys -> [status : KeyStatus, sub : Subs \cup {NoSub}]]
    /\ confirmLock \in [Subs -> Confirmers \cup {Nobody, Gone}]
    /\ confirmers \in [Confirmers ->
          [pc : {"idle", "lock", "issue", "charge", "paid", "failed"}, sub : Subs \cup {NoSub},
           key : ConfirmKeys \cup {NoKey}, card : Cards \cup {NoCard}, day : Days,
           isDefault : BOOLEAN, open : BOOLEAN]]
    /\ taken \in [Subs -> SUBSET ConfirmKeys]
    /\ overrun \subseteq Subs
    /\ \A f \in Confirmers : confirmers[f].pc # "idle" =>
          /\ confirmers[f].sub \in Subs
          /\ confirmers[f].key \in ConfirmKeys
          /\ confirmers[f].card \in Cards

Init ==
    /\ MethodsInit
    /\ subs = [s \in Subs |-> "none"]
    /\ today = 0
    /\ cycles = [s \in Subs |-> [d \in Days |-> [invoice |-> "none", paidWith |-> NoKey]]]
    /\ confirmKeys = [k \in ConfirmKeys |-> [status |-> "none", sub |-> NoSub]]
    /\ confirmLock = [s \in Subs |-> Nobody]
    /\ confirmers = [f \in Confirmers |-> ConfirmerIdle]
    /\ taken = [s \in Subs |-> {}]
    /\ overrun = {}

-----------------------------------------------------------------------------
\* The unique index on the subscriptions a user holds of a product makes the
\* count before it and the insertion one step.  A repetition of the request is
\* answered, or refused by the count.
CreateCheckout(s) ==
    /\ subs[s] = "none"
    /\ Holding = {}
    /\ subs' = [subs EXCEPT ![s] = "pending"]
    /\ UNCHANGED <<methodVars, today, cycles, confirmKeys, confirmLock, confirmers, taken, overrun>>

\* Mutant: the cycle is named after the next date.
ConfirmRequestTomorrow(f, s, k, c) ==
    /\ confirmers[f].pc = "idle"
    /\ subs[s] # "none"
    /\ confirmers' = [confirmers EXCEPT ![f] =
          [pc |-> "lock", sub |-> s, key |-> k, card |-> c, day |-> today + 1,
           isDefault |-> FALSE, open |-> FALSE]]
    /\ UNCHANGED <<methodVars, subs, today, cycles, confirmKeys, confirmLock, taken, overrun>>

\* `now`, which names the billing cycle, is read before the lock.
ConfirmRequest(f, s, k, c) ==
    /\ confirmers[f].pc = "idle"
    /\ subs[s] # "none"
    /\ confirmers' = [confirmers EXCEPT ![f] =
          [pc |-> "lock", sub |-> s, key |-> k, card |-> c, day |-> today,
           isDefault |-> FALSE, open |-> FALSE]]
    /\ UNCHANGED <<methodVars, subs, today, cycles, confirmKeys, confirmLock, taken, overrun>>

\* Mutant: the status of the subscription is not looked at.
ConfirmableAnyStatus(s, k) ==
    /\ confirmKeys[k].status = "none"
    /\ subs[s] # "none"

\* A key that was used, or a success stored for the subscription under another
\* key, answers or refuses the request before this.
Confirmable(s, k) ==
    /\ confirmKeys[k].status = "none"
    /\ \A x \in ConfirmKeys : confirmKeys[x] # [status |-> "succeeded", sub |-> s]
    /\ subs[s] = "pending"

ConfirmLock(f) ==
    LET s == confirmers[f].sub
        k == confirmers[f].key
    IN  /\ confirmers[f].pc = "lock"
        /\ confirmLock[s] = Nobody
        /\ Confirmable(s, k)
        /\ confirmLock' = [confirmLock EXCEPT ![s] = f]
        /\ confirmKeys' = [confirmKeys EXCEPT ![k] = [status |-> "processing", sub |-> s]]
        /\ confirmers' = [confirmers EXCEPT ![f].pc = "issue"]
        /\ UNCHANGED <<methodVars, subs, today, cycles, taken, overrun>>

ConfirmTurnedAway(f) ==
    LET s == confirmers[f].sub IN
    /\ confirmers[f].pc = "lock"
    /\ confirmLock[s] # Nobody \/ ~Confirmable(s, confirmers[f].key)
    /\ confirmers' = [confirmers EXCEPT ![f] = ConfirmerIdle]
    /\ UNCHANGED <<methodVars, subs, today, cycles, confirmKeys, confirmLock, taken, overrun>>

\* The request ends and releases its lock.
ConfirmDone(f) ==
    /\ confirmLock' = [confirmLock EXCEPT ![confirmers[f].sub] = IF @ = f THEN Nobody ELSE @]
    /\ confirmers' = [confirmers EXCEPT ![f] = ConfirmerIdle]

\* The active methods are counted outside the transaction that stores this one.
ConfirmIssued(f) ==
    /\ confirmers[f].pc = "issue"
    /\ confirmers[f].card \notin exchanged
    /\ exchanged' = exchanged \cup {confirmers[f].card}
    /\ confirmers' = [confirmers EXCEPT ![f].pc = "charge",
                                        ![f].isDefault = ActiveMethods = {}]
    /\ UNCHANGED <<auths, methods, issueKeys, defaultKeys, issuers, managers,
                   subs, today, cycles, confirmKeys, confirmLock, taken, overrun>>

SaveKey(f, status) == confirmKeys' = [confirmKeys EXCEPT ![confirmers[f].key].status = status]

\* The key is stored as failed, the subscription stays pending.
ConfirmNotIssued(f) ==
    /\ confirmers[f].pc = "issue"
    /\ exchanged' \in {exchanged, exchanged \cup {confirmers[f].card}}
    /\ SaveKey(f, "failed")
    /\ ConfirmDone(f)
    /\ UNCHANGED <<auths, methods, issueKeys, defaultKeys, issuers, managers,
                   subs, today, cycles, taken, overrun>>

\* After the charge the process looks for an invoice of its cycle, issued or
\* paid, outside the transaction that stores one.
Charged(f, outcome) ==
    LET s == confirmers[f].sub IN
    confirmers' = [confirmers EXCEPT ![f].pc = outcome,
                                     ![f].open = cycles[s][confirmers[f].day].invoice # "none"]

\* The gateway charges under the key of the request; the answer may be lost.
ConfirmCharged(f) ==
    LET s == confirmers[f].sub IN
    /\ confirmers[f].pc = "charge"
    /\ \A x \in Subs : confirmers[f].key \notin taken[x]
    /\ taken' = [taken EXCEPT ![s] = @ \cup {confirmers[f].key}]
    /\ \E outcome \in {"paid", "failed"} : Charged(f, outcome)
    /\ UNCHANGED <<methodVars, subs, today, cycles, confirmKeys, confirmLock, overrun>>

\* Mutant: an answer for another order is taken for a success.
ConfirmNotChargedPaid(f) ==
    /\ confirmers[f].pc = "charge"
    /\ \E outcome \in {"paid", "failed"} : Charged(f, outcome)
    /\ UNCHANGED <<methodVars, subs, today, cycles, confirmKeys, confirmLock, taken, overrun>>

\* Declined, not reached, or answered for the first call under this key.
ConfirmNotCharged(f) ==
    /\ confirmers[f].pc = "charge"
    /\ Charged(f, "failed")
    /\ UNCHANGED <<methodVars, subs, today, cycles, confirmKeys, confirmLock, taken, overrun>>

CycleOf(f) == cycles[confirmers[f].sub][confirmers[f].day]

\* Both transactions store the method, the invoice (over the one it found,
\* if any), the subscription it read with a new status, and the key.
ConfirmStored(f, cycle, status, keyStatus) ==
    /\ methods' = Stored(confirmers[f].card, confirmers[f].isDefault)
    /\ cycles' = [cycles EXCEPT ![confirmers[f].sub][confirmers[f].day] = cycle]
    /\ subs' = [subs EXCEPT ![confirmers[f].sub] = status]
    /\ SaveKey(f, keyStatus)

\* The unique indexes on invoices and on paid payments of a cycle.
InvoiceFits(f) == confirmers[f].open \/ CycleOf(f).invoice = "none"
PaymentFits(f) == CycleOf(f).paidWith = NoKey

\* Nobody else of this product may be held when the subscription is written.
SubFits(f) == Holding \subseteq {confirmers[f].sub}

ConfirmPaid(f) ==
    /\ confirmers[f].pc = "paid"
    /\ InvoiceFits(f) /\ PaymentFits(f) /\ SubFits(f)
    /\ ConfirmStored(f, [invoice |-> "paid", paidWith |-> confirmers[f].key], "active", "succeeded")
    /\ ConfirmDone(f)
    /\ UNCHANGED <<auths, issueKeys, defaultKeys, issuers, managers, exchanged,
                   today, taken, overrun>>

\* A failed charge stores the method too, and the subscription as it was read,
\* "pending".
ConfirmFailed(f) ==
    /\ confirmers[f].pc = "failed"
    /\ InvoiceFits(f) /\ SubFits(f)
    /\ ConfirmStored(f, [CycleOf(f) EXCEPT !.invoice = "issued"], "pending", "failed")
    /\ ConfirmDone(f)
    /\ UNCHANGED <<auths, issueKeys, defaultKeys, issuers, managers, exchanged,
                   today, taken, overrun>>

\* An index refuses, or the database aborts: the key stays "processing".
ConfirmAborted(f) ==
    /\ confirmers[f].pc \in {"paid", "failed"}
    /\ ConfirmDone(f)
    /\ UNCHANGED <<methodVars, subs, today, cycles, confirmKeys, taken, overrun>>

ConfirmCrash(f) ==
    /\ confirmers[f].pc # "idle"
    /\ confirmLock' = [s \in Subs |-> IF confirmLock[s] = f THEN Gone ELSE confirmLock[s]]
    /\ confirmers' = [confirmers EXCEPT ![f] = ConfirmerIdle]
    /\ UNCHANGED <<methodVars, subs, today, cycles, confirmKeys, taken, overrun>>

ConfirmLockLapse(s) ==
    /\ confirmLock[s] # Nobody
    /\ confirmLock' = [confirmLock EXCEPT ![s] = Nobody]
    /\ overrun' = IF confirmLock[s] = Gone THEN overrun ELSE overrun \cup {s}
    /\ UNCHANGED <<methodVars, subs, today, cycles, confirmKeys, confirmers, taken>>

ConfirmKeyTtl(k) ==
    /\ confirmKeys[k].status # "none"
    /\ \A f \in Confirmers : confirmers[f].key # k
    /\ confirmKeys' = [confirmKeys EXCEPT ![k] = [status |-> "none", sub |-> NoSub]]
    /\ UNCHANGED <<methodVars, subs, today, cycles, confirmLock, confirmers, taken, overrun>>

\* Canceled at the end of its period, or after its last failed invoice.
SubscriptionEnds(s) ==
    /\ subs[s] = "active"
    /\ subs' = [subs EXCEPT ![s] = "ended"]
    /\ UNCHANGED <<methodVars, today, cycles, confirmKeys, confirmLock, confirmers, taken, overrun>>

NextDay ==
    /\ today < LastDay
    /\ today' = today + 1
    /\ UNCHANGED <<methodVars, subs, cycles, confirmKeys, confirmLock, confirmers, taken, overrun>>

-----------------------------------------------------------------------------
ConfirmStep(f) ==
    \/ ConfirmLock(f) \/ ConfirmTurnedAway(f)
    \/ ConfirmIssued(f) \/ ConfirmNotIssued(f)
    \/ ConfirmCharged(f) \/ ConfirmNotCharged(f)
    \/ ConfirmPaid(f) \/ ConfirmFailed(f) \/ ConfirmAborted(f) \/ ConfirmCrash(f)

CheckoutNext ==
    \/ \E s \in Subs : CreateCheckout(s) \/ SubscriptionEnds(s) \/ ConfirmLockLapse(s)
    \/ \E f \in Confirmers, s \in Subs, k \in ConfirmKeys, c \in Cards : ConfirmRequest(f, s, k, c)
    \/ \E f \in Confirmers : ConfirmStep(f)
    \/ \E k \in ConfirmKeys : ConfirmKeyTtl(k)
    \/ NextDay

Next == CheckoutNext \/ (MethodsNext /\ UNCHANGED checkoutVars)

Spec == Init /\ [][Next]_vars

-----------------------------------------------------------------------------
(* A subscription that is or was active was paid for: some cycle of it has *)
(* a paid payment, under a key the gateway took the money under, whatever  *)
(* lapsed, crashed, was lost or came twice; and a stored success is about  *)
(* such a subscription.  Unless a lock lapsed under its owner, the invoice *)
(* of that cycle says so too.                                              *)
WasPaid(s) ==
    \E d \in Days :
        /\ cycles[s][d].paidWith \in taken[s]
        /\ s \notin overrun => cycles[s][d].invoice = "paid"
ActiveWasPaid ==
    /\ \A s \in Subs : subs[s] \in {"active", "ended"} => WasPaid(s)
    /\ \A k \in ConfirmKeys : confirmKeys[k].status = "succeeded" => WasPaid(confirmKeys[k].sub)

(* An active subscription can be charged again: the user has a default     *)
(* method among the active ones.  The confirmation, other issuing requests,*)
(* the change of the default and deletions, which decide outside their     *)
(* transactions, do not take it away.  Holds while one process at a time   *)
(* manages the methods.                                                    *)
ActiveIsChargeable ==
    (\E s \in Subs : subs[s] = "active") => DefaultMethods # {}

(* A confirmation that succeeded is final: no confirmation that was under  *)
(* way or comes later charges the subscription again or makes it pending,  *)
(* unless a lock lapsed under its owner.                                   *)
ConfirmedIsFinal ==
    [][\A s \in Subs \ overrun' :
          subs[s] \in {"active", "ended"} =>
             subs'[s] \in {"active", "ended"} /\ taken'[s] = taken[s]]_vars
==============================================================================
