# Payment system: TLA+ models

TLA+ models of the payment service in `src/payments/src/payments` (paths below
are relative to that directory unless they start with `src/`), the TLC
configurations that check them and the TLAPS proofs about them. The service is
written in Python over MongoDB and the payment gateway of Toss. It sells SKUs
once (`application/payment_orders.py`) and subscriptions (the other half of
`application/`), and has administrators who keep the catalogue, refund and adjust.

Modelled are the one-time shop (orders, confirmations, refunds, webhooks and the
stock they share), the life of subscriptions (checkout, recurring billing, retries,
cancellation, plan changes, adjustments by administrators), the billing methods of a
user, and two parts of administration: sessions and the catalogue.

1. [The system](#1-the-system)
2. [The modules](#2-the-modules)
3. [What is checked](#3-what-is-checked)
4. [What is proved](#4-what-is-proved)
5. [Where the code and its documents disagree](#5-where-the-code-and-its-documents-disagree)
6. [Abstractions](#6-abstractions)
7. [Not modelled](#7-not-modelled)

## 1. The system

Every request runs in some server process; several processes share one database.
Two mechanisms of the database carry the concurrency:

- **Unit of work** (`adapters/mongo/unit_of_work.py`): one Mongo transaction. It
  commits when the block ends and aborts when it raises, so everything the block
  wrote before an exception disappears, including a status the exception reports.
- **Operation lock** (`application/operation_locks.py`,
  `adapters/mongo/operation_locks.py`): a document with an owner and a deadline of
  five minutes, written outside any transaction. Nobody renews it and nobody
  compares its fencing token, so it excludes a second process only while the first
  is quick.

A call of the gateway can take long and can be lost, so each operation that needs
one is two transactions with the call in between. Many operations use neither
mechanism and store whole documents that they read earlier.

| Component | State | Operations | Interacts with |
| --- | --- | --- | --- |
| One-time orders, `payment_orders.py` | `payments`, `checkouts`, `invoices`, counters of `one_time_skus`, idempotency keys | create order, detail (expires lazily), authentication failure, confirm | gateway, locks, keys, stock |
| Refunds, `payment_orders.py`, `admin_operations.py` | `cancel_history` and cancelable amount of a payment, `payment_cancel_requests` | cancel by the user, cancel by an administrator | gateway, lock of the payment, stock |
| Webhooks, `webhooks.py` | `webhook_events`; writes payments, checkouts, invoices, stock | receive an event | everything above, without its locks |
| Locks, keys | `operation_locks`, `idempotency_keys` | acquire, lapse, release; replay, conflict, TTL | every writer |
| Gateway adapter, `adapters/toss.py` | none (the gateway holds approvals, charges and refunds) | confirm, cancel, issue and charge billing keys | HTTP |
| Recurring billing, `jobs/subscription_billing.py` | subscriptions, invoices, payments, run and reminder keys | daily run | gateway, lock of the run, locks of cycles |
| Billing retry, `jobs/billing_retry.py` | the same | retry an issued invoice | gateway, lock of the invoice |
| Subscriptions, `subscriptions.py`, `jobs/subscription_expiration.py` | status and period of a subscription | cancel at period end, resume, expire | lock of the subscription |
| Plan changes, `subscription_changes.py` | plan and pending plan, payment of an upgrade | preview, execute | gateway, lock of the subscription, billing runs |
| Adjustments, `admin_operations.py` | a subscription and an invoice | postpone, set the due date, override the status, clear a failure, synchronise | gateway, lock of the subscription, billing runs |
| Subscription checkout, `subscription_checkout.py` | pending subscription, billing method, first payment | create, confirm | gateway, lock of the checkout, billing methods |
| Billing keys and methods, `billing_auth.py`, `billing_methods.py` | authorisations, methods, the default | start, issue, set default, delete | gateway, checkout |
| Administration of the catalogue, `admin_catalog.py` | products, plans, SKUs | create, update, change of status and stock | the stock counters |
| Administrator sessions, `admin_auth.py`, `adapters/rate_limit.py` | account, links, refresh tokens, resets, attempts in memory | log in, confirm, refresh, log out, reset | mail |
| Reads, HTTP, cipher, document generator | none | – | – |

What is hard, and what correctness means, per component:

- **Orders and confirmation.** Reading a payment and the failure page take no lock
  and may end an attempt while its confirmation waits for the gateway; a lock may
  lapse under a slow process; a process may die anywhere; an approval may be lost on
  its way back. The counters of a SKU must stay what the checkouts say, never more
  than its stock; a checkout must be in the state of its last attempt; a sale must
  have been charged; a stored answer must stay true; nothing may stay blocked.
- **Refunds.** The same, with partial amounts and several keys per payment. Money
  recorded as refunded must have gone back, once, and stay recorded; a refund the
  service could not record must leave a trace for the operators.
- **Webhooks.** Late, repeated and reordered, and they write without the locks of
  confirmations and refunds. No event may undo a refund or sell twice.
- **Recurring billing.** Runs work for minutes on a list they read at their start,
  retries on documents they read before their lock; cancellations, resumptions and
  expirations take other locks, and a cycle is named by the date of the run. A cycle
  must be invoiced once and owed only while the subscription is past due; what is
  recorded as paid must have been charged, by a run once; a late step must not bring
  a canceled subscription back.
- **Plan changes and adjustments.** Both store a whole subscription that they read
  before a call, beside runs that take other locks. A dearer plan must have been paid
  for, a payment must be recorded only if it was taken, and a cancellation must
  survive.
- **Subscription checkout.** A billing key is exchanged, money is taken and only then
  something is stored. A subscription must not become active without its money, nor
  be charged again once it is.
- **Billing methods.** Several requests count the methods of a user outside the
  transaction that stores one. A user with a method must have one default.
- **Administrator sessions.** Refreshes rotate tokens while logouts and logins store
  documents they read before. A reset must end every session and a login must stay
  one session.
- **Catalogue.** Administrators replace whole documents while orders move the
  counters in them. Stored counters must add up, codes must stay unique, a product
  must not open with nothing to sell.

`PROJECT.json` lists every hazard at its line, with the properties that cover it or
the reason why none does.

## 2. The modules

```
StockLedger                 what the shop promises about stock (abstract)
   ^ implemented by
OneTimePayment              orders, failure pages, expiry, confirmations
   ^ extended by            \
PaymentCancel               StockAdmin   an administrator updates a SKU
   ^ extended by
PaymentWebhook              events of the gateway, the whole one-time shop

SubscriptionLifecycle       what the life of a subscription promises (abstract)
   ^ implemented by
SubscriptionBilling         runs, retries, cancellation, resumption, expiration
   ^ extended by
SubscriptionChange          plan changes
   ^ extended by
SubscriptionAdjust          adjustments by an administrator

BillingMethods              billing keys, the default method, deletions
   ^ extended by
SubscriptionCheckout        the first payment of a subscription

AdminAuth                   sessions of an administrator
AdminCatalog                products, plans, SKUs, and the orders that count stock
```

| Proof module | about |
| --- | --- |
| `OneTimePaymentProofs` | types; a checkout follows its last attempt; exact counters and the refinement of `StockLedger`; finality, charges, answers |
| `PaymentCancelProofs` | the same stock and ledger with refunds; finality, traces and sums of refunds |
| `PaymentWebhookProofs` | what survives late, repeated and reordered events |
| `SubscriptionBillingProofs` | types, due dates, charges; invoices and the refinement of `SubscriptionLifecycle` while retries do not overlap |
| `SubscriptionChangeProofs` | plan changes and adjustments beside runs: plans, payments, cancellations |
| `SubscriptionCheckoutProofs` | what is active was paid, a success is final; the default method |
| `AdminAuthProofs`, `AdminCatalogProofs` | every safety property of these modules |

Modules named `MC…` give the constants their values for TLC and say what is symmetric.

**OneTimePayment.** The documents `payments`, `checkouts`, `invoices`, the counters
`reserved` and `sold`, the keys `orderKeys` and `confirmKeys`, the locks
`confirmLock` and `checkoutLock`, and a record per server process in
`confirm_payment` (`confirms`) whose `pc` says before which transaction or call it
stands. `charge` is the gateway's side. One action is one transaction:

| Action | Code |
| --- | --- |
| `CreateOrder` | `create_payment_order`, new checkout or retry of a failed or expired one |
| `GetPaymentDetail` | `get_payment_detail` on an overdue attempt |
| `RecordAuthFailure` | `record_payment_auth_failure` |
| `ConfirmStart` | `confirm_payment` up to the lock of the payment |
| `ConfirmBusy`, `ConfirmReplay`, `ConfirmAlreadyPaid`, `ConfirmRefused`, `ConfirmExpired`, `ConfirmInvalid`, `ConfirmPrepare` | the outcomes of its first transaction |
| `ConfirmApproved`, `ConfirmLost`, `ConfirmDeclined` | the outcomes of the call |
| `ConfirmRecord`, `ConfirmRecordRefused` | its second transaction after an approval |
| `ConfirmFail`, `ConfirmFailRefused` | `_mark_payment_confirm_failed` |
| `ConfirmAbort` | a transaction that the database aborts; nothing retries it |
| `ReleaseLocks`, `Crash` | the `finally` blocks, or the death of the process |
| `ConfirmLockLapse`, `CheckoutLockLapse`, `OrderKeyTtl`, `ConfirmKeyTtl`, `PassExpiry` | time |

**PaymentCancel** adds the cancel history, the rows of `payment_cancel_requests`,
the cancel keys and lock, and the gateway's balance and refunds. The user's and the
administrator's cancellation are the same steps under keys of two scopes, so they
share the actions. **PaymentWebhook** adds the events of the gateway; an event
exists as soon as the gateway did what it reports and stays deliverable for ever.
**StockAdmin** adds the read and the replacing write of an SKU update to the shop.

**StockLedger** says with one variable what the shop promises about stock: a
purchase is free, held or sold, and takes its units only if all are free.
`OneTimePayment!LedgerSpec` is its specification under the mapping `Position`, which
reads the position of a checkout off its last attempt.

**SubscriptionBilling.** The documents are `subs` (status, end of the paid period,
due date) and `cycles`, which holds the invoice of a billing cycle, the number of
its failed payments, the schedule of its last failed one and the key its paid
payment was charged under. `retryKeys` are the idempotency keys of retries; the
three kinds of locks, a record per process in a run (`runs`) or a retry
(`retries`), the clock `now` and what the gateway charged (`taken`) complete the
state.

| Action | Code |
| --- | --- |
| `RunStart` | the lock of the run and `list_due_active_subscriptions` |
| `RunTake`, `RunSkip` | one listed subscription: read again, look for the invoice, lock the cycle, or leave it |
| `RunCharged`, `RunNotCharged` | the outcomes of the charge, lost answers and missing billing methods included |
| `RunSave` | `save_subscription_billing_result`, which stores nothing when the subscription has changed |
| `RunAborted` | the unique index on the invoices of a cycle, which ends the run |
| `RunEnd`, `RunCrash` | the `finally` of the run, or the death of the process |
| `RetryStart` | `retry_subscription_billing` up to its lock: all it ever reads |
| `RetryLock`, `RetryTurnedAway` | lock and processing key, or their refusal |
| `RetryCharged`, `RetryNotCharged` | the outcomes of the charge |
| `RetryPaid`, `RetryFailed` | `_save_retry_documents_and_response`, whole documents without a condition |
| `ScheduleCancel`, `Resume`, `Expire` | the conditional updates of `adapters/mongo/subscriptions.py` |
| `RetryComesDue`, `Tick`, `RunLockLapse`, `CycleLockLapse`, `RetryLockLapse`, `RetryKeyTtl` | time |

**SubscriptionLifecycle** keeps only `subs` and the status of each invoice and lets
a subscription move as `active -> past_due -> active | canceled` and
`active -> cancel_scheduled -> active | canceled`, each move together with what it
does to the invoice, the due date and the paid period.

**SubscriptionChange** adds the plan of a subscription, the pending one and the date it
takes effect (`plans`), the plan in the document a run works on (`held`), what each
confirmation token promises (`previews`), the keys and processes of executions and the
lock `subscription:<id>` (`editLock`). `upgraded` are the tokens the gateway charged,
`overrun` the subscriptions whose lock lapsed under a live owner. A plan is named by its
price.

| Action | Code |
| --- | --- |
| `PreviewChange` | `create_subscription_change_preview`: the server keeps nothing but the token's promise |
| `ChangeStart`, `ChangeLock`, `ChangeTurnedAway` | `execute_subscription_change`: key, token, lock, and all that is checked again under it |
| `ChangeCharged`, `ChangeNotCharged` | the charge of an upgrade and its outcomes |
| `ChangeSave`, `ChangeFailed`, `ChangeAborted`, `ChangeCrash` | the transaction that stores the whole subscription read before the charge |
| `PlannedRunTake`, `PlannedRunSave` | a run with the plan it charges, and the promotion of a pending plan |
| `LockedCancel`, `LockedResume` | cancellation and resumption, which take the same lock |
| `EditLockLapse`, `ChangeKeyTtl` | time |

**SubscriptionAdjust** adds `adjust_admin_subscription`: each kind reads the
subscription and works out a new document (`Postpone`, `SetNextBilling`,
`OverrideStatus`, `ClearFailure`, `AskGateway` with `GatewayDone` and `GatewayRefuses`),
and `AdjustSave` stores it without a condition. `unheard` and `lost` remember charges of
a run whose answer never came, which is what a synchronisation finds.

**BillingMethods.** The authorisations (`auths`), the methods, keys and processes of
requests that issue a billing key (`issuers`) or manage methods (`managers`), and the
auth keys the gateway exchanged. None of them takes a lock.

| Action | Code |
| --- | --- |
| `StartAuth`, `AuthLate` | `start_billing_auth`; half an hour passes |
| `IssueRead`, `IssueExpire`, `IssueTurnedAway` | `issue_billing_key` up to its processing key |
| `IssueExchanged`, `IssueRefused` | the exchange, and the count of methods outside the transaction |
| `IssueSave`, `IssueFailed`, `IssueCrash` | its last transaction, or none |
| `SetStart`, `SetDefault`, `SetAnswer` | setting the default: key, methods, answer in three writes |
| `DeleteRead`, `Delete` | `_delete_block_reason`, and the deactivation that checks nothing of it again |

**SubscriptionCheckout** adds the subscriptions of that user for one product, the
calendar, the cycles with invoice and payment, and the processes that confirm.

| Action | Code |
| --- | --- |
| `CreateCheckout` | `create_subscription_checkout` |
| `ConfirmRequest`, `ConfirmLock`, `ConfirmTurnedAway` | `confirm_subscription_checkout`: the date is read before the lock, all else under it |
| `ConfirmIssued`, `ConfirmNotIssued` | the billing key |
| `ConfirmCharged`, `ConfirmNotCharged` | the first payment, whose answer may be lost |
| `ConfirmPaid`, `ConfirmFailed`, `ConfirmAborted`, `ConfirmCrash` | the transaction that stores method, invoice, payment, subscription and key |
| `ConfirmLockLapse`, `ConfirmKeyTtl`, `NextDay`, `SubscriptionEnds` | time, and the end of the subscription |

**AdminAuth.** One administrator's account (status, password, wrong passwords), the
status of every link, reset and refresh token, and the requests that log in or out, with
the documents they read. `session` and `opened` are history: the link a refresh token
goes back to, and the links confirmed since the last reset. A login is read, judged,
limited, linked, mailed (`LoginRead` … `LoginMailed`, `LoginMailFails`); `ConfirmLogin`,
`Refresh`, `RefreshReused` and `ResetConfirm` are transactions; `LogoutRead` and
`LogoutSave` are not.

**AdminCatalog.** The stored document of every product, plan and SKU, the request of each
administrator with the document it is about to store, and the orders. `CreateProduct`,
`ChangeStatus`, `CreatePlan`, `UpdatePlan`, `CreateSku` and `UpdateSku` read;
`RequireActiveSellingUnit` is the count before a product opens; `SaveProduct` and
`SaveUnit` replace the document, under the unique indexes; `Reserve`, `Release`,
`Capture`, `Restore` are the conditional updates of `adapters/mongo/one_time_skus.py`.
`opened` is history: the products that had something on sale.

## 3. What is checked

| Run | Instance | Shows |
| --- | --- | --- |
| `one_time_scarce` | 2 checkouts that want one unit, 2 attempts, 1 process, 1 key of each kind, mismatching requests | types, `PaidWasCharged`, `Finality`, `LedgerSpec` |
| `shop_fair` | 1 attempt, 1 confirming and 1 cancelling process | `KeysSettle`, `CancelKeysSettle` |
| `cancel_race` | 1 paid payment of amount 3, 2 processes, 2 keys, amounts 1 and all | types, `RefundsAreReal`, `RefundsAreTraceable`, `RefundsAreFinal`, `StockExact` |
| `webhook_sale` | 1 attempt, 2 confirming processes, events of the approval | types, `CheckoutTracksPayments`, `StockExact`, `AnswersHold` |
| `webhook_refund` | 1 paid payment of amount 2, 2 cancelling processes, all events | `RefundsSurviveWebhooks` |
| `admin_oversell` | 2 checkouts that want one unit, 1 administrator | the disagreement of section 5 |
| `subscription_cycle` | 1 subscription, 2 billing runs, 1 retry, 2 dates | types, `OwesIffPastDue`, `PaidCyclesWereCharged`, `RunsChargeOnce`, `DueWhileRenewing`, `LifeSpec` |
| `subscription_changes` | 1 subscription, 3 plans, 1 change, 1 adjustment, 1 billing run, 2 dates | types, `PendingIsCheaper`, `UpgradeWasPaid`, `RecordedWasTaken`, `CancellationHolds` |
| `subscription_checkout` | 1 subscription, 2 confirmations, 2 keys, 3 cards, 2 dates | types, `ActiveWasPaid`, `ConfirmedIsFinal` |
| `billing_methods` | 2 issuing, 1 managing and 1 confirming process, 1 authorisation, 2 cards | `DefaultIsThere`, `ActiveIsChargeable` |
| `admin_sessions` | 1 login, 1 logout, 2 links, 1 reset, 3 refresh tokens, 2 wrong passwords lock, 1 attempt in a window | types, `SessionsEndAtReset`, `OneTokenPerLogin`, `SpentStaysSpent` |
| `admin_catalog` | 2 products, 2 plans or SKUs, 1 code, statuses draft and active, 2 administrators, 1 order, stock up to 2 | types, `StockAddsUp`, `CodesAreUnique`, `OpenedWithAUnit` |

The properties are stated and explained in the modules. The important ones:

- `StockExact`: reserved and sold units of a SKU are the numbers of ready checkouts,
  and of paid and not fully refunded checkouts, that contain it, and fit its stock.
- `CheckoutTracksPayments`: a checkout is in the state of its last attempt, and a
  ready or paid attempt is the last of its checkout.
- `AnswersHold`: what a key would replay, and what a request is about to answer, is
  true of the payment now.
- `RefundsAreReal`: every recorded refund was made for that amount, and what the
  service believes is left is at least what the gateway has.
- `RefundsAreTraceable`: a refund that is not recorded has a pending or failed row.
- `OwesIffPastDue`: a subscription has an open invoice exactly while it is past due,
  and one only.
- `RunsChargeOnce`: a cycle that a run recorded as paid is never charged again.
- `LifeSpec`: what a run or retry stores is always one of the moves of
  `SubscriptionLifecycle`, so a run that charged while the customer canceled does not
  undo the cancellation and no cycle is invoiced twice.
- `UpgradeWasPaid`, `RecordedWasTaken`: no order of stale saves gives away a dearer plan
  or records a payment the gateway did not take.
- `CancellationHolds`: only a resumption makes a subscription renew again whose
  cancellation was asked for, unless the lock lapsed under its owner.
- `ActiveWasPaid`, `ConfirmedIsFinal`: what is active was paid for, under lapsed locks,
  crashes and lost answers; a success is not charged again or undone.
- `DefaultIsThere`: a user with an active method has exactly one default.
- `SessionsEndAtReset`, `OneTokenPerLogin`, `SpentStaysSpent`: however refreshes,
  logouts and stale saves overlap, a reset ends every session, a login is one session,
  and a spent token stays spent.
- `StockAddsUp`, `CodesAreUnique`, `OpenedWithAUnit`: what administrators store from
  stale documents agrees with itself, with the other documents and with what was on sale.

**Bounds.** Two processes are enough for every race the code has between two holders
of a lapsed lock; a third adds no new pair of steps, because all steps of a process
touch one attempt. Two attempts let an attempt be abandoned and retried; two
checkouts and one unit let them compete, and the second SKU of the second checkout
lets a reservation fail half-way. Amount 3 with refunds of 1 and of all allows two
partial refunds and a rest. A key is used, expires and is used again, without a
bound on how often. No run bounds the number of steps; each exhausts its states.
Symmetric sets are used in runs without liveness only. The runs that begin at a paid
payment (`PaidInit`) begin in the state that `ConfirmRecord` leaves behind. The run of
webhooks has one attempt: what two attempts and two processes do without webhooks is
proved (section 4), and with webhooks it does go wrong (section 5).

In `subscription_cycle` subscriptions share nothing but the list of a run, so one is
enough. The clock counts half days: a run of a date lists what is due until the end
of that date, so it can work before a period that ends later that day is over. Two
dates with periods of one day let two runs for different dates list one due date, a
cycle be followed by the next, and a period end before or after a resumption. A
third date and a third failed attempt (three end a subscription in the code) repeat
these steps. There is one retrier because the properties of this run hold only
while retries of an invoice do not overlap (section 5); retries one after another, with
the same key or after a crash, are included.

In `subscription_changes` the first plan is the middle one, so a change can go up, go
down, or follow a pending change. One change, one adjustment and one run are the three
kinds of writers that hold different locks; the lock of the first two lapses under its
owner. `Horizon` bounds the due dates an adjustment sets.

In `subscription_checkout` a card is an auth key, which is exchanged once: three let two
confirmations and a later third one each get theirs. Two dates let a confirmation that
began yesterday meet a cycle of today. `billing_methods` has one process that
manages, because two do break the default (section 5); two requests that issue and one
that confirms all count the methods outside their transactions.

In `admin_sessions` three refresh tokens let a login be rotated twice, or two logins be
rotated once each; two links are the logins before and after a reset. `MaxFailed` and
`MaxAttempts` are smaller than in the code (5 and 3), which reaches the limits earlier.
In `admin_catalog` one code makes any two documents of a kind compete for it. Its
statuses are draft and active: the rules about archived products and paused SKUs only
refuse more, and the proofs hold for any statuses.

**Fairness.** `Fairness` and `CancelFairness` let a started process go on (weak fairness
of its next step, which may still be an abort or a crash), locks lapse and the TTL
monitor of Mongo delete keys. The code justifies no more: nobody has to place or confirm
an order, look at a payment or cancel, and nothing makes an overdue attempt expire. No
liveness is stated of subscriptions: only a request of another system starts a retry
(`http/routes/internal.py`), so nothing makes a past due subscription settle or end, and
a pending one stays so until somebody confirms it. Sessions and the catalogue wait for
their administrators.

**Deadlock** is not checked: with all attempts used and every process idle the shop
may stop, and so may billing at the end of its calendar and sessions without tokens.

## 4. What is proved

The proofs hold for every number of attempts, checkouts (finitely many), SKUs,
processes, keys, tokens, cards and documents, every stock, calendar and length of a
period. They assume only the named assumptions of the modules: sets and functions of the
right type, a positive amount, a period of at least a day, limits that are natural
numbers, processes and keys of different kinds that differ, and null values outside the
sets they are null values of.

| Theorem | Module | States |
| --- | --- | --- |
| `TypeCorrect` | `OneTimePaymentProofs` | `[]TypeOK` |
| `CheckoutsTracked` | `OneTimePaymentProofs` | `[]CheckoutTracksPayments` |
| `StockCounted` | `OneTimePaymentProofs` | `[]StockExact` |
| `ImplementsLedger` | `OneTimePaymentProofs` | `LedgerSpec` |
| `AttemptsAreFinal` | `OneTimePaymentProofs` | `Finality` |
| `SalesAreCharged` | `OneTimePaymentProofs` | `[]PaidWasCharged` |
| `AnswersStayTrue` | `OneTimePaymentProofs` | `[]AnswersHold` |
| `CancelTypeCorrect` | `PaymentCancelProofs` | `[]CancelTypeOK` |
| `RefundsTraced` | `PaymentCancelProofs` | `[]RefundsAreTraceable` |
| `RecordedRefundsWereMade` | `PaymentCancelProofs` | `[]RecordedWasMade` |
| `RefundsStayReal` | `PaymentCancelProofs` | `[]RefundsAreReal` |
| `RefundsStayFinal` | `PaymentCancelProofs` | `RefundsAreFinal` |
| `StockCountedWithRefunds` | `PaymentCancelProofs` | `[]StockExact` |
| `CancelsImplementLedger` | `PaymentCancelProofs` | `LedgerSpec` |
| `WebhookTypeCorrect` | `PaymentWebhookProofs` | `[]WebhookTypeOK` |
| `RefundsOutliveWebhooks` | `PaymentWebhookProofs` | `RefundsSurviveWebhooks` |
| `SalesChargedWithWebhooks` | `PaymentWebhookProofs` | `[]PaidWasCharged` |
| `HistoryRealWithWebhooks` | `PaymentWebhookProofs` | `[]HistoryIsReal` |
| `RefundsTracedWithWebhooks` | `PaymentWebhookProofs` | `[]RefundsAreTraceable` |
| `BillingTypeCorrect` | `SubscriptionBillingProofs` | `[]BillingTypeOK` |
| `RenewalsAreDue` | `SubscriptionBillingProofs` | `[]DueWhileRenewing` |
| `RecordedPaymentsWereCharged` | `SubscriptionBillingProofs` | `[]PaymentsWereCharged` |
| `RunChargesHappenOnce` | `SubscriptionBillingProofs` | `[]RunsChargeOnce` |
| `ImplementsLifecycle` | `SubscriptionBillingProofs` | `LifeSpec`¹ |
| `OwedOnce` | `SubscriptionBillingProofs` | `[]OwesIffPastDue`¹ |
| `PaidCyclesCharged` | `SubscriptionBillingProofs` | `[]PaidCyclesWereCharged`¹ |
| `AdjustTypes` | `SubscriptionChangeProofs` | `[]AdjustTypeOK` |
| `WaitsForCheaper` | `SubscriptionChangeProofs` | `[]PendingIsCheaper` |
| `UpgradesPaid` | `SubscriptionChangeProofs` | `[]UpgradeWasPaid` |
| `RecordedTaken` | `SubscriptionChangeProofs` | `[]RecordedWasTaken` |
| `CancellationsHold` | `SubscriptionChangeProofs` | `CancellationHolds` |
| `CheckoutTypes` | `SubscriptionCheckoutProofs` | `[]CheckoutTypeOK` |
| `SubscriptionsArePaid` | `SubscriptionCheckoutProofs` | `[]ActiveWasPaid` |
| `ConfirmationsAreFinal` | `SubscriptionCheckoutProofs` | `ConfirmedIsFinal` |
| `DefaultStays` | `SubscriptionCheckoutProofs` | `[]DefaultIsThere`² |
| `ActiveStaysChargeable` | `SubscriptionCheckoutProofs` | `[]ActiveIsChargeable`² |
| `AdminTypes` | `AdminAuthProofs` | `[]AdminTypeOK` |
| `ResetsEndSessions` | `AdminAuthProofs` | `[]SessionsEndAtReset` |
| `LoginsAreSingle` | `AdminAuthProofs` | `[]OneTokenPerLogin` |
| `SpentForGood` | `AdminAuthProofs` | `SpentStaysSpent` |
| `CatalogTypes` | `AdminCatalogProofs` | `[]CatalogTypeOK` |
| `StoredStockAddsUp` | `AdminCatalogProofs` | `[]StockAddsUp` |
| `CodesStayUnique` | `AdminCatalogProofs` | `[]CodesAreUnique` |
| `OpenedProductsSold` | `AdminCatalogProofs` | `[]OpenedWithAUnit` |

¹ if `[]RetriesApart`: no two retries are at work on one subscription. The code does not
see to it: a retry takes its lock after it has read everything, so a second one can wait
with stale documents while the first settles the invoice, and section 5 says what then
goes wrong. Nothing else is assumed: any number of runs, crashes, lapses and lost answers
may come between, and retries of different subscriptions may overlap. A deployment that
retries in one process satisfies it (`OneRetry`), as the run `subscription_cycle` does.

² if `[]ChoicesApart`: no method is made the default while another request deletes that
same method. The code does not see to it either: a deletion looks at the default before
its transaction, and no lock is taken (section 5). One managing process satisfies it
(`OneManager`), as the run `billing_methods` does; issues and confirmations may overlap
with it in any number. A run with two managers that TLC confined to `ChoicesApart` keeps
the invariant below as well.

Every safety property that a passing run checks is stated by one of these theorems.

The argument about orders:

1. `TypeOK` is inductive, because it also says that a running request has an attempt
   and a key.
2. `Effects`: of all steps of the program, locks, keys, aborts and crashes included,
   only four things happen to the orders: an attempt is opened (`Opens`), ends
   without a sale (`Closes`), is sold (`Sells`), or nothing. Everything about orders
   is proved from these four, so each argument has four cases instead of thirty.
3. `CheckoutTracksPayments` is inductive together with `TypeOK`.
4. `StockExact` alone is not inductive: that a release gives back a unit that was
   counted needs that the attempt being closed is the last one of its checkout, which
   is `CheckoutTracksPayments`. The conjunction of the three, `StockInv`, is
   inductive. The guards that silently skip a release or capture are then never
   false (`ReadyReserved`).
5. With exact counters, the guard of a reservation is the guard of `Hold` in the
   ledger (`TakenCounts`), and each effect is one step of it (`NextLedger`).
6. `PaidWasCharged` needs that a process about to record a sale saw an approval
   (`RecordsCharged`). `AnswersHold` needs `Finality` and that an entry with an
   answer names an attempt (`AnswersName`).

The argument about refunds:

1. `CancelEffects`: a cancellation leaves the orders and the history alone, or records a
   refund. A refund is a fifth effect (`Refunds`): it needs a payment that is the last of
   a paid checkout (`RefundableOwns`), so a full one takes exactly that checkout out of
   what every SKU counts as sold (`RefundStock`), and is `Return` in the ledger
   (`RefundLedger`). `StockInv` is thereby inductive for the composition.
2. `CancelInv` is inductive with it. Its core is `KeysAreHeld`: whatever lock lapses, a
   process between its two transactions has the key of its request to itself, its row is
   pending, and the history of that key is what it saw at the start. Locks are not used
   at all; the pending row and the key do the work.
3. Then what is recorded was answered for that amount (`RecordsAreReal`,
   `RecordedWasMade`), under a key that had no record, which gives `RefundsAreFinal`; and
   a refund that is not recorded has a row that is pending, or failed by its own request
   (`RefundsAreTraceable`).
4. The amounts. What a sale has left is the price less the sum of its history, a fold over
   the keys. The prover has no induction over data, but the library proves that the proper
   subsets of a finite set are well-founded, so a set of subsets has a least member
   (`LeastSubset`). A least counterexample to "two sums of one function differ" or "no sum
   exists" loses one key and is no counterexample (`SameSums`, `SumExists`), and then a
   change at one key changes the total by the difference (`TotalChanges`). `MoneyInv` says
   of every payment that what was given back at the gateway and what it still has make up
   the price, and that only sales are refunded. It needs no lock either: a refund the
   gateway repeats adds nothing to the sum. With `RecordedWasMade` it yields
   `HistoryIsReal` (`MoneyIsReal`): the recorded refunds are among those made.
5. `StatusFollowsAmount` is inductive with all of it (`StatusKeeps`): a status is stored
   together with the entry that makes it true.

The argument about webhooks: an event touches orders only, so `CancelInv` and `MoneyInv`
carry over (`ShopKeeps`, `WebhookKeeps`). `CheckoutTracksPayments` and `StockExact` do not:
with two attempts and a late DONE event they are false (section 5), so they are no theorems
of this composition (`webhook_sale` checks them for one attempt), and its proofs use the
types of the orders alone. `WebhookInv` adds where events come from: an approval names an
attempt that was ordered, a refund and what it left fit the price, and a recorded refund
shows in the status. The time of an approval is 0 and every refund dates its payment after
it, so an approval is current only while nothing is recorded (`CurrentUnrefunded`), which
is `RefundsSurviveWebhooks`.

The argument about billing:

1. `BillingTypeOK` is inductive, because it also says that a process that charges has
   a subscription, and a retry a key.
2. Again `Effects`: beside locks, keys, aborts, crashes and time (`Quiet`), a run
   charges or stores, a retry begins, charges or stores one of two outcomes, and three
   operations change a status. `RunWrites` and `RetryWrites` say what is stored, one
   cycle at a time.
3. `DueWhileRenewing` is inductive with the types, since a retry stores a
   subscription it read in whatever state that is by now, but always with a status and
   a due date that agree.
4. `PaymentsWereCharged` needs that a process that knows it charged did
   (`ChargesKnown`).
5. `RunsChargeOnce` needs to know why no retry can have charged what a run is about to
   store: a cycle without an invoice was charged by runs alone, a retry only ever
   works on a cycle that has an invoice not paid by a run, and the unique index keeps
   a run from storing another (`ChargesOnce`). No lock is used: all of them may lapse.

These hold with any number of retries at once. `OwesIffPastDue`, the second half of
`PaidCyclesWereCharged` and `LifeSpec` do not (section 5); they hold under `RetriesApart`:

6. Then what a retry read stays so: its subscription is past due, which no run, cancellation
   or resumption touches, and its invoice is issued (`RetriesFresh`). Hence a retry never
   opens an invoice that was paid (`InvoicesMatch`).
7. A run lists what is due by the end of its date (`RunsInTime`), so a cycle it records as
   paid moves the due date forward, never back.
8. Each effect changes one invoice at most (`InvoiceMoves`, `InvoicesStay`), and is then one
   move of the lifecycle: `RunLives` for what a run stores, `RetryLives` for a retry,
   `EndLives` for cancellation, resumption and expiration, a stutter for the rest
   (`LifeStep`). `OwesIffPastDue` is an invariant of the same steps (`OwesStep`).

The argument about plan changes and adjustments:

1. Again first what steps do. A step belongs to billing, to a plan change or to an
   adjustment and leaves the others' state alone (`AdjustSteps`). Then one lemma per
   variable says all that may happen to it (`ChangerMoves`, `KeyMoves`, `AdjusterMoves`,
   `EditLockMoves`, `CycleMoves`, `SubMoves`, `PlanMoves`, `RunMoves`, `HeldMoves`,
   `LostMoves`, `TakenMoves`); an invariant is proved from the lemmas of the variables
   it reads.
2. `AdjustInv` is inductive. `KeysHeld`: a change at work has its key to itself.
   `PromisesKept`: it works on the plan its customer was shown, stores without a charge
   only what is free, and what it takes for a charge is one. `PlansGood`: not only every
   stored plan is cheaper than the one in force and paid for if dearer than the first,
   but also every plan that somebody may store later, a run, a change or an adjustment.
   `ChargesGood` says the same of payments, of those included that only the gateway knows.
   Stale documents are harmless to both because nothing that made them true is taken back:
   promises and charges stay.
3. `LocksGood`: until the lock lapsed under its owner, who works on a subscription owns
   its lock, and a subscription somebody may store as renewing still renews.
   `CancellationHolds` follows, which is why it excludes lapsed locks; `PlansGood` and
   `ChargesGood` use no lock at all.

The argument about the subscription checkout: `CheckoutInv` is inductive. A running
confirmation has its key to itself (`KeysAreHeld`). Unless a lock lapsed under its owner,
it also holds the lock and its subscription is pending (`LocksAreHeld`), and a cycle with
a payment means a subscription that is no longer pending (`PaidIsActive`). A confirmation
that knows it charged did (`ChargesAreKnown`). `ActiveWasPaid` follows with the unique
index on paid payments, which no lapsed lock gets around; `ConfirmedIsFinal` follows from
`LocksAreHeld`, which is why it excludes lapsed locks.

The argument about billing methods: `MethodsInv` is inductive under `ChoicesApart`. A card
is exchanged once, so a method that is about to be stored is stored by one process, is not
there yet, and will be the default unless another is there (`CardsAreHeld`): the count of
methods before the transaction may be out of date and still never leaves a user without a
default, because active methods only go when they are not the default. That is
`DeletedIsNoDefault`, the part that needs `ChoicesApart`. `MethodsEffect` sorts all steps
into four effects on the methods, as for orders. An active subscription began with a
stored method (`HasMethod`), and the last active method is never deleted.

The argument about sessions: `SessionInv` adds to the types and the two properties where
tokens come from (`Lineage`): a refresh token goes back to a link that is used up, so a
link that can still be confirmed opened no session, and what a logout is about to revoke
was issued. A login stores links it made itself, a logout only revokes, and the other
writers are transactions, so no stale save can bring a token back.

The argument about the catalogue: `CatalogInv` adds to the properties what is true of
documents that are about to be stored, however stale (`TasksAreGood`): they agree with
themselves, are of a product of their kind, which never changes, and open a product only
after something of it was on sale; and that the product of every active plan or SKU had
something on sale (`ActiveWasOpened`). The unique indexes do the rest.

Only model-checked: `KeysSettle` and `CancelKeysSettle`, since the prover has neither
fairness nor `ENABLED`; and `CheckoutTracksPayments`, `StockExact` and `AnswersHold` beside
webhooks, where they hold for one attempt and not for two (without webhooks all three are
proved). Plan changes are proved for the composition with adjustments, `AdjustSpec`, which is
what `subscription_changes` checks. `NoOversell` of `admin_oversell` is false.

## 5. Where the code and its documents disagree

One is a run that TLC ends with a counterexample:

- `admin_oversell`: an update of a SKU writes back the counters it read, so a
  reservation made in between is lost and the unit is sold to two customers
  (`application/admin_catalog.py:432` against `src/docs-data/documentation.json:1108`).

The modules describe the following too; the properties of section 3 are stated so that
they hold beside them.

One-time shop:

- `confirm_payment` marks an overdue attempt expired, releases its stock and raises
  inside the transaction, which undoes both (`application/payment_orders.py:861`). The
  tests assert both on an in-memory unit of work that does not roll back
  (`src/payments/tests/test_application_payment_orders.py:1117`). A wrong order id or
  amount is undone in the same way.
- A late DONE event of an abandoned attempt pays a checkout that waits for a newer
  attempt; when that attempt fails, the paid checkout fails with it
  (`application/payment_orders.py:1168`, `src/docs-data/documentation.json:13764`).
- No batch expires unreported attempts, although `src/docs-data/documentation.json:1401`
  names one: an attempt that nobody reads holds its stock for ever.
- After the TTL of its key, a cancellation that succeeded is sent to the gateway
  again, since only a pending row stops it. The gateway repeats its old answer, which
  no longer matches, and the row is overwritten with "failed".
- When an approval is lost, the attempt is recorded as failed with the customer
  charged (the webhook of the approval then ends "failed" too, or pays the checkout
  as above).
- When a CANCELED event arrives before its refund is recorded, the recording is
  refused, the row stays pending and the sold units are not returned.

Billing:

- A retry reads the invoice, the payment and the subscription before it takes its lock
  and reads nothing again. One that starts before another retry has settled the invoice,
  and gets the lock after it, charges a second time and, when that charge fails, stores
  the paid invoice as issued (`application/jobs/billing_retry.py:93`, `:166`, `:469`,
  `src/docs-data/documentation.json:13831`). Its stale save can undo a cancellation.
- A cancellation during the charge of a run makes its save match no subscription;
  neither payment nor invoice is stored, the run counts the charged subscription as
  skipped (`application/jobs/subscription_billing.py:497`,
  `src/docs-data/documentation.json:2954`). The same happens to the second of two runs
  for two dates.
- When the answer to the charge of a run or a retry is lost, the cycle is recorded as
  failed and a retry charges it again, under its own key.
- A retry moves the due date of a subscription and not the end of its period. A
  cancellation after it schedules the end of a period that may already be over, so
  the expiration job ends what was just paid; a resumption puts the due date back to
  the old end (`Settle`, `Restored`, `Resumed`).
- A failure without a chargeable billing method schedules no retry, so only a forced
  one ends it.
- The deadline of a cycle lock is counted from the start of the run: in a run of more
  than five minutes the later cycle locks have lapsed when they are taken.

Plan changes and adjustments:

- An upgrade that was charged is lost when a run stores the plan it read before; and its
  transaction aborts with the money taken when a cycle of the same date has been
  recorded meanwhile (`src/docs-data/documentation.json:2194`).
- A change or adjustment stores the whole subscription it read, so it can put an old due
  date back, or make a subscription active again that a run found past due.
- A failed upgrade leaves an issued invoice on an active subscription.
- Clearing a payment failure keeps the due date of a subscription that is scheduled to be
  canceled. Synchronising the payment of an upgrade moves the period as if it had paid a
  cycle.

Subscription checkout and billing methods:

- The first payment of a confirmation whose lock lapsed is overwritten by another one
  that fails: its paid invoice becomes issued (`application/subscription_checkout.py:670`).
- A subscription whose first payment failed stays pending, counts as held, and refuses
  every other checkout of its product for ever (`application/subscription_checkout.py:147`).
- Two requests that manage the methods of a user at once break the default: a deletion
  that was allowed before another request made its method the default removes it
  (`application/billing_methods.py`, `src/docs-data/documentation.json:2519`, `:7093`).

Administration:

- A login stores the whole account it read: it can restore the password of before a
  reset, and wrong passwords at the same time count once, so that more than five guesses
  are possible.
- A login link made before a reset can be used after it; access tokens live on until
  their TTL.
- Two refreshes of one token at once look like a reuse and end every session. A logout
  that races a refresh leaves the rotated token alive.
- The limit of attempts is kept in the memory of each server process.
- A change of status that was read before a product was archived opens it again, or puts
  an active one back to draft (`src/docs-data/documentation.json:4192`). Two updates of a
  plan lose one of its versions. An active product may lose its last active plan or SKU.
- An order placed while a SKU was unlimited captures the reservation of another one after
  the SKU becomes limited.
- A crash between a save and its audit leaves a change without an audit.

## 6. Abstractions

- A unit of work is one action, the lock inside it included; the two locks of a
  confirmation are released in one step. The snapshot isolation of Mongo makes this
  exact for transactions that write a common document, as all of these do.
- One unit of each SKU per checkout, and limited stock only, in the shop: a quantity
  scales the same updates. `AdminCatalog` has unlimited SKUs as well.
- The status of an invoice after a refund, refund receivers, audits, notifications,
  receipts and the texts of errors are left out. An invoice of the shop is the fact that
  it exists.
- The time of an attempt is one bit (`due`); a request reads it once, as the code
  reads its clock once. Webhook times are the order of the events at the gateway.
- A lock may lapse at any moment, which covers every length of a call. A key may be
  deleted at any moment except while its own request works with it: a day is
  longer than any call.
- `OnlyPaid` is the unique index `uniq_payments_paid_checkout`, which counts only
  attempts whose status is "paid".
- Billing: the schedule of a retry is one of "never", "later" and "due" instead of a
  time, so that the clock need not run on. A subscription is read, its invoice looked up
  and its cycle locked in one step (`RunTake`): the code looks the invoice up again under
  the lock, and what another process does to the subscription before the lock could as
  well come after it. Requests that are refused, repeated or dry run before anything is
  stored are left out, and so is the lock `subscription:<id>` in `SubscriptionBilling`,
  where only cancellations and resumptions would take it; `SubscriptionChange` has it.
  They and the expiration read their clock in the step that writes.
- Plan changes: a plan is its price, and a proration is free or not; how many days it
  counts is left out. The token of a preview is what it promises; that it cannot be
  forged is a property of its signature. `SubscriptionChange` has one run, so the locks
  of runs do not lapse there.
- Checkout: the subscriptions of one user for one product, with one active cycle each. A
  card stands for an auth key and the method stored for it. The key of a checkout request
  decides nothing.
- Sessions: one administrator; a password is a model value, and so is a token. "late" is
  a token that is stored as active and expired.
- Catalogue: names, prices, entitlements, limits and versions decide nothing here; an
  update of them alone stores the rest as it was read.
- Refunds made at the gateway's own console are not modelled: every refund at the
  gateway was asked for by the service.
- `StockAdmin` keeps `total_stock` as it is; only price and status change.
- The key of an authentication result is left out: its operation changes nothing
  when the attempt is no longer ready.

## 7. Not modelled

- Listings, paging, invoices of a user and the catalogue for customers: they only read.
  HTTP: parsing and wiring. The cipher of billing keys and the hash of passwords: pure
  functions. The generator of the documents: no part of the service.
- Purchase limits per user. They race between a snapshot read and an insert, inside
  transactions that are one step here.
- The idempotency keys of runs, reminders, cancellations and resumptions, and the lock of
  the expiration job: they decide nothing about a subscription that the conditional
  updates do not.
- The branch of a synchronisation that finds a canceled payment; retries of invoices
  beside plan changes; webhooks of subscription payments; the fallback id of an event.
- The fencing token of a lock, which the code stores and never compares. What a check of
  it would exclude are the steps after a lapsed lock: the exceptions for lapsed locks
  in `ConfirmedIsFinal` and `CancellationHolds` say which of the properties would gain.
- Operator audits, which are only ever added, and the statistics of runs.
