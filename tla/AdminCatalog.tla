----------------------------- MODULE AdminCatalog -----------------------------
(***************************************************************************)
(* The catalogue: products, the subscription plans and the SKUs they are   *)
(* sold as, and the orders that hold stock of a SKU                        *)
(* (application/admin_catalog.py, adapters/mongo/one_time_skus.py).        *)
(*                                                                         *)
(* A request of an administrator reads a document, changes its copy and    *)
(* replaces the whole document, with no transaction and no lock; an order  *)
(* changes the counters of the stored document.  Prices, names,            *)
(* entitlements, limits and the version of a plan are left out: nothing    *)
(* here is decided by them, and an update of them alone stores the rest as *)
(* it was read.  So are the operator audits, which are only ever added.    *)
(***************************************************************************)
EXTENDS Integers, FiniteSets

CONSTANTS Products, Units, \* ids of products, and of plans and SKUs
          Codes, Statuses, \* of the statuses, "draft" and "active" are named here
          Admins,          \* requests of administrators at a time
          Orders,          \* orders at a time
          MaxStock,        \* the largest total stock that is asked for
          NoDoc, NoId

ASSUME CatalogAssumption ==
    /\ Products \cap Units = {}
    /\ NoId \notin Products \cup Units
    /\ {"draft", "active"} \subseteq Statuses
    /\ MaxStock \in Nat

VARIABLES catalog, \* the stored document of each id
          opened,  \* products that had an active plan or SKU at some time
          tasks,   \* what each request of an administrator is at
          orders   \* what each order holds

vars == <<catalog, opened, tasks, orders>>

Ids == Products \cup Units
Policies == {"unlimited", "limited"}
Product == [kind : {"subscription", "one_time"}, code : Codes, status : Statuses]

\* The counters of what is not limited are None, and stand here as 0.
Plan == [product : Products, code : Codes, status : Statuses, policy : {"plan"},
         total : {0}, reserved : {0}, sold : {0}]
Sku == [product : Products, code : Codes, status : Statuses, policy : Policies,
        total : 0..MaxStock, reserved : 0..MaxStock, sold : 0..MaxStock]
Document(id) == IF id \in Products THEN Product ELSE Plan \cup Sku

ASSUME NoDocAssumption == NoDoc \notin Product \cup Plan \cup Sku

NoTask == [pc |-> "idle", id |-> NoId, doc |-> NoDoc]
NoOrder == [pc |-> "idle", sku |-> NoId]

Init ==
    /\ catalog = [id \in Ids |-> NoDoc]
    /\ opened = {}
    /\ tasks = [a \in Admins |-> NoTask]
    /\ orders = [o \in Orders |-> NoOrder]

-----------------------------------------------------------------------------
IsA(m, kind) == catalog[m] # NoDoc /\ catalog[m].kind = kind
Fresh(id) == catalog[id] = NoDoc /\ \A a \in Admins : tasks[a].id # id
Begin(a, pc, id, doc) ==
    /\ tasks[a] = NoTask
    /\ tasks' = [tasks EXCEPT ![a] = [pc |-> pc, id |-> id, doc |-> doc]]
    /\ UNCHANGED <<catalog, opened, orders>>

\* No other document has the code.
ProductFits(id, doc) ==
    \A m \in Products \ {id} : catalog[m] # NoDoc =>
        ~(catalog[m].code = doc.code /\ catalog[m].kind = doc.kind)

\* Plans and SKUs have an index each; the plans of a product are all it has.
UnitFits(id, doc) ==
    \A u \in Units \ {id} : catalog[u] # NoDoc =>
        ~(catalog[u].code = doc.code /\ catalog[u].product = doc.product)

CreateProduct(a, m, kind, code) ==
    LET doc == [kind |-> kind, code |-> code, status |-> "draft"]
    IN Fresh(m) /\ ProductFits(m, doc) /\ Begin(a, "save", m, doc)

\* A product that was opened is not a draft again, an archived one is for good.
MayBecome(now, status) ==
    /\ status = "draft" => now = "draft"
    /\ now = "archived" => status = "archived"

ChangeStatus(a, m, status) ==
    /\ catalog[m] # NoDoc
    /\ MayBecome(catalog[m].status, status)
    /\ Begin(a, IF status = "active" THEN "count" ELSE "save", m,
             [catalog[m] EXCEPT !.status = status])

\* Mutant: what is on sale is not counted.
NothingCounted(m) == TRUE

ActiveSellingUnit(m) ==
    \E u \in Units : catalog[u] # NoDoc /\ catalog[u].product = m /\ catalog[u].status = "active"

RequireActiveSellingUnit(a) ==
    /\ tasks[a].pc = "count"
    /\ tasks' = [tasks EXCEPT ![a] =
          IF ActiveSellingUnit(tasks[a].id) THEN [@ EXCEPT !.pc = "save"] ELSE NoTask]
    /\ UNCHANGED <<catalog, opened, orders>>

CreatePlan(a, m, u, code, status) ==
    LET plan == [product |-> m, code |-> code, status |-> status, policy |-> "plan",
                 total |-> 0, reserved |-> 0, sold |-> 0]
    IN IsA(m, "subscription") /\ Fresh(u) /\ UnitFits(u, plan) /\ Begin(a, "save", u, plan)

UpdatePlan(a, u, status) ==
    /\ catalog[u] # NoDoc
    /\ catalog[u].policy = "plan"
    /\ Begin(a, "save", u, [catalog[u] EXCEPT !.status = status])

-----------------------------------------------------------------------------
\* _validate_stock_policy; a total of 0 is no total.
StockValid(sku) ==
    sku.policy = "limited" => sku.total > 0 /\ sku.reserved + sku.sold <= sku.total

\* A total is asked for if the stock is limited.
SkuAsked(policy, total) == (policy = "limited") = (total > 0)

CreateSku(a, m, u, code, status, policy, total) ==
    LET sku == [product |-> m, code |-> code, status |-> status, policy |-> policy,
                total |-> total, reserved |-> 0, sold |-> 0]
    IN /\ IsA(m, "one_time")
       /\ Fresh(u)
       /\ SkuAsked(policy, total)
       /\ UnitFits(u, sku)
       /\ Begin(a, "save", u, sku)

\* _apply_stock_update
Restocked(sku, policy, total) ==
    IF policy = "unlimited"
    THEN [sku EXCEPT !.policy = policy, !.total = 0, !.reserved = 0, !.sold = 0]
    ELSE [sku EXCEPT !.policy = policy, !.total = IF total > 0 THEN total ELSE @]

\* Mutant: a smaller total is not compared with what is committed.
RestockableBelow(sku, policy, total) ==
    /\ policy = "unlimited" => total = 0
    /\ policy = "unlimited" => sku.reserved + sku.sold = 0
    /\ policy = "limited" => sku.total > 0 \/ total > 0

\* _validate_stock_policy_transition
Restockable(sku, policy, total) ==
    /\ policy = "unlimited" => total = 0
    /\ policy = "unlimited" => sku.reserved + sku.sold = 0
    /\ StockValid(Restocked(sku, policy, total))

\* The policy, or the total (0), that was, when another is not asked for.
UpdateSku(a, u, status, policy, total) ==
    /\ catalog[u] # NoDoc
    /\ catalog[u].policy # "plan"
    /\ Restockable(catalog[u], policy, total)
    /\ Begin(a, "save", u, [Restocked(catalog[u], policy, total) EXCEPT !.status = status])

-----------------------------------------------------------------------------
\* A code that another request has stored meanwhile is refused by the index.
Refused(a) ==
    /\ tasks' = [tasks EXCEPT ![a] = NoTask]
    /\ UNCHANGED <<catalog, opened, orders>>

Stored(a) ==
    /\ catalog' = [catalog EXCEPT ![tasks[a].id] = tasks[a].doc]
    /\ tasks' = [tasks EXCEPT ![a] = NoTask]
    /\ UNCHANGED orders

\* Mutant: there is no index behind the read of the code.
SaveProductUnchecked(a) ==
    /\ tasks[a].pc = "save"
    /\ tasks[a].id \in Products
    /\ Stored(a) /\ UNCHANGED opened

SaveProduct(a) ==
    /\ tasks[a].pc = "save"
    /\ tasks[a].id \in Products
    /\ IF ProductFits(tasks[a].id, tasks[a].doc)
       THEN Stored(a) /\ UNCHANGED opened
       ELSE Refused(a)

\* save_subscription_plan and save_one_time_sku
SaveUnit(a) ==
    /\ tasks[a].pc = "save"
    /\ tasks[a].id \in Units
    /\ IF UnitFits(tasks[a].id, tasks[a].doc)
       THEN /\ Stored(a)
            /\ opened' = IF tasks[a].doc.status = "active"
                         THEN opened \cup {tasks[a].doc.product} ELSE opened
       ELSE Refused(a)

AdminCrash(a) ==
    /\ tasks[a] # NoTask
    /\ tasks' = [tasks EXCEPT ![a] = NoTask]
    /\ UNCHANGED <<catalog, opened, orders>>

-----------------------------------------------------------------------------
OnSale(u) ==
    /\ catalog[u] # NoDoc
    /\ catalog[u].status = "active"
    /\ IsA(catalog[u].product, "one_time")
    /\ catalog[catalog[u].product].status = "active"

HasStock(sku) == sku.policy = "limited" => sku.total - (sku.reserved + sku.sold) >= 1

Limited(u) == catalog[u].policy = "limited"
Recounted(sku, reservedMore, soldMore) ==
    [sku EXCEPT !.reserved = @ + reservedMore, !.sold = @ + soldMore]
Counted(u, reservedMore, soldMore) ==
    catalog' = [catalog EXCEPT ![u] = Recounted(catalog[u], reservedMore, soldMore)]

Reserve(o, u) ==
    /\ orders[o] = NoOrder
    /\ OnSale(u) /\ HasStock(catalog[u])
    /\ IF Limited(u) THEN Counted(u, 1, 0) ELSE UNCHANGED catalog
    /\ orders' = [orders EXCEPT ![o] = [pc |-> "reserved", sku |-> u]]
    /\ UNCHANGED <<opened, tasks>>

Release(o) ==
    LET u == orders[o].sku
    IN /\ orders[o].pc = "reserved"
       /\ IF Limited(u) /\ catalog[u].reserved >= 1 THEN Counted(u, -1, 0) ELSE UNCHANGED catalog
       /\ orders' = [orders EXCEPT ![o] = NoOrder]
       /\ UNCHANGED <<opened, tasks>>

\* Mutant: what is sold is not compared with what is reserved.
CaptureUnchecked(o) ==
    LET u == orders[o].sku
    IN /\ orders[o].pc = "reserved"
       /\ IF Limited(u) THEN Counted(u, -1, 1) ELSE UNCHANGED catalog
       /\ orders' = [orders EXCEPT ![o].pc = "sold"]
       /\ UNCHANGED <<opened, tasks>>

Capture(o) ==
    LET u == orders[o].sku
    IN /\ orders[o].pc = "reserved"
       /\ IF Limited(u) /\ catalog[u].reserved >= 1 THEN Counted(u, -1, 1) ELSE UNCHANGED catalog
       /\ orders' = [orders EXCEPT ![o].pc = "sold"]
       /\ UNCHANGED <<opened, tasks>>

Restore(o) ==
    LET u == orders[o].sku
    IN /\ orders[o].pc = "sold"
       /\ IF Limited(u) /\ catalog[u].sold >= 1 THEN Counted(u, 0, -1) ELSE UNCHANGED catalog
       /\ orders' = [orders EXCEPT ![o] = NoOrder]
       /\ UNCHANGED <<opened, tasks>>

\* The order is never refunded: another one takes its place here.
Keep(o) ==
    /\ orders[o].pc = "sold"
    /\ orders' = [orders EXCEPT ![o] = NoOrder]
    /\ UNCHANGED <<catalog, opened, tasks>>

AdminStep(a) ==
    \/ \E m \in Products, kind \in {"subscription", "one_time"}, code \in Codes :
          CreateProduct(a, m, kind, code)
    \/ \E m \in Products, status \in Statuses : ChangeStatus(a, m, status)
    \/ RequireActiveSellingUnit(a)
    \/ \E m \in Products, u \in Units, code \in Codes, status \in Statuses :
          \/ CreatePlan(a, m, u, code, status)
          \/ \E policy \in Policies, total \in 0..MaxStock :
                CreateSku(a, m, u, code, status, policy, total)
    \/ \E u \in Units, status \in Statuses :
          \/ UpdatePlan(a, u, status)
          \/ \E policy \in Policies, total \in 0..MaxStock :
                UpdateSku(a, u, status, policy, total)
    \/ SaveProduct(a) \/ SaveUnit(a) \/ AdminCrash(a)

OrderStep(o) ==
    \/ \E u \in Units : Reserve(o, u)
    \/ Release(o) \/ Capture(o) \/ Restore(o) \/ Keep(o)

Next == (\E a \in Admins : AdminStep(a)) \/ (\E o \in Orders : OrderStep(o))

Spec == Init /\ [][Next]_vars

-----------------------------------------------------------------------------
(* Types of the stored and the pending documents.  Counters stay natural   *)
(* numbers although an order may give back what a stale document no longer *)
(* counts.                                                                 *)
CatalogTypeOK ==
    /\ DOMAIN catalog = Ids /\ DOMAIN tasks = Admins
    /\ \A id \in Ids : catalog[id] # NoDoc => catalog[id] \in Document(id)
    /\ opened \subseteq Products
    /\ \A a \in Admins :
          \/ tasks[a] = NoTask
          \/ \E id \in Ids, pc \in {"count", "save"} : \E doc \in Document(id) :
                tasks[a] = [pc |-> pc, id |-> id, doc |-> doc]
    /\ orders \in [Orders -> [pc : {"idle"}, sku : {NoId}]
                            \cup [pc : {"reserved", "sold"}, sku : Units]]

(* However stale the document that an administrator stores, what is stored *)
(* agrees with itself: a limited SKU has a total and does not commit more  *)
(* than that, and what is not limited counts nothing.                      *)
StockAddsUp ==
    \A u \in Units : catalog[u] # NoDoc =>
        IF Limited(u) THEN StockValid(catalog[u])
        ELSE catalog[u].total = 0 /\ catalog[u].reserved = 0 /\ catalog[u].sold = 0

(* Two requests that both find a code free do not both get it, and a SKU   *)
(* or a plan is one of a product of its kind.                              *)
CodesAreUnique ==
    /\ \A m \in Products : catalog[m] # NoDoc => ProductFits(m, catalog[m])
    /\ \A u \in Units : catalog[u] # NoDoc =>
          /\ UnitFits(u, catalog[u])
          /\ IsA(catalog[u].product, IF catalog[u].policy = "plan" THEN "subscription"
                                                                  ELSE "one_time")

(* A product is not opened before something of it was on sale, whatever is *)
(* stored between the count of its plans or SKUs and the save.             *)
OpenedWithAUnit ==
    \A m \in Products : catalog[m] # NoDoc /\ catalog[m].status = "active" => m \in opened
==============================================================================
