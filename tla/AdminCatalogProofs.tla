-------------------------- MODULE AdminCatalogProofs --------------------------
(* Proofs about AdminCatalog.                                              *)
EXTENDS AdminCatalog, TLAPS

KindOf(doc) == IF doc.policy = "plan" THEN "subscription" ELSE "one_time"

\* StockAddsUp, of one document.
AddsUp(doc) ==
    IF doc.policy = "limited" THEN StockValid(doc)
    ELSE doc.total = 0 /\ doc.reserved = 0 /\ doc.sold = 0

\* What a request may store when it stores doc as a plan or a SKU.
UnitIsGood(doc) == AddsUp(doc) /\ IsA(doc.product, KindOf(doc))

\* A pending product keeps its kind, is not being created twice, and is not on
\* its way to be opened before something of it was on sale.
ProductIsGood(a, pc, m, doc) ==
    /\ catalog[m] # NoDoc => catalog[m].kind = doc.kind
    /\ catalog[m] = NoDoc => \A b \in Admins : tasks[b].id = m => b = a
    /\ pc = "save" /\ doc.status = "active" => m \in opened

IsGood(a, pc, id, doc) ==
    /\ id \in Units => pc = "save" /\ UnitIsGood(doc)
    /\ id \in Products => ProductIsGood(a, pc, id, doc)

TasksAreGood ==
    \A a \in Admins : tasks[a] # NoTask =>
        IsGood(a, tasks[a].pc, tasks[a].id, tasks[a].doc)

ActiveWasOpened ==
    \A u \in Units : catalog[u] # NoDoc /\ catalog[u].status = "active" =>
        catalog[u].product \in opened

\* What is ordered was stored, and nothing that was stored is removed.
OrdersHaveSkus == \A o \in Orders : orders[o].sku \in Units => catalog[orders[o].sku] # NoDoc

CatalogInv ==
    /\ CatalogTypeOK /\ OrdersHaveSkus /\ StockAddsUp /\ CodesAreUnique /\ OpenedWithAUnit
    /\ TasksAreGood /\ ActiveWasOpened

-----------------------------------------------------------------------------
\* Nothing that is stored or pending is NoDoc.
LEMMA DocumentsAreDocuments ==
    ASSUME CatalogAssumption, NoDocAssumption, NEW id \in Ids, NEW doc \in Document(id)
    PROVE /\ doc # NoDoc
          /\ id \in Units => id \notin Products /\ doc \in Plan \cup Sku
          /\ id \in Products => id \notin Units /\ doc \in Product
BY DEF CatalogAssumption, NoDocAssumption, Document, Ids

\* A request that is not idle has the id and the document of its task.
LEMMA TaskFields ==
    ASSUME CatalogTypeOK, NEW a \in Admins, tasks[a] # NoTask
    PROVE /\ tasks[a].pc \in {"count", "save"}
          /\ tasks[a].id \in Ids
          /\ tasks[a].doc \in Document(tasks[a].id)
BY DEF CatalogTypeOK

\* An idle request has no id.
LEMMA IdleTask ==
    ASSUME CatalogAssumption
    PROVE NoTask.pc = "idle" /\ NoTask.id \notin Ids
BY DEF CatalogAssumption, NoTask, Ids

\* An idle order holds nothing.
LEMMA IdleOrder ==
    ASSUME CatalogAssumption PROVE NoOrder.sku \notin Units
BY DEF CatalogAssumption, NoOrder

\* The invariant holds at first.
LEMMA CatalogInit ==
    ASSUME CatalogAssumption, NoDocAssumption PROVE Init => CatalogInv
<1> SUFFICES ASSUME Init PROVE CatalogInv OBVIOUS
<1>1. CatalogTypeOK BY DEF Init, CatalogTypeOK, NoOrder
<1>2. \A id \in Ids : catalog[id] = NoDoc BY DEF Init
<1>3. TasksAreGood BY DEF Init, TasksAreGood
<1>4. OrdersHaveSkus BY DEF Init, OrdersHaveSkus, NoOrder, CatalogAssumption
<1> QED BY <1>1, <1>2, <1>3, <1>4
    DEF CatalogInv, StockAddsUp, CodesAreUnique, OpenedWithAUnit, ActiveWasOpened, Ids

\* A request that begins with a good document keeps the invariant.
LEMMA BeginKeeps ==
    ASSUME CatalogAssumption, NoDocAssumption, CatalogInv,
           NEW a \in Admins, NEW pc \in {"count", "save"}, NEW id \in Ids,
           NEW doc \in Document(id),
           Begin(a, pc, id, doc), IsGood(a, pc, id, doc)
    PROVE CatalogInv'
<1>1. /\ tasks' = [tasks EXCEPT ![a] = [pc |-> pc, id |-> id, doc |-> doc]]
      /\ UNCHANGED <<catalog, opened, orders>>
  BY DEF Begin
<1> DEFINE t == [pc |-> pc, id |-> id, doc |-> doc]
<1>2. DOMAIN tasks = Admins BY DEF CatalogInv, CatalogTypeOK
<1>3. tasks'[a] = t /\ \A b \in Admins \ {a} : tasks'[b] = tasks[b] BY <1>1, <1>2
<1>4. CatalogTypeOK'
  <2>1. DOMAIN tasks' = Admins BY <1>1, <1>2
  <2> QED BY <1>1, <1>3, <2>1 DEF CatalogInv, CatalogTypeOK
<1>5. TasksAreGood'
  <2> SUFFICES ASSUME NEW b \in Admins, tasks'[b] # NoTask
               PROVE IsGood(b, tasks[b].pc, tasks[b].id, tasks[b].doc)'
    BY DEF TasksAreGood
  <2>1. CASE b = a
    <3>1. id \in Units => UnitIsGood(doc)' BY <1>1 DEF IsGood, UnitIsGood, IsA
    <3>2. id \in Products => ProductIsGood(a, pc, id, doc)'
      BY <1>1, <1>3 DEF IsGood, ProductIsGood
    <3> QED BY <1>3, <2>1, <3>1, <3>2 DEF IsGood
  <2>2. CASE b # a
    <3>1. IsGood(b, tasks[b].pc, tasks[b].id, tasks[b].doc) /\ tasks[b] # NoTask
      BY <1>3, <2>2 DEF CatalogInv, TasksAreGood
    <3>2. tasks[b].id \in Units => UnitIsGood(tasks[b].doc)'
      BY <1>1, <1>3, <2>2, <3>1 DEF IsGood, UnitIsGood, IsA
    <3>3. tasks[b].id \in Products =>
            ProductIsGood(b, tasks[b].pc, tasks[b].id, tasks[b].doc)'
      <4> SUFFICES ASSUME tasks[b].id \in Products
                   PROVE ProductIsGood(b, tasks[b].pc, tasks[b].id, tasks[b].doc)'
        OBVIOUS
      <4>1. ProductIsGood(b, tasks[b].pc, tasks[b].id, tasks[b].doc) BY <3>1 DEF IsGood
      <4>2. catalog[tasks[b].id] = NoDoc => id # tasks[b].id
        BY <2>2, DocumentsAreDocuments DEF IsGood, ProductIsGood
      <4> QED BY <1>1, <1>3, <2>2, <4>1, <4>2 DEF ProductIsGood
    <3> QED BY <1>3, <2>2, <3>1, <3>2, <3>3 DEF IsGood
  <2> QED BY <2>1, <2>2
<1> QED BY <1>1, <1>4, <1>5
    DEF CatalogInv, OrdersHaveSkus, StockAddsUp, CodesAreUnique, OpenedWithAUnit,
        ActiveWasOpened, Limited, ProductFits, UnitFits, IsA, StockValid

\* The tasks of the others stay good when one request is done and the catalogue
\* keeps what every request saw of its product.
LEMMA TasksStayGood ==
    ASSUME CatalogAssumption, CatalogInv, NEW a,
           \/ tasks' = tasks
           \/ tasks' = [tasks EXCEPT ![a] = NoTask],
           opened \subseteq opened',
           \A m \in Products : catalog[m] # NoDoc =>
               catalog'[m] # NoDoc /\ catalog'[m].kind = catalog[m].kind,
           \A m \in Products : catalog[m] = NoDoc =>
               catalog'[m] = NoDoc \/ (a \in Admins /\ tasks[a].id = m /\ tasks' # tasks)
    PROVE TasksAreGood'
<1> SUFFICES ASSUME NEW b \in Admins, tasks'[b] # NoTask
             PROVE IsGood(b, tasks[b].pc, tasks[b].id, tasks[b].doc)'
  BY DEF TasksAreGood
<1>1. DOMAIN tasks = Admins BY DEF CatalogInv, CatalogTypeOK
<1>2. tasks'[b] = tasks[b] /\ (b = a => tasks' = tasks) BY <1>1
<1>3. \A x \in Admins : tasks'[x].id \in Ids => tasks'[x] = tasks[x] BY <1>1, IdleTask
<1>4. IsGood(b, tasks[b].pc, tasks[b].id, tasks[b].doc) /\ tasks[b].id \in Ids
  BY <1>2, TaskFields DEF CatalogInv, TasksAreGood
<1>5. tasks[b].id \in Units => UnitIsGood(tasks[b].doc)'
  <2> SUFFICES ASSUME tasks[b].id \in Units PROVE UnitIsGood(tasks[b].doc)' OBVIOUS
  <2>1. UnitIsGood(tasks[b].doc) /\ tasks[b].doc.product \in Products
    <3>1. tasks[b].doc \in Plan \cup Sku
      BY <1>2, <1>4, TaskFields DEF CatalogInv, Document, CatalogAssumption
    <3> QED BY <1>4, <3>1 DEF IsGood, Plan, Sku
  <2> QED BY <1>2, <2>1 DEF UnitIsGood, IsA
<1>6. ASSUME tasks[b].id \in Products
      PROVE ProductIsGood(b, tasks[b].pc, tasks[b].id, tasks[b].doc)'
  <2> DEFINE m == tasks[b].id
  <2>1. ProductIsGood(b, tasks[b].pc, m, tasks[b].doc) BY <1>4, <1>6 DEF IsGood
  <2>2. ASSUME catalog[m] = NoDoc PROVE catalog'[m] = NoDoc
    BY <1>2, <1>6, <2>1, <2>2 DEF ProductIsGood
  <2>3. \A x \in Admins : tasks'[x].id = m => tasks[x].id = m BY <1>3, <1>6 DEF Ids
  <2> QED BY <1>2, <1>6, <2>1, <2>2, <2>3 DEF ProductIsGood
<1> QED BY <1>2, <1>4, <1>5, <1>6 DEF IsGood

\* Steps that leave the catalogue and the others alone keep the invariant.
LEMMA EndKeeps ==
    ASSUME CatalogAssumption, CatalogInv, NEW a,
           \/ tasks' = tasks
           \/ tasks' = [tasks EXCEPT ![a] = NoTask],
           catalog' = catalog, opened' = opened, CatalogTypeOK', OrdersHaveSkus'
    PROVE CatalogInv'
<1>1. TasksAreGood' BY TasksStayGood
<1> QED BY <1>1
    DEF CatalogInv, StockAddsUp, CodesAreUnique, OpenedWithAUnit, ActiveWasOpened,
        Limited, ProductFits, UnitFits, IsA, StockValid

\* A plan or a SKU that agrees with itself, whose code is free, may be stored.
LEMMA StoreUnitKeeps ==
    ASSUME CatalogAssumption, NoDocAssumption, CatalogInv,
           NEW a, NEW u \in Units, NEW doc \in Plan \cup Sku,
           \/ tasks' = tasks
           \/ tasks' = [tasks EXCEPT ![a] = NoTask],
           catalog' = [catalog EXCEPT ![u] = doc],
           opened \subseteq opened',
           doc.status = "active" => doc.product \in opened',
           UnitIsGood(doc), UnitFits(u, doc), CatalogTypeOK', OrdersHaveSkus'
    PROVE CatalogInv'
<1>1. /\ u \in Ids /\ u \notin Products /\ doc # NoDoc
      /\ DOMAIN catalog = Ids
  BY DEF Ids, CatalogAssumption, NoDocAssumption, CatalogInv, CatalogTypeOK
<1>2. catalog'[u] = doc /\ \A x \in Ids \ {u} : catalog'[x] = catalog[x] BY <1>1
<1>3. \A m \in Products : catalog'[m] = catalog[m] BY <1>1, <1>2 DEF Ids
<1>4. TasksAreGood' BY <1>3, TasksStayGood
<1>5. StockAddsUp'
  <2> SUFFICES ASSUME NEW x \in Units, catalog'[x] # NoDoc
               PROVE (IF Limited(x) THEN StockValid(catalog[x])
                      ELSE catalog[x].total = 0 /\ catalog[x].reserved = 0
                             /\ catalog[x].sold = 0)'
    BY DEF StockAddsUp
  <2>1. CASE x = u BY <1>2, <2>1 DEF UnitIsGood, AddsUp, Limited, StockValid
  <2>2. CASE x # u
    BY <1>2, <2>2 DEF CatalogInv, StockAddsUp, Limited, StockValid, Ids
  <2> QED BY <2>1, <2>2
<1>6. CodesAreUnique'
  <2>1. ASSUME NEW m \in Products, catalog'[m] # NoDoc
        PROVE ProductFits(m, catalog[m])'
    BY <1>3, <2>1 DEF CatalogInv, CodesAreUnique, ProductFits
  <2>2. ASSUME NEW x \in Units, catalog'[x] # NoDoc
        PROVE UnitFits(x, catalog[x])'
    <3>1. CASE x = u BY <1>1, <1>2, <3>1 DEF UnitFits, Ids
    <3>2. CASE x # u
      <4>1. UnitFits(x, catalog[x]) /\ catalog'[x] = catalog[x] /\ catalog[x] # NoDoc
        BY <1>2, <2>2, <3>2 DEF CatalogInv, CodesAreUnique, Ids
      <4>2. ~(doc.code = catalog[x].code /\ doc.product = catalog[x].product)
        BY <3>2, <4>1 DEF UnitFits
      <4> QED BY <1>2, <3>2, <4>1, <4>2 DEF UnitFits, Ids
    <3> QED BY <3>1, <3>2
  <2>3. ASSUME NEW x \in Units, catalog'[x] # NoDoc
        PROVE IsA(catalog[x].product, KindOf(catalog[x]))'
    <3>1. catalog'[x].product \in Products
      BY <1>2, <2>3 DEF Plan, Sku, CatalogInv, CatalogTypeOK, Document, Ids, CatalogAssumption
    <3>2. IsA(catalog'[x].product, KindOf(catalog'[x]))
      <4>1. CASE x = u BY <1>2, <4>1 DEF UnitIsGood
      <4>2. CASE x # u
        BY <1>2, <2>3, <4>2 DEF CatalogInv, CodesAreUnique, KindOf, Ids
      <4> QED BY <4>1, <4>2
    <3> QED BY <1>3, <3>1, <3>2 DEF IsA, KindOf
  <2> QED BY <2>1, <2>2, <2>3 DEF CodesAreUnique, KindOf
<1>7. OpenedWithAUnit' BY <1>3 DEF CatalogInv, OpenedWithAUnit
<1>8. ActiveWasOpened'
  BY <1>2 DEF CatalogInv, ActiveWasOpened, Ids
<1> QED BY <1>4, <1>5, <1>6, <1>7, <1>8 DEF CatalogInv

\* A pending product whose code is free may be stored.
LEMMA StoreProductKeeps ==
    ASSUME CatalogAssumption, NoDocAssumption, CatalogInv,
           NEW a \in Admins, SaveProduct(a)
    PROVE CatalogInv'
<1> DEFINE m == tasks[a].id
           doc == tasks[a].doc
<1>1. /\ tasks[a] # NoTask /\ m \in Products /\ m \in Ids /\ m \notin Units
      /\ doc \in Product /\ doc # NoDoc
      /\ ProductIsGood(a, "save", m, doc)
  <2>1. tasks[a] # NoTask /\ m \in Products BY IdleTask DEF SaveProduct
  <2>2. doc \in Document(m) /\ m \in Ids BY <2>1, TaskFields DEF CatalogInv
  <2>3. ProductIsGood(a, "save", m, doc)
    BY <2>1 DEF CatalogInv, TasksAreGood, IsGood, SaveProduct
  <2> QED BY <2>1, <2>2, <2>3, DocumentsAreDocuments
<1>2. DOMAIN catalog = Ids /\ DOMAIN tasks = Admins BY DEF CatalogInv, CatalogTypeOK
<1>3. tasks' = [tasks EXCEPT ![a] = NoTask] /\ UNCHANGED <<opened, orders>>
  BY DEF SaveProduct, Stored, Refused
<1>4. tasks'[a] = NoTask /\ tasks' # tasks /\ \A b \in Admins \ {a} : tasks'[b] = tasks[b]
  BY <1>1, <1>2, <1>3
<1>5. CASE ~ProductFits(m, doc)
  <2>1. catalog' = catalog BY <1>5 DEF SaveProduct, Refused
  <2>2. CatalogTypeOK' /\ OrdersHaveSkus'
    BY <1>2, <1>3, <1>4, <2>1 DEF CatalogInv, CatalogTypeOK, OrdersHaveSkus
  <2> QED BY <1>3, <2>1, <2>2, EndKeeps
<1>6. CASE ProductFits(m, doc)
  <2>1. catalog' = [catalog EXCEPT ![m] = doc] BY <1>6 DEF SaveProduct, Stored
  <2>2. catalog'[m] = doc /\ \A x \in Ids \ {m} : catalog'[x] = catalog[x] BY <1>1, <1>2, <2>1
  <2>3. \A u \in Units : catalog'[u] = catalog[u] BY <1>1, <2>2 DEF Ids
  <2>4. CatalogTypeOK'
    <3>1. DOMAIN catalog' = Ids /\ DOMAIN tasks' = Admins BY <1>2, <1>3, <2>1
    <3>2. \A id \in Ids : catalog'[id] # NoDoc => catalog'[id] \in Document(id)
      BY <1>1, <2>2 DEF CatalogInv, CatalogTypeOK, Document
    <3> QED BY <1>3, <1>4, <3>1, <3>2 DEF CatalogInv, CatalogTypeOK
  <2>5. \A p \in Products : catalog[p] # NoDoc =>
          catalog'[p] # NoDoc /\ catalog'[p].kind = catalog[p].kind
    BY <1>1, <2>2 DEF ProductIsGood, Ids
  <2>6. TasksAreGood'
    <3>1. \A p \in Products : catalog[p] = NoDoc =>
            catalog'[p] = NoDoc \/ (tasks[a].id = p /\ tasks' # tasks)
      BY <1>4, <2>2 DEF Ids
    <3> QED BY <1>3, <2>5, <3>1, TasksStayGood
  <2>7. CodesAreUnique'
    <3>1. ASSUME NEW p \in Products, catalog'[p] # NoDoc
          PROVE ProductFits(p, catalog[p])'
      <4>1. CASE p = m BY <1>1, <1>6, <2>2, <4>1 DEF ProductFits, Ids
      <4>2. CASE p # m
        <5>1. ProductFits(p, catalog[p]) /\ catalog'[p] = catalog[p] /\ catalog[p] # NoDoc
          BY <2>2, <3>1, <4>2 DEF CatalogInv, CodesAreUnique, Ids
        <5>2. ~(doc.code = catalog[p].code /\ doc.kind = catalog[p].kind)
          BY <1>6, <4>2, <5>1 DEF ProductFits
        <5> QED BY <2>2, <4>2, <5>1, <5>2 DEF ProductFits, Ids
      <4> QED BY <4>1, <4>2
    <3>2. ASSUME NEW u \in Units, catalog'[u] # NoDoc
          PROVE UnitFits(u, catalog[u])'
      BY <2>3, <3>2 DEF CatalogInv, CodesAreUnique, UnitFits
    <3>3. ASSUME NEW u \in Units, catalog'[u] # NoDoc
          PROVE IsA(catalog[u].product, KindOf(catalog[u]))'
      <4>1. catalog[u].product \in Products
        BY <2>3, <3>3 DEF Plan, Sku, CatalogInv, CatalogTypeOK, Document, Ids, CatalogAssumption
      <4>2. IsA(catalog[u].product, KindOf(catalog[u]))
        BY <2>3, <3>3 DEF CatalogInv, CodesAreUnique, KindOf
      <4> QED BY <2>3, <2>5, <4>1, <4>2 DEF IsA, KindOf
    <3> QED BY <3>1, <3>2, <3>3 DEF CodesAreUnique, KindOf
  <2>8. OpenedWithAUnit'
    BY <1>1, <1>3, <2>2 DEF CatalogInv, OpenedWithAUnit, ProductIsGood, Ids
  <2>9. StockAddsUp' /\ ActiveWasOpened' /\ OrdersHaveSkus'
    BY <1>3, <2>3
    DEF CatalogInv, StockAddsUp, ActiveWasOpened, OrdersHaveSkus, Limited, StockValid
  <2> QED BY <2>4, <2>6, <2>7, <2>8, <2>9 DEF CatalogInv
<1> QED BY <1>5, <1>6

\* A pending plan or SKU may be stored.
LEMMA SaveUnitKeeps ==
    ASSUME CatalogAssumption, NoDocAssumption, CatalogInv,
           NEW a \in Admins, SaveUnit(a)
    PROVE CatalogInv'
<1> DEFINE u == tasks[a].id
           doc == tasks[a].doc
<1>1. tasks[a] # NoTask /\ u \in Units /\ u \in Ids BY IdleTask DEF SaveUnit, Ids
<1>2. doc \in Document(u) BY <1>1, TaskFields DEF CatalogInv
<1>3. doc \in Plan \cup Sku /\ doc.product \in Products
  BY <1>1, <1>2, DocumentsAreDocuments DEF Plan, Sku
<1>4. UnitIsGood(doc) BY <1>1 DEF CatalogInv, TasksAreGood, IsGood
<1>5. DOMAIN catalog = Ids /\ DOMAIN tasks = Admins BY DEF CatalogInv, CatalogTypeOK
<1>6. tasks' = [tasks EXCEPT ![a] = NoTask] /\ UNCHANGED orders
  BY DEF SaveUnit, Stored, Refused
<1>7. tasks'[a] = NoTask /\ \A b \in Admins \ {a} : tasks'[b] = tasks[b] BY <1>5, <1>6
<1>8. CASE ~UnitFits(u, doc)
  <2>1. UNCHANGED <<catalog, opened>> BY <1>8 DEF SaveUnit, Refused
  <2>2. CatalogTypeOK' /\ OrdersHaveSkus'
    BY <1>5, <1>6, <1>7, <2>1 DEF CatalogInv, CatalogTypeOK, OrdersHaveSkus
  <2> QED BY <1>6, <2>1, <2>2, EndKeeps
<1>9. CASE UnitFits(u, doc)
  <2>1. /\ catalog' = [catalog EXCEPT ![u] = doc]
        /\ opened' = IF doc.status = "active" THEN opened \cup {doc.product} ELSE opened
    BY <1>9 DEF SaveUnit, Stored
  <2>2. catalog'[u] = doc /\ \A x \in Ids \ {u} : catalog'[x] = catalog[x] BY <1>1, <1>5, <2>1
  <2>3. CatalogTypeOK'
    <3>1. DOMAIN catalog' = Ids /\ DOMAIN tasks' = Admins BY <1>5, <1>6, <2>1
    <3>2. \A id \in Ids : catalog'[id] # NoDoc => catalog'[id] \in Document(id)
      BY <1>2, <2>2 DEF CatalogInv, CatalogTypeOK, Document
    <3>3. opened' \subseteq Products BY <1>3, <2>1 DEF CatalogInv, CatalogTypeOK
    <3> QED BY <1>6, <1>7, <3>1, <3>2, <3>3 DEF CatalogInv, CatalogTypeOK
  <2>4. doc # NoDoc BY <1>1, <1>2, DocumentsAreDocuments
  <2>5. OrdersHaveSkus' BY <1>6, <2>2, <2>4 DEF CatalogInv, OrdersHaveSkus, Ids
  <2> QED BY <1>1, <1>3, <1>4, <1>6, <1>9, <2>1, <2>3, <2>5, StoreUnitKeeps
<1> QED BY <1>8, <1>9

\* A stored plan or SKU is a good one.
LEMMA StoredUnit ==
    ASSUME CatalogAssumption, NoDocAssumption, CatalogInv, NEW u \in Units, catalog[u] # NoDoc
    PROVE /\ catalog[u] \in Plan \cup Sku
          /\ catalog[u].product \in Products
          /\ UnitIsGood(catalog[u]) /\ UnitFits(u, catalog[u])
<1>1. catalog[u] \in Plan \cup Sku
  BY DocumentsAreDocuments DEF CatalogInv, CatalogTypeOK, Ids
<1> QED BY <1>1
    DEF CatalogInv, StockAddsUp, CodesAreUnique, UnitIsGood, AddsUp, KindOf, Limited, Plan, Sku

\* A product that is created begins good.
LEMMA CreateProductKeeps ==
    ASSUME CatalogAssumption, NoDocAssumption, CatalogInv, NEW a \in Admins,
           NEW m \in Products, NEW kind \in {"subscription", "one_time"}, NEW code \in Codes,
           CreateProduct(a, m, kind, code)
    PROVE CatalogInv'
<1>0. m \in Ids /\ m \notin Units
  BY DEF Ids, CatalogAssumption
<1> DEFINE doc == [kind |-> kind, code |-> code, status |-> "draft"]
<1>1. doc \in Document(m) BY DEF Document, Product, CatalogAssumption
<1>2. Fresh(m) /\ Begin(a, "save", m, doc) BY DEF CreateProduct
<1>3. IsGood(a, "save", m, doc)
  BY <1>0, <1>2 DEF IsGood, ProductIsGood, Fresh
<1> QED BY <1>0, <1>1, <1>2, <1>3, BeginKeeps

\* So does a plan.
LEMMA CreatePlanKeeps ==
    ASSUME CatalogAssumption, NoDocAssumption, CatalogInv, NEW a \in Admins,
           NEW m \in Products, NEW u \in Units, NEW code \in Codes,
           NEW status \in Statuses,
           CreatePlan(a, m, u, code, status)
    PROVE CatalogInv'
<1>0. m \in Ids /\ m \notin Units /\ u \in Ids /\ u \notin Products
  BY DEF Ids, CatalogAssumption
<1> DEFINE doc == [product |-> m, code |-> code, status |-> status, policy |-> "plan",
                   total |-> 0, reserved |-> 0, sold |-> 0]
<1>1. doc \in Document(u) BY <1>0 DEF Document, Plan
<1>2. Begin(a, "save", u, doc) /\ IsA(m, "subscription") BY DEF CreatePlan
<1>3. IsGood(a, "save", u, doc)
  BY <1>0, <1>2 DEF IsGood, UnitIsGood, AddsUp, KindOf
<1> QED BY <1>0, <1>1, <1>2, <1>3, BeginKeeps

\* So does a SKU.
LEMMA CreateSkuKeeps ==
    ASSUME CatalogAssumption, NoDocAssumption, CatalogInv, NEW a \in Admins,
           NEW m \in Products, NEW u \in Units, NEW code \in Codes,
           NEW status \in Statuses, NEW policy \in Policies, NEW total \in 0..MaxStock,
           CreateSku(a, m, u, code, status, policy, total)
    PROVE CatalogInv'
<1>0. m \in Ids /\ m \notin Units /\ u \in Ids /\ u \notin Products
  BY DEF Ids, CatalogAssumption
<1> DEFINE doc == [product |-> m, code |-> code, status |-> status, policy |-> policy,
                   total |-> total, reserved |-> 0, sold |-> 0]
<1>1. doc \in Document(u) BY <1>0 DEF Document, Sku, CatalogAssumption
<1>2. Begin(a, "save", u, doc) /\ IsA(m, "one_time") /\ SkuAsked(policy, total)
  BY DEF CreateSku
<1>3. AddsUp(doc) BY <1>2 DEF AddsUp, StockValid, SkuAsked, CatalogAssumption
<1>4. IsGood(a, "save", u, doc)
  BY <1>0, <1>2, <1>3 DEF IsGood, UnitIsGood, KindOf, Policies
<1> QED BY <1>0, <1>1, <1>2, <1>4, BeginKeeps

\* A change of the status of a product keeps its kind.
LEMMA ChangeStatusKeeps ==
    ASSUME CatalogAssumption, NoDocAssumption, CatalogInv, NEW a \in Admins,
           NEW m \in Products, NEW status \in Statuses,
           ChangeStatus(a, m, status)
    PROVE CatalogInv'
<1>0. m \in Ids /\ m \notin Units
  BY DEF Ids, CatalogAssumption
<1> DEFINE doc == [catalog[m] EXCEPT !.status = status]
           pc == IF status = "active" THEN "count" ELSE "save"
<1>1. catalog[m] # NoDoc /\ Begin(a, pc, m, doc) BY DEF ChangeStatus
<1>2. catalog[m] \in Product
  BY <1>0, <1>1 DEF CatalogInv, CatalogTypeOK, Document
<1>3. doc \in Document(m) /\ doc.kind = catalog[m].kind /\ doc.status = status
  BY <1>2 DEF Document, Product
<1>4. IsGood(a, pc, m, doc) BY <1>0, <1>1, <1>3 DEF IsGood, ProductIsGood
<1>5. pc \in {"count", "save"} OBVIOUS
<1> HIDE DEF doc, pc
<1> QED BY <1>0, <1>1, <1>3, <1>4, <1>5, BeginKeeps

\* An updated plan is a good one.
LEMMA UpdatePlanKeeps ==
    ASSUME CatalogAssumption, NoDocAssumption, CatalogInv, NEW a \in Admins,
           NEW u \in Units, NEW status \in Statuses,
           UpdatePlan(a, u, status)
    PROVE CatalogInv'
<1>0. u \in Ids /\ u \notin Products
  BY DEF Ids, CatalogAssumption
<1> DEFINE doc == [catalog[u] EXCEPT !.status = status]
<1>1. catalog[u] # NoDoc /\ catalog[u].policy = "plan" /\ Begin(a, "save", u, doc)
  BY DEF UpdatePlan
<1>2. catalog[u] \in Plan /\ UnitIsGood(catalog[u])
  BY <1>1, StoredUnit DEF Sku, Policies
<1>3. /\ doc \in Plan
      /\ doc.policy = catalog[u].policy /\ doc.product = catalog[u].product
      /\ doc.total = 0 /\ doc.reserved = 0 /\ doc.sold = 0
  BY <1>2 DEF Plan
<1> HIDE DEF doc
<1>4. IsGood(a, "save", u, doc)
  BY <1>0, <1>1, <1>2, <1>3 DEF IsGood, UnitIsGood, AddsUp, KindOf
<1> QED BY <1>0, <1>1, <1>3, <1>4, BeginKeeps DEF Document

\* An updated SKU agrees with itself.
LEMMA UpdateSkuKeeps ==
    ASSUME CatalogAssumption, NoDocAssumption, CatalogInv, NEW a \in Admins,
           NEW u \in Units, NEW status \in Statuses, NEW policy \in Policies,
           NEW total \in 0..MaxStock,
           UpdateSku(a, u, status, policy, total)
    PROVE CatalogInv'
<1>0. u \in Ids /\ u \notin Products
  BY DEF Ids, CatalogAssumption
<1> DEFINE stocked == Restocked(catalog[u], policy, total)
           doc == [stocked EXCEPT !.status = status]
<1>1. /\ catalog[u] # NoDoc /\ catalog[u].policy # "plan"
      /\ Restockable(catalog[u], policy, total)
      /\ Begin(a, "save", u, doc)
  BY DEF UpdateSku
<1>2. catalog[u] \in Sku /\ UnitIsGood(catalog[u]) BY <1>1, StoredUnit DEF Plan
<1>3. /\ stocked \in Sku /\ stocked.policy = policy
      /\ stocked.product = catalog[u].product
      /\ AddsUp(stocked)
  <2>1. CASE policy = "unlimited"
    <3>1. stocked = [product |-> catalog[u].product, code |-> catalog[u].code,
                     status |-> catalog[u].status, policy |-> policy,
                     total |-> 0, reserved |-> 0, sold |-> 0]
      BY <1>2, <2>1 DEF Restocked, Sku
    <3> QED BY <1>2, <2>1, <3>1 DEF Sku, AddsUp, CatalogAssumption
  <2>2. CASE policy # "unlimited"
    <3>1. stocked = [product |-> catalog[u].product, code |-> catalog[u].code,
                     status |-> catalog[u].status, policy |-> policy,
                     total |-> IF total > 0 THEN total ELSE catalog[u].total,
                     reserved |-> catalog[u].reserved, sold |-> catalog[u].sold]
      BY <1>2, <2>2 DEF Restocked, Sku
    <3>2. stocked \in Sku BY <1>2, <3>1 DEF Sku
    <3>3. policy = "limited" BY <2>2 DEF Policies
    <3> QED BY <1>1, <3>1, <3>2, <3>3 DEF AddsUp, Restockable
  <2> QED BY <2>1, <2>2
<1> HIDE DEF stocked
<1>4. /\ doc \in Sku /\ doc.policy = policy /\ doc.product = catalog[u].product
      /\ doc.total = stocked.total /\ doc.reserved = stocked.reserved
      /\ doc.sold = stocked.sold
  BY <1>3 DEF Sku
<1> HIDE DEF doc
<1>5. UnitIsGood(doc)
  BY <1>1, <1>2, <1>3, <1>4 DEF UnitIsGood, AddsUp, StockValid, KindOf, Policies
<1> QED BY <1>0, <1>1, <1>4, <1>5, BeginKeeps DEF IsGood, Document

\* A count finds something on sale of the product only if it was opened for sale
\* before; a request that ends without a save leaves everything as it is.
LEMMA CountKeeps ==
    ASSUME CatalogAssumption, NoDocAssumption, CatalogInv, NEW a \in Admins,
           RequireActiveSellingUnit(a) \/ AdminCrash(a)
    PROVE CatalogInv'
<1>1. DOMAIN tasks = Admins BY DEF CatalogInv, CatalogTypeOK
<1>2. CASE tasks' = [tasks EXCEPT ![a] = NoTask]
  <2>1. UNCHANGED <<catalog, opened, orders>> BY DEF RequireActiveSellingUnit, AdminCrash
  <2>2. CatalogTypeOK' /\ OrdersHaveSkus'
    BY <1>1, <1>2, <2>1 DEF CatalogInv, CatalogTypeOK, OrdersHaveSkus
  <2> QED BY <1>2, <2>1, <2>2, EndKeeps
<1>3. CASE RequireActiveSellingUnit(a) /\ ActiveSellingUnit(tasks[a].id)
  <2> DEFINE m == tasks[a].id
             doc == tasks[a].doc
  <2>1. tasks[a] # NoTask /\ tasks[a].pc = "count"
    BY <1>3, IdleTask DEF RequireActiveSellingUnit
  <2>2. m \in Ids /\ doc \in Document(m) BY <2>1, TaskFields DEF CatalogInv
  <2>3. IsGood(a, "count", m, doc) BY <2>1 DEF CatalogInv, TasksAreGood
  <2>4. m \in Products /\ m \notin Units BY <2>2, <2>3 DEF IsGood, Ids, CatalogAssumption
  <2>5. m \in opened
    BY <1>3 DEF ActiveSellingUnit, CatalogInv, ActiveWasOpened
  <2>6. UNCHANGED <<catalog, opened, orders>> BY <1>3 DEF RequireActiveSellingUnit
  <2>7. tasks' = [tasks EXCEPT ![a] = [pc |-> "save", id |-> m, doc |-> doc]]
    <3>1. tasks' = [tasks EXCEPT ![a] = [tasks[a] EXCEPT !.pc = "save"]]
      BY <1>3 DEF RequireActiveSellingUnit
    <3>2. tasks[a] = [pc |-> "count", id |-> m, doc |-> doc]
      BY <2>1 DEF CatalogInv, CatalogTypeOK
    <3>3. [tasks[a] EXCEPT !.pc = "save"] = [pc |-> "save", id |-> m, doc |-> doc]
      BY <3>2
    <3> QED BY <3>1, <3>3
  <2>8. /\ tasks'[a] = [pc |-> "save", id |-> m, doc |-> doc]
        /\ \A b \in Admins \ {a} : tasks'[b] = tasks[b]
        /\ DOMAIN tasks' = Admins
    BY <1>1, <2>7
  <2>9. CatalogTypeOK'
    <3>1. \A b \in Admins :
            \/ tasks'[b] = NoTask
            \/ \E id \in Ids, pc \in {"count", "save"} : \E d \in Document(id) :
                  tasks'[b] = [pc |-> pc, id |-> id, doc |-> d]
      <4> SUFFICES ASSUME NEW b \in Admins
                   PROVE \/ tasks'[b] = NoTask
                         \/ \E id \in Ids, pc \in {"count", "save"} : \E d \in Document(id) :
                               tasks'[b] = [pc |-> pc, id |-> id, doc |-> d]
        OBVIOUS
      <4>1. CASE b = a BY <2>2, <2>8, <4>1
      <4>2. CASE b # a BY <2>8, <4>2 DEF CatalogInv, CatalogTypeOK
      <4> QED BY <4>1, <4>2
    <3> QED BY <2>6, <2>8, <3>1 DEF CatalogInv, CatalogTypeOK
  <2>10. TasksAreGood'
    <3> SUFFICES ASSUME NEW b \in Admins, tasks'[b] # NoTask
                 PROVE IsGood(b, tasks[b].pc, tasks[b].id, tasks[b].doc)'
      BY DEF TasksAreGood
    <3>0. \A x \in Admins : tasks'[x].id = tasks[x].id BY <2>8
    <3>1. CASE b = a
      <4>1. ProductIsGood(a, "count", m, doc) BY <2>3, <2>4 DEF IsGood
      <4>2. ProductIsGood(a, "save", m, doc)'
        BY <2>5, <2>6, <2>8, <3>0, <4>1 DEF ProductIsGood
      <4> QED BY <2>4, <2>8, <3>1, <4>2 DEF IsGood
    <3>2. CASE b # a
      <4>1. IsGood(b, tasks[b].pc, tasks[b].id, tasks[b].doc)
        BY <2>8, <3>2 DEF CatalogInv, TasksAreGood
      <4>2. tasks[b].id \in Units => UnitIsGood(tasks[b].doc)'
        BY <2>6, <2>8, <3>2, <4>1 DEF IsGood, UnitIsGood, IsA
      <4>3. tasks[b].id \in Products =>
              ProductIsGood(b, tasks[b].pc, tasks[b].id, tasks[b].doc)'
        BY <2>6, <2>8, <3>0, <3>2, <4>1 DEF IsGood, ProductIsGood
      <4> QED BY <2>8, <3>2, <4>1, <4>2, <4>3 DEF IsGood
    <3> QED BY <3>1, <3>2
  <2> QED BY <2>6, <2>9, <2>10
      DEF CatalogInv, OrdersHaveSkus, StockAddsUp, CodesAreUnique, OpenedWithAUnit,
          ActiveWasOpened, Limited, ProductFits, UnitFits, IsA, StockValid
<1> QED BY <1>2, <1>3 DEF RequireActiveSellingUnit, AdminCrash

\* A SKU with other counters, field by field.
LEMMA CountedSku ==
    ASSUME NEW sku \in Sku, NEW x \in Int, NEW y \in Int
    PROVE Recounted(sku, x, y) =
          [product |-> sku.product, code |-> sku.code, status |-> sku.status,
           policy |-> sku.policy, total |-> sku.total,
           reserved |-> sku.reserved + x, sold |-> sku.sold + y]
<1> DEFINE more == [sku EXCEPT !.reserved = @ + x]
<1>1. more = [product |-> sku.product, code |-> sku.code, status |-> sku.status,
              policy |-> sku.policy, total |-> sku.total,
              reserved |-> sku.reserved + x, sold |-> sku.sold]
  BY DEF Sku
<1> HIDE DEF more
<1>2. [more EXCEPT !.sold = @ + y] =
        [product |-> sku.product, code |-> sku.code, status |-> sku.status,
         policy |-> sku.policy, total |-> sku.total,
         reserved |-> sku.reserved + x, sold |-> sku.sold + y]
  BY <1>1
<1> QED BY <1>2 DEF more, Recounted

\* The counters of a limited SKU may change while they fit its total.
LEMMA CountedKeeps ==
    ASSUME CatalogAssumption, NoDocAssumption, CatalogInv, NEW o \in Orders,
           NEW u \in Units, catalog[u] # NoDoc, Limited(u),
           NEW x \in Int, NEW y \in Int,
           Counted(u, x, y), UNCHANGED <<opened, tasks>>,
           catalog[u].reserved + x >= 0, catalog[u].sold + y >= 0,
           catalog[u].reserved + x + (catalog[u].sold + y) <= catalog[u].total,
           NEW order \in [pc : {"idle"}, sku : {NoId}] \cup [pc : {"reserved", "sold"}, sku : Units],
           order.sku \in Units => catalog[order.sku] # NoDoc,
           orders' = [orders EXCEPT ![o] = order]
    PROVE CatalogInv'
<1>1. /\ catalog[u] \in Sku /\ catalog[u].policy = "limited"
      /\ UnitIsGood(catalog[u]) /\ UnitFits(u, catalog[u])
  BY StoredUnit DEF Limited, Plan
<1> DEFINE doc == [product |-> catalog[u].product, code |-> catalog[u].code,
                   status |-> catalog[u].status, policy |-> catalog[u].policy,
                   total |-> catalog[u].total, reserved |-> catalog[u].reserved + x,
                   sold |-> catalog[u].sold + y]
<1>2. u \in Ids /\ u \notin Products /\ DOMAIN catalog = Ids /\ DOMAIN tasks = Admins
  BY DEF Ids, CatalogAssumption, CatalogInv, CatalogTypeOK
<1>3. catalog' = [catalog EXCEPT ![u] = doc]
  <2>1. catalog' = [catalog EXCEPT ![u] = Recounted(catalog[u], x, y)] BY DEF Counted
  <2>2. Recounted(catalog[u], x, y) = doc BY <1>1, CountedSku
  <2> QED BY <2>1, <2>2
<1>4. /\ catalog[u].total \in 0..MaxStock
      /\ catalog[u].reserved \in Int /\ catalog[u].sold \in Int
      /\ StockValid(catalog[u])
  BY <1>1 DEF Sku, UnitIsGood, AddsUp
<1>5. catalog[u].reserved + x \in 0..MaxStock /\ catalog[u].sold + y \in 0..MaxStock
  BY <1>4 DEF CatalogAssumption
<1>6. doc \in Sku BY <1>1, <1>5 DEF Sku
<1>7. UnitIsGood(doc)
  BY <1>1, <1>4 DEF UnitIsGood, AddsUp, StockValid, KindOf
<1>8. UnitFits(u, doc) BY <1>1 DEF UnitFits
<1>9. doc.status = "active" => doc.product \in opened
  BY DEF CatalogInv, ActiveWasOpened
<1>10. CatalogTypeOK'
  <2>1. catalog'[u] = doc /\ \A i \in Ids \ {u} : catalog'[i] = catalog[i] BY <1>2, <1>3
  <2>2. \A id \in Ids : catalog'[id] # NoDoc => catalog'[id] \in Document(id)
    BY <1>2, <1>6, <2>1 DEF CatalogInv, CatalogTypeOK, Document
  <2>3. DOMAIN catalog' = Ids BY <1>2, <1>3
  <2> QED BY <2>2, <2>3 DEF CatalogInv, CatalogTypeOK
<1>11. OrdersHaveSkus'
  <2>1. \A i \in Units : catalog[i] # NoDoc => catalog'[i] # NoDoc
    BY <1>2, <1>3, <1>6 DEF NoDocAssumption, Ids
  <2>2. \A p \in Orders : orders'[p] = orders[p] \/ orders'[p] = order
    BY DEF CatalogInv, CatalogTypeOK
  <2> QED BY <2>1, <2>2 DEF CatalogInv, OrdersHaveSkus
<1> HIDE DEF doc
<1> QED BY <1>3, <1>6, <1>7, <1>8, <1>9, <1>10, <1>11, StoreUnitKeeps

\* Orders keep the invariant, although one may give back, or sell, what a stale
\* document does not count any more.
LEMMA OrderKeeps ==
    ASSUME CatalogAssumption, NoDocAssumption, CatalogInv, NEW o \in Orders, OrderStep(o)
    PROVE CatalogInv'
<1> DEFINE Valid == [pc : {"idle"}, sku : {NoId}] \cup [pc : {"reserved", "sold"}, sku : Units]
<1>1. orders \in [Orders -> Valid] BY DEF CatalogInv, CatalogTypeOK
<1>2. NoOrder \in Valid BY DEF NoOrder
<1>3. UNCHANGED <<opened, tasks>>
  BY DEF OrderStep, Reserve, Release, Capture, Restore, Keep
<1>4. ASSUME catalog' = catalog, NEW e \in Valid, orders' = [orders EXCEPT ![o] = e],
             e.sku \in Units => catalog[e.sku] # NoDoc
      PROVE CatalogInv'
  <2>1. CatalogTypeOK' BY <1>1, <1>3, <1>4 DEF CatalogInv, CatalogTypeOK
  <2>2. \A p \in Orders : orders'[p] = orders[p] \/ orders'[p] = e BY <1>1, <1>4
  <2>3. OrdersHaveSkus' BY <1>4, <2>2 DEF CatalogInv, OrdersHaveSkus
  <2> QED BY <1>3, <1>4, <2>1, <2>3, EndKeeps
<1>5. ASSUME NEW u \in Units, catalog[u] # NoDoc, Limited(u)
      PROVE /\ catalog[u].total \in Int /\ catalog[u].reserved \in Nat /\ catalog[u].sold \in Nat
            /\ catalog[u].reserved + catalog[u].sold <= catalog[u].total
  BY <1>5, StoredUnit DEF Limited, Plan, Sku, UnitIsGood, AddsUp, StockValid
<1>6. CASE \E u \in Units : Reserve(o, u)
  <2> PICK u \in Units : Reserve(o, u) BY <1>6
  <2> DEFINE e == [pc |-> "reserved", sku |-> u]
  <2>1. e \in Valid /\ orders' = [orders EXCEPT ![o] = e] BY DEF Reserve
  <2>2. catalog[u] # NoDoc BY DEF Reserve, OnSale
  <2>3. CASE Limited(u)
    <3>1. Counted(u, 1, 0) /\ catalog[u].total - (catalog[u].reserved + catalog[u].sold) >= 1
      BY <2>3 DEF Reserve, HasStock, Limited
    <3>2. /\ catalog[u].reserved + 1 >= 0 /\ catalog[u].sold + 0 >= 0
          /\ catalog[u].reserved + 1 + (catalog[u].sold + 0) <= catalog[u].total
      BY <1>5, <2>2, <2>3, <3>1
    <3>3. e.sku = u /\ 1 \in Int /\ 0 \in Int OBVIOUS
    <3> HIDE DEF e
    <3> QED BY <1>3, <2>1, <2>2, <2>3, <3>1, <3>2, <3>3, CountedKeeps
  <2>4. CASE ~Limited(u) BY <1>4, <2>1, <2>2, <2>4 DEF Reserve
  <2> QED BY <2>3, <2>4
<1>7. CASE Release(o) \/ Capture(o) \/ Restore(o) \/ Keep(o)
  <2> DEFINE u == orders[o].sku
  <2>1. u \in Units /\ catalog[u] # NoDoc
    BY <1>1, <1>7 DEF Release, Capture, Restore, Keep, CatalogInv, OrdersHaveSkus
  <2>2. [orders[o] EXCEPT !.pc = "sold"] \in Valid /\ [orders[o] EXCEPT !.pc = "sold"].sku = u
    BY <1>1, <2>1
  <2>3. PICK e \in Valid : orders' = [orders EXCEPT ![o] = e] /\ (e.sku \in Units => e.sku = u)
    BY <1>2, <1>7, <2>2, IdleOrder DEF Release, Capture, Restore, Keep
  <2>4. CASE catalog' = catalog BY <1>4, <2>1, <2>3, <2>4
  <2>5. CASE catalog' # catalog
    <3>1. Limited(u)
      BY <1>7, <2>5 DEF Release, Capture, Restore, Keep
    <3>2. \/ catalog[u].reserved >= 1 /\ (Counted(u, -1, 0) \/ Counted(u, -1, 1))
          \/ catalog[u].sold >= 1 /\ Counted(u, 0, -1)
      BY <1>7, <2>5 DEF Release, Capture, Restore, Keep
    <3>3. CASE catalog[u].reserved >= 1 /\ Counted(u, -1, 0)
      <4>1. /\ catalog[u].reserved + (-1) >= 0 /\ catalog[u].sold + 0 >= 0
            /\ catalog[u].reserved + (-1) + (catalog[u].sold + 0) <= catalog[u].total
            /\ (-1) \in Int /\ 0 \in Int
        BY <1>5, <2>1, <3>1, <3>3
      <4> QED BY <1>3, <2>1, <2>3, <3>1, <3>3, <4>1, CountedKeeps
    <3>4. CASE catalog[u].reserved >= 1 /\ Counted(u, -1, 1)
      <4>1. /\ catalog[u].reserved + (-1) >= 0 /\ catalog[u].sold + 1 >= 0
            /\ catalog[u].reserved + (-1) + (catalog[u].sold + 1) <= catalog[u].total
            /\ (-1) \in Int /\ 1 \in Int
        BY <1>5, <2>1, <3>1, <3>4
      <4> QED BY <1>3, <2>1, <2>3, <3>1, <3>4, <4>1, CountedKeeps
    <3>5. CASE catalog[u].sold >= 1 /\ Counted(u, 0, -1)
      <4>1. /\ catalog[u].reserved + 0 >= 0 /\ catalog[u].sold + (-1) >= 0
            /\ catalog[u].reserved + 0 + (catalog[u].sold + (-1)) <= catalog[u].total
            /\ 0 \in Int /\ (-1) \in Int
        BY <1>5, <2>1, <3>1, <3>5
      <4> QED BY <1>3, <2>1, <2>3, <3>1, <3>5, <4>1, CountedKeeps
    <3> QED BY <3>2, <3>3, <3>4, <3>5
  <2> QED BY <2>4, <2>5
<1> QED BY <1>6, <1>7 DEF OrderStep

\* Every step keeps the invariant.
LEMMA CatalogNext ==
    ASSUME CatalogAssumption, NoDocAssumption, CatalogInv, [Next]_vars
    PROVE CatalogInv'
<1>1. CASE UNCHANGED vars
  <2>1. CatalogTypeOK' /\ OrdersHaveSkus'
    BY <1>1 DEF vars, CatalogInv, CatalogTypeOK, OrdersHaveSkus
  <2>2. tasks' = tasks /\ catalog' = catalog /\ opened' = opened BY <1>1 DEF vars
  <2> QED BY <2>1, <2>2, EndKeeps
<1>2. ASSUME NEW a \in Admins, AdminStep(a) PROVE CatalogInv'
  <2>1. CASE \E m \in Products, kind \in {"subscription", "one_time"}, code \in Codes :
               CreateProduct(a, m, kind, code)
    BY <2>1, CreateProductKeeps
  <2>2. CASE \E m \in Products, status \in Statuses : ChangeStatus(a, m, status)
    BY <2>2, ChangeStatusKeeps
  <2>3. CASE RequireActiveSellingUnit(a) \/ AdminCrash(a) BY <2>3, CountKeeps
  <2>4. CASE \E m \in Products, u \in Units, code \in Codes, status \in Statuses :
               CreatePlan(a, m, u, code, status)
    BY <2>4, CreatePlanKeeps
  <2>5. CASE \E m \in Products, u \in Units, code \in Codes, status \in Statuses :
               \E policy \in Policies, total \in 0..MaxStock :
                  CreateSku(a, m, u, code, status, policy, total)
    BY <2>5, CreateSkuKeeps
  <2>6. CASE \E u \in Units, status \in Statuses : UpdatePlan(a, u, status)
    BY <2>6, UpdatePlanKeeps
  <2>7. CASE \E u \in Units, status \in Statuses :
               \E policy \in Policies, total \in 0..MaxStock :
                  UpdateSku(a, u, status, policy, total)
    BY <2>7, UpdateSkuKeeps
  <2>8. CASE SaveProduct(a) BY <2>8, StoreProductKeeps
  <2>9. CASE SaveUnit(a) BY <2>9, SaveUnitKeeps
  <2> HIDE DEF CatalogInv
  <2> QED BY <1>2, <2>1, <2>2, <2>3, <2>4, <2>5, <2>6, <2>7, <2>8, <2>9 DEF AdminStep
<1> QED BY <1>1, <1>2, OrderKeeps DEF Next

\* The inductive invariant holds in every reachable state.
LEMMA CatalogInvariant == Spec => []CatalogInv
<1>1. Init => CatalogInv BY CatalogAssumption, NoDocAssumption, CatalogInit
<1>2. CatalogInv /\ [Next]_vars => CatalogInv'
  BY CatalogAssumption, NoDocAssumption, CatalogNext
<1> QED BY <1>1, <1>2, PTL DEF Spec

\* Every document that is stored or on its way to be stored has its type; no
\* counter falls below zero, whatever an order gives back.
THEOREM CatalogTypes == Spec => []CatalogTypeOK
<1>1. CatalogInv => CatalogTypeOK BY DEF CatalogInv
<1> QED BY <1>1, CatalogInvariant, PTL

\* Whatever administrators and orders store over each other, a limited SKU never
\* commits more than its total, and a SKU without a limit counts nothing.
THEOREM StoredStockAddsUp == Spec => []StockAddsUp
<1>1. CatalogInv => StockAddsUp BY DEF CatalogInv
<1> QED BY <1>1, CatalogInvariant, PTL

\* However many requests find a code free at the same time, one document has it,
\* and a plan or SKU is one of a product of its kind.
THEOREM CodesStayUnique == Spec => []CodesAreUnique
<1>1. CatalogInv => CodesAreUnique BY DEF CatalogInv
<1> QED BY <1>1, CatalogInvariant, PTL

\* No product is opened that never had a plan or a SKU on sale, although the count
\* and the save are two steps.
THEOREM OpenedProductsSold == Spec => []OpenedWithAUnit
<1>1. CatalogInv => OpenedWithAUnit BY DEF CatalogInv
<1> QED BY <1>1, CatalogInvariant, PTL
==============================================================================
