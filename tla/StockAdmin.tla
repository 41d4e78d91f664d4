------------------------------ MODULE StockAdmin ------------------------------
(***************************************************************************)
(* update_admin_one_time_sku of application/admin_catalog.py beside the    *)
(* orders and confirmations of OneTimePayment.  An administrator changes   *)
(* the price or the status of a SKU: the service reads the document,       *)
(* changes its copy and replaces the whole document, stock counters        *)
(* included, with no transaction, no lock and no condition on the counters *)
(* it read.                                                                *)
(***************************************************************************)
EXTENDS OneTimePayment

CONSTANTS Admins, \* server processes that run an update of a SKU
          NoSku   \* None

VARIABLE edits    \* [sku, reserved, sold] that each process has read

adminVars == <<vars, edits>>

NoEdit == [sku |-> NoSku, reserved |-> 0, sold |-> 0]

AdminInit == Init /\ edits = [a \in Admins |-> NoEdit]

GetOneTimeSku(a, s) ==
    /\ edits[a] = NoEdit
    /\ edits' = [edits EXCEPT ![a] = [sku |-> s, reserved |-> reserved[s],
                                      sold |-> sold[s]]]
    /\ UNCHANGED vars

\* Only the copy that was read is compared with the total stock.
StockPolicyValid(edit) == edit.reserved + edit.sold <= TotalStock[edit.sku]

SaveOneTimeSku(a) ==
    /\ edits[a] # NoEdit
    /\ edits' = [edits EXCEPT ![a] = NoEdit]
    /\ IF StockPolicyValid(edits[a])
       THEN /\ reserved' = [reserved EXCEPT ![edits[a].sku] = edits[a].reserved]
            /\ sold' = [sold EXCEPT ![edits[a].sku] = edits[a].sold]
       ELSE UNCHANGED stockVars
    /\ UNCHANGED <<payments, checkouts, invoices, due, orderKeys, confirmKeys,
                   lockVars, confirms, charge>>

AdminNext ==
    \/ Next /\ UNCHANGED edits
    \/ \E a \in Admins : SaveOneTimeSku(a) \/ \E s \in Skus : GetOneTimeSku(a, s)

AdminSpec == AdminInit /\ [][AdminNext]_adminVars

-----------------------------------------------------------------------------
(* Documented behaviour the code does not have; see the README.            *)

\* documentation.json, create order: when the stock of a limited SKU does not
\* suffice no order is created, so the purchases that hold or own a unit never
\* outnumber the units.
NoOversell ==
    \A s \in Skus : Cardinality(Holding(s)) + Cardinality(Owning(s)) <= TotalStock[s]
==============================================================================
