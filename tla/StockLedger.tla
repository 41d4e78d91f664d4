----------------------------- MODULE StockLedger -----------------------------
(***************************************************************************)
(* What the one-time shop promises about limited stock, with no mention of *)
(* payments, attempts, idempotency keys, locks or the payment gateway:     *)
(* every purchase (a checkout) is in one of three positions towards the    *)
(* stock of its SKUs, and a position is only taken when every SKU of the   *)
(* purchase still has a free unit.                                         *)
(*                                                                         *)
(* OneTimePayment implements this module.  With the webhooks beside it, a  *)
(* late one of an abandoned attempt breaks it.                             *)
(***************************************************************************)
EXTENDS Naturals, FiniteSets

CONSTANTS Checkouts,   \* purchases
          Skus,        \* SKUs with stock_policy = "limited"
          Items,       \* Items[c]: the SKUs of purchase c, one unit of each
          TotalStock   \* TotalStock[s]: units of SKU s that exist

VARIABLE position      \* position[c]: what purchase c has of its SKUs

\* The purchases that keep a unit of SKU s from everybody else.
Taken(s) == {c \in Checkouts : s \in Items[c] /\ position[c] # "free"}

Init == position = [c \in Checkouts |-> "free"]

Hold(c) ==
    /\ position[c] = "free"
    /\ \A s \in Items[c] : Cardinality(Taken(s)) < TotalStock[s]
    /\ position' = [position EXCEPT ![c] = "held"]

Release(c) ==
    /\ position[c] = "held"
    /\ position' = [position EXCEPT ![c] = "free"]

Sell(c) ==
    /\ position[c] = "held"
    /\ position' = [position EXCEPT ![c] = "sold"]

Return(c) ==
    /\ position[c] = "sold"
    /\ position' = [position EXCEPT ![c] = "free"]

Next == \E c \in Checkouts : Hold(c) \/ Release(c) \/ Sell(c) \/ Return(c)

Spec == Init /\ [][Next]_position
==============================================================================
