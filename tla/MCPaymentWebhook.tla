--------------------------- MODULE MCPaymentWebhook ---------------------------
(* Instances of PaymentWebhook for TLC.                                    *)
EXTENDS PaymentWebhook, MCPaymentCancel

\* The webhooks of a payment that was just confirmed (see PaidInit).
PaidShopInit ==
    /\ PaidInit
    /\ handled = {}
    /\ stamp = [p \in Payments |-> 0]

PaidShopSpec == PaidShopInit /\ [][ShopNext]_shopVars
==============================================================================
