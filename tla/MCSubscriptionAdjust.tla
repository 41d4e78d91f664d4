------------------------ MODULE MCSubscriptionAdjust ------------------------
(* Instances of SubscriptionAdjust for TLC.                                *)
EXTENDS SubscriptionAdjust, TLC
==============================================================================
