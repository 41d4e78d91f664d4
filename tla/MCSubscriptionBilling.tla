------------------------ MODULE MCSubscriptionBilling ------------------------
(* Instances of SubscriptionBilling for TLC.                               *)
EXTENDS SubscriptionBilling, TLC

\* Billing runs are alike, and so are the keys of retries.
RunSymmetry == Permutations(Runs) \cup Permutations(RetryKeys)
==============================================================================
