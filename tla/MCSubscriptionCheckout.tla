----------------------- MODULE MCSubscriptionCheckout -----------------------
(* Instances of SubscriptionCheckout for TLC.                              *)
EXTENDS SubscriptionCheckout, TLC

\* The processes and the cards are alike, and so are the keys.
CheckoutSymmetry ==
    Permutations(Confirmers) \cup Permutations(Cards) \cup Permutations(ConfirmKeys)
    \cup Permutations(Issuers) \cup Permutations(IssueKeys)
==============================================================================
