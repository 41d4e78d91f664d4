--------------------------- MODULE MCOneTimePayment ---------------------------
(* Instances of OneTimePayment for TLC.                                    *)
EXTENDS OneTimePayment, TLC

CONSTANTS c1, c2, s1, s2

\* Two purchases that compete for the only unit of one SKU; the second also
\* wants a SKU of its own.
ScarceItems == (c1 :> {s1}) @@ (c2 :> {s1, s2})
ScarceStock == (s1 :> 1) @@ (s2 :> 1)

\* One purchase, retried.
SingleItems == c1 :> {s1}
SingleStock == s1 :> 1

PaymentSymmetry == Permutations(Payments)
ProcessSymmetry == Permutations(Payments) \cup Permutations(ConfirmRequests)
==============================================================================
