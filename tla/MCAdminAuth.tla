----------------------------- MODULE MCAdminAuth -----------------------------
(* Instances of AdminAuth for TLC.                                         *)
EXTENDS AdminAuth, TLC

\* The links are alike, and so are the refresh tokens.
AdminSymmetry ==
    Permutations(Links) \cup Permutations(Refreshes)
==============================================================================
