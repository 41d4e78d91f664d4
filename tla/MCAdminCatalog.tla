---------------------------- MODULE MCAdminCatalog ----------------------------
(* Instances of AdminCatalog for TLC.                                      *)
EXTENDS AdminCatalog, TLC

\* The ids of a kind are alike, and so are the requests.
CatalogSymmetry ==
    Permutations(Products) \cup Permutations(Units) \cup Permutations(Admins)
==============================================================================
