----------------------------- MODULE MCStockAdmin -----------------------------
(* Instances of StockAdmin for TLC.                                        *)
EXTENDS StockAdmin, MCOneTimePayment
==============================================================================
