---- MODULE MCOnchainBilling ----
(* Instances of OnchainBilling for TLC. *)
EXTENDS OnchainBilling, TLC
====
