---- MODULE MCDeliveryRuns ----
(* Instances of DeliveryRuns for TLC. *)
EXTENDS DeliveryRuns, TLC

\* All actions but the last can be rolled back, as e-mails cannot.
LastIsFinal == 1..(N - 1)
====
