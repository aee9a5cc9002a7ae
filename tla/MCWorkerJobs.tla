---------------------------- MODULE MCWorkerJobs ----------------------------
(***************************************************************************)
(* Two jobs of the worker that must get done, for TLC: delivery runs and   *)
(* Lepton payouts.  They share no table, so a behaviour moves one of them, *)
(* its focus.                                                              *)
(***************************************************************************)
EXTENDS MCDeliveryRuns, RoyaltySweep

VARIABLE focus

jobVars == <<focus, deliveryVars, sweepVars>>

JobsInit ==
  /\ focus \in {"deliveries", "royalties", "refunds"}
  /\ DeliveryInit /\ SweepInit
  /\ durable => focus # "deliveries"

MoveDeliveries == focus = "deliveries" /\ DeliveryNext /\ UNCHANGED <<focus, sweepVars>>

\* One kind of leg at a time: royalties and refunds share no reference.
MoveSweeps ==
  /\ focus # "deliveries" /\ SweepNext
  /\ \A l \in (IF focus = "royalties" THEN Refunds ELSE Royalties) : legs'[l] = "none"
  /\ UNCHANGED <<focus, deliveryVars>>

JobsNext == MoveDeliveries \/ MoveSweeps

\* Outside its focus a module rests, and its fairness asks nothing of it.
JobsSpec ==
  JobsInit /\ [][JobsNext]_jobVars /\ WF_deliveryVars(RunnerStep) /\ SweepFairness

JobsTypeOK == DeliveryTypeOK /\ SweepTypeOK
=============================================================================
