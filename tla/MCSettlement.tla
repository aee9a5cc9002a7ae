---------------------------- MODULE MCSettlement ----------------------------
(* Instances of Settlement for TLC. *)
EXTENDS Settlement, TLC

(* Every transfer meets the terms of every session: sessions of one seller *)
(* at one price, the case the replay guard exists for.                     *)
PaysAny == [tx \in TxHashes |-> Sessions]

NoOps == {}
EveryOp == AllOps
(* Operations that change a payment's status or add payments, but never    *)
(* the hash a payment was claimed with.                                    *)
StatusOps == {"record", "fail", "refund"}
RaceOps == {"fill", "refund"}
ConfirmOps == {"record", "confirm"}

PaySymmetry == Permutations(PayIds)
(* The sessions are alike too where no customer is known at first.         *)
RaceSymmetry == Permutations(PayIds) \cup Permutations(Procs) \cup Permutations(Sessions)
=============================================================================
