------------------------------ MODULE MCLedgers ------------------------------
(***************************************************************************)
(* The ledgers beside the payment flow, for TLC: the operator and its      *)
(* vault, the stream and escrow contracts and the escrow tasks.  But for   *)
(* the operator and its vault they share nothing but the clock, so a       *)
(* behaviour moves one of them, its focus.                                 *)
(***************************************************************************)
EXTENDS Operator, StreamSettlement, SettleKitEscrow, EscrowTasks, TLC

VARIABLE focus

contractVars == <<streams, pool, moved, metered, opens>>
ledgerVars == <<focus, operatorVars, contractVars, escrowVars, taskVars>>

Focuses == {"vault", "operator", "streams", "deals", "tasks"}

\* Constants: a daily cap of one payment, or of two that are all escalated; one bill of 1.
BothCaps == {[perTx |-> 1, daily |-> 1, escalateAbove |-> 1], [perTx |-> 2, daily |-> 2, escalateAbove |-> 0]}
PayVendor == [b \in Bills |-> "vendor"]
OweOne == [b \in Bills |-> 1]
AboutItself == [e \in Events |-> IF e \in Bills THEN e ELSE NoBill]

\* The calls of the operator's service are alike.
HandlersAlike == Permutations(Handlers)

\* Bounds of a focus: how far time goes, and one escalation on the vault alone.
Deadline ==
  IF focus \in {"vault", "operator"} THEN 2 ELSE MaxTime
InTime == now' <= Deadline
OneEscalation == Len(escalations') <= 1
\* Bounds of the operator: one thing out of the ordinary (a second payout of the bill or
\* one executed beside it, a fault, an overlap), and the fewer rows the more was proposed.
OneOddity == \A b \in Bills : planned'[b] + Cardinality(aside') + overlaps' + faults' <= 2
FewRows == \A b \in Bills : Len(rows') + planned'[b] + Cardinality(aside') <= 3 + overlaps'
\* Bound: the arbiter of every deal is the same, who may also buy or sell.
Arbitrating == CHOOSE who \in People : TRUE
OneArbiter == \A id \in Ids : deals'[id].arbiter \in {Arbitrating, NoPerson}

\* Who is in it.
ASSUME CastAssumption == {"own", "op"} \subseteq Accounts /\ "vendor" \in Payees

(* An operator starts on a vault its owner has set up, at the end of a     *)
(* day: USDC has come in, half of it is where it pays bills, and the       *)
(* vendor is allowed.                                                      *)
SetUp == focus = "operator"
LedgersInit ==
  /\ focus \in Focuses
  /\ now = (IF SetUp THEN 1 ELSE 0) /\ pendingReserved = 0 /\ yieldDeployed = 0
  /\ received = (IF SetUp THEN 2 ELSE 0) /\ held = received
  /\ buckets = [b \in Buckets |-> IF SetUp /\ b = "OPERATING" THEN 1 ELSE 0]
  /\ placed = [a \in Adapters |-> 0]
  /\ escalations = <<>>
  /\ caps \in CapChoices /\ (focus \notin {"vault", "operator"} => caps.escalateAbove = 0)
  /\ spentToday = 0 /\ operatorToday = 0 /\ capToday = caps.daily
  /\ allowlisted = (IF SetUp THEN {"vendor"} ELSE {}) /\ paused = FALSE /\ yieldAdapter = NoAdapter
  /\ owner = "own" /\ operator = "op"
  /\ ServiceInit /\ NoStreams /\ EscrowInit /\ TasksInit

MoveVault ==
  /\ focus = "vault" /\ VaultNext /\ InTime /\ OneEscalation
  /\ UNCHANGED <<focus, serviceVars, contractVars, escrowVars, taskVars>>
MoveOperator ==
  /\ focus = "operator" /\ OperatorStep /\ InTime /\ OneOddity /\ FewRows
  /\ UNCHANGED <<focus, contractVars, escrowVars, taskVars>>
MoveStreams ==
  /\ focus = "streams" /\ StreamNext
  /\ UNCHANGED <<focus, funds, escalations, rules, today, received, serviceVars, escrowVars, taskVars>>
MoveDeals ==
  /\ focus = "deals" /\ EscrowNext /\ OneArbiter
  /\ UNCHANGED <<focus, operatorVars, contractVars, taskVars>>
MoveTasks ==
  /\ focus = "tasks" /\ TasksNext
  /\ UNCHANGED <<focus, operatorVars, contractVars, escrowVars>>

LedgersNext == MoveVault \/ MoveOperator \/ MoveStreams \/ MoveDeals \/ MoveTasks

LedgersSpec == LedgersInit /\ [][LedgersNext]_ledgerVars

LedgersTypeOK ==
  VaultTypeOK /\ OperatorTypeOK /\ StreamTypeOK /\ EscrowTypeOK /\ TasksTypeOK
=============================================================================
