---------------------------- MODULE OperatorProofs ----------------------------
(***************************************************************************)
(* First, the vault is solvent and the operator within its caps, for any   *)
(* number of accounts, payees, adapters and escalations, any amounts and   *)
(* caps.  This is proved from the actions of the vault alone, so it holds  *)
(* under whatever calls them.                                              *)
(*                                                                         *)
(* Then, the operator service implements the vault it drives: each of its  *)
(* steps is one transaction of OperatorVault.sol or leaves the vault       *)
(* alone.  So the vault's guard rails hold around it whatever its engine   *)
(* proposes, and a bill its books call paid was paid by the vault or had   *)
(* something else executed for it.  For any number of bills, events,       *)
(* proposals, handlers and escalations.                                    *)
(*                                                                         *)
(* Last, an event is decided once, and a bill is paid no more often than   *)
(* payouts of it were decided on, and once more for each fault and each    *)
(* overlap: a payment spends a token, and a step hands its token on.       *)
(***************************************************************************)
EXTENDS Operator, FiniteSetTheorems, TLAPS

(* The largest daily cap of the day is at least the present one, and what  *)
(* the operator paid on its own is part of what was spent that day.        *)
WithinToday == caps.daily <= capToday /\ operatorToday <= spentToday

VaultInv == VaultTypeOK /\ VaultSolvent /\ OperatorWithinCap /\ WithinToday

-----------------------------------------------------------------------------
(* Taking from a bucket that has the amount lowers the sum by it. *)
LEMMA TakeLowers ==
  ASSUME NEW f \in [Buckets -> Nat], NEW b \in Buckets, NEW n \in Nat, n <= f[b]
  PROVE  /\ [f EXCEPT ![b] = @ - n] \in [Buckets -> Nat]
         /\ SplitSum([f EXCEPT ![b] = @ - n]) = SplitSum(f) - n
         /\ SplitSum(f) \in Nat /\ n <= SplitSum(f)
BY DEF Buckets, SplitSum

LEMMA PutRaises ==
  ASSUME NEW f \in [Buckets -> Nat], NEW b \in Buckets, NEW n \in Nat
  PROVE  /\ [f EXCEPT ![b] = @ + n] \in [Buckets -> Nat]
         /\ SplitSum([f EXCEPT ![b] = @ + n]) = SplitSum(f) + n
         /\ SplitSum(f) \in Nat
BY DEF Buckets, SplitSum

LEMMA SumIsNat ==
  ASSUME NEW f \in [Buckets -> Nat]
  PROVE  SplitSum(f) \in Nat
BY DEF Buckets, SplitSum

(* An escalation that is resolved stays an escalation. *)
LEMMA ResolveKeepsType ==
  ASSUME escalations \in Seq(Escalation), NEW i \in DOMAIN escalations,
         NEW status \in {"Approved", "Rejected", "Expired"}
  PROVE  [escalations EXCEPT ![i].status = status] \in Seq(Escalation)
<1> DEFINE new == [escalations EXCEPT ![i].status = status]
<1>1. /\ Len(escalations) \in Nat /\ DOMAIN escalations = 1..Len(escalations)
      /\ \A j \in 1..Len(escalations) : escalations[j] \in Escalation
  OBVIOUS
<1>2. \A j \in 1..Len(escalations) : new[j] \in Escalation
  BY <1>1 DEF Escalation
<1>3. new = [j \in 1..Len(escalations) |-> new[j]]
  BY <1>1
<1>4. QED
  BY <1>1, <1>2, <1>3

-----------------------------------------------------------------------------
THEOREM VaultInitInv == VaultInit => VaultInv
<1> SUFFICES ASSUME VaultInit PROVE VaultInv
  OBVIOUS
<1>1. caps \in Caps /\ caps.daily \in Nat
  BY VaultCapsAssumption DEF VaultInit, Caps
<1>2. escalations \in Seq(Escalation)
  BY DEF VaultInit
<1>3. buckets \in [Buckets -> Nat] /\ SplitSum(buckets) = 0
  BY DEF VaultInit, Buckets, SplitSum
<1>4. VaultTypeOK
  BY <1>1, <1>2, <1>3 DEF VaultInit, ClockInit, VaultTypeOK
<1>5. VaultSolvent
  BY <1>3 DEF VaultInit, VaultSolvent, Accounted
<1>6. OperatorWithinCap /\ WithinToday
  BY <1>1 DEF VaultInit, OperatorWithinCap, WithinToday
<1> QED
  BY <1>4, <1>5, <1>6 DEF VaultInv

-----------------------------------------------------------------------------
(* The steps of the operator. *)
LEMMA AllocateInv ==
  ASSUME VaultInv, NEW s \in Accounts, NEW amounts \in Splits, Allocate(s, amounts)
  PROVE  VaultInv'
<1> DEFINE new == [b \in Buckets |-> buckets[b] + amounts[b]]
<1>1. amounts \in [Buckets -> Nat]
  <2>1. Amounts \cup {0} \subseteq Nat /\ amounts \in [Buckets -> Amounts \cup {0}]
    BY VaultAmountsAssumption DEF Splits
  <2>2. \A b \in Buckets : amounts[b] \in Nat
    BY <2>1
  <2> QED
    BY <2>1, <2>2
<1>2. SplitSum(amounts) \in Nat /\ SplitSum(buckets) \in Nat
  BY <1>1, SumIsNat DEF VaultInv, VaultTypeOK
<1>3. new \in [Buckets -> Nat] /\ SplitSum(new) = SplitSum(buckets) + SplitSum(amounts)
  <2>1. \A b \in Buckets : buckets[b] \in Nat /\ amounts[b] \in Nat /\ new[b] = buckets[b] + amounts[b]
    BY <1>1 DEF VaultInv, VaultTypeOK
  <2>2. new \in [Buckets -> Nat]
    BY <2>1
  <2> QED
    BY <2>1, <2>2 DEF Buckets, SplitSum
<1>4. VaultTypeOK'
  BY <1>3 DEF VaultInv, VaultTypeOK, Allocate, rules, today
<1>5. VaultSolvent'
  BY <1>2, <1>3 DEF VaultInv, VaultTypeOK, VaultSolvent, Allocate, Accounted, Unallocated
<1>6. (OperatorWithinCap /\ WithinToday)'
  BY DEF VaultInv, OperatorWithinCap, WithinToday, Allocate, rules, today
<1> QED
  BY <1>4, <1>5, <1>6 DEF VaultInv

LEMMA PayNowInv ==
  ASSUME VaultInv, NEW s \in Accounts, NEW b \in Buckets, NEW to \in Payees, NEW amount \in Nat,
         PayNow(s, b, to, amount)
  PROVE  VaultInv'
<1>1. buckets' \in [Buckets -> Nat] /\ SplitSum(buckets') = SplitSum(buckets) - amount
      /\ SplitSum(buckets) \in Nat /\ amount <= SplitSum(buckets)
  BY TakeLowers DEF VaultInv, VaultTypeOK, PayNow, PayChecks, Take
<1>2. held' \in Nat /\ held' >= held - amount
  BY DEF VaultInv, VaultTypeOK, PayNow, Transfer
<1>3. VaultTypeOK'
  BY <1>1, <1>2 DEF VaultInv, VaultTypeOK, PayNow, rules
<1>4. VaultSolvent'
  BY <1>1, <1>2 DEF VaultInv, VaultTypeOK, VaultSolvent, PayNow, Accounted
<1>5. (OperatorWithinCap /\ WithinToday)'
  BY DEF VaultInv, VaultTypeOK, Caps, OperatorWithinCap, WithinToday, PayNow, rules
<1> QED
  BY <1>3, <1>4, <1>5 DEF VaultInv

LEMMA EscalateInv ==
  ASSUME VaultInv, NEW s \in Accounts, NEW h \in Decisions, NEW b \in Buckets, NEW to \in Payees,
         NEW amount \in Nat, Escalate(s, h, b, to, amount)
  PROVE  VaultInv'
<1>1. buckets' \in [Buckets -> Nat] /\ SplitSum(buckets') = SplitSum(buckets) - amount
      /\ SplitSum(buckets) \in Nat /\ amount <= SplitSum(buckets)
  BY TakeLowers DEF VaultInv, VaultTypeOK, Escalate, PayChecks, Take
<1>2. escalations' \in Seq(Escalation)
  <2> DEFINE new == [decision |-> h, bucket |-> b, to |-> to, amount |-> amount, createdAt |-> now, status |-> "Pending"]
  <2>1. new \in Escalation
    BY DEF VaultInv, VaultTypeOK, Escalation
  <2>2. escalations' = Append(escalations, new) /\ escalations \in Seq(Escalation)
    BY DEF VaultInv, VaultTypeOK, Escalate
  <2> QED
    BY <2>1, <2>2
<1>3. VaultTypeOK'
  BY <1>1, <1>2 DEF VaultInv, VaultTypeOK, Escalate, rules, today
<1>4. VaultSolvent'
  BY <1>1 DEF VaultInv, VaultTypeOK, VaultSolvent, Escalate, Accounted
<1>5. (OperatorWithinCap /\ WithinToday)'
  BY DEF VaultInv, OperatorWithinCap, WithinToday, Escalate, rules, today
<1> QED
  BY <1>3, <1>4, <1>5 DEF VaultInv

LEMMA SweepToYieldInv ==
  ASSUME VaultInv, NEW s \in Accounts, NEW amount \in Nat, SweepToYield(s, amount)
  PROVE  VaultInv'
<1>1. buckets' \in [Buckets -> Nat] /\ SplitSum(buckets') = SplitSum(buckets) - amount
      /\ SplitSum(buckets) \in Nat /\ amount <= SplitSum(buckets)
  BY TakeLowers DEF VaultInv, VaultTypeOK, SweepToYield, Take, Buckets
<1>2. held' \in Nat /\ held' >= held - amount
  BY DEF VaultInv, VaultTypeOK, SweepToYield, Transfer
<1>3. placed' \in [Adapters -> Nat]
  BY DEF VaultInv, VaultTypeOK, SweepToYield
<1>4. VaultTypeOK'
  BY <1>1, <1>2, <1>3 DEF VaultInv, VaultTypeOK, SweepToYield, rules, today
<1>5. VaultSolvent'
  BY <1>1, <1>2 DEF VaultInv, VaultTypeOK, VaultSolvent, SweepToYield, Accounted
<1>6. (OperatorWithinCap /\ WithinToday)'
  BY DEF VaultInv, OperatorWithinCap, WithinToday, SweepToYield, rules, today
<1> QED
  BY <1>4, <1>5, <1>6 DEF VaultInv

LEMMA RedeemFromYieldInv ==
  ASSUME VaultInv, NEW s \in Accounts, NEW amount \in Nat, NEW sent \in 0..amount,
         RedeemFromYield(s, amount, sent)
  PROVE  VaultInv'
<1>1. buckets' \in [Buckets -> Nat] /\ SplitSum(buckets') = SplitSum(buckets) + sent
      /\ SplitSum(buckets) \in Nat
  <2>1. sent \in Nat /\ "YIELD" \in Buckets /\ buckets \in [Buckets -> Nat]
    BY DEF VaultInv, VaultTypeOK, Buckets
  <2> QED
    BY <2>1, PutRaises DEF RedeemFromYield, Put
<1>2. placed' \in [Adapters -> Nat]
  BY DEF VaultInv, VaultTypeOK, RedeemFromYield
<1>3. VaultTypeOK'
  BY <1>1, <1>2 DEF VaultInv, VaultTypeOK, RedeemFromYield, rules, today
<1>4. VaultSolvent'
  BY <1>1 DEF VaultInv, VaultTypeOK, VaultSolvent, RedeemFromYield, Accounted
<1>5. (OperatorWithinCap /\ WithinToday)'
  BY DEF VaultInv, OperatorWithinCap, WithinToday, RedeemFromYield, rules, today
<1> QED
  BY <1>3, <1>4, <1>5 DEF VaultInv

-----------------------------------------------------------------------------
(* An escalation is resolved, by the owner or by the clock. *)
LEMMA PendingIsEscalation ==
  ASSUME VaultTypeOK, NEW i \in PendingIds
  PROVE  i \in DOMAIN escalations /\ escalations[i] \in Escalation
BY DEF VaultTypeOK, PendingIds

LEMMA ApproveInv ==
  ASSUME VaultInv, NEW s \in Accounts, NEW i \in PendingIds, Approve(s, i)
  PROVE  VaultInv'
<1>1. i \in DOMAIN escalations /\ escalations[i].amount \in Nat
  BY PendingIsEscalation DEF VaultInv, Escalation
<1>2. escalations' \in Seq(Escalation)
  BY <1>1, ResolveKeepsType DEF VaultInv, VaultTypeOK, Approve, Resolve
<1>3. held' \in Nat /\ held' >= held - escalations[i].amount
  BY SMTT(30), <1>1 DEF VaultInv, VaultTypeOK, Approve, Transfer
<1>4. VaultTypeOK'
  <2>1. pendingReserved' \in Nat /\ spentToday' \in Nat
    BY SMTT(30), <1>1 DEF VaultInv, VaultTypeOK, Approve
  <2> QED
    BY <1>2, <1>3, <2>1 DEF VaultInv, VaultTypeOK, Approve, rules
<1>5. SplitSum(buckets) \in Nat
  BY SumIsNat DEF VaultInv, VaultTypeOK
<1>6. VaultSolvent'
  BY SMTT(30), <1>1, <1>3, <1>5 DEF VaultInv, VaultTypeOK, VaultSolvent, Approve, Accounted
<1>7. (OperatorWithinCap /\ WithinToday)'
  BY <1>1 DEF VaultInv, VaultTypeOK, OperatorWithinCap, WithinToday, Approve, rules
<1> QED
  BY <1>4, <1>6, <1>7 DEF VaultInv

LEMMA ReleaseInv ==
  ASSUME VaultInv, NEW i \in PendingIds, NEW status \in {"Rejected", "Expired"}, Release(i, status)
  PROVE  VaultInv'
<1>1. i \in DOMAIN escalations /\ escalations[i].amount \in Nat /\ escalations[i].bucket \in Buckets
  BY PendingIsEscalation DEF VaultInv, Escalation
<1>2. escalations' \in Seq(Escalation)
  BY <1>1, ResolveKeepsType DEF VaultInv, VaultTypeOK, Release, Resolve
<1>3. buckets' \in [Buckets -> Nat] /\ SplitSum(buckets') = SplitSum(buckets) + escalations[i].amount
      /\ SplitSum(buckets) \in Nat
  BY <1>1, PutRaises DEF VaultInv, VaultTypeOK, Release, Put
<1>4. VaultTypeOK'
  BY <1>1, <1>2, <1>3 DEF VaultInv, VaultTypeOK, Release, rules, today
<1>5. VaultSolvent'
  BY <1>1, <1>3 DEF VaultInv, VaultTypeOK, VaultSolvent, Release, Accounted
<1>6. (OperatorWithinCap /\ WithinToday)'
  BY DEF VaultInv, OperatorWithinCap, WithinToday, Release, rules, today
<1> QED
  BY <1>4, <1>5, <1>6 DEF VaultInv

-----------------------------------------------------------------------------
(* The owner, inflows and the clock. *)
LEMMA OwnerWithdrawInv ==
  ASSUME VaultInv, NEW s \in Accounts, NEW b \in Buckets, NEW to \in Payees, NEW amount \in Nat,
         OwnerWithdraw(s, b, to, amount)
  PROVE  VaultInv'
<1>1. buckets' \in [Buckets -> Nat] /\ SplitSum(buckets') = SplitSum(buckets) - amount
      /\ SplitSum(buckets) \in Nat /\ amount <= SplitSum(buckets)
  BY TakeLowers DEF VaultInv, VaultTypeOK, OwnerWithdraw, Take
<1>2. held' \in Nat /\ held' >= held - amount
  BY DEF VaultInv, VaultTypeOK, OwnerWithdraw, Transfer
<1>3. VaultTypeOK'
  BY <1>1, <1>2 DEF VaultInv, VaultTypeOK, OwnerWithdraw, rules, today
<1>4. VaultSolvent'
  BY <1>1, <1>2 DEF VaultInv, VaultTypeOK, VaultSolvent, OwnerWithdraw, Accounted
<1>5. (OperatorWithinCap /\ WithinToday)'
  BY DEF VaultInv, OperatorWithinCap, WithinToday, OwnerWithdraw, rules, today
<1> QED
  BY <1>3, <1>4, <1>5 DEF VaultInv

LEMMA SettersInv ==
  ASSUME VaultInv, NEW s \in Accounts,
         \/ \E c \in CapChoices : SetCaps(s, c)
         \/ \E to \in Payees, allowed \in BOOLEAN : SetAllowlist(s, to, allowed)
         \/ \E a \in Accounts : SetOperator(s, a) \/ TransferOwnership(s, a)
         \/ \E a \in Adapters \cup {NoAdapter} : SetYieldAdapter(s, a)
         \/ \E p \in BOOLEAN : SetPaused(s, p)
  PROVE  VaultInv'
<1>1. CASE \E c \in CapChoices : SetCaps(s, c)
  <2>1. PICK c \in CapChoices : SetCaps(s, c)
    BY <1>1
  <2>2. c \in Caps /\ c.daily \in Nat
    BY VaultCapsAssumption DEF Caps
  <2>3. VaultTypeOK'
    BY <2>1, <2>2 DEF VaultInv, VaultTypeOK, SetCaps, funds
  <2>4. (VaultSolvent /\ OperatorWithinCap /\ WithinToday)'
    BY <2>1, <2>2 DEF VaultInv, VaultTypeOK, VaultSolvent, Accounted, OperatorWithinCap, WithinToday, SetCaps, funds
  <2> QED
    BY <2>3, <2>4 DEF VaultInv
<1>2. CASE \E to \in Payees, allowed \in BOOLEAN : SetAllowlist(s, to, allowed)
  BY <1>2 DEF VaultInv, VaultTypeOK, VaultSolvent, Accounted, OperatorWithinCap, WithinToday, SetAllowlist, funds, today
<1>3. CASE \E a \in Accounts : SetOperator(s, a) \/ TransferOwnership(s, a)
  BY <1>3 DEF VaultInv, VaultTypeOK, VaultSolvent, Accounted, OperatorWithinCap, WithinToday,
              SetOperator, TransferOwnership, funds, today
<1>4. CASE \E a \in Adapters \cup {NoAdapter} : SetYieldAdapter(s, a)
  BY <1>4 DEF VaultInv, VaultTypeOK, VaultSolvent, Accounted, OperatorWithinCap, WithinToday, SetYieldAdapter, funds, today
<1>5. CASE \E p \in BOOLEAN : SetPaused(s, p)
  BY <1>5 DEF VaultInv, VaultTypeOK, VaultSolvent, Accounted, OperatorWithinCap, WithinToday, SetPaused, funds, today
<1> QED
  BY <1>1, <1>2, <1>3, <1>4, <1>5

LEMMA InflowInv ==
  ASSUME VaultInv, NEW amount \in Nat, Inflow(amount)
  PROVE  VaultInv'
<1>1. SplitSum(buckets) \in Nat
  BY SumIsNat DEF VaultInv, VaultTypeOK
<1> QED
  BY <1>1 DEF VaultInv, VaultTypeOK, VaultSolvent, Accounted, OperatorWithinCap, WithinToday, Inflow, rules, today

LEMMA VaultTickInv ==
  ASSUME VaultInv, VaultTick
  PROVE  VaultInv'
<1>1. VaultTypeOK'
  BY DEF VaultInv, VaultTypeOK, Caps, VaultTick, Tick, funds, rules, today
<1>2. (VaultSolvent /\ OperatorWithinCap /\ WithinToday)'
  BY DEF VaultInv, VaultTypeOK, Caps, VaultSolvent, Accounted, OperatorWithinCap, WithinToday, VaultTick, funds, rules, today
<1> QED
  BY <1>1, <1>2 DEF VaultInv

LEMMA VaultStutterInv ==
  ASSUME VaultInv, UNCHANGED vaultVars
  PROVE  VaultInv'
BY DEF VaultInv, VaultTypeOK, VaultSolvent, Accounted, OperatorWithinCap, WithinToday, vaultVars, funds, rules, today

-----------------------------------------------------------------------------
(* Every step of the vault keeps the invariant. *)
THEOREM VaultStepInv ==
  ASSUME VaultInv, [VaultNext]_vaultVars
  PROVE  VaultInv'
<1> USE VaultAmountsAssumption
<1>1. CASE \E s \in Accounts, amounts \in Splits : Allocate(s, amounts)
  BY <1>1, AllocateInv
<1>2. CASE OperatorNext
  BY <1>2, PayNowInv, EscalateInv, SweepToYieldInv, RedeemFromYieldInv DEF OperatorNext
<1>3. CASE OwnerNext
  BY <1>3, ApproveInv, ReleaseInv, OwnerWithdrawInv, SettersInv DEF OwnerNext, Reject
<1>4. CASE \E i \in PendingIds : Expire(i)
  BY <1>4, ReleaseInv DEF Expire
<1>5. CASE \E amount \in Amounts : Inflow(amount)
  BY <1>5, InflowInv
<1>6. CASE VaultTick
  BY <1>6, VaultTickInv
<1>7. CASE UNCHANGED vaultVars
  BY <1>7, VaultStutterInv
<1> QED
  BY <1>1, <1>2, <1>3, <1>4, <1>5, <1>6, <1>7 DEF VaultNext

LEMMA VaultInvHolds == VaultSpec => []VaultInv
<1>1. VaultInit => VaultInv
  BY VaultInitInv
<1>2. VaultInv /\ [VaultNext]_vaultVars => VaultInv'
  BY VaultStepInv
<1> QED
  BY <1>1, <1>2, PTL DEF VaultSpec

(* The vault is solvent in every state OperatorVault.sol can reach. *)
THEOREM VaultIsSafe == VaultSpec => [](VaultTypeOK /\ VaultSolvent)
<1>1. VaultInv => VaultTypeOK /\ VaultSolvent
  BY DEF VaultInv
<1> QED
  BY <1>1, VaultInvHolds, PTL

(* ... and what the operator pays on one day without the owner stays within *)
(* the largest cap the owner had in force that day.                        *)
THEOREM VaultKeepsCap == VaultSpec => []OperatorWithinCap
<1>1. VaultInv => OperatorWithinCap
  BY DEF VaultInv
<1> QED
  BY <1>1, VaultInvHolds, PTL

-----------------------------------------------------------------------------
(* What is resolved stays resolved. *)
LEMMA ResolveSpares ==
  ASSUME VaultTypeOK, NEW j \in PendingIds, NEW status, Resolve(j, status),
         NEW i \in DOMAIN escalations \ PendingIds
  PROVE  i \in DOMAIN escalations' /\ escalations'[i] = escalations[i]
<1>1. i # j /\ escalations' = [escalations EXCEPT ![j].status = status]
  BY DEF Resolve
<1> QED
  BY <1>1 DEF VaultTypeOK

LEMMA EscalateSpares ==
  ASSUME VaultTypeOK, NEW e \in Escalation, escalations' = Append(escalations, e), NEW i \in DOMAIN escalations
  PROVE  i \in DOMAIN escalations' /\ escalations'[i] = escalations[i]
BY DEF VaultTypeOK

LEMMA StepSpares ==
  ASSUME VaultTypeOK, VaultNext, NEW i \in DOMAIN escalations \ PendingIds
  PROVE  i \in DOMAIN escalations' /\ escalations'[i] = escalations[i]
<1> USE VaultAmountsAssumption
<1>1. CASE \E s \in Accounts, h \in Decisions, b \in Buckets, to \in Payees, amount \in Amounts :
             Escalate(s, h, b, to, amount)
  <2>1. PICK s \in Accounts, h \in Decisions, b \in Buckets, to \in Payees, amount \in Amounts :
          Escalate(s, h, b, to, amount)
    BY <1>1
  <2> DEFINE e == [decision |-> h, bucket |-> b, to |-> to, amount |-> amount, createdAt |-> now, status |-> "Pending"]
  <2>2. e \in Escalation /\ escalations' = Append(escalations, e)
    BY <2>1 DEF Escalate, Escalation, VaultTypeOK
  <2> QED
    BY <2>2, EscalateSpares
<1>2. CASE \E j \in PendingIds : \E status : Resolve(j, status)
  BY <1>2, ResolveSpares
<1>3. CASE UNCHANGED escalations
  BY <1>3
<1>4. \/ \E s \in Accounts, h \in Decisions, b \in Buckets, to \in Payees, amount \in Amounts :
           Escalate(s, h, b, to, amount)
      \/ \E j \in PendingIds : \E status : Resolve(j, status)
      \/ UNCHANGED escalations
  <2>1. CASE OperatorNext
    BY <2>1 DEF OperatorNext, PayNow, SweepToYield, RedeemFromYield
  <2>2. CASE OwnerNext
    BY <2>2 DEF OwnerNext, Approve, Reject, Release, OwnerWithdraw, SetCaps, SetAllowlist, SetOperator,
       TransferOwnership, SetYieldAdapter, SetPaused, funds
  <2>3. CASE \E j \in PendingIds : Expire(j)
    BY <2>3 DEF Expire, Release
  <2>4. CASE \/ \E s \in Accounts, amounts \in Splits : Allocate(s, amounts)
             \/ \E amount \in Amounts : Inflow(amount)
             \/ VaultTick
    BY <2>4 DEF Allocate, Inflow, VaultTick
  <2> QED
    BY <2>1, <2>2, <2>3, <2>4 DEF VaultNext
<1> QED
  BY <1>1, <1>2, <1>3, <1>4

(* An approved, rejected or expired escalation is never touched again, so  *)
(* its amount moves once.                                                  *)
THEOREM ResolvedStays == VaultSpec => EscalationsFinal
<1>1. VaultInit => VaultInv
  BY VaultInitInv
<1>2. VaultInv /\ [VaultNext]_vaultVars => VaultInv'
  BY VaultStepInv
<1>3. VaultInv /\ [VaultNext]_vaultVars =>
        [\A i \in DOMAIN escalations \ PendingIds :
           i \in DOMAIN escalations' /\ escalations'[i] = escalations[i]]_vaultVars
  BY StepSpares DEF VaultInv
<1> QED
  BY <1>1, <1>2, <1>3, PTL DEF VaultSpec, EscalationsFinal
-----------------------------------------------------------------------------
RowIds == 0..Len(rows)

(* What may be called paid: what the vault paid, what a decision about it  *)
(* executed something else for, and what is no bill.                       *)
Sure == {b \in Bills : payments[b] > 0} \cup aside \cup {NoBill}

(* A call as the invariant knows it: what it takes for paid is sure, it    *)
(* updates the bill of its event, and while it expires rows it has some.   *)
Sound(l, ids, sure) ==
  /\ l \in CallOf(ids)
  /\ l.at \in {"fresh", "find", "close"} /\ l.outcome = "paid" => l.bill \in sure
  /\ l.at \in {"row", "save"} /\ l.flow = "approve" => l.bill \in sure
  /\ l.said = "executed" => Concerns[l.event] \in sure
  /\ l.at = "bill" => Concerns[l.event] \in Bills /\ l.said \in {"executed", "escalated", "denied"}
  /\ l.at \in {"stale", "lapse"} => l.todo # {}
  /\ l.at = "stale" => l.done # {}

Books ==
  /\ bills \in [Bills -> {"none", "open", "paid", "escalated", "rejected"}]
  /\ rows \in Seq(Row)
  /\ claims \subseteq {EventOf(e) : e \in Events} \cup {ResolveOf(i) : i \in RowIds}
  /\ decided \subseteq Events
  /\ payments \in [Bills -> Nat] /\ faults \in Nat
Told ==
  /\ planned \in [Bills -> Nat] /\ acted \in [Events -> Nat]
  /\ aside \subseteq Bills \cup {NoBill} /\ overlaps \in Nat
Calls ==
  /\ handlers \in [Handlers -> HandlerOf(RowIds)]
  /\ \A h \in Handlers : handlers[h] = NoCall \/ Sound(handlers[h], RowIds, Sure)

ServiceInv == Books /\ Told /\ Calls /\ PaidIsPaid
OperatorInv == VaultInv /\ ServiceInv

-----------------------------------------------------------------------------
(* The calls under way. *)
LEMMA UnderWay ==
  ASSUME ServiceInv, NEW h \in Handlers, ~At(h, "idle")
  PROVE  /\ handlers[h] \in CallOf(RowIds) /\ Sound(handlers[h], RowIds, Sure)
         /\ handlers[h].bill \in Bills /\ handlers[h].event \in Events
BY DEF ServiceInv, Calls, Sound, CallOf, NoCall, At

LEMMA IdsOnlyGrow ==
  ASSUME rows \in Seq(Row), rows' \in Seq(Row), Len(rows) <= Len(rows')
  PROVE  RowIds \subseteq RowIds' /\ 0 \in RowIds /\ 0 \in RowIds'
BY DEF RowIds

LEMMA SoundLasts ==
  ASSUME NEW ids, NEW more, ids \subseteq more, NEW sure, NEW later, sure \subseteq later,
         NEW l, Sound(l, ids, sure)
  PROVE  Sound(l, more, later)
<1>1. l \in CallOf(more)
  BY DEF Sound, CallOf
<1> QED
  BY <1>1 DEF Sound

(* What is sure stays sure while payments are not taken back. *)
LEMMA SureGrows ==
  ASSUME ServiceInv, payments' \in [Bills -> Nat], \A b \in Bills : payments[b] <= payments'[b],
         aside \subseteq aside'
  PROVE  Sure \subseteq Sure'
<1>1. payments \in [Bills -> Nat]
  BY DEF ServiceInv, Books
<1> QED
  BY <1>1 DEF Sure

LEMMA ToldStays ==
  ASSUME ServiceInv, UNCHANGED history
  PROVE  Told' /\ aside' = aside
BY DEF ServiceInv, Told, history

LEMMA TidySound ==
  ASSUME NEW ids, 0 \in ids, NEW sure, NEW l, Sound(l, ids, sure)
  PROVE  Sound(Tidy(l), ids, sure)
<1>1. l \in CallOf(ids) /\ l.keep \in BOOLEAN /\ l.behind \in BOOLEAN
  BY DEF Sound, CallOf
<1>2. {} \in SUBSET (ids \ {0}) /\ 0 \in 0..MaxProposals /\ {} \in SUBSET Bills
  BY OperatorBoundAssumption
<1>3. CASE l.at \in {"record", "append", "unclaim"}
  <2> DEFINE keep == l.keep \/ l.at = "unclaim"
             behind == l.behind /\ l.at = "append"
             new == [l EXCEPT !.vaultId = 0, !.fresh = 0, !.outcome = "none", !.keep = keep,
                              !.open = {}, !.left = 0, !.said = "deferred", !.done = {}, !.behind = behind]
  <2>1. keep \in BOOLEAN /\ behind \in BOOLEAN
    BY <1>1
  <2> HIDE DEF keep, behind
  <2>2. new \in CallOf(ids) /\ new.at = l.at /\ new.outcome = "none" /\ new.said = "deferred"
    BY <1>1, <1>2, <2>1 DEF CallOf, Results
  <2>3. Sound(new, ids, sure)
    BY <1>3, <2>2 DEF Sound
  <2> QED
    BY <1>3, <2>3 DEF Tidy, keep, behind
<1>4. CASE l.at = "lapse"
  <2>1. Tidy(l) = [l EXCEPT !.done = {}]
    BY <1>4 DEF Tidy
  <2>2. Tidy(l) \in CallOf(ids)
    BY <1>1, <1>2, <2>1 DEF CallOf
  <2>3. /\ Tidy(l).at = l.at /\ Tidy(l).outcome = l.outcome /\ Tidy(l).bill = l.bill
        /\ Tidy(l).flow = l.flow /\ Tidy(l).todo = l.todo /\ Tidy(l).said = l.said /\ Tidy(l).event = l.event
    BY <1>1, <2>1 DEF CallOf
  <2> QED
    BY <1>4, <2>2, <2>3 DEF Sound
<1>5. CASE l.at = "bill"
  <2>1. Tidy(l) = [l EXCEPT !.open = {}, !.left = 0]
    BY <1>5 DEF Tidy
  <2>2. Tidy(l) \in CallOf(ids)
    BY <1>1, <1>2, <2>1 DEF CallOf
  <2>3. /\ Tidy(l).at = l.at /\ Tidy(l).outcome = l.outcome /\ Tidy(l).bill = l.bill
        /\ Tidy(l).flow = l.flow /\ Tidy(l).said = l.said /\ Tidy(l).event = l.event
    BY <1>1, <2>1 DEF CallOf
  <2> QED
    BY <1>5, <2>2, <2>3 DEF Sound
<1>6. CASE l.at \notin {"record", "append", "unclaim", "lapse", "bill"}
  BY <1>6 DEF Tidy
<1> QED
  BY <1>3, <1>4, <1>5, <1>6

-----------------------------------------------------------------------------
(* A step of one call keeps the invariant if what it becomes is sound and  *)
(* what it does to the books is.                                           *)
LEMMA CallsStep ==
  ASSUME ServiceInv, NEW h \in Handlers, NEW l, Become(h, l),
         l = NoCall \/ Sound(l, RowIds', Sure'),
         rows' \in Seq(Row), Len(rows) <= Len(rows'), Sure \subseteq Sure'
  PROVE  Calls'
<1>1. RowIds \subseteq RowIds' /\ 0 \in RowIds'
  BY IdsOnlyGrow DEF ServiceInv, Books
<1> DEFINE new == Tidy(l)
<1>2. new = NoCall \/ Sound(new, RowIds', Sure')
  <2>1. CASE l = NoCall
    BY <2>1 DEF Tidy, NoCall
  <2>2. CASE Sound(l, RowIds', Sure')
    BY <1>1, <2>2, TidySound
  <2> QED
    BY <2>1, <2>2
<1>3. handlers' = [handlers EXCEPT ![h] = new]
  BY DEF Become
<1> HIDE DEF new
<1>4. ASSUME NEW g \in Handlers
      PROVE  handlers'[g] = NoCall \/ Sound(handlers'[g], RowIds', Sure')
  <2>1. handlers[g] = NoCall \/ Sound(handlers[g], RowIds, Sure)
    BY DEF ServiceInv, Calls
  <2>2. Sound(handlers[g], RowIds, Sure) => Sound(handlers[g], RowIds', Sure')
    BY <1>1, SoundLasts
  <2>3. handlers'[g] = IF g = h THEN new ELSE handlers[g]
    BY <1>3 DEF ServiceInv, Calls
  <2> QED
    BY <1>2, <2>1, <2>2, <2>3
<1>5. handlers' \in [Handlers -> HandlerOf(RowIds')]
  <2>1. DOMAIN handlers' = Handlers /\ handlers' = [g \in Handlers |-> handlers'[g]]
    BY <1>3 DEF ServiceInv, Calls
  <2>2. \A g \in Handlers : handlers'[g] \in HandlerOf(RowIds')
    BY <1>4 DEF HandlerOf, Sound
  <2> QED
    BY <2>1, <2>2
<1> QED
  BY <1>4, <1>5 DEF Calls

(* Most steps leave the books alone. *)
LEMMA BooksStep ==
  ASSUME ServiceInv, NEW h \in Handlers, NEW l, Become(h, l),
         l = NoCall \/ Sound(l, RowIds, Sure'),
         UNCHANGED <<bills, rows, claims, decided, payments>>, faults' \in Nat,
         Told', aside \subseteq aside'
  PROVE  ServiceInv'
<1>1. RowIds' = RowIds /\ payments \in [Bills -> Nat] /\ rows \in Seq(Row)
  BY DEF RowIds, ServiceInv, Books
<1>2. Len(rows) <= Len(rows') /\ Sure \subseteq Sure'
  BY <1>1, SureGrows
<1>3. Calls'
  BY <1>1, <1>2, CallsStep
<1>4. Books' /\ PaidIsPaid'
  BY <1>1 DEF ServiceInv, Books, PaidIsPaid
<1> QED
  BY <1>3, <1>4 DEF ServiceInv

LEMMA QuietStep ==
  ASSUME ServiceInv, NEW h \in Handlers, NEW l, Become(h, l),
         l = NoCall \/ Sound(l, RowIds, Sure),
         UNCHANGED <<bills, rows, claims, decided, payments>>, UNCHANGED history, faults' \in Nat
  PROVE  ServiceInv'
<1>1. Told' /\ aside' = aside /\ Sure' = Sure
  BY ToldStays DEF Sure
<1> QED
  BY <1>1, BooksStep

(* A move to a place where nothing more is asked of the call. *)
Anywhere == {"claim", "decide", "act", "pay", "open", "record", "append", "unclaim", "check", "vault"}
LEMMA GoSound ==
  ASSUME ServiceInv, NEW h \in Handlers, ~At(h, "idle"), NEW place \in Anywhere
  PROVE  Sound([handlers[h] EXCEPT !.at = place], RowIds, Sure)
BY UnderWay DEF Sound, CallOf, Place, Anywhere

LEMMA DoneStep ==
  ASSUME ServiceInv, NEW h \in Handlers, Done(h),
         UNCHANGED <<bills, rows, claims, decided, payments>>, UNCHANGED history, faults' \in Nat
  PROVE  ServiceInv'
BY QuietStep DEF Done

LEMMA GoStep ==
  ASSUME ServiceInv, NEW h \in Handlers, ~At(h, "idle"), NEW place \in Anywhere, Go(h, place),
         UNCHANGED <<bills, rows, claims, decided, payments>>, UNCHANGED history, faults' \in Nat
  PROVE  ServiceInv'
BY QuietStep, GoSound DEF Go

LEMMA NewSound ==
  ASSUME ServiceInv, NEW b \in Bills, NEW flow \in {"handle", "approve", "reject", "expire"},
         NEW place \in Anywhere
  PROVE  Sound(New(flow, b, place), RowIds, Sure)
<1>1. b \in Events /\ 0 \in 0..MaxProposals /\ {} \in SUBSET Bills /\ "deferred" \in Results
  BY OperatorEventsAssumption, OperatorBoundAssumption DEF Results
<1>2. 0 \in RowIds
  BY DEF RowIds, ServiceInv, Books
<1> QED
  BY <1>1, <1>2 DEF Sound, New, CallOf, Place, Anywhere

-----------------------------------------------------------------------------
(* The steps of the service, one by one. *)
LEMMA PickDueInv ==
  ASSUME ServiceInv, NEW h \in Handlers, NEW e \in Events, NEW b \in Bills, PickDue(h, e, b)
  PROVE  ServiceInv'
<1> DEFINE base == New("handle", b, "claim")
           new == [base EXCEPT !.event = e]
<1>1. Sound(base, RowIds, Sure) /\ base.said = "deferred" /\ base.at = "claim"
  BY NewSound DEF Anywhere, New
<1>2. Become(h, new) /\ faults' \in Nat
  BY DEF PickDue, ServiceInv, Books
<1> HIDE DEF base
<1>3. Sound(new, RowIds, Sure)
  BY <1>1 DEF Sound, CallOf
<1> HIDE DEF new
<1> QED
  BY <1>2, <1>3, QuietStep DEF PickDue

LEMMA IntakeInv ==
  ASSUME ServiceInv, NEW h \in Handlers, NEW b \in Bills, Intake(h, b)
  PROVE  ServiceInv'
<1>1. Sound(New("handle", b, "claim"), RowIds, Sure)
  BY NewSound DEF Anywhere
<1>2. /\ RowIds' = RowIds /\ payments' = payments /\ payments \in [Bills -> Nat]
      /\ rows \in Seq(Row) /\ rows' = rows /\ Len(rows) <= Len(rows')
  BY DEF Intake, RowIds, ServiceInv, Books
<1>3. Told' /\ aside' = aside /\ Sure' = Sure
  BY <1>2, ToldStays DEF Intake, Sure
<1>4. Calls'
  BY <1>1, <1>2, <1>3, CallsStep DEF Intake, Done
<1>5. Books' /\ PaidIsPaid'
  BY <1>2, <1>3 DEF Intake, ServiceInv, Books, PaidIsPaid
<1> QED
  BY <1>3, <1>4, <1>5 DEF ServiceInv

LEMMA ClaimInv ==
  ASSUME ServiceInv, NEW h \in Handlers, TakeClaim(h) \/ Unclaim(h)
  PROVE  ServiceInv'
<1>1. ~At(h, "idle") /\ handlers[h] \in CallOf(RowIds)
  BY UnderWay DEF TakeClaim, Unclaim, At
<1>2. /\ RowIds' = RowIds /\ payments' = payments /\ payments \in [Bills -> Nat]
      /\ rows \in Seq(Row) /\ rows' = rows /\ Len(rows) <= Len(rows')
  BY DEF TakeClaim, Unclaim, RowIds, ServiceInv, Books
<1>a. Told' /\ aside' = aside /\ Sure' = Sure
  BY <1>2, ToldStays DEF TakeClaim, Unclaim, Sure
<1>3. Calls'
  <2>1. CASE Done(h)
    BY <1>2, <1>a, <2>1, CallsStep DEF Done
  <2>2. CASE \E place \in Anywhere : Go(h, place)
    BY <1>1, <1>2, <1>a, <2>2, CallsStep, GoSound DEF Go
  <2> QED
    BY <2>1, <2>2 DEF TakeClaim, Unclaim, Anywhere
<1>4. claims' \subseteq {EventOf(e) : e \in Events} \cup {ResolveOf(i) : i \in RowIds'}
  <2>1. KeyOf(h) \in {EventOf(e) : e \in Events} \cup {ResolveOf(i) : i \in RowIds}
    BY <1>1 DEF KeyOf, CallOf
  <2> QED
    BY <1>2, <2>1 DEF ServiceInv, Books, TakeClaim, Unclaim
<1>5. Books' /\ PaidIsPaid'
  BY <1>2, <1>4, <1>a DEF TakeClaim, Unclaim, ServiceInv, Books, PaidIsPaid
<1> QED
  BY <1>3, <1>5, <1>a DEF ServiceInv

LEMMA ReadBillsInv ==
  ASSUME ServiceInv, NEW h \in Handlers, ReadBills(h)
  PROVE  ServiceInv'
<1> DEFINE open == handlers[h].open \cup OpenBills
           new == [handlers[h] EXCEPT !.open = open]
<1>1. Sound(handlers[h], RowIds, Sure)
  BY UnderWay DEF ReadBills, At
<1>2. open \in SUBSET Bills
  BY <1>1 DEF Sound, CallOf, OpenBills
<1>3. Become(h, new) /\ faults' \in Nat
  BY DEF ReadBills, ServiceInv, Books
<1> HIDE DEF open
<1>4. Sound(new, RowIds, Sure)
  BY <1>1, <1>2 DEF Sound, CallOf
<1> HIDE DEF new
<1> QED
  BY <1>3, <1>4, QuietStep DEF ReadBills

LEMMA EngineThrowsInv ==
  ASSUME ServiceInv, NEW h \in Handlers, EngineThrows(h)
  PROVE  ServiceInv'
<1>1. ~At(h, "idle") /\ faults' \in Nat
  BY DEF EngineThrows, At, ServiceInv, Books
<1> QED
  BY <1>1, GoStep DEF EngineThrows, Anywhere

LEMMA DecideInv ==
  ASSUME ServiceInv, NEW h \in Handlers, Decide(h)
  PROVE  ServiceInv'
<1> DEFINE new == [handlers[h] EXCEPT !.at = "act", !.left = MaxProposals]
<1>1. Sound(handlers[h], RowIds, Sure) /\ handlers[h].event \in Events
  BY UnderWay DEF Decide, At
<1>a. MaxProposals \in 0..MaxProposals
  BY OperatorBoundAssumption
<1>2. Sound(new, RowIds, Sure)
  BY <1>1, <1>a DEF Sound, CallOf, Place
<1>3. Told' /\ aside' = aside /\ Sure' = Sure /\ faults' \in Nat
  BY <1>1 DEF Decide, ServiceInv, Books, Told, Sure
<1>4. Become(h, new)
  BY DEF Decide
<1> HIDE DEF new
<1> QED
  BY <1>2, <1>3, <1>4, BooksStep DEF Decide

(* A payout that is proposed is in hand. *)
LEMMA ProposeInv ==
  ASSUME ServiceInv, NEW h \in Handlers, NEW b \in Bills,
         ProposeUnmatched(h, b) \/ \E place \in Place : ProposePayout(h, b, place)
  PROVE  ServiceInv'
<1>1. /\ Sound(handlers[h], RowIds, Sure) /\ handlers[h].event \in Events
      /\ handlers[h].open \subseteq Bills /\ handlers[h].left \in 0..MaxProposals /\ handlers[h].left > 0
  BY UnderWay DEF ProposeUnmatched, ProposePayout, Proposes, At, CallOf
<1>2. PICK place \in {"pay", "open"} :
        /\ planned' = [planned EXCEPT ![b] = @ + 1]
        /\ Become(h, [handlers[h] EXCEPT !.at = place, !.bill = b, !.left = @ - 1])
        /\ UNCHANGED <<vaultVars, bills, rows, claims, decided, payments, acted, aside, overlaps, faults>>
  BY DEF ProposeUnmatched, ProposePayout
<1> DEFINE left == handlers[h].left - 1
           new == [handlers[h] EXCEPT !.at = place, !.bill = b, !.left = left]
<1>4. left \in 0..MaxProposals
  BY <1>1, OperatorBoundAssumption
<1>5. Become(h, new)
  BY <1>2
<1> HIDE DEF left
<1>6. Sound(new, RowIds, Sure)
  BY <1>1, <1>4 DEF Sound, CallOf, Place
<1>7. Told' /\ aside' = aside /\ Sure' = Sure /\ faults' \in Nat
  BY <1>2 DEF ServiceInv, Books, Told, Sure
<1> HIDE DEF new
<1> QED
  BY <1>2, <1>5, <1>6, <1>7, BooksStep

LEMMA MoreIsOne ==
  ASSUME NEW one \in Results, NEW other \in Results
  PROVE  More(one, other) \in {one, other} /\ More(one, other) \in Results
BY DEF More

LEMMA ProposeAsideInv ==
  ASSUME ServiceInv, NEW h \in Handlers, NEW status \in Results, ProposeAside(h, status)
  PROVE  ServiceInv'
<1> DEFINE l == handlers[h]
           left == l.left - 1
           said == More(l.said, status)
           new == [l EXCEPT !.said = said, !.left = left]
<1>1. /\ Sound(l, RowIds, Sure) /\ l.event \in Events /\ l.at = "act" /\ l.said \in Results
      /\ l.left \in 0..MaxProposals /\ l.left > 0
  BY UnderWay DEF ProposeAside, Proposes, At, CallOf
<1>2. left \in 0..MaxProposals /\ said \in Results /\ said \in {l.said, status}
  BY <1>1, MoreIsOne, OperatorBoundAssumption
<1>3. /\ UNCHANGED <<bills, rows, claims, decided, payments, planned, acted, overlaps, faults>>
      /\ aside' = IF status = "executed" THEN aside \cup {Own(h)} ELSE aside
  BY DEF ProposeAside
<1>4. Own(h) \in Bills \cup {NoBill}
  BY <1>1, OperatorEventsAssumption DEF Own
<1>5. Told' /\ aside \subseteq aside' /\ faults' \in Nat
  BY <1>3, <1>4 DEF ServiceInv, Books, Told
<1>6. Sure \subseteq Sure' /\ (status = "executed" => Concerns[l.event] \in Sure')
  BY <1>3 DEF Sure, Own
<1>7. Sound(l, RowIds, Sure')
  BY <1>1, <1>6, SoundLasts
<1>8. Become(h, new)
  BY DEF ProposeAside
<1> HIDE DEF left, said
<1>9. Sound(new, RowIds, Sure')
  <2>1. new \in CallOf(RowIds) /\ new.at = "act" /\ new.said = said /\ new.event = l.event /\ new.flow = l.flow
    BY <1>1, <1>2, <1>7 DEF Sound, CallOf
  <2> QED
    BY <1>2, <1>6, <1>7, <2>1 DEF Sound
<1> HIDE DEF new
<1> QED
  BY <1>3, <1>5, <1>8, <1>9, BooksStep

LEMMA FinishInv ==
  ASSUME ServiceInv, NEW h \in Handlers, Finish(h)
  PROVE  ServiceInv'
<1>1. ~At(h, "idle") /\ faults' \in Nat /\ Sound(handlers[h], RowIds, Sure)
  BY UnderWay DEF Finish, At, ServiceInv, Books
<1>2. CASE Go(h, "record")
  BY <1>1, <1>2, GoStep DEF Finish, Anywhere
<1>3. CASE Own(h) \in OpenBills /\ handlers[h].said \in DOMAIN BillStatus /\ Go(h, "bill")
  <2>1. Sound([handlers[h] EXCEPT !.at = "bill"], RowIds, Sure)
    BY <1>1, <1>3 DEF Sound, CallOf, Place, Own, OpenBills, BillStatus
  <2> QED
    BY <1>1, <1>3, <2>1, QuietStep DEF Finish, Go
<1> QED
  BY <1>2, <1>3 DEF Finish

(* Where the answer of the vault takes the call of an event. *)
LEMMA AnsweredSound ==
  ASSUME NEW h \in Handlers, NEW ids, NEW sure, Sound(handlers[h], ids, sure), NEW status \in Results,
         status = "executed" => Concerns[handlers[h].event] \in sure
  PROVE  Sound(Answered(h, status), ids, sure)
<1> DEFINE l == handlers[h]
           said == More(l.said, status)
           new == [l EXCEPT !.at = "act", !.said = said, !.vaultId = 0]
<1>1. said \in Results /\ said \in {l.said, status}
  BY MoreIsOne DEF Sound, CallOf
<1>2. Answered(h, status) = new
  BY DEF Answered
<1> HIDE DEF said
<1>3. new \in CallOf(ids) /\ new.at = "act" /\ new.said = said /\ new.event = l.event
  BY <1>1 DEF Sound, CallOf, Place
<1> HIDE DEF new
<1>4. Sound(new, ids, sure)
  BY <1>1, <1>3 DEF Sound
<1> QED
  BY <1>2, <1>4

LEMMA UnpaidSound ==
  ASSUME NEW h \in Handlers, NEW ids, NEW sure, Sound(handlers[h], ids, sure), NEW hash \in BOOLEAN
  PROVE  Sound(Unpaid(h, hash), ids, sure)
<1>1. CASE Is(h, "handle")
  BY <1>1, AnsweredSound DEF Unpaid, Results
<1>2. CASE ~Is(h, "handle")
  BY <1>2 DEF Unpaid, Sound, CallOf, Place
<1> QED
  BY <1>1, <1>2

(* What the vault's payment or reservation does to the history. *)
LEMMA VaultPaysPaid ==
  ASSUME ServiceInv, NEW b \in Bills, VaultPays(b) \/ VaultReserves(b)
  PROVE  /\ payments' \in [Bills -> Nat] /\ \A c \in Bills : payments[c] <= payments'[c]
         /\ VaultPays(b) => payments'[b] > 0
<1>1. payments \in [Bills -> Nat]
  BY DEF ServiceInv, Books
<1>2. CASE VaultPays(b)
  BY <1>1, <1>2 DEF VaultPays
<1>3. CASE VaultReserves(b) /\ ~VaultPays(b)
  BY <1>1, <1>3 DEF VaultReserves
<1> QED
  BY <1>2, <1>3

LEMMA PaidStays ==
  ASSUME ServiceInv, bills' = bills, payments' \in [Bills -> Nat], \A b \in Bills : payments[b] <= payments'[b],
         aside \subseteq aside'
  PROVE  PaidIsPaid'
BY DEF ServiceInv, Books, PaidIsPaid

LEMMA PayBillInv ==
  ASSUME VaultInv, ServiceInv, NEW h \in Handlers, PayBill(h)
  PROVE  ServiceInv'
<1> DEFINE l == handlers[h]
<1>1. l \in CallOf(RowIds) /\ Sound(l, RowIds, Sure) /\ l.bill \in Bills /\ l.event \in Events
  BY UnderWay DEF PayBill, At
<1>2. /\ payments' \in [Bills -> Nat] /\ (\A b \in Bills : payments[b] <= payments'[b])
      /\ VaultPays(l.bill) => payments'[l.bill] > 0
  BY <1>1, VaultPaysPaid DEF PayBill
<1>3. rows' = rows /\ RowIds' = RowIds /\ rows \in Seq(Row) /\ Len(rows) <= Len(rows')
  BY DEF PayBill, RowIds, ServiceInv, Books
<1>4. Own(h) \in Bills \cup {NoBill}
  BY <1>1, OperatorEventsAssumption DEF Own
<1>5. aside \subseteq aside' /\ aside' \subseteq aside \cup {Own(h)} /\ UNCHANGED <<planned, acted, overlaps>>
  BY DEF PayBill
<1>6. Told' /\ Sure \subseteq Sure'
  BY <1>2, <1>4, <1>5, SureGrows DEF ServiceInv, Told
<1>7. Sound(l, RowIds, Sure')
  BY <1>1, <1>6, SoundLasts
<1>8. Calls'
  <2>1. CASE VaultPays(l.bill) /\ Is(h, "handle") /\ Become(h, Answered(h, "executed"))
             /\ aside' = IF l.bill = Own(h) THEN aside ELSE aside \cup {Own(h)}
    <3>1. Own(h) \in Sure'
      BY <1>1, <1>2, <2>1 DEF Sure
    <3>2. Sound(Answered(h, "executed"), RowIds, Sure')
      BY <1>7, <3>1, AnsweredSound DEF Results, Own
    <3> QED
      BY <1>3, <1>6, <2>1, <3>2, CallsStep
  <2>2. CASE VaultPays(l.bill) /\ Become(h, [l EXCEPT !.at = "row", !.outcome = "paid"])
    <3> DEFINE new == [l EXCEPT !.at = "row", !.outcome = "paid"]
    <3>1. l.bill \in Sure'
      BY <1>1, <1>2, <2>2 DEF Sure
    <3>2. Sound(new, RowIds, Sure')
      BY <1>7, <3>1 DEF Sound, CallOf, Place
    <3> HIDE DEF new
    <3>3. Become(h, new)
      BY <2>2 DEF new
    <3> QED
      BY <1>3, <1>6, <3>2, <3>3, CallsStep
  <2>3. CASE VaultReserves(l.bill) /\ Become(h, [l EXCEPT !.at = "open", !.vaultId = Len(escalations')])
    <3> DEFINE new == [l EXCEPT !.at = "open", !.vaultId = Len(escalations')]
    <3>1. Len(escalations') \in Nat
      BY <2>3 DEF VaultReserves, Escalate, VaultInv, VaultTypeOK
    <3>2. Sound(new, RowIds, Sure')
      BY <1>7, <3>1 DEF Sound, CallOf, Place
    <3> HIDE DEF new
    <3>3. Become(h, new)
      BY <2>3 DEF new
    <3> QED
      BY <1>3, <1>6, <3>2, <3>3, CallsStep
  <2> QED
    BY <2>1, <2>2, <2>3 DEF PayBill
<1>9. PaidIsPaid'
  BY <1>2, <1>5, PaidStays DEF PayBill
<1>10. Books'
  BY <1>2, <1>3 DEF PayBill, ServiceInv, Books
<1> QED
  BY <1>6, <1>8, <1>9, <1>10 DEF ServiceInv

LEMMA PayFailsInv ==
  ASSUME ServiceInv, NEW h \in Handlers, PayFails(h)
  PROVE  ServiceInv'
<1>1. PICK mined \in BOOLEAN : Become(h, Unpaid(h, mined))
  BY DEF PayFails
<1>2. Sound(Unpaid(h, mined), RowIds, Sure)
  BY UnderWay, UnpaidSound DEF PayFails, At
<1>3. faults' \in Nat
  BY DEF PayFails, ServiceInv, Books
<1> QED
  BY <1>1, <1>2, <1>3, QuietStep DEF PayFails

LEMMA PayLostInv ==
  ASSUME ServiceInv, NEW h \in Handlers, NEW hash \in BOOLEAN, PayLost(h, hash)
  PROVE  ServiceInv'
<1> DEFINE l == handlers[h]
<1>1. Sound(l, RowIds, Sure) /\ l.bill \in Bills
  BY UnderWay DEF PayLost, At
<1>2. payments' \in [Bills -> Nat] /\ \A b \in Bills : payments[b] <= payments'[b]
  BY <1>1, VaultPaysPaid DEF PayLost
<1>3. rows' = rows /\ RowIds' = RowIds /\ rows \in Seq(Row) /\ Len(rows) <= Len(rows') /\ faults' \in Nat
  BY DEF PayLost, Fault, RowIds, ServiceInv, Books
<1>4. Told' /\ aside' = aside
  BY ToldStays DEF PayLost
<1>5. Sure \subseteq Sure'
  BY <1>2, <1>4, SureGrows
<1>6. Sound(Unpaid(h, hash), RowIds, Sure')
  BY <1>1, <1>5, SoundLasts, UnpaidSound
<1>7. Become(h, Unpaid(h, hash))
  BY DEF PayLost
<1>8. Calls'
  BY <1>3, <1>5, <1>6, <1>7, CallsStep
<1>9. Books' /\ PaidIsPaid'
  BY <1>2, <1>3, <1>4, PaidStays DEF PayLost, ServiceInv, Books
<1> QED
  BY <1>4, <1>8, <1>9 DEF ServiceInv

LEMMA OpenRowInv ==
  ASSUME VaultInv, ServiceInv, NEW h \in Handlers, OpenRow(h)
  PROVE  ServiceInv'
<1> DEFINE l == handlers[h]
           row == [bill |-> l.bill, vaultId |-> l.vaultId, createdAt |-> now, status |-> "pending"]
<1>1. l \in CallOf(RowIds) /\ Sound(l, RowIds, Sure) /\ l.bill \in Bills
  BY UnderWay DEF OpenRow, At
<1>2. row \in Row /\ rows \in Seq(Row) /\ rows' = Append(rows, row)
  BY <1>1 DEF OpenRow, Row, RowStatus, CallOf, VaultInv, VaultTypeOK, ServiceInv, Books
<1> HIDE DEF row
<1>3. rows' \in Seq(Row) /\ Len(rows') = Len(rows) + 1 /\ Len(rows) \in Nat /\ Len(rows) <= Len(rows')
  BY <1>2
<1>4. RowIds \subseteq RowIds' /\ Len(rows') \in RowIds'
  BY <1>3 DEF RowIds
<1>5. payments' = payments /\ payments \in [Bills -> Nat] /\ faults' \in Nat
  BY DEF OpenRow, ServiceInv, Books
<1>a. Told' /\ aside' = aside /\ Sure' = Sure
  BY <1>5, ToldStays DEF OpenRow, Sure
<1>6. Sound(l, RowIds', Sure')
  BY <1>1, <1>4, <1>a, SoundLasts
<1>7. Calls'
  <2>1. CASE Is(h, "handle")
    <3>1. Sound(Answered(h, "escalated"), RowIds', Sure')
      BY <1>6, AnsweredSound DEF Results
    <3>2. Become(h, Answered(h, "escalated"))
      BY <2>1 DEF OpenRow
    <3> QED
      BY <1>3, <1>a, <3>1, <3>2, CallsStep
  <2>2. CASE ~Is(h, "handle")
    <3> DEFINE new == [l EXCEPT !.at = "vault", !.fresh = Len(rows')]
    <3>1. Sound(new, RowIds', Sure')
      BY <1>4, <1>6 DEF Sound, CallOf, Place
    <3> HIDE DEF new
    <3>2. Become(h, new)
      BY <2>2 DEF OpenRow, new
    <3> QED
      BY <1>3, <1>a, <3>1, <3>2, CallsStep
  <2> QED
    BY <2>1, <2>2
<1>8. claims' \subseteq {EventOf(e) : e \in Events} \cup {ResolveOf(i) : i \in RowIds'}
  BY <1>4 DEF OpenRow, ServiceInv, Books
<1>9. Books' /\ PaidIsPaid'
  BY <1>3, <1>5, <1>8, <1>a DEF OpenRow, ServiceInv, Books, PaidIsPaid
<1> QED
  BY <1>7, <1>9, <1>a DEF ServiceInv

(* The two steps that write a bill: they call paid what is sure. *)
LEMMA WriteBillInv ==
  ASSUME ServiceInv, NEW h \in Handlers, UpdateBill(h) \/ CloseBill(h)
  PROVE  ServiceInv'
<1> DEFINE l == handlers[h]
<1>1. ~At(h, "idle") /\ l \in CallOf(RowIds) /\ Sound(l, RowIds, Sure) /\ l.bill \in Bills
  BY UnderWay DEF UpdateBill, CloseBill, At, CallOf
<1>2. /\ RowIds' = RowIds /\ payments' = payments /\ payments \in [Bills -> Nat]
      /\ rows \in Seq(Row) /\ rows' = rows /\ Len(rows) <= Len(rows')
  BY DEF UpdateBill, CloseBill, RowIds, ServiceInv, Books
<1>a. Told' /\ aside' = aside /\ Sure' = Sure
  BY <1>2, ToldStays DEF UpdateBill, CloseBill, Sure
<1>3. Calls'
  <2>1. Sound([l EXCEPT !.at = "record"], RowIds, Sure)
    BY <1>1, GoSound DEF Anywhere
  <2> QED
    BY <1>2, <1>a, <2>1, CallsStep DEF UpdateBill, CloseBill, Go
<1>4. PICK b \in Bills, status \in {"none", "paid", "escalated", "rejected"} :
        bills' = [bills EXCEPT ![b] = status] /\ (status = "paid" => b \in Sure)
  <2>1. CASE UpdateBill(h)
    <3>1. Own(h) \in Bills /\ l.said \in {"executed", "escalated", "denied"}
      BY <1>1, <2>1 DEF UpdateBill, At, Sound, Own
    <3>2. /\ BillStatus[l.said] \in {"none", "paid", "escalated", "rejected"}
          /\ BillStatus[l.said] = "paid" => Own(h) \in Sure
      BY <1>1, <3>1 DEF BillStatus, Sound, Own
    <3> QED
      BY <2>1, <3>1, <3>2 DEF UpdateBill
  <2>2. CASE CloseBill(h)
    <3>1. l.outcome \in {"none", "paid", "escalated", "rejected"} /\ (l.outcome = "paid" => l.bill \in Sure)
      BY <1>1, <2>2 DEF CloseBill, At, Sound, CallOf
    <3> QED
      BY <1>1, <2>2, <3>1 DEF CloseBill
  <2> QED
    BY <2>1, <2>2
<1>5. PaidIsPaid'
  <2>1. b \in Sure /\ b \notin aside => payments[b] > 0
    BY OperatorEventsAssumption DEF Sure
  <2> QED
    BY <1>2, <1>4, <1>a, <2>1 DEF ServiceInv, Books, PaidIsPaid
<1>6. Books'
  BY <1>2, <1>4 DEF UpdateBill, CloseBill, ServiceInv, Books
<1> QED
  BY <1>3, <1>5, <1>6, <1>a DEF ServiceInv

LEMMA ReadHeadInv ==
  ASSUME ServiceInv, NEW h \in Handlers, ReadHead(h)
  PROVE  ServiceInv'
<1> DEFINE new == [handlers[h] EXCEPT !.at = "append", !.behind = FALSE]
<1>1. Sound(new, RowIds, Sure)
  BY ZenonT(60), UnderWay DEF ReadHead, At, Sound, CallOf, Place
<1>2. faults' \in Nat
  BY DEF ReadHead, ServiceInv, Books
<1>3. Become(h, new)
  BY DEF ReadHead
<1> HIDE DEF new
<1> QED
  BY <1>1, <1>2, <1>3, QuietStep DEF ReadHead

(* An append moves its own call on and the calls it overtakes behind. *)
LEMMA OvertakenSound ==
  ASSUME ServiceInv, NEW g \in Handlers
  PROVE  Overtaken(g) = NoCall \/ Sound(Overtaken(g), RowIds, Sure)
<1>1. CASE At(g, "append")
  BY <1>1, UnderWay DEF At, Overtaken, Sound, CallOf
<1>2. CASE ~At(g, "append")
  BY <1>2 DEF Overtaken, ServiceInv, Calls
<1> QED
  BY <1>1, <1>2

LEMMA RecordedSound ==
  ASSUME ServiceInv, NEW h \in Handlers, At(h, "append")
  PROVE  Tidy(Recorded(handlers[h])) = NoCall \/ Sound(Tidy(Recorded(handlers[h])), RowIds, Sure)
<1> DEFINE l == handlers[h]
           new == Recorded(l)
<1>1. Sound(l, RowIds, Sure)
  BY UnderWay DEF At
<1>2. new = NoCall \/ Sound(new, RowIds, Sure)
  <2>1. CASE l.flow = "expire" /\ l.todo # {}
    <3>1. new = [l EXCEPT !.at = "lapse"]
      BY <2>1 DEF Recorded
    <3>2. Sound([l EXCEPT !.at = "lapse"], RowIds, Sure)
      BY <1>1, <2>1 DEF Sound, CallOf, Place
    <3> QED
      BY <3>1, <3>2
  <2>2. CASE l.flow # "expire" /\ ~l.keep
    <3>1. new = [l EXCEPT !.at = "unclaim"]
      BY <2>2 DEF Recorded
    <3>2. Sound([l EXCEPT !.at = "unclaim"], RowIds, Sure)
      BY <1>1 DEF Sound, CallOf, Place
    <3> QED
      BY <3>1, <3>2
  <2>3. CASE (l.flow = "expire" /\ l.todo = {}) \/ (l.flow # "expire" /\ l.keep)
    BY <2>3 DEF Recorded
  <2> QED
    BY <2>1, <2>2, <2>3
<1>3. 0 \in RowIds
  BY DEF RowIds, ServiceInv, Books
<1>4. Tidy(NoCall) = NoCall
  BY DEF Tidy, NoCall
<1> HIDE DEF new
<1>5. Tidy(new) = NoCall \/ Sound(Tidy(new), RowIds, Sure)
  BY <1>2, <1>3, <1>4, TidySound
<1> QED
  BY <1>5 DEF new

(* Steps that move all the calls and nothing else of what is sound. *)
LEMMA AllCallsStep ==
  ASSUME ServiceInv, NEW f, handlers' = [g \in Handlers |-> f[g]],
         \A g \in Handlers : f[g] = NoCall \/ Sound(f[g], RowIds, Sure),
         rows' = rows, Sure \subseteq Sure'
  PROVE  Calls'
<1>1. RowIds' = RowIds /\ \A g \in Handlers : f[g] = NoCall \/ Sound(f[g], RowIds, Sure')
  BY SoundLasts DEF RowIds
<1>2. \A g \in Handlers : f[g] \in HandlerOf(RowIds)
  BY DEF HandlerOf, Sound
<1> QED
  BY <1>1, <1>2 DEF Calls

LEMMA AppendDecisionInv ==
  ASSUME ServiceInv, NEW h \in Handlers, AppendDecision(h)
  PROVE  ServiceInv'
<1> DEFINE f == [g \in Handlers |-> IF g = h THEN Tidy(Recorded(handlers[h])) ELSE Overtaken(g)]
<1>1. \A g \in Handlers : f[g] = NoCall \/ Sound(f[g], RowIds, Sure)
  BY OvertakenSound, RecordedSound DEF AppendDecision
<1>2. handlers' = [g \in Handlers |-> f[g]]
  BY DEF AppendDecision
<1> HIDE DEF f
<1>a. Told' /\ aside' = aside /\ Sure' = Sure
  BY ToldStays DEF AppendDecision, Sure
<1>3. Calls'
  BY <1>1, <1>2, <1>a, AllCallsStep DEF AppendDecision
<1>4. handlers[h].event \in Events
  BY UnderWay DEF AppendDecision, At
<1>5. Books' /\ PaidIsPaid'
  BY <1>4, <1>a DEF AppendDecision, ServiceInv, Books, PaidIsPaid, RowIds
<1> QED
  BY <1>3, <1>5, <1>a DEF ServiceInv

LEMMA FundInv ==
  ASSUME ServiceInv, Fund
  PROVE  ServiceInv'
<1> DEFINE f == [g \in Handlers |-> Overtaken(g)]
<1>1. \A g \in Handlers : f[g] = NoCall \/ Sound(f[g], RowIds, Sure)
  BY OvertakenSound
<1>2. handlers' = [g \in Handlers |-> f[g]]
  BY DEF Fund
<1> HIDE DEF f
<1>a. Told' /\ aside' = aside /\ Sure' = Sure
  BY ToldStays DEF Fund, Sure
<1>3. Calls'
  BY <1>1, <1>2, <1>a, AllCallsStep DEF Fund
<1>4. Books' /\ PaidIsPaid'
  BY <1>a DEF Fund, ServiceInv, Books, PaidIsPaid, RowIds
<1> QED
  BY <1>3, <1>4, <1>a DEF ServiceInv

LEMMA RelinkInv ==
  ASSUME ServiceInv, NEW h \in Handlers, Relink(h) \/ RecordThrows(h)
  PROVE  ServiceInv'
<1>1. ~At(h, "idle") /\ faults' \in Nat
  BY DEF Relink, RecordThrows, At, ServiceInv, Books
<1> QED
  BY <1>1, GoStep, DoneStep DEF Relink, RecordThrows, Anywhere

-----------------------------------------------------------------------------
(* The owner's requests and the stale rows. *)
LEMMA RowOf ==
  ASSUME ServiceInv
  PROVE  /\ DOMAIN rows = RowIds \ {0}
         /\ \A i \in DOMAIN rows : rows[i] \in Row /\ rows[i].bill \in Bills /\ rows[i].vaultId \in Nat
<1>1. rows \in Seq(Row)
  BY DEF ServiceInv, Books
<1>2. DOMAIN rows = 1..Len(rows) /\ Len(rows) \in Nat
  BY <1>1
<1>3. \A i \in DOMAIN rows : rows[i] \in Row
  BY <1>1
<1>4. 1..Len(rows) = (0..Len(rows)) \ {0}
  BY <1>2
<1> QED
  BY <1>2, <1>3, <1>4 DEF RowIds, Row

LEMMA BeginResolveInv ==
  ASSUME ServiceInv, NEW h \in Handlers, NEW i \in DOMAIN rows, NEW flow \in {"approve", "reject"},
         BeginResolve(h, i, flow)
  PROVE  ServiceInv'
<1> DEFINE new == [New(flow, rows[i].bill, "claim") EXCEPT !.row = i, !.vaultId = rows[i].vaultId]
<1>1. Sound(New(flow, rows[i].bill, "claim"), RowIds, Sure)
  BY RowOf, NewSound DEF Anywhere
<1>2. Sound(new, RowIds, Sure)
  BY <1>1, RowOf DEF Sound, CallOf, New
<1>3. Told' /\ aside' = aside /\ Sure' = Sure /\ faults' \in Nat
  BY DEF BeginResolve, ServiceInv, Books, Told, Sure
<1>4. Become(h, new)
  BY DEF BeginResolve
<1> HIDE DEF new
<1> QED
  BY <1>2, <1>3, <1>4, BooksStep DEF BeginResolve

LEMMA CheckRowInv ==
  ASSUME ServiceInv, NEW h \in Handlers, CheckRow(h)
  PROVE  ServiceInv'
<1>1. ~At(h, "idle") /\ faults' \in Nat
  BY DEF CheckRow, At, ServiceInv, Books
<1>2. CASE \E place \in Anywhere : Go(h, place)
  BY <1>1, <1>2, GoStep DEF CheckRow
<1>3. CASE ~Is(h, "approve") /\ Go(h, "row")
  <2>1. Sound([handlers[h] EXCEPT !.at = "row"], RowIds, Sure)
    BY <1>1, <1>3, UnderWay DEF Sound, CallOf, Place, Is
  <2> QED
    BY <1>1, <1>3, <2>1, QuietStep DEF CheckRow, Go
<1> QED
  BY <1>2, <1>3 DEF CheckRow, Anywhere

LEMMA OwnerCallPays ==
  ASSUME ServiceInv, NEW h \in Handlers, handlers[h].bill \in Bills, OwnerCall(h)
  PROVE  /\ payments' \in [Bills -> Nat] /\ \A b \in Bills : payments[b] <= payments'[b]
         /\ Is(h, "approve") => payments'[handlers[h].bill] > 0
<1>1. payments \in [Bills -> Nat]
  BY DEF ServiceInv, Books
<1> QED
  BY <1>1 DEF OwnerCall

(* What a call becomes after the vault's answer, when a payment the answer *)
(* tells of has been made.                                                 *)
LEMMA AfterVaultSound ==
  ASSUME ServiceInv, NEW h \in Handlers, ~At(h, "idle"), NEW ok \in BOOLEAN, NEW keep \in BOOLEAN,
         rows' = rows, Sure \subseteq Sure', ok /\ Is(h, "approve") => handlers[h].bill \in Sure',
         AfterVault(h, ok, keep)
  PROVE  Calls'
<1> DEFINE l == handlers[h]
           at == IF l.fresh # 0 THEN "fresh" ELSE IF ok THEN "row" ELSE "record"
           outcome == IF ~ok THEN "none" ELSE IF Is(h, "approve") THEN "paid" ELSE "rejected"
           new == [l EXCEPT !.at = at, !.outcome = outcome, !.keep = keep]
<1>1. Become(h, new)
  BY DEF AfterVault
<1>2. Sound(l, RowIds, Sure) /\ RowIds' = RowIds /\ rows \in Seq(Row) /\ Len(rows) <= Len(rows')
  BY UnderWay DEF RowIds, ServiceInv, Books
<1>3. Sound(l, RowIds', Sure')
  BY <1>2, SoundLasts
<1>4. /\ at \in {"fresh", "row", "record"} /\ outcome \in {"none", "paid", "rejected"}
      /\ outcome = "paid" => l.bill \in Sure'
      /\ at = "row" /\ l.flow = "approve" /\ l.fresh = 0 => l.bill \in Sure'
      /\ at = "row" => l.fresh = 0
  BY DEF Is
<1> HIDE DEF at, outcome
<1>5. new \in CallOf(RowIds')
  BY ZenonT(60), <1>3, <1>4 DEF Sound, CallOf, Place
<1>6. /\ new.at = at /\ new.outcome = outcome /\ new.bill = l.bill /\ new.flow = l.flow
      /\ new.said = l.said /\ new.event = l.event
  BY <1>3 DEF Sound, CallOf
<1> HIDE DEF new
<1>7. Sound(new, RowIds', Sure')
  BY <1>3, <1>4, <1>5, <1>6 DEF Sound
<1> QED
  BY <1>1, <1>2, <1>7, CallsStep

LEMMA VaultCallInv ==
  ASSUME ServiceInv, NEW h \in Handlers,
         VaultCall(h) \/ VaultCallRefused(h) \/ VaultCallFails(h) \/ \E hash \in BOOLEAN : VaultCallLost(h, hash)
  PROVE  ServiceInv'
<1>1. /\ ~At(h, "idle") /\ handlers[h].bill \in Bills /\ payments \in [Bills -> Nat]
      /\ UNCHANGED <<bills, rows, claims, decided>> /\ UNCHANGED history /\ faults' \in Nat
  <2>1. At(h, "vault") /\ UNCHANGED <<bills, rows, claims, decided, history>> /\ (UNCHANGED faults \/ Fault)
    BY DEF VaultCall, VaultCallRefused, VaultCallFails, VaultCallLost
  <2>2. ~At(h, "idle")
    BY <2>1 DEF At
  <2>3. faults' \in Nat /\ payments \in [Bills -> Nat]
    BY <2>1 DEF Fault, ServiceInv, Books
  <2> QED
    BY <2>1, <2>2, <2>3, UnderWay
<1>2. PICK ok \in BOOLEAN, keep \in BOOLEAN :
         AfterVault(h, ok, keep) /\ (IF ok THEN OwnerCall(h) ELSE OwnerCall(h) \/ UNCHANGED payments)
  <2>1. CASE VaultCall(h)
    BY <2>1 DEF VaultCall
  <2>2. CASE VaultCallFails(h)
    BY <2>2 DEF VaultCallFails
  <2>4. CASE VaultCallRefused(h)
    <3>1. PICK mined \in BOOLEAN : AfterVault(h, FALSE, mined /\ Is(h, "approve"))
      BY <2>4 DEF VaultCallRefused
    <3> DEFINE keep == mined /\ Is(h, "approve")
    <3>2. keep \in BOOLEAN /\ AfterVault(h, FALSE, keep) /\ UNCHANGED payments
      BY <2>4, <3>1 DEF VaultCallRefused, Is
    <3> QED
      BY <3>2
  <2>3. CASE \E hash \in BOOLEAN : VaultCallLost(h, hash)
    <3>1. PICK hash \in BOOLEAN : VaultCallLost(h, hash)
      BY <2>3
    <3> DEFINE keep == hash /\ Is(h, "approve")
    <3>2. keep \in BOOLEAN /\ AfterVault(h, FALSE, keep) /\ OwnerCall(h)
      BY <3>1 DEF VaultCallLost, Is
    <3> QED
      BY <3>2
  <2> QED
    BY <2>1, <2>2, <2>3, <2>4
<1>3. /\ payments' \in [Bills -> Nat] /\ \A b \in Bills : payments[b] <= payments'[b]
      /\ ok /\ Is(h, "approve") => payments'[handlers[h].bill] > 0
  <2>1. CASE OwnerCall(h)
    BY <1>1, <2>1, OwnerCallPays
  <2>2. CASE ~ok /\ UNCHANGED payments
    BY <1>1, <2>2
  <2> QED
    BY <1>2, <2>1, <2>2
<1>a. Told' /\ aside' = aside
  BY <1>1, ToldStays
<1>b. Sure \subseteq Sure' /\ (ok /\ Is(h, "approve") => handlers[h].bill \in Sure')
  BY <1>1, <1>3, <1>a, SureGrows DEF Sure
<1>4. Calls'
  BY <1>1, <1>2, <1>b, AfterVaultSound
<1>5. PaidIsPaid'
  BY <1>1, <1>3, <1>a, PaidStays
<1>6. Books'
  BY <1>1, <1>3 DEF ServiceInv, Books, RowIds
<1> QED
  BY <1>4, <1>5, <1>6, <1>a DEF ServiceInv

(* Writing a row's status. *)
LEMMA RowStatusType ==
  ASSUME ServiceInv, NEW i, NEW status \in RowStatus
  PROVE  /\ [rows EXCEPT ![i].status = status] \in Seq(Row)
         /\ Len([rows EXCEPT ![i].status = status]) = Len(rows) /\ Len(rows) \in Nat
<1> DEFINE new == [rows EXCEPT ![i].status = status]
<1>1. rows \in Seq(Row)
  BY DEF ServiceInv, Books
<1>2. DOMAIN new = 1..Len(rows) /\ Len(rows) \in Nat
  BY <1>1
<1>3. ASSUME NEW j \in 1..Len(rows) PROVE new[j] \in Row
  <2>1. rows[j] \in Row
    BY <1>1
  <2>3. \A r \in Row : [r EXCEPT !.status = status] \in Row
    BY DEF Row
  <2>2. new[j] = IF j = i THEN [rows[j] EXCEPT !.status = status] ELSE rows[j]
    BY <1>2
  <2> QED
    BY <2>1, <2>2, <2>3
<1>4. new = [j \in 1..Len(rows) |-> new[j]]
  BY <1>2
<1>5. new \in [1..Len(rows) -> Row]
  BY <1>3, <1>4
<1> HIDE DEF new
<1>6. new \in Seq(Row) /\ Len(new) = Len(rows)
  BY <1>2, <1>5
<1> QED
  BY <1>2, <1>6 DEF new

LEMMA RowStep ==
  ASSUME ServiceInv, NEW h \in Handlers, NEW l, Become(h, l), Sound(l, RowIds, Sure),
         rows' \in Seq(Row), Len(rows') = Len(rows), UNCHANGED <<bills, claims, decided, payments, history, faults>>
  PROVE  ServiceInv'
<1>1. RowIds' = RowIds /\ rows \in Seq(Row) /\ Len(rows) <= Len(rows')
  BY DEF RowIds, ServiceInv, Books
<1>2. Told' /\ aside' = aside /\ Sure' = Sure
  BY ToldStays DEF Sure
<1>3. Calls'
  BY <1>1, <1>2, CallsStep
<1>4. Books' /\ PaidIsPaid'
  BY <1>1, <1>2 DEF ServiceInv, Books, PaidIsPaid
<1> QED
  BY <1>2, <1>3, <1>4 DEF ServiceInv

LEMMA ApproveFreshInv ==
  ASSUME ServiceInv, NEW h \in Handlers, ApproveFresh(h)
  PROVE  ServiceInv'
<1> DEFINE l == handlers[h]
           at == IF l.outcome = "paid" THEN "row" ELSE "record"
           new == [l EXCEPT !.at = at]
<1>1. Sound(new, RowIds, Sure)
  BY UnderWay DEF ApproveFresh, At, Sound, CallOf, Place
<1>2. rows' \in Seq(Row) /\ Len(rows') = Len(rows)
  BY RowStatusType DEF ApproveFresh, RowStatus, ServiceInv, Books
<1>3. Become(h, new)
  BY DEF ApproveFresh, Go
<1> HIDE DEF new
<1> QED
  BY <1>1, <1>2, <1>3, RowStep DEF ApproveFresh

LEMMA LoadRowInv ==
  ASSUME ServiceInv, NEW h \in Handlers, LoadRow(h)
  PROVE  ServiceInv'
<1>1. /\ ~At(h, "idle") /\ faults' \in Nat
  BY DEF LoadRow, At, ServiceInv, Books
<1>2. CASE Go(h, "unclaim")
  BY <1>1, <1>2, GoStep DEF LoadRow, Anywhere
<1>3. CASE Go(h, "save")
  <2>1. Sound([handlers[h] EXCEPT !.at = "save"], RowIds, Sure)
    BY UnderWay DEF LoadRow, At, Sound, CallOf, Place
  <2> QED
    BY <1>1, <1>3, <2>1, QuietStep DEF LoadRow, Go
<1> QED
  BY <1>2, <1>3 DEF LoadRow

LEMMA SaveRowInv ==
  ASSUME ServiceInv, NEW h \in Handlers, SaveRow(h)
  PROVE  ServiceInv'
<1> DEFINE l == handlers[h]
           outcome == IF Is(h, "approve") THEN "paid" ELSE "rejected"
           new == [l EXCEPT !.at = "find", !.outcome = outcome]
<1>1. Sound(new, RowIds, Sure)
  BY ZenonT(60), UnderWay DEF SaveRow, At, Sound, CallOf, Place, Is
<1>2. rows' \in Seq(Row) /\ Len(rows') = Len(rows)
  BY RowStatusType DEF SaveRow, RowStatus
<1>3. Become(h, new)
  BY DEF SaveRow
<1> HIDE DEF new
<1> QED
  BY <1>1, <1>2, <1>3, RowStep DEF SaveRow

LEMMA FindBillInv ==
  ASSUME ServiceInv, NEW h \in Handlers, FindBill(h)
  PROVE  ServiceInv'
<1>1. ~At(h, "idle") /\ faults' \in Nat
  BY DEF FindBill, At, ServiceInv, Books
<1>2. Sound([handlers[h] EXCEPT !.at = "close"], RowIds, Sure)
  BY UnderWay DEF FindBill, At, Sound, CallOf, Place
<1> QED
  BY <1>1, <1>2, GoStep, QuietStep DEF FindBill, Go, Anywhere

LEMMA ListStaleInv ==
  ASSUME ServiceInv, NEW h \in Handlers, ListStale(h)
  PROVE  ServiceInv'
<1> DEFINE b == rows[One(StaleRows)].bill
           new == [New("expire", b, "stale") EXCEPT !.todo = StaleRows, !.done = StaleRows]
<1>1. One(StaleRows) \in StaleRows /\ StaleRows # {}
  BY DEF ListStale, One
<1>2. StaleRows \subseteq RowIds \ {0} /\ b \in Bills
  BY <1>1, RowOf DEF StaleRows
<1>3. 0 \in RowIds
  BY DEF RowIds, ServiceInv, Books
<1> DEFINE base == New("expire", b, "stale")
<1>4. base \in CallOf(RowIds) /\ base.said = "deferred" /\ base.at = "stale"
  BY <1>2, <1>3, OperatorEventsAssumption, OperatorBoundAssumption DEF New, CallOf, Place, Results
<1> HIDE DEF base, b
<1>5. new = [[base EXCEPT !.todo = StaleRows] EXCEPT !.done = StaleRows]
  BY DEF base
<1> DEFINE begun == [base EXCEPT !.todo = StaleRows]
<1>6. begun \in CallOf(RowIds) /\ begun.todo # {} /\ begun.said = "deferred" /\ begun.at = "stale"
  BY <1>1, <1>2, <1>4 DEF CallOf
<1> HIDE DEF begun
<1> DEFINE listed == [begun EXCEPT !.done = StaleRows]
<1>7. /\ listed \in CallOf(RowIds) /\ listed.todo # {} /\ listed.done # {}
      /\ listed.said = "deferred" /\ listed.at = "stale"
  BY <1>1, <1>2, <1>6 DEF CallOf
<1>8. Sound(listed, RowIds, Sure)
  BY <1>7 DEF Sound
<1>9. Become(h, listed) /\ faults' \in Nat
  BY <1>5 DEF ListStale, ServiceInv, Books, b, base, begun
<1> HIDE DEF new, listed
<1> QED
  BY <1>8, <1>9, QuietStep DEF ListStale

LEMMA SaveExpiredInv ==
  ASSUME ServiceInv, NEW h \in Handlers, SaveExpired(h)
  PROVE  ServiceInv'
<1> DEFINE l == handlers[h]
           i == One(l.todo)
           left == l.todo \ {i}
<1>1. Sound(l, RowIds, Sure) /\ l.at = "stale"
  BY UnderWay DEF SaveExpired, At
<1>2. rows' \in Seq(Row) /\ Len(rows') = Len(rows)
  BY RowStatusType DEF SaveExpired, RowStatus
<1>3. CASE left = {}
  <2> DEFINE new == [l EXCEPT !.at = "lapse", !.todo = l.done]
  <2>1. Sound(new, RowIds, Sure)
    BY <1>1 DEF Sound, CallOf, Place
  <2>2. Become(h, new)
    BY <1>3 DEF SaveExpired
  <2> HIDE DEF new
  <2> QED
    BY <1>2, <2>1, <2>2, RowStep DEF SaveExpired
<1>4. CASE left # {}
  <2> DEFINE new == [l EXCEPT !.todo = left]
  <2>1. Sound(new, RowIds, Sure)
    BY <1>1, <1>4 DEF Sound, CallOf, Place
  <2>2. Become(h, new)
    BY <1>4 DEF SaveExpired
  <2> HIDE DEF new
  <2> QED
    BY <1>2, <2>1, <2>2, RowStep DEF SaveExpired
<1> QED
  BY <1>3, <1>4

LEMMA NextExpired ==
  ASSUME ServiceInv, NEW h \in Handlers, At(h, "lapse")
  PROVE  One(handlers[h].todo) \in DOMAIN rows
<1>1. handlers[h].todo # {} /\ handlers[h].todo \subseteq RowIds \ {0}
  BY UnderWay DEF At, Sound, CallOf
<1>2. RowIds \ {0} = DOMAIN rows
  BY RowOf
<1> QED
  BY <1>1, <1>2 DEF One

LEMMA ExpireNextInv ==
  ASSUME ServiceInv, NEW h \in Handlers, NEW called \in BOOLEAN, ExpireNext(h, called)
  PROVE  ServiceInv'
<1> DEFINE l == handlers[h]
           i == One(l.todo)
           left == l.todo \ {i}
           new == [l EXCEPT !.at = "find", !.todo = left, !.bill = rows[i].bill, !.outcome = "rejected"]
<1>1. rows[i].bill \in Bills
  BY NextExpired, RowOf DEF ExpireNext
<1>2. Sound(l, RowIds, Sure)
  BY UnderWay DEF ExpireNext, At
<1>3. left \in SUBSET (RowIds \ {0})
  BY <1>2 DEF Sound, CallOf
<1> HIDE DEF left, i
<1>4. Sound(new, RowIds, Sure)
  BY <1>1, <1>2, <1>3 DEF Sound, CallOf, Place
<1>5. Become(h, new) /\ faults' \in Nat
  BY DEF ExpireNext, ServiceInv, Books, i, left
<1> HIDE DEF new
<1> QED
  BY <1>4, <1>5, QuietStep DEF ExpireNext

LEMMA ThrowsInv ==
  ASSUME ServiceInv, NEW h \in Handlers, Kill(h) \/ ResolveThrows(h)
  PROVE  ServiceInv'
<1>1. faults' \in Nat
  BY DEF Kill, ResolveThrows, Fault, ServiceInv, Books
<1>2. CASE Kill(h)
  BY <1>1, <1>2, DoneStep DEF Kill
<1>3. CASE ResolveThrows(h)
  <2>1. ~At(h, "idle")
    BY <1>3 DEF ResolveThrows, At
  <2> QED
    BY <1>1, <1>3, <2>1, GoStep DEF ResolveThrows, Anywhere
<1> QED
  BY <1>2, <1>3

LEMMA ServiceStutterInv ==
  ASSUME ServiceInv, UNCHANGED serviceVars
  PROVE  ServiceInv'
BY DEF ServiceInv, Books, Told, Calls, PaidIsPaid, Sure, RowIds, serviceVars, history

-----------------------------------------------------------------------------
(* What the service does to the vault is a transaction of the vault. *)
LEMMA VaultPaysIsVault ==
  ASSUME VaultInv, NEW b \in Bills, VaultPays(b) \/ VaultReserves(b)
  PROVE  VaultNext
<1>1. operator \in Accounts /\ PayTo[b] \in Payees /\ Owed[b] \in Amounts /\ b \in Decisions
  BY OperatorBillsAssumption DEF VaultInv, VaultTypeOK
<1>2. "OPERATING" \in Buckets
  BY DEF Buckets
<1>3. OperatorNext
  BY <1>1, <1>2 DEF VaultPays, VaultReserves, OperatorNext
<1> QED
  BY <1>3 DEF VaultNext

LEMMA OwnerCallIsVault ==
  ASSUME VaultInv, NEW h \in Handlers, OwnerCall(h)
  PROVE  VaultNext
<1>1. owner \in Accounts
  BY DEF VaultInv, VaultTypeOK
<1>2. CASE Approve(owner, handlers[h].vaultId)
  <2>1. handlers[h].vaultId \in PendingIds
    BY <1>2 DEF Approve
  <2> QED
    BY <1>1, <1>2, <2>1 DEF VaultNext, OwnerNext
<1>3. CASE Reject(owner, handlers[h].vaultId)
  <2>1. handlers[h].vaultId \in PendingIds
    BY <1>3 DEF Reject, Release
  <2> QED
    BY <1>1, <1>3, <2>1 DEF VaultNext, OwnerNext
<1> QED
  BY <1>2, <1>3 DEF OwnerCall

LEMMA FundIsVault ==
  ASSUME VaultInv, FundBills
  PROVE  VaultNext
BY DEF FundBills, VaultNext, VaultInv, VaultTypeOK

LEMMA WorldIsVault ==
  ASSUME VaultInv, World
  PROVE  VaultNext
<1>1. owner \in Accounts /\ operator \in Accounts
  BY DEF VaultInv, VaultTypeOK
<1>2. CASE Fund
  BY <1>2, FundIsVault DEF Fund
<1>3. CASE OwnerAdmin
  BY <1>1, <1>3 DEF OwnerAdmin, VaultNext, OwnerNext
<1>4. CASE (\E amount \in Amounts : Inflow(amount)) \/ VaultTick
  BY <1>4 DEF VaultNext
<1> QED
  BY <1>2, <1>3, <1>4 DEF World

LEMMA BeginKeepsVault ==
  ASSUME NEW h \in Handlers, Begin(h)
  PROVE  UNCHANGED vaultVars
BY DEF Begin, Intake, PickDue, BeginResolve, ListStale

LEMMA ContinueIsVault ==
  ASSUME OperatorInv, NEW h \in Handlers, Continue(h)
  PROVE  VaultNext \/ UNCHANGED vaultVars
<1>1. CASE PayBill(h)
  <2>1. handlers[h].bill \in Bills
    BY <1>1, UnderWay DEF OperatorInv, PayBill, At
  <2> QED
    BY <1>1, <2>1, VaultPaysIsVault DEF OperatorInv, PayBill
<1>2. CASE VaultCall(h)
  BY <1>2, OwnerCallIsVault DEF OperatorInv, VaultCall
<1>3. CASE \E called \in BOOLEAN : ExpireNext(h, called)
  <2>1. ASSUME NEW i, Expire(i) PROVE VaultNext
    BY <2>1 DEF Expire, VaultNext
  <2> QED
    BY <1>3, <2>1 DEF ExpireNext
<1>a. CASE \E status \in Results : ProposeAside(h, status)
  BY <1>a, FundIsVault DEF OperatorInv, ProposeAside
<1>b. CASE \E b \in Bills : ProposeUnmatched(h, b) \/ \E place \in Place : ProposePayout(h, b, place)
  BY <1>b DEF ProposeUnmatched, ProposePayout
<1>4. CASE \/ TakeClaim(h) \/ Unclaim(h) \/ ReadBills(h) \/ EngineThrows(h) \/ Decide(h) \/ Finish(h) \/ PayFails(h) \/ OpenRow(h) \/ UpdateBill(h)
           \/ ReadHead(h) \/ AppendDecision(h) \/ Relink(h) \/ RecordThrows(h)
           \/ CheckRow(h) \/ VaultCallRefused(h) \/ ApproveFresh(h)
           \/ LoadRow(h) \/ SaveRow(h) \/ FindBill(h) \/ CloseBill(h) \/ SaveExpired(h)
  BY <1>4 DEF TakeClaim, Unclaim, ReadBills, EngineThrows, Decide, Finish, PayFails, OpenRow, UpdateBill, ReadHead, AppendDecision, Relink,
     RecordThrows, CheckRow, VaultCallRefused, ApproveFresh, LoadRow, SaveRow, FindBill, CloseBill, SaveExpired
<1> QED
  BY <1>1, <1>2, <1>3, <1>4, <1>a, <1>b DEF Continue

LEMMA FaultIsVault ==
  ASSUME OperatorInv, NEW h \in Handlers,
         \/ VaultCallFails(h) \/ ResolveThrows(h) \/ Kill(h)
         \/ \E hash \in BOOLEAN : PayLost(h, hash) \/ VaultCallLost(h, hash)
  PROVE  VaultNext \/ UNCHANGED vaultVars
<1>1. CASE VaultCallFails(h) \/ ResolveThrows(h) \/ Kill(h)
  BY <1>1 DEF VaultCallFails, ResolveThrows, Kill
<1>2. CASE \E hash \in BOOLEAN : PayLost(h, hash)
  <2>1. handlers[h].bill \in Bills
    BY <1>2, UnderWay DEF OperatorInv, PayLost, At
  <2> QED
    BY <1>2, <2>1, VaultPaysIsVault DEF OperatorInv, PayLost
<1>3. CASE \E hash \in BOOLEAN : VaultCallLost(h, hash)
  BY <1>3, OwnerCallIsVault DEF OperatorInv, VaultCallLost
<1> QED
  BY <1>1, <1>2, <1>3

(* Each step of the service, its owner, the chain and the clock is one     *)
(* step of OperatorVault.sol or leaves it alone.                           *)
THEOREM OperatorStepsVault ==
  ASSUME OperatorInv, [OperatorStep]_operatorVars
  PROVE  [VaultNext]_vaultVars
BY WorldIsVault, BeginKeepsVault, ContinueIsVault, FaultIsVault DEF OperatorInv, OperatorStep, operatorVars

-----------------------------------------------------------------------------
LEMMA ContinueInv ==
  ASSUME OperatorInv, NEW h \in Handlers, Continue(h)
  PROVE  ServiceInv'
BY ClaimInv, ReadBillsInv, EngineThrowsInv, DecideInv, ProposeInv, ProposeAsideInv, FinishInv, PayBillInv, PayFailsInv, OpenRowInv, WriteBillInv, ReadHeadInv, AppendDecisionInv,
   RelinkInv, CheckRowInv, VaultCallInv, ApproveFreshInv, LoadRowInv, SaveRowInv, FindBillInv,
   SaveExpiredInv, ExpireNextInv DEF OperatorInv, Continue

LEMMA BeginInv ==
  ASSUME OperatorInv, NEW h \in Handlers, Begin(h)
  PROVE  ServiceInv'
BY IntakeInv, PickDueInv, BeginResolveInv, ListStaleInv DEF OperatorInv, Begin

LEMMA WorldInv ==
  ASSUME OperatorInv, World
  PROVE  ServiceInv'
BY FundInv, ServiceStutterInv DEF OperatorInv, World, OwnerAdmin

LEMMA FaultInv ==
  ASSUME OperatorInv, NEW h \in Handlers,
         \/ VaultCallFails(h) \/ ResolveThrows(h) \/ Kill(h)
         \/ \E hash \in BOOLEAN : PayLost(h, hash) \/ VaultCallLost(h, hash)
  PROVE  ServiceInv'
BY VaultCallInv, ThrowsInv, PayLostInv DEF OperatorInv

THEOREM OperatorStepInv ==
  ASSUME OperatorInv, [OperatorStep]_operatorVars
  PROVE  OperatorInv'
<1>1. VaultInv'
  BY OperatorStepsVault, VaultStepInv DEF OperatorInv
<1>2. ServiceInv'
  <2>1. CASE OperatorStep
    BY <2>1, ContinueInv, BeginInv, WorldInv, FaultInv DEF OperatorStep
  <2>2. CASE UNCHANGED operatorVars
    BY <2>2, ServiceStutterInv DEF OperatorInv, operatorVars
  <2> QED
    BY <2>1, <2>2
<1> QED
  BY <1>1, <1>2 DEF OperatorInv

LEMMA ServiceInitInv == ASSUME VaultInv, ServiceInit PROVE OperatorInv
<1>1. /\ rows = <<>> /\ handlers = [h \in Handlers |-> NoCall] /\ claims = {} /\ decided = {}
      /\ bills = [b \in Bills |-> "none"] /\ payments = [b \in Bills |-> 0] /\ faults = 0
  BY DEF ServiceInit
<1>2. Books
  BY <1>1 DEF Books
<1>3. Told
  BY DEF ServiceInit, Told
<1>4. Calls
  BY <1>1 DEF Calls, HandlerOf
<1>5. PaidIsPaid
  BY <1>1 DEF PaidIsPaid
<1> QED
  BY <1>2, <1>3, <1>4, <1>5 DEF OperatorInv, ServiceInv

LEMMA OperatorInitInv == OperatorInit => OperatorInv
BY VaultInitInv, ServiceInitInv DEF OperatorInit

(* The operator, whatever its engine decides, whatever is lost and however *)
(* often its calls are killed, implements the vault: a behaviour of the    *)
(* service is a behaviour of the vault alone, so the vault's guard rails   *)
(* bind it.                                                                *)
THEOREM OperatorImplementsVault == OperatorSpec => VaultSpec
<1>1. OperatorInit => VaultInit /\ OperatorInv
  BY OperatorInitInv DEF OperatorInit
<1>2. OperatorInv /\ [OperatorStep]_operatorVars => OperatorInv' /\ [VaultNext]_vaultVars
  BY OperatorStepInv, OperatorStepsVault
<1> QED
  BY <1>1, <1>2, PTL DEF OperatorSpec, VaultSpec

(* ... so the vault under the service is solvent and the operator within   *)
(* its cap, whatever the service does.                                     *)
THEOREM ServiceIsBound == OperatorSpec => [](VaultSolvent /\ OperatorWithinCap)
<1> QED
  BY OperatorImplementsVault, VaultIsSafe, VaultKeepsCap, PTL

(* A bill the books call paid was paid by the vault, unless a decision     *)
(* about it executed something else, and the service's state is of its     *)
(* type, whatever the engine proposes and through every interleaving,      *)
(* fault and kill.                                                         *)
THEOREM OperatorPays == OperatorSpec => [](OperatorTypeOK /\ PaidIsPaid)
<1>1. OperatorInit => OperatorInv
  BY OperatorInitInv
<1>2. OperatorInv /\ [OperatorStep]_operatorVars => OperatorInv'
  BY OperatorStepInv
<1>3. OperatorInv => OperatorTypeOK /\ PaidIsPaid
  BY DEF OperatorInv, ServiceInv, Books, Told, Calls, OperatorTypeOK, RowIds
<1> QED
  BY <1>1, <1>2, <1>3, PTL DEF OperatorSpec

-----------------------------------------------------------------------------
(***************************************************************************)
(* BillPaidOnce.  A payment of a bill spends a token.  A payout that was   *)
(* decided on gives the bill one: a call that may yet pay it holds it, an  *)
(* escalation the owner may yet approve, or a row that may yet be paid for *)
(* want of an escalation.  A call that has made an escalation and has not  *)
(* shown it to anyone holds one token for both.  Each step hands its token *)
(* on; a fault makes at most one, and so does a request on a row that an   *)
(* approval under way has opened.                                          *)
(***************************************************************************)
Bit(b) == IF b THEN 1 ELSE 0
Resolves(l) == l.flow \in {"approve", "reject"}

(* The escalation of a call that has yet to open its row, or to approve it *)
(* with the row it opened.                                                 *)
Opener(l) == l.at = "vault" /\ l.fresh # 0
Lone(l) == l.at = "open" \/ Opener(l)
Private(e) == \E g \in Handlers : Lone(handlers[g]) /\ handlers[g].vaultId = e
LiveOf(b) ==
  {e \in PendingIds : escalations[e].decision = b /\ ~TooOld(escalations[e]) /\ ~Private(e)}

(* A row without an escalation that the owner may approve.                 *)
Timely(i, rs, t) == i \in DOMAIN rs /\ rs[i].status = "pending" /\ ~(t > rs[i].createdAt + EscalationTTL)
OpenRows(b) ==
  {i \in DOMAIN rows : rows[i].bill = b /\ rows[i].vaultId = 0 /\ Timely(i, rows, now) /\ ResolveOf(i) \notin claims}

(* A call that may yet pay its bill, ...                                   *)
Spends(l, rs, t) ==
  \/ l.flow = "handle" /\ l.at \in {"pay", "open"}
  \/ /\ Resolves(l) /\ rs[l.row].vaultId = 0
     /\ \/ l.at \in {"pay", "open", "vault"}
        \/ /\ l.at \notin {"claim", "row", "save"} /\ ~(l.at = "fresh" /\ l.outcome = "paid")
           /\ Timely(l.row, rs, t)
(* ... or approve the row that another approval has just opened.           *)
Opened(i, hs) == \E g \in Handlers : Opener(hs[g]) /\ hs[g].fresh = i
Intrudes(l, hs) == l.flow = "approve" /\ l.at \in {"claim", "check", "vault"} /\ Opened(l.row, hs)
Uses(l, b, rs, t, hs) == l.at # "idle" /\ l.bill = b /\ (Spends(l, rs, t) \/ Intrudes(l, hs))
Holders(b) == {h \in Handlers : Uses(handlers[h], b, rows, now, handlers)}

Tokens(b) ==
  payments[b] + Cardinality(Holders(b)) + Cardinality(LiveOf(b)) + Cardinality(OpenRows(b))
Budget(b) == planned[b] + overlaps + faults
Counted(b) ==
  /\ IsFiniteSet(Holders(b)) /\ IsFiniteSet(LiveOf(b)) /\ IsFiniteSet(OpenRows(b))
  /\ Tokens(b) <= Budget(b)

(* The bills, rows and escalations that calls and rows name agree, and no  *)
(* two rows have one escalation.                                           *)
Known(e, b, es) == e \in DOMAIN es /\ es[e].decision = b
HandlePlaces == {"claim", "decide", "act", "pay", "open", "bill", "record", "append", "unclaim"}
ExpirePlaces == {"stale", "lapse", "find", "close", "record", "append"}
AgreesHandle(l) ==
  l.flow = "handle" => /\ l.at \in HandlePlaces /\ l.keep
                       /\ l.at \in {"claim", "decide", "act", "pay"} => l.vaultId = 0
AgreesVault(l, rs, es) ==
  /\ l.vaultId # 0 /\ Known(l.vaultId, l.bill, es)
  /\ l.fresh = 0 => rs[l.row].vaultId = l.vaultId
  /\ l.fresh # 0 => /\ l.flow = "approve" /\ rs[l.row].vaultId = 0
                    /\ l.fresh \in DOMAIN rs /\ rs[l.fresh].vaultId = l.vaultId
AgreesResolve(l, rs, es) ==
  Resolves(l) =>
    /\ l.at \notin {"decide", "act", "bill", "stale", "lapse"}
    /\ l.row \in DOMAIN rs /\ rs[l.row].bill = l.bill
    /\ l.at \in {"claim", "check"} => l.vaultId = rs[l.row].vaultId /\ l.fresh = 0
    /\ l.at = "pay" => l.flow = "approve" /\ l.vaultId = 0 /\ rs[l.row].vaultId = 0
    /\ l.at = "open" => l.flow = "approve" /\ l.vaultId # 0 /\ rs[l.row].vaultId = 0
    /\ l.at = "vault" => AgreesVault(l, rs, es)
AgreesOpen(l, rs, es) ==
  l.at = "open" /\ l.vaultId # 0 =>
    Known(l.vaultId, l.bill, es) /\ \A i \in DOMAIN rs : rs[i].vaultId # l.vaultId
Agrees(l, rs, es) ==
  /\ AgreesHandle(l)
  /\ l.flow = "expire" => l.at \in ExpirePlaces
  /\ AgreesResolve(l, rs, es)
  /\ AgreesOpen(l, rs, es)

OpenApart(l, m) == l.at = "open" /\ m.at = "open" /\ l.vaultId # 0 => m.vaultId # l.vaultId
NamesInv ==
  /\ \A h \in Handlers : ~At(h, "idle") => Agrees(handlers[h], rows, escalations)
  /\ \A h, g \in Handlers : h # g => OpenApart(handlers[h], handlers[g])
  /\ \A i \in DOMAIN rows : rows[i].vaultId # 0 => Known(rows[i].vaultId, rows[i].bill, escalations)
  /\ \A i, j \in DOMAIN rows : rows[i].vaultId # 0 /\ rows[j].vaultId = rows[i].vaultId => i = j

TokenInv == NamesInv /\ \A b \in Bills : Counted(b)

-----------------------------------------------------------------------------
(* Rows and escalations are never forgotten, and what is resolved is never *)
(* pending again.                                                          *)
RowsKept ==
  \A i \in DOMAIN rows :
    /\ i \in DOMAIN rows' /\ rows'[i].bill = rows[i].bill
    /\ rows'[i].vaultId = rows[i].vaultId /\ rows'[i].createdAt = rows[i].createdAt
    /\ rows'[i].status = "pending" => rows[i].status = "pending"
EscsKept ==
  \A e \in DOMAIN escalations :
    /\ e \in DOMAIN escalations' /\ escalations'[e].decision = escalations[e].decision
    /\ escalations'[e].createdAt = escalations[e].createdAt
    /\ escalations'[e].status = "Pending" => escalations[e].status = "Pending"

(* The same call, but for what Tidy forgets of it.                         *)
Alike(m, l) ==
  /\ m.at = l.at /\ m.flow = l.flow
  /\ l.at # "idle" => /\ m.event = l.event /\ m.bill = l.bill /\ m.row = l.row /\ (l.keep => m.keep)
                      /\ l.at \notin {"record", "append", "unclaim"} =>
                           m.vaultId = l.vaultId /\ m.fresh = l.fresh /\ m.outcome = l.outcome

(* A step of call h that may add row i, free the claim of row i, and add   *)
(* or show escalation e, and nothing else.                                 *)
Moves(h, e, i) ==
  /\ RowsKept /\ EscsKept /\ now <= now'
  /\ \A g \in Handlers \ {h} : Alike(handlers'[g], handlers[g])
  /\ \A j \in DOMAIN rows' : j \in DOMAIN rows \/ j = i
  /\ \A x \in DOMAIN escalations' : x \in DOMAIN escalations \/ x = e
  /\ \A j \in DOMAIN rows : ResolveOf(j) \in claims => ResolveOf(j) \in claims' \/ j = i
  /\ h \in Handlers /\ Lone(handlers[h]) =>
       \/ Lone(handlers'[h]) /\ handlers'[h].vaultId = handlers[h].vaultId
       \/ handlers[h].vaultId = e
  /\ h \in Handlers /\ Opener(handlers'[h]) =>
       \/ Opener(handlers[h]) /\ handlers'[h].fresh = handlers[h].fresh
       \/ handlers'[h].fresh \notin DOMAIN rows

(* The state's types, as far as the names need them. *)
LEMMA Shapes ==
  ASSUME OperatorInv
  PROVE  /\ rows \in Seq(Row) /\ \A i \in DOMAIN rows : i \in Nat /\ i # 0 /\ rows[i].createdAt \in Nat
         /\ escalations \in Seq(Escalation) /\ \A e \in DOMAIN escalations : e \in Nat /\ e # 0 /\ escalations[e].createdAt \in Nat
         /\ now \in Nat /\ payments \in [Bills -> Nat] /\ \A b \in Bills : Budget(b) \in Nat
         /\ \A h \in Handlers : handlers[h] = NoCall \/ handlers[h] \in CallOf(RowIds)
<1>1. rows \in Seq(Row) /\ escalations \in Seq(Escalation) /\ now \in Nat
  BY DEF OperatorInv, VaultInv, VaultTypeOK, ServiceInv, Books
<1>2. \A i \in DOMAIN rows : i \in Nat /\ i # 0 /\ rows[i].createdAt \in Nat
  <2>1. DOMAIN rows = 1..Len(rows) /\ Len(rows) \in Nat /\ \A i \in DOMAIN rows : rows[i] \in Row
    BY <1>1
  <2> QED
    BY <2>1 DEF Row
<1>3. \A e \in DOMAIN escalations : e \in Nat /\ e # 0 /\ escalations[e].createdAt \in Nat
  <2>1. /\ DOMAIN escalations = 1..Len(escalations) /\ Len(escalations) \in Nat
        /\ \A e \in DOMAIN escalations : escalations[e] \in Escalation
    BY <1>1
  <2> QED
    BY <2>1 DEF Escalation
<1>4. payments \in [Bills -> Nat] /\ \A b \in Bills : Budget(b) \in Nat
  BY DEF OperatorInv, ServiceInv, Books, Told, Budget
<1>5. \A h \in Handlers : handlers[h] = NoCall \/ handlers[h] \in CallOf(RowIds)
  BY DEF OperatorInv, ServiceInv, Calls, Sound
<1> QED
  BY <1>1, <1>2, <1>3, <1>4, <1>5

LEMMA ShapesNext ==
  ASSUME OperatorInv'
  PROVE  /\ now' \in Nat /\ payments' \in [Bills -> Nat] /\ rows' \in Seq(Row) /\ escalations' \in Seq(Escalation)
         /\ \A b \in Bills : Budget(b)' \in Nat
<1>1. planned' \in [Bills -> Nat] /\ overlaps' \in Nat /\ faults' \in Nat
  BY DEF OperatorInv, ServiceInv, Books, Told
<1>2. \A b \in Bills : Budget(b)' \in Nat
  BY <1>1 DEF Budget
<1> QED
  BY <1>2 DEF OperatorInv, VaultInv, VaultTypeOK, ServiceInv, Books

(* What the payments of a bill may come to, after a step. *)
SameBudget == \A b \in Bills : Budget(b)' = Budget(b)
LEMMA BudgetStays ==
  ASSUME UNCHANGED <<planned, overlaps, faults>>
  PROVE  SameBudget
BY DEF SameBudget, Budget

LEMMA BudgetSame ==
  ASSUME UNCHANGED <<history, faults>>
  PROVE  SameBudget
BY BudgetStays DEF history

LEMMA BudgetOfFault ==
  ASSUME OperatorInv, UNCHANGED history, faults' = faults + 1
  PROVE  \A b \in Bills : Budget(b)' = Budget(b) + 1
<1>1. UNCHANGED <<planned, overlaps>>
  BY DEF history
<1>2. planned \in [Bills -> Nat] /\ overlaps \in Nat /\ faults \in Nat
  BY DEF OperatorInv, ServiceInv, Books, Told
<1> QED
  BY <1>1, <1>2 DEF Budget

LEMMA Later == ASSUME NEW t \in Nat, NEW u \in Nat, t <= u, NEW c \in Nat, t > c + EscalationTTL
               PROVE  u > c + EscalationTTL
  BY VaultTimesAssumption

LEMMA TimelyStays ==
  ASSUME OperatorInv, OperatorInv', RowsKept, now <= now', NEW j \in DOMAIN rows, Timely(j, rows', now')
  PROVE  Timely(j, rows, now)
<1>1. now \in Nat /\ now' \in Nat /\ rows[j].createdAt \in Nat
  BY Shapes, ShapesNext
<1>2. rows'[j].createdAt = rows[j].createdAt /\ rows[j].status = "pending"
  BY DEF RowsKept, Timely
<1>3. ~(now' > rows[j].createdAt + EscalationTTL)
  BY <1>2 DEF Timely
<1>4. ~(now > rows[j].createdAt + EscalationTTL)
  BY <1>1, <1>3, Later
<1> QED
  BY <1>2, <1>4 DEF Timely

(* What a call that did not move uses, it used before.                     *)
LEMMA RowsShrink ==
  ASSUME OperatorInv, OperatorInv', NEW h, NEW e, NEW i, Moves(h, e, i), NEW b,
         NEW j \in OpenRows(b)', j # i
  PROVE  j \in OpenRows(b)
<1>1. /\ j \in DOMAIN rows' /\ rows'[j].bill = b /\ rows'[j].vaultId = 0 /\ Timely(j, rows', now')
      /\ ResolveOf(j) \notin claims'
  BY DEF OpenRows
<1>2. j \in DOMAIN rows /\ RowsKept /\ now <= now' /\ ResolveOf(j) \notin claims
  BY <1>1 DEF Moves
<1>3. Timely(j, rows, now)
  BY <1>1, <1>2, TimelyStays
<1> QED
  BY <1>1, <1>2, <1>3 DEF OpenRows, RowsKept

LEMMA EscsShrink ==
  ASSUME OperatorInv, OperatorInv', NEW h, NEW e, NEW i, Moves(h, e, i), NEW b,
         NEW x \in LiveOf(b)', x # e
  PROVE  x \in LiveOf(b)
<1>1. /\ x \in DOMAIN escalations' /\ escalations'[x].status = "Pending" /\ escalations'[x].decision = b
      /\ ~(now' > escalations'[x].createdAt + EscalationTTL) /\ ~Private(x)'
  BY DEF LiveOf, PendingIds, TooOld
<1>2. x \in DOMAIN escalations /\ EscsKept /\ now <= now'
  BY <1>1 DEF Moves
<1>3. /\ escalations[x].status = "Pending" /\ escalations[x].decision = b
      /\ escalations'[x].createdAt = escalations[x].createdAt
  BY <1>1, <1>2 DEF EscsKept
<1>4. now \in Nat /\ now' \in Nat /\ escalations[x].createdAt \in Nat
  BY <1>2, Shapes, ShapesNext
<1>5. ~TooOld(escalations[x])
  BY <1>1, <1>2, <1>3, <1>4, Later DEF TooOld
<1>6. ASSUME NEW g \in Handlers, Lone(handlers[g]), handlers[g].vaultId = x PROVE FALSE
  <2>1. CASE g = h
    BY <1>1, <1>6, <2>1 DEF Moves, Private
  <2>2. CASE g # h
    <3>1. Alike(handlers'[g], handlers[g])
      BY <2>2 DEF Moves
    <3>2. Lone(handlers'[g]) /\ handlers'[g].vaultId = x
      BY <1>6, <3>1 DEF Alike, Lone, Opener
    <3> QED
      BY <1>1, <3>2 DEF Private
  <2> QED
    BY <2>1, <2>2
<1> QED
  BY <1>2, <1>3, <1>5, <1>6 DEF LiveOf, PendingIds, Private

LEMMA OpenedBefore ==
  ASSUME NEW h, NEW e, NEW i, Moves(h, e, i), NEW j \in DOMAIN rows, Opened(j, handlers')
  PROVE  Opened(j, handlers)
<1>1. PICK g \in Handlers : Opener(handlers'[g]) /\ handlers'[g].fresh = j
  BY DEF Opened
<1>2. CASE g = h
  BY <1>1, <1>2 DEF Moves, Opened
<1>3. CASE g # h
  <2>1. Alike(handlers'[g], handlers[g])
    BY <1>3 DEF Moves
  <2> QED
    BY <1>1, <2>1 DEF Alike, Opener, Opened
<1> QED
  BY <1>2, <1>3

LEMMA SpendsBefore ==
  ASSUME OperatorInv, OperatorInv', RowsKept, now <= now', NEW l, NEW m, Alike(m, l), l.at # "idle",
         Agrees(l, rows, escalations), Spends(m, rows', now')
  PROVE  Spends(l, rows, now)
<1>1. m.at = l.at /\ m.flow = l.flow /\ m.row = l.row /\ (l.at = "fresh" => m.outcome = l.outcome)
  BY DEF Alike
<1>2. CASE l.flow = "handle" /\ l.at \in {"pay", "open"}
  BY <1>2 DEF Spends
<1>3. CASE ~(l.flow = "handle" /\ l.at \in {"pay", "open"})
  <2>1. /\ Resolves(l) /\ rows'[l.row].vaultId = 0
        /\ \/ l.at \in {"pay", "open", "vault"}
           \/ /\ l.at \notin {"claim", "row", "save"} /\ ~(l.at = "fresh" /\ l.outcome = "paid")
              /\ Timely(l.row, rows', now')
    BY <1>1, <1>3 DEF Spends, Resolves
  <2>2. l.row \in DOMAIN rows
    BY <2>1 DEF Agrees, AgreesResolve
  <2>3. rows[l.row].vaultId = 0
    BY <2>1, <2>2 DEF RowsKept
  <2>4. Timely(l.row, rows', now') => Timely(l.row, rows, now)
    BY <2>2, TimelyStays
  <2> QED
    BY <2>1, <2>3, <2>4 DEF Spends
<1> QED
  BY <1>2, <1>3

LEMMA IntrudesBefore ==
  ASSUME NEW h, NEW e, NEW i, Moves(h, e, i), NEW l, NEW m, Alike(m, l), l.at # "idle",
         Agrees(l, rows, escalations), Intrudes(m, handlers')
  PROVE  Intrudes(l, handlers)
<1>1. l.flow = "approve" /\ l.at \in {"claim", "check", "vault"} /\ Opened(l.row, handlers')
  BY DEF Alike, Intrudes
<1>2. l.row \in DOMAIN rows
  BY <1>1 DEF Agrees, AgreesResolve, Resolves
<1> QED
  BY <1>1, <1>2, OpenedBefore DEF Intrudes

LEMMA HoldersShrink ==
  ASSUME OperatorInv, OperatorInv', NamesInv, NEW h, NEW e, NEW i, Moves(h, e, i), NEW b,
         NEW g \in Holders(b)', g # h
  PROVE  g \in Holders(b)
<1> DEFINE l == handlers[g]
           m == handlers'[g]
<1>1. g \in Handlers /\ Alike(m, l) /\ Uses(m, b, rows', now', handlers')
  BY DEF Holders, Moves
<1>2. m.at # "idle" /\ m.bill = b /\ (Spends(m, rows', now') \/ Intrudes(m, handlers'))
  BY <1>1 DEF Uses
<1>3. l.at # "idle" /\ l.bill = b
  BY <1>1, <1>2 DEF Alike
<1>4. Agrees(l, rows, escalations)
  BY <1>1, <1>3 DEF NamesInv, At
<1>5. RowsKept /\ now <= now'
  BY DEF Moves
<1> HIDE DEF l, m
<1>6. Spends(l, rows, now) \/ Intrudes(l, handlers)
  BY <1>1, <1>2, <1>3, <1>4, <1>5, SpendsBefore, IntrudesBefore
<1> QED
  BY <1>1, <1>3, <1>6 DEF Holders, Uses, l

-----------------------------------------------------------------------------
(* One element comes or goes. *)
LEMMA Recount ==
  ASSUME NEW S, NEW T, NEW x, IsFiniteSet(S), \A y \in T : y # x => y \in S
  PROVE  /\ IsFiniteSet(T) /\ Cardinality(S) \in Nat /\ Cardinality(T) \in Nat
         /\ Cardinality(T) + Bit(x \in S) <= Cardinality(S) + Bit(x \in T)
<1> DEFINE U == S \cup {x}
           A == S \ {x}
           B == T \ {x}
<1>1. IsFiniteSet(S) /\ IsFiniteSet(A) /\ Cardinality(S) \in Nat /\ Cardinality(A) \in Nat
      /\ Cardinality(A) = IF x \in S THEN Cardinality(S) - 1 ELSE Cardinality(S)
  BY FS_RemoveElement, FS_CardinalityType
<1>2. B \subseteq A
  OBVIOUS
<1>3. IsFiniteSet(B) /\ Cardinality(B) \in Nat /\ Cardinality(B) <= Cardinality(A)
  BY <1>1, <1>2, FS_Subset, FS_CardinalityType
<1>4. CASE x \in T
  <2>1. T = B \cup {x} /\ x \notin B
    BY <1>4
  <2>2. IsFiniteSet(T) /\ Cardinality(T) = Cardinality(B) + 1
    BY SMTT(30), <1>3, <2>1, FS_AddElement
  <2> QED
    BY <1>1, <1>3, <1>4, <2>2 DEF Bit
<1>5. CASE x \notin T
  <2>1. T = B
    BY <1>5
  <2> HIDE DEF B, A
  <2>2. IsFiniteSet(T) /\ Cardinality(T) = Cardinality(B)
    BY <1>3, <2>1
  <2> QED
    BY <1>1, <1>3, <1>5, <2>2 DEF Bit
<1> QED
  BY <1>4, <1>5

LEMMA Sum4 ==
  ASSUME NEW p \in Nat, NEW q \in Nat, NEW f \in Nat, NEW g \in Nat,
         NEW a \in Nat, NEW c \in Nat, NEW d \in Nat, NEW A \in Nat, NEW C \in Nat, NEW D \in Nat,
         NEW a0 \in {0, 1}, NEW a1 \in {0, 1}, NEW c0 \in {0, 1}, NEW c1 \in {0, 1}, NEW d0 \in {0, 1}, NEW d1 \in {0, 1},
         A + a0 <= a + a1, C + c0 <= c + c1, D + d0 <= d + d1,
         q + a1 + c1 + d1 + f <= p + a0 + c0 + d0 + g,
         p + a + c + d <= f
  PROVE  q + A + C + D <= g
  OBVIOUS

LEMMA BitType == ASSUME NEW b PROVE Bit(b) \in {0, 1} /\ Bit(b) \in Nat
  BY DEF Bit

(* What a step has to show for a bill: its pivots gain no more tokens than *)
(* it adds to the budget.                                                  *)
Balanced(b, h, e, i) ==
  payments'[b] + Bit(h \in Holders(b)') + Bit(e \in LiveOf(b)') + Bit(i \in OpenRows(b)') + Budget(b)
  <= payments[b] + Bit(h \in Holders(b)) + Bit(e \in LiveOf(b)) + Bit(i \in OpenRows(b)) + Budget(b)'

LEMMA CountedStep ==
  ASSUME OperatorInv, OperatorInv', NamesInv, NEW h, NEW e, NEW i, Moves(h, e, i), NEW b \in Bills,
         Counted(b), Balanced(b, h, e, i)
  PROVE  Counted(b)'
<1>1. IsFiniteSet(Holders(b)) /\ IsFiniteSet(LiveOf(b)) /\ IsFiniteSet(OpenRows(b)) /\ Tokens(b) <= Budget(b)
  BY DEF Counted
<1>2. /\ IsFiniteSet(Holders(b)') /\ Cardinality(Holders(b)) \in Nat /\ Cardinality(Holders(b)') \in Nat
      /\ Cardinality(Holders(b)') + Bit(h \in Holders(b)) <= Cardinality(Holders(b)) + Bit(h \in Holders(b)')
  <2>1. \A g \in Holders(b)' : g # h => g \in Holders(b)
    BY HoldersShrink
  <2> QED
    BY <1>1, <2>1, Recount
<1>3. /\ IsFiniteSet(LiveOf(b)') /\ Cardinality(LiveOf(b)) \in Nat /\ Cardinality(LiveOf(b)') \in Nat
      /\ Cardinality(LiveOf(b)') + Bit(e \in LiveOf(b)) <= Cardinality(LiveOf(b)) + Bit(e \in LiveOf(b)')
  <2>1. \A g \in LiveOf(b)' : g # e => g \in LiveOf(b)
    BY EscsShrink
  <2> QED
    BY <1>1, <2>1, Recount
<1>4. /\ IsFiniteSet(OpenRows(b)') /\ Cardinality(OpenRows(b)) \in Nat /\ Cardinality(OpenRows(b)') \in Nat
      /\ Cardinality(OpenRows(b)') + Bit(i \in OpenRows(b)) <= Cardinality(OpenRows(b)) + Bit(i \in OpenRows(b)')
  <2>1. \A g \in OpenRows(b)' : g # i => g \in OpenRows(b)
    BY RowsShrink
  <2> QED
    BY <1>1, <2>1, Recount
<1>5. payments[b] \in Nat /\ payments'[b] \in Nat /\ Budget(b) \in Nat /\ Budget(b)' \in Nat
  BY Shapes, ShapesNext
<1>6. Tokens(b)' <= Budget(b)'
  BY <1>1, <1>2, <1>3, <1>4, <1>5, Sum4, BitType DEF Tokens, Balanced
<1> QED
  BY <1>2, <1>3, <1>4, <1>6 DEF Counted

-----------------------------------------------------------------------------
(* The names after a step. *)
LEMMA KnownStays ==
  ASSUME EscsKept, NEW x, NEW b, Known(x, b, escalations)
  PROVE  Known(x, b, escalations')
BY DEF Known, EscsKept

LEMMA AgreesLasts ==
  ASSUME RowsKept, EscsKept, NEW l, NEW m, Alike(m, l), l.at # "idle", Agrees(l, rows, escalations),
         l.at = "open" /\ l.vaultId # 0 =>
           \A j \in DOMAIN rows' : j \in DOMAIN rows \/ rows'[j].vaultId # l.vaultId
  PROVE  Agrees(m, rows', escalations')
<1>1. /\ m.at = l.at /\ m.flow = l.flow /\ m.bill = l.bill /\ m.row = l.row /\ (l.keep => m.keep)
      /\ l.at \in {"claim", "decide", "act", "check", "pay", "open", "vault"} => m.vaultId = l.vaultId /\ m.fresh = l.fresh
  BY DEF Alike
<1>2. AgreesHandle(l) /\ (l.flow = "expire" => l.at \in ExpirePlaces) /\ AgreesResolve(l, rows, escalations)
      /\ AgreesOpen(l, rows, escalations)
  BY DEF Agrees
<1>3. AgreesHandle(m)
  BY <1>1, <1>2 DEF AgreesHandle
<1>4. AgreesResolve(m, rows', escalations')
  <2> SUFFICES ASSUME Resolves(m) PROVE AgreesResolve(m, rows', escalations')
    BY DEF AgreesResolve
  <2>1. l.row \in DOMAIN rows /\ rows[l.row].bill = l.bill /\ Resolves(l)
    BY <1>1, <1>2 DEF AgreesResolve, Resolves
  <2>2. l.row \in DOMAIN rows' /\ rows'[l.row].bill = l.bill /\ rows'[l.row].vaultId = rows[l.row].vaultId
    BY <2>1 DEF RowsKept
  <2>3. ASSUME m.at = "vault" PROVE AgreesVault(m, rows', escalations')
    <3>1. AgreesVault(l, rows, escalations) /\ m.vaultId = l.vaultId /\ m.fresh = l.fresh
      BY <1>1, <1>2, <2>1, <2>3 DEF AgreesResolve
    <3>2. Known(m.vaultId, m.bill, escalations')
      BY <1>1, <3>1, KnownStays DEF AgreesVault
    <3>3. l.fresh \in DOMAIN rows => l.fresh \in DOMAIN rows' /\ rows'[l.fresh].vaultId = rows[l.fresh].vaultId
      BY DEF RowsKept
    <3> QED
      BY <1>1, <2>2, <3>1, <3>2, <3>3 DEF AgreesVault
  <2> QED
    BY <1>1, <1>2, <2>1, <2>2, <2>3 DEF AgreesResolve
<1>5. AgreesOpen(m, rows', escalations')
  <2> SUFFICES ASSUME m.at = "open", m.vaultId # 0 PROVE AgreesOpen(m, rows', escalations')
    BY DEF AgreesOpen
  <2>1. l.at = "open" /\ m.vaultId = l.vaultId /\ l.vaultId # 0
    BY <1>1
  <2>2. Known(l.vaultId, l.bill, escalations) /\ \A j \in DOMAIN rows : rows[j].vaultId # l.vaultId
    BY <1>2, <2>1 DEF AgreesOpen
  <2>3. Known(m.vaultId, m.bill, escalations')
    BY <1>1, <2>1, <2>2, KnownStays
  <2>4. \A j \in DOMAIN rows' : rows'[j].vaultId # m.vaultId
    BY <2>1, <2>2 DEF RowsKept
  <2> QED
    BY <2>3, <2>4 DEF AgreesOpen
<1> QED
  BY <1>1, <1>2, <1>3, <1>4, <1>5 DEF Agrees

(* What a step has to show for the names: call h is alike l afterwards.    *)
Unshown(v, h) == \A g \in Handlers \ {h} : handlers[g].at = "open" => handlers[g].vaultId # v
NewRowNamed(h, i) ==
  i \in DOMAIN rows' /\ i \notin DOMAIN rows /\ rows'[i].vaultId # 0 =>
    /\ Known(rows'[i].vaultId, rows'[i].bill, escalations')
    /\ \A k \in DOMAIN rows : rows[k].vaultId # rows'[i].vaultId
    /\ Unshown(rows'[i].vaultId, h)
CallNamed(h, l) ==
  /\ Alike(handlers'[h], l)
  /\ l.at # "idle" => Agrees(l, rows', escalations')
  /\ l.at = "open" /\ l.vaultId # 0 => Unshown(l.vaultId, h)

LEMMA AlikeAgrees ==
  ASSUME NEW l, NEW m, Alike(m, l), l.at # "idle", NEW rs, NEW es, Agrees(l, rs, es)
  PROVE  Agrees(m, rs, es)
<1>1. /\ m.at = l.at /\ m.flow = l.flow /\ m.bill = l.bill /\ m.row = l.row /\ (l.keep => m.keep)
      /\ l.at \in {"claim", "decide", "act", "check", "pay", "open", "vault"} => m.vaultId = l.vaultId /\ m.fresh = l.fresh
  BY DEF Alike
<1>2. AgreesHandle(l) /\ (l.flow = "expire" => l.at \in ExpirePlaces) /\ AgreesResolve(l, rs, es) /\ AgreesOpen(l, rs, es)
  BY DEF Agrees
<1>3. AgreesHandle(m)
  BY <1>1, <1>2 DEF AgreesHandle
<1>4. AgreesResolve(m, rs, es)
  BY <1>1, <1>2 DEF AgreesResolve, AgreesVault, Resolves
<1>5. AgreesOpen(m, rs, es)
  BY <1>1, <1>2 DEF AgreesOpen
<1> QED
  BY <1>1, <1>2, <1>3, <1>4, <1>5 DEF Agrees

LEMMA NamesStep ==
  ASSUME NamesInv, NEW h, NEW e, NEW i, Moves(h, e, i), NewRowNamed(h, i),
         NEW l, h \in Handlers => CallNamed(h, l)
  PROVE  NamesInv'
<1>1. RowsKept /\ EscsKept /\ (\A j \in DOMAIN rows' : j \in DOMAIN rows \/ j = i)
  BY DEF Moves
<1>2. ASSUME NEW g \in Handlers, handlers'[g].at # "idle" PROVE Agrees(handlers'[g], rows', escalations')
  <2>1. CASE g = h
    <3>1. Alike(handlers'[h], l) /\ l.at # "idle" /\ Agrees(l, rows', escalations')
      BY <1>2, <2>1 DEF CallNamed, Alike
    <3> QED
      BY <2>1, <3>1, AlikeAgrees
  <2>2. CASE g # h
    <3>1. Alike(handlers'[g], handlers[g]) /\ handlers[g].at # "idle"
      BY <1>2, <2>2 DEF Moves, Alike
    <3>2. Agrees(handlers[g], rows, escalations)
      BY <3>1 DEF NamesInv, At
    <3>3. handlers[g].at = "open" /\ handlers[g].vaultId # 0 =>
            \A j \in DOMAIN rows' : j \in DOMAIN rows \/ rows'[j].vaultId # handlers[g].vaultId
      BY <1>1, <2>2 DEF NewRowNamed, Unshown
    <3> QED
      BY <1>1, <3>1, <3>2, <3>3, AgreesLasts
  <2> QED
    BY <2>1, <2>2
<1>3. ASSUME NEW f \in Handlers, NEW g \in Handlers, f # g PROVE OpenApart(handlers'[f], handlers'[g])
  <2> SUFFICES ASSUME handlers'[f].at = "open", handlers'[g].at = "open", handlers'[f].vaultId # 0
               PROVE  handlers'[g].vaultId # handlers'[f].vaultId
    BY DEF OpenApart
  <2>1. ASSUME NEW k \in Handlers, k # h, handlers'[k].at = "open"
        PROVE  handlers[k].at = "open" /\ handlers'[k].vaultId = handlers[k].vaultId
    BY <2>1 DEF Moves, Alike
  <2>2. h \in Handlers /\ handlers'[h].at = "open" /\ handlers'[h].vaultId # 0 => Unshown(handlers'[h].vaultId, h)
    BY DEF CallNamed, Alike
  <2>3. CASE f # h /\ g # h
    <3>1. OpenApart(handlers[f], handlers[g])
      BY <1>3 DEF NamesInv
    <3> QED
      BY <2>1, <2>3, <3>1 DEF OpenApart
  <2>4. CASE f = h
    BY <1>3, <2>1, <2>2, <2>4 DEF Unshown
  <2>5. CASE g = h
    <3>1. CASE handlers'[g].vaultId = 0
      BY <3>1
    <3>2. CASE handlers'[g].vaultId # 0
      BY <1>3, <2>1, <2>2, <2>5, <3>2 DEF Unshown
    <3> QED
      BY <3>1, <3>2
  <2> QED
    BY <2>3, <2>4, <2>5
<1>4. ASSUME NEW j \in DOMAIN rows', rows'[j].vaultId # 0 PROVE Known(rows'[j].vaultId, rows'[j].bill, escalations')
  <2>1. CASE j \in DOMAIN rows
    <3>1. rows'[j].vaultId = rows[j].vaultId /\ rows'[j].bill = rows[j].bill
      BY <1>1, <2>1 DEF RowsKept
    <3>2. Known(rows[j].vaultId, rows[j].bill, escalations)
      BY <1>4, <2>1, <3>1 DEF NamesInv
    <3> QED
      BY <1>1, <3>1, <3>2, KnownStays
  <2>2. CASE j \notin DOMAIN rows
    BY <1>1, <1>4, <2>2 DEF NewRowNamed
  <2> QED
    BY <2>1, <2>2
<1>5. ASSUME NEW j \in DOMAIN rows', NEW k \in DOMAIN rows', rows'[j].vaultId # 0, rows'[k].vaultId = rows'[j].vaultId
      PROVE  j = k
  <2>1. \A n \in DOMAIN rows : rows'[n].vaultId = rows[n].vaultId
    BY <1>1 DEF RowsKept
  <2>2. CASE j \in DOMAIN rows /\ k \in DOMAIN rows
    BY <1>5, <2>1, <2>2 DEF NamesInv
  <2>3. CASE j \in DOMAIN rows /\ k \notin DOMAIN rows
    BY <1>1, <1>5, <2>1, <2>3 DEF NewRowNamed
  <2>4. CASE j \notin DOMAIN rows /\ k \in DOMAIN rows
    BY <1>1, <1>5, <2>1, <2>4 DEF NewRowNamed
  <2>5. CASE j \notin DOMAIN rows /\ k \notin DOMAIN rows
    BY <1>1, <2>5
  <2> QED
    BY <2>2, <2>3, <2>4, <2>5
<1> QED
  BY <1>2, <1>3, <1>4, <1>5 DEF NamesInv, At

LEMMA TokenStep ==
  ASSUME TokenInv, OperatorInv, OperatorInv', NEW h, NEW e, NEW i, Moves(h, e, i), NewRowNamed(h, i),
         NEW l, h \in Handlers => CallNamed(h, l), \A b \in Bills : Balanced(b, h, e, i)
  PROVE  TokenInv'
<1>1. NamesInv'
  BY NamesStep DEF TokenInv
<1>2. ASSUME NEW b \in Bills PROVE Counted(b)'
  BY CountedStep DEF TokenInv
<1> QED
  BY <1>1, <1>2 DEF TokenInv

-----------------------------------------------------------------------------
(* The call that moves. *)
LEMMA TidyAlike ==
  ASSUME NEW l, l = NoCall \/ l \in CallOf(RowIds')
  PROVE  Alike(Tidy(l), l)
<1>1. CASE l = NoCall
  BY <1>1 DEF Alike, Tidy, NoCall
<1>2. CASE l \in CallOf(RowIds')
  <2>1. CASE l.at \in {"record", "append", "unclaim"}
    BY <1>2, <2>1 DEF Alike, Tidy, CallOf
  <2>2. CASE l.at \in {"lapse", "bill"}
    BY <1>2, <2>2 DEF Alike, Tidy, CallOf
  <2>3. CASE l.at \notin {"record", "append", "unclaim", "lapse", "bill"}
    BY <1>2, <2>3 DEF Alike, Tidy
  <2> QED
    BY <2>1, <2>2, <2>3
<1> QED
  BY <1>1, <1>2

LEMMA AlikeSelf == ASSUME NEW l PROVE Alike(l, l)
  BY DEF Alike

LEMMA Becomes ==
  ASSUME OperatorInv, NEW h \in Handlers, NEW l, Become(h, l), l = NoCall \/ l \in CallOf(RowIds')
  PROVE  Alike(handlers'[h], l) /\ \A g \in Handlers \ {h} : Alike(handlers'[g], handlers[g])
<1>1. DOMAIN handlers = Handlers
  BY DEF OperatorInv, ServiceInv, Calls
<1> DEFINE new == Tidy(l)
<1>2. handlers'[h] = new /\ \A g \in Handlers \ {h} : handlers'[g] = handlers[g]
  <2>1. handlers' = [handlers EXCEPT ![h] = new]
    BY DEF Become
  <2> HIDE DEF new
  <2> QED
    BY <1>1, <2>1
<1> HIDE DEF new
<1>3. Alike(new, l)
  BY TidyAlike DEF new
<1> QED
  BY <1>2, <1>3, AlikeSelf

LEMMA AlikeSpends ==
  ASSUME NEW l, NEW m, Alike(m, l), l.at # "idle", NEW rs, NEW t
  PROVE  /\ Spends(m, rs, t) => Spends(l, rs, t)
         /\ \A hs : Intrudes(m, hs) => Intrudes(l, hs)
<1>1. m.at = l.at /\ m.flow = l.flow /\ m.row = l.row /\ (l.at = "fresh" => m.outcome = l.outcome)
  BY DEF Alike
<1>2. Spends(m, rs, t) => Spends(l, rs, t)
  BY <1>1 DEF Spends, Resolves
<1>3. \A hs : Intrudes(m, hs) => Intrudes(l, hs)
  BY <1>1 DEF Intrudes
<1> QED
  BY <1>2, <1>3

(* What call h holds after the step, told from what it has become.         *)
LEMMA HeldAfter ==
  ASSUME OperatorInv, OperatorInv', NEW h, NEW e, NEW i, Moves(h, e, i), NEW l, Alike(handlers'[h], l),
         Resolves(l) => l.row \in DOMAIN rows, NEW b, h \in Holders(b)'
  PROVE  /\ l.at # "idle" /\ l.bill = b
         /\ (Spends(l, rows', now') /\ Spends(l, rows, now)) \/ Intrudes(l, handlers)
<1> DEFINE m == handlers'[h]
<1>1. m.at # "idle" /\ m.bill = b /\ (Spends(m, rows', now') \/ Intrudes(m, handlers'))
  BY DEF Holders, Uses
<1>2. l.at # "idle" /\ l.bill = b
  BY <1>1 DEF Alike
<1> HIDE DEF m
<1>3. Spends(m, rows', now') => Spends(l, rows', now')
  BY <1>2, AlikeSpends DEF m
<1>4. ASSUME Spends(l, rows', now') PROVE Spends(l, rows, now)
  <2>1. CASE l.flow = "handle" /\ l.at \in {"pay", "open"}
    BY <2>1 DEF Spends
  <2>2. CASE ~(l.flow = "handle" /\ l.at \in {"pay", "open"})
    <3>1. l.row \in DOMAIN rows
      BY <1>4, <2>2 DEF Spends
    <3>2. rows'[l.row].vaultId = rows[l.row].vaultId
      BY <3>1 DEF Moves, RowsKept
    <3>3. Timely(l.row, rows', now') => Timely(l.row, rows, now)
      BY <3>1, TimelyStays DEF Moves
    <3> QED
      BY <1>4, <2>2, <3>2, <3>3 DEF Spends
  <2> QED
    BY <2>1, <2>2
<1>5. ASSUME Intrudes(m, handlers') PROVE Intrudes(l, handlers)
  <2>1. Intrudes(l, handlers')
    BY <1>2, <1>5, AlikeSpends DEF m
  <2>2. l.row \in DOMAIN rows
    BY <2>1 DEF Intrudes, Resolves
  <2> QED
    BY <2>1, <2>2, OpenedBefore DEF Intrudes
<1> QED
  BY <1>1, <1>2, <1>3, <1>4, <1>5

(* A step that adds nothing: no row, no escalation, no claim freed, and    *)
(* what call h holds afterwards it held before.                            *)
Calm(h, l, e) ==
  /\ DOMAIN rows' \subseteq DOMAIN rows /\ DOMAIN escalations' \subseteq DOMAIN escalations
  /\ RowsKept /\ EscsKept /\ now <= now'
  /\ \A g \in Handlers \ {h} : Alike(handlers'[g], handlers[g])
  /\ claims \subseteq claims'
  /\ h \in Handlers => /\ Alike(handlers'[h], l)
                       /\ Lone(handlers[h]) => handlers[h].vaultId = e
                       /\ l.at # "idle" => Agrees(l, rows, escalations)
                       /\ ~Opener(l) /\ (l.at = "open" => l.vaultId = 0)

LEMMA CalmMoves ==
  ASSUME NEW h, NEW l, NEW e, NEW i, Calm(h, l, e)
  PROVE  Moves(h, e, i)
<1>1. h \in Handlers => ~Opener(handlers'[h])
  BY DEF Calm, Alike, Opener
<1> QED
  BY <1>1 DEF Calm, Moves

LEMMA CalmNames ==
  ASSUME NEW h, NEW l, NEW e, Calm(h, l, e), h \in Handlers
  PROVE  CallNamed(h, l)
<1>1. l.at # "idle" => Agrees(l, rows', escalations')
  <2> SUFFICES ASSUME l.at # "idle" PROVE Agrees(l, rows', escalations')
    OBVIOUS
  <2>1. Alike(l, l) /\ Agrees(l, rows, escalations) /\ RowsKept /\ EscsKept
    BY AlikeSelf DEF Calm
  <2>2. l.at = "open" /\ l.vaultId # 0 => \A j \in DOMAIN rows' : j \in DOMAIN rows \/ rows'[j].vaultId # l.vaultId
    BY DEF Calm
  <2> QED
    BY <2>1, <2>2, AgreesLasts
<1> QED
  BY <1>1 DEF Calm, CallNamed

LEMMA ZeroIsNone ==
  ASSUME OperatorInv, OperatorInv', NEW b
  PROVE  0 \notin LiveOf(b) /\ 0 \notin LiveOf(b)' /\ 0 \notin OpenRows(b) /\ 0 \notin OpenRows(b)'
<1>1. 0 \notin DOMAIN rows /\ 0 \notin DOMAIN escalations
  BY Shapes
<1>2. rows' \in Seq(Row) /\ escalations' \in Seq(Escalation)
  BY ShapesNext
<1>3. 0 \notin DOMAIN rows' /\ 0 \notin DOMAIN escalations'
  BY <1>2
<1> QED
  BY <1>1, <1>3 DEF LiveOf, OpenRows, PendingIds, Timely

LEMMA BitGrows == ASSUME NEW a, NEW b, a => b PROVE Bit(a) <= Bit(b)
  BY DEF Bit

LEMMA CalmStep ==
  ASSUME TokenInv, OperatorInv, OperatorInv', NEW h, NEW l, NEW e, Calm(h, l, e),
         payments' = payments, SameBudget,
         \A b \in Bills : h \in Holders(b)' => h \in Holders(b),
         \A b \in Bills : e \in LiveOf(b)' => e \in LiveOf(b)
  PROVE  TokenInv'
<1>1. Moves(h, e, 0)
  BY CalmMoves
<1>2. NewRowNamed(h, 0)
  BY DEF NewRowNamed, Calm
<1>3. h \in Handlers => CallNamed(h, l)
  BY CalmNames
<1>4. ASSUME NEW b \in Bills PROVE Balanced(b, h, e, 0)
  <2>1. 0 \notin OpenRows(b) /\ 0 \notin OpenRows(b)'
    BY ZeroIsNone
  <2>2. /\ Bit(h \in Holders(b)') <= Bit(h \in Holders(b)) /\ Bit(e \in LiveOf(b)') <= Bit(e \in LiveOf(b))
    BY BitGrows DEF Calm
  <2>3. Bit(0 \in OpenRows(b)') = 0 /\ Bit(0 \in OpenRows(b)) = 0
    BY <2>1 DEF Bit
  <2>4. payments[b] \in Nat /\ Budget(b) \in Nat /\ Budget(b)' = Budget(b)
    BY Shapes DEF SameBudget
  <2> QED
    BY <2>2, <2>3, <2>4, BitType DEF Balanced
<1> QED
  BY <1>1, <1>2, <1>3, <1>4, TokenStep

-----------------------------------------------------------------------------
(* A call that goes on, and what a place asks of it.                       *)
MovedOn(l, k, place) ==
  /\ l.at = place /\ l.flow = k.flow /\ l.bill = k.bill /\ l.row = k.row
  /\ l.event = k.event /\ l.vaultId = k.vaultId /\ l.fresh = k.fresh /\ l.outcome = k.outcome /\ l.keep = k.keep

LEMMA GoesTo ==
  ASSUME OperatorInv, NEW h \in Handlers, ~At(h, "idle"), NEW place \in Place
  PROVE  /\ [handlers[h] EXCEPT !.at = place] \in CallOf(RowIds)
         /\ MovedOn([handlers[h] EXCEPT !.at = place], handlers[h], place)
BY UnderWay DEF OperatorInv, CallOf, MovedOn

LEMMA Flows ==
  ASSUME OperatorInv, NEW h \in Handlers, ~At(h, "idle")
  PROVE  /\ handlers[h].flow \in {"handle", "approve", "reject", "expire"} /\ handlers[h].bill \in Bills
         /\ handlers[h] \in CallOf(RowIds)
BY UnderWay DEF OperatorInv, CallOf

(* The places past the payment, where the names no longer matter.          *)
Quiet == {"bill", "record", "append", "unclaim", "row", "save", "find", "close", "fresh"}
Settled(l) ==
  /\ l.flow = "handle" => l.at \in HandlePlaces /\ l.keep
  /\ l.flow = "expire" => l.at \in ExpirePlaces
  /\ Resolves(l) => l.at # "bill"

LEMMA SettledAgrees ==
  ASSUME NEW k, NEW l, Agrees(k, rows, escalations), l.flow = k.flow, l.bill = k.bill, l.row = k.row,
         l.at \in Quiet, Settled(l)
  PROVE  Agrees(l, rows, escalations) /\ ~Opener(l) /\ l.at # "open" /\ ~Intrudes(l, handlers)
<1>1. AgreesHandle(l)
  BY DEF AgreesHandle, Settled, Quiet
<1>2. AgreesResolve(l, rows, escalations)
  BY DEF Agrees, AgreesResolve, Settled, Quiet, Resolves
<1>3. AgreesOpen(l, rows, escalations)
  BY DEF AgreesOpen, Quiet
<1> QED
  BY <1>1, <1>2, <1>3 DEF Agrees, Settled, Opener, Quiet, Intrudes

(* A step of one call that leaves the rows and the vault's escalations.    *)
LEMMA OwnStep ==
  ASSUME TokenInv, OperatorInv, OperatorInv', NEW h \in Handlers, NEW l, Become(h, l),
         l = NoCall \/ l \in CallOf(RowIds), UNCHANGED <<rows, escalations, now, payments>>,
         claims \subseteq claims', SameBudget, ~Lone(handlers[h]),
         l.at # "idle" => Agrees(l, rows, escalations),
         ~Opener(l) /\ (l.at = "open" => l.vaultId = 0),
         Spends(l, rows, now) \/ Intrudes(l, handlers) =>
           l.at = "idle" \/ Uses(handlers[h], l.bill, rows, now, handlers)
  PROVE  TokenInv'
<1>1. RowIds' = RowIds /\ now \in Nat
  BY Shapes DEF RowIds
<1>2. Alike(handlers'[h], l) /\ \A g \in Handlers \ {h} : Alike(handlers'[g], handlers[g])
  BY <1>1, Becomes
<1>3. RowsKept /\ EscsKept
  BY DEF RowsKept, EscsKept
<1>4. Calm(h, l, 0)
  BY <1>1, <1>2, <1>3 DEF Calm
<1>5. Moves(h, 0, 0)
  BY <1>4, CalmMoves
<1>6. ASSUME NEW b \in Bills, h \in Holders(b)' PROVE h \in Holders(b)
  <2>1. Resolves(l) => l.row \in DOMAIN rows \/ l.at = "idle"
    BY DEF Agrees, AgreesResolve
  <2>2. l.at # "idle"
    BY <1>2, <1>6 DEF Holders, Uses, Alike
  <2>3. l.bill = b /\ (Spends(l, rows, now) \/ Intrudes(l, handlers))
    BY <1>2, <1>5, <1>6, <2>1, <2>2, HeldAfter
  <2> QED
    BY <2>2, <2>3 DEF Holders
<1>7. \A b \in Bills : 0 \notin LiveOf(b)'
  BY ZeroIsNone
<1> QED
  BY <1>1, <1>4, <1>6, <1>7, CalmStep

LEMMA DoneTokens ==
  ASSUME TokenInv, OperatorInv, OperatorInv', NEW h \in Handlers, Done(h),
         UNCHANGED <<rows, escalations, now, payments>>,
         claims \subseteq claims', SameBudget, ~Lone(handlers[h])
  PROVE  TokenInv'
<1> DEFINE l == NoCall
<1>1. l.at = "idle"
  BY DEF NoCall
<1> HIDE DEF l
<1>2. Become(h, l) /\ l = NoCall
  BY DEF Done, l
<1> QED
  BY <1>1, <1>2, OwnStep DEF Opener

(* ... to a quiet place. *)
LEMMA QuietGo ==
  ASSUME TokenInv, OperatorInv, OperatorInv', NEW h \in Handlers, ~At(h, "idle"), NEW l \in CallOf(RowIds), Become(h, l),
         l.flow = handlers[h].flow, l.bill = handlers[h].bill, l.row = handlers[h].row, l.at \in Quiet, Settled(l),
         UNCHANGED <<rows, escalations, now, payments>>,
         claims \subseteq claims', SameBudget, ~Lone(handlers[h]),
         Spends(l, rows, now) => Spends(handlers[h], rows, now)
  PROVE  TokenInv'
<1>1. Agrees(handlers[h], rows, escalations)
  BY DEF TokenInv, NamesInv
<1>2. Agrees(l, rows, escalations) /\ ~Opener(l) /\ l.at # "open" /\ ~Intrudes(l, handlers)
  BY <1>1, SettledAgrees
<1>3. Spends(l, rows, now) => Uses(handlers[h], l.bill, rows, now, handlers)
  BY DEF Uses, At
<1> QED
  BY <1>2, <1>3, OwnStep

-----------------------------------------------------------------------------
LEMMA NewCall ==
  ASSUME OperatorInv, NEW flow \in {"handle", "expire"}, NEW b \in Bills, NEW place \in {"claim", "stale"},
         flow = "handle" <=> place = "claim"
  PROVE  /\ New(flow, b, place) \in CallOf(RowIds)
         /\ Agrees(New(flow, b, place), rows, escalations)
         /\ New(flow, b, place).at = place /\ New(flow, b, place).flow = flow
<1>1. 0 \in RowIds
  BY DEF OperatorInv, ServiceInv, Books, RowIds
<1> DEFINE l == New(flow, b, place)
<1>a. b \in Events /\ 0 \in 0..MaxProposals /\ "deferred" \in Results
  BY OperatorEventsAssumption, OperatorBoundAssumption DEF Results
<1>2. l \in CallOf(RowIds) /\ l.at = place /\ l.flow = flow /\ l.keep /\ l.vaultId = 0
  BY <1>1, <1>a DEF New, CallOf, Place
<1> HIDE DEF l
<1>3. Agrees(l, rows, escalations)
  BY <1>2 DEF Agrees, AgreesHandle, AgreesResolve, AgreesOpen, Resolves, HandlePlaces, ExpirePlaces
<1> QED
  BY <1>2, <1>3 DEF l

LEMMA BeginHandleTokens ==
  ASSUME TokenInv, OperatorInv, OperatorInv', NEW h \in Handlers, NEW b \in Bills,
         Intake(h, b) \/ \E e \in Events : PickDue(h, e, b)
  PROVE  TokenInv'
<1>1. /\ UNCHANGED <<rows, escalations, now, payments>> /\ claims \subseteq claims' /\ SameBudget
      /\ ~Lone(handlers[h])
  BY BudgetSame DEF Intake, PickDue, vaultVars, At, Lone, Opener
<1> DEFINE base == New("handle", b, "claim")
<1>2. base \in CallOf(RowIds) /\ Agrees(base, rows, escalations) /\ base.at = "claim" /\ base.flow = "handle"
  BY NewCall
<1>3. ASSUME NEW l, Become(h, l), l \in CallOf(RowIds), l.at = "claim", l.flow = "handle", Agrees(l, rows, escalations)
      PROVE  TokenInv'
  <2>1. ~Opener(l) /\ ~Spends(l, rows, now) /\ ~Intrudes(l, handlers)
    BY <1>3 DEF Opener, Spends, Intrudes, Resolves
  <2> QED
    BY <1>1, <1>3, <2>1, OwnStep
<1>4. CASE Done(h)
  BY <1>1, <1>4, DoneTokens
<1>5. CASE Become(h, base)
  BY <1>2, <1>3, <1>5
<1>6. ASSUME NEW e \in Events, Become(h, [base EXCEPT !.event = e]) PROVE TokenInv'
  <2> DEFINE l == [base EXCEPT !.event = e]
  <2> HIDE DEF base
  <2>1. /\ l \in CallOf(RowIds) /\ l.at = "claim" /\ l.flow = "handle" /\ l.keep = base.keep
        /\ l.vaultId = base.vaultId
    BY <1>2 DEF CallOf
  <2>2. Become(h, l)
    BY <1>6
  <2> HIDE DEF l
  <2>3. Agrees(l, rows, escalations)
    BY <1>2, <2>1 DEF Agrees, AgreesHandle, AgreesResolve, AgreesOpen, Resolves
  <2> QED
    BY <1>3, <2>1, <2>2, <2>3
<1> QED
  BY <1>4, <1>5, <1>6 DEF Intake, PickDue

(* The steps of a call that decides, and of one that carries out what was  *)
(* decided and has no payout in hand.                                      *)
LEMMA ActsAt ==
  ASSUME TokenInv, OperatorInv, NEW h \in Handlers, handlers[h].at \in {"decide", "act"}
  PROVE  LET k == handlers[h] IN
         /\ k \in CallOf(RowIds) /\ k.flow = "handle" /\ k.keep /\ k.vaultId = 0 /\ ~Lone(k) /\ ~At(h, "idle")
         /\ k.bill \in Bills
<1> DEFINE k == handlers[h]
<1>1. ~At(h, "idle") /\ ~Lone(k)
  BY DEF At, Lone, Opener
<1>2. Agrees(k, rows, escalations) /\ k.flow \in {"handle", "approve", "reject", "expire"} /\ k \in CallOf(RowIds)
      /\ k.bill \in Bills
  BY <1>1, Flows DEF TokenInv, NamesInv
<1>3. k.flow = "handle" /\ k.keep /\ k.vaultId = 0
  BY <1>2 DEF Agrees, AgreesHandle, AgreesResolve, Resolves, ExpirePlaces
<1> QED
  BY <1>1, <1>2, <1>3

LEMMA ActAgrees ==
  ASSUME NEW l, l.flow = "handle", l.keep, l.vaultId = 0, l.at \in {"decide", "act", "pay", "open", "record", "unclaim", "bill"}
  PROVE  /\ \A rs, es : Agrees(l, rs, es)
         /\ ~Opener(l) /\ \A hs : ~Intrudes(l, hs)
         /\ l.at \notin {"pay", "open"} => \A rs, t : ~Spends(l, rs, t)
BY DEF Agrees, AgreesHandle, AgreesResolve, AgreesOpen, Resolves, HandlePlaces, Opener, Intrudes, Spends

LEMMA ActStep ==
  ASSUME TokenInv, OperatorInv, OperatorInv', NEW h \in Handlers, NEW l \in CallOf(RowIds), Become(h, l),
         l.flow = "handle", l.keep, l.vaultId = 0, l.at \in {"decide", "act", "record", "unclaim", "bill"},
         UNCHANGED <<rows, escalations, now, payments>>, claims \subseteq claims', SameBudget, ~Lone(handlers[h])
  PROVE  TokenInv'
<1>1. /\ Agrees(l, rows, escalations) /\ ~Opener(l) /\ ~Intrudes(l, handlers) /\ ~Spends(l, rows, now)
      /\ l.at # "open"
  BY ActAgrees
<1> QED
  BY <1>1, OwnStep

LEMMA DecideTokens ==
  ASSUME TokenInv, OperatorInv, OperatorInv', NEW h \in Handlers, ReadBills(h) \/ EngineThrows(h) \/ Decide(h)
  PROVE  TokenInv'
<1> DEFINE k == handlers[h]
<1>1. /\ UNCHANGED <<rows, escalations, now, payments>> /\ claims \subseteq claims' /\ SameBudget /\ k.at = "decide"
  BY BudgetSame, BudgetStays DEF ReadBills, EngineThrows, Decide, vaultVars, At
<1>2. k \in CallOf(RowIds) /\ k.flow = "handle" /\ k.keep /\ k.vaultId = 0 /\ ~Lone(k) /\ ~At(h, "idle")
  BY <1>1, ActsAt
<1>3. CASE ReadBills(h)
  <2> DEFINE open == k.open \cup OpenBills
             l == [k EXCEPT !.open = open]
  <2>1. open \in SUBSET Bills
    BY <1>2 DEF CallOf, OpenBills
  <2>2. Become(h, l)
    BY <1>3 DEF ReadBills
  <2> HIDE DEF open
  <2>3. l \in CallOf(RowIds) /\ l.at = k.at /\ l.flow = k.flow /\ l.keep = k.keep /\ l.vaultId = k.vaultId
    BY <1>2, <2>1 DEF CallOf
  <2> HIDE DEF l
  <2> QED
    BY <1>1, <1>2, <2>2, <2>3, ActStep
<1>4. CASE EngineThrows(h)
  <2> DEFINE l == [k EXCEPT !.at = "unclaim"]
  <2>1. l \in CallOf(RowIds) /\ MovedOn(l, k, "unclaim")
    BY <1>2, GoesTo DEF Place
  <2>2. Become(h, l)
    BY <1>4 DEF EngineThrows, Go
  <2> HIDE DEF l
  <2> QED
    BY <1>1, <1>2, <2>1, <2>2, ActStep DEF MovedOn
<1>5. CASE Decide(h)
  <2> DEFINE l == [k EXCEPT !.at = "act", !.left = MaxProposals]
  <2>1. MaxProposals \in 0..MaxProposals
    BY OperatorBoundAssumption
  <2>2. Become(h, l)
    BY <1>5 DEF Decide
  <2>3. l \in CallOf(RowIds) /\ l.at = "act" /\ l.flow = k.flow /\ l.keep = k.keep /\ l.vaultId = k.vaultId
    BY <1>2, <2>1 DEF CallOf, Place
  <2> HIDE DEF l
  <2> QED
    BY <1>1, <1>2, <2>2, <2>3, ActStep
<1> QED
  BY <1>3, <1>4, <1>5

LEMMA FinishTokens ==
  ASSUME TokenInv, OperatorInv, OperatorInv', NEW h \in Handlers, Finish(h)
  PROVE  TokenInv'
<1> DEFINE k == handlers[h]
<1>1. /\ UNCHANGED <<rows, escalations, now, payments>> /\ claims \subseteq claims' /\ SameBudget /\ k.at = "act"
  BY BudgetSame DEF Finish, vaultVars, At
<1>2. k \in CallOf(RowIds) /\ k.flow = "handle" /\ k.keep /\ k.vaultId = 0 /\ ~Lone(k) /\ ~At(h, "idle")
  BY <1>1, ActsAt
<1>3. PICK place \in {"bill", "record"} : Go(h, place)
  BY DEF Finish
<1> DEFINE l == [k EXCEPT !.at = place]
<1>4. l \in CallOf(RowIds) /\ MovedOn(l, k, place)
  BY <1>2, GoesTo DEF Place
<1>5. Become(h, l)
  BY <1>3 DEF Go
<1> HIDE DEF l
<1> QED
  BY <1>1, <1>2, <1>3, <1>4, <1>5, ActStep DEF MovedOn

LEMMA ProposeAsideTokens ==
  ASSUME TokenInv, OperatorInv, OperatorInv', NEW h \in Handlers, NEW status \in Results, ProposeAside(h, status)
  PROVE  TokenInv'
<1> DEFINE k == handlers[h]
           left == k.left - 1
           said == More(k.said, status)
           l == [k EXCEPT !.said = said, !.left = left]
<1>1. k.at = "act" /\ k.left > 0 /\ SameBudget /\ claims \subseteq claims'
  BY BudgetStays DEF ProposeAside, Proposes, At
<1>2. UNCHANGED <<rows, escalations, now, payments>>
  <2>1. CASE UNCHANGED vaultVars
    BY <2>1 DEF ProposeAside, vaultVars
  <2>2. CASE FundBills
    BY <2>2 DEF ProposeAside, FundBills, Allocate
  <2> QED
    BY <2>1, <2>2 DEF ProposeAside
<1>3. k \in CallOf(RowIds) /\ k.flow = "handle" /\ k.keep /\ k.vaultId = 0 /\ ~Lone(k) /\ ~At(h, "idle")
  BY <1>1, ActsAt
<1>4. left \in 0..MaxProposals /\ said \in Results
  BY <1>1, <1>3, MoreIsOne, OperatorBoundAssumption DEF CallOf
<1>5. Become(h, l)
  BY DEF ProposeAside
<1> HIDE DEF left, said
<1>6. l \in CallOf(RowIds) /\ l.at = k.at /\ l.flow = k.flow /\ l.keep = k.keep /\ l.vaultId = k.vaultId
  BY <1>3, <1>4 DEF CallOf
<1> HIDE DEF l
<1> QED
  BY <1>1, <1>2, <1>3, <1>5, <1>6, ActStep

(* A payout that is proposed adds a token and a holder of it.              *)
LEMMA ProposeTokens ==
  ASSUME TokenInv, OperatorInv, OperatorInv', NEW h \in Handlers, NEW b \in Bills,
         ProposeUnmatched(h, b) \/ \E place \in Place : ProposePayout(h, b, place)
  PROVE  TokenInv'
<1> DEFINE k == handlers[h]
<1>1. PICK place \in {"pay", "open"} :
        /\ planned' = [planned EXCEPT ![b] = @ + 1]
        /\ Become(h, [k EXCEPT !.at = place, !.bill = b, !.left = @ - 1])
        /\ UNCHANGED <<vaultVars, rows, claims, payments, overlaps, faults>>
  BY DEF ProposeUnmatched, ProposePayout
<1>2. k.at = "act" /\ k.left > 0 /\ UNCHANGED <<rows, escalations, now, payments, claims>>
  BY <1>1 DEF ProposeUnmatched, ProposePayout, Proposes, At, vaultVars
<1>3. k \in CallOf(RowIds) /\ k.flow = "handle" /\ k.keep /\ k.vaultId = 0 /\ ~Lone(k) /\ ~At(h, "idle")
  BY <1>2, ActsAt
<1> DEFINE left == k.left - 1
           l == [k EXCEPT !.at = place, !.bill = b, !.left = left]
<1>4. left \in 0..MaxProposals
  BY <1>2, <1>3, OperatorBoundAssumption DEF CallOf
<1>5. Become(h, l)
  BY <1>1
<1> HIDE DEF left
<1>6. /\ l \in CallOf(RowIds) /\ l.at = place /\ l.bill = b /\ l.flow = k.flow /\ l.keep = k.keep
      /\ l.vaultId = k.vaultId
  BY <1>3, <1>4 DEF CallOf, Place
<1> HIDE DEF l
<1>7. RowIds' = RowIds
  BY <1>2 DEF RowIds
<1>8. Alike(handlers'[h], l) /\ \A g \in Handlers \ {h} : Alike(handlers'[g], handlers[g])
  BY <1>5, <1>6, <1>7, Becomes
<1>9. Agrees(l, rows, escalations) /\ ~Opener(l) /\ ~Intrudes(l, handlers)
  BY <1>1, <1>3, <1>6, ActAgrees
<1>10. Calm(h, l, 0)
  BY <1>2, <1>3, <1>6, <1>8, <1>9, Shapes DEF Calm, RowsKept, EscsKept
<1>11. Moves(h, 0, 0) /\ NewRowNamed(h, 0) /\ CallNamed(h, l)
  BY <1>10, CalmMoves, CalmNames DEF NewRowNamed, Calm
<1>12. ASSUME NEW c \in Bills PROVE Budget(c) \in Nat /\ Budget(c)' = Budget(c) + Bit(c = b)
  <2>1. planned \in [Bills -> Nat] /\ overlaps \in Nat /\ faults \in Nat
    BY DEF OperatorInv, ServiceInv, Books, Told
  <2>2. planned'[c] = planned[c] + Bit(c = b)
    BY <1>1, <2>1 DEF Bit
  <2>3. Bit(c = b) \in Nat
    BY BitType
  <2> QED
    BY <1>1, <2>1, <2>2, <2>3 DEF Budget
<1>13. ASSUME NEW c \in Bills PROVE Balanced(c, h, 0, 0)
  <2>1. ~Resolves(l)
    BY <1>3, <1>6 DEF Resolves
  <2>2. h \in Holders(c)' => c = b
    BY <1>6, <1>8, <1>11, <2>1, HeldAfter
  <2>3. Bit(h \in Holders(c)') <= Bit(c = b)
    BY <2>2, BitGrows
  <2>4. 0 \notin OpenRows(c) /\ 0 \notin OpenRows(c)' /\ 0 \notin LiveOf(c) /\ 0 \notin LiveOf(c)'
    BY ZeroIsNone
  <2>5. /\ Bit(0 \in OpenRows(c)') = 0 /\ Bit(0 \in OpenRows(c)) = 0
        /\ Bit(0 \in LiveOf(c)') = 0 /\ Bit(0 \in LiveOf(c)) = 0
    BY <2>4 DEF Bit
  <2>6. payments[c] \in Nat /\ payments'[c] = payments[c]
    BY <1>2, Shapes
  <2> DEFINE x == Bit(c = b)
             g == Bit(h \in Holders(c))
             G == Bit(h \in Holders(c)')
  <2>7. x \in Nat /\ g \in Nat /\ G \in Nat
    BY BitType
  <2>8. Budget(c) \in Nat /\ Budget(c)' = Budget(c) + x
    BY <1>12
  <2> HIDE DEF x, g, G
  <2>9. payments[c] + G + 0 + 0 + Budget(c) <= payments[c] + g + 0 + 0 + (Budget(c) + x)
    BY <2>3, <2>6, <2>7, <2>8 DEF x, G
  <2> QED
    BY <2>5, <2>6, <2>8, <2>9 DEF Balanced, g, G
<1> QED
  BY <1>11, <1>13, TokenStep

(* A call whose payout was carried out.                                    *)
LEMMA AnsweredCall ==
  ASSUME NEW h \in Handlers, handlers[h] \in CallOf(RowIds), NEW status \in Results
  PROVE  LET l == Answered(h, status)
             k == handlers[h]
         IN  /\ l \in CallOf(RowIds) /\ l.at = "act" /\ l.flow = k.flow /\ l.keep = k.keep
             /\ l.bill = k.bill /\ l.row = k.row /\ l.event = k.event /\ l.vaultId = 0
<1> DEFINE k == handlers[h]
           said == More(k.said, status)
<1>1. said \in Results /\ 0 \in Nat
  BY MoreIsOne DEF CallOf
<1>2. Answered(h, status) = [k EXCEPT !.at = "act", !.said = said, !.vaultId = 0]
  BY DEF Answered
<1> HIDE DEF said
<1> QED
  BY <1>1, <1>2 DEF CallOf, Place

(* Where a payout goes that the vault did not make.                        *)
LEMMA UnpaidAt ==
  ASSUME TokenInv, OperatorInv, NEW h \in Handlers, At(h, "pay"), NEW hash \in BOOLEAN
  PROVE  LET l == Unpaid(h, hash)
             k == handlers[h]
         IN  /\ l \in CallOf(RowIds) /\ l.at # "idle" /\ l.at # "open" /\ l.bill = k.bill /\ l.row = k.row
             /\ Agrees(l, rows, escalations) /\ ~Opener(l) /\ ~Intrudes(l, handlers)
             /\ Spends(l, rows, now) => Spends(k, rows, now)
             /\ Resolves(l) => l.row \in DOMAIN rows
<1> DEFINE k == handlers[h]
           l == Unpaid(h, hash)
<1>1. ~At(h, "idle") /\ k.at = "pay"
  BY DEF At
<1>2. Agrees(k, rows, escalations) /\ k.flow \in {"handle", "approve", "reject", "expire"} /\ k \in CallOf(RowIds)
  BY <1>1, Flows DEF TokenInv, NamesInv
<1>3. CASE Is(h, "handle")
  <2>1. l = Answered(h, "failed")
    BY <1>3 DEF Unpaid
  <2>3. k.flow = "handle" /\ k.keep
    BY <1>2, <1>3 DEF Is, Agrees, AgreesHandle
  <2>4. /\ l \in CallOf(RowIds) /\ l.at = "act" /\ l.flow = k.flow /\ l.bill = k.bill /\ l.row = k.row /\ l.keep = k.keep
        /\ l.vaultId = 0
    BY <1>2, <2>1, AnsweredCall DEF Results
  <2> HIDE DEF l
  <2> QED
    BY <2>3, <2>4, ActAgrees DEF Resolves, l
<1>4. CASE ~Is(h, "handle")
  <2>1. l = [k EXCEPT !.at = "record", !.keep = hash]
    BY <1>4 DEF Unpaid
  <2>2. l \in CallOf(RowIds) /\ l.at = "record" /\ l.flow = k.flow /\ l.bill = k.bill /\ l.row = k.row
    BY <1>2, <2>1 DEF CallOf, Place
  <2>3. k.flow # "handle"
    BY <1>4 DEF Is
  <2> HIDE DEF l
  <2>4. l.at \in Quiet /\ Settled(l)
    BY <2>2, <2>3 DEF Settled, Quiet, ExpirePlaces
  <2>5. Agrees(l, rows, escalations) /\ ~Opener(l) /\ l.at # "open" /\ ~Intrudes(l, handlers)
    BY <1>2, <2>2, <2>4, SettledAgrees
  <2>6. Spends(l, rows, now) => Spends(k, rows, now)
    BY <1>1, <2>2, <2>3 DEF Spends, Resolves
  <2> QED
    BY <2>2, <2>5, <2>6 DEF l, Agrees, AgreesResolve
<1> QED
  BY <1>3, <1>4

LEMMA PayFailsTokens ==
  ASSUME TokenInv, OperatorInv, OperatorInv', NEW h \in Handlers, PayFails(h)
  PROVE  TokenInv'
<1> DEFINE k == handlers[h]
<1>1. /\ UNCHANGED <<rows, escalations, now, payments>> /\ claims \subseteq claims' /\ SameBudget
      /\ ~Lone(k) /\ k.at # "idle" /\ At(h, "pay")
  BY BudgetSame DEF PayFails, vaultVars, At, Lone, Opener
<1>2. PICK mined \in BOOLEAN : Become(h, Unpaid(h, mined))
  BY DEF PayFails
<1> DEFINE l == Unpaid(h, mined)
<1>3. /\ l \in CallOf(RowIds) /\ l.at # "open" /\ l.bill = k.bill
      /\ Agrees(l, rows, escalations) /\ ~Opener(l) /\ ~Intrudes(l, handlers)
      /\ Spends(l, rows, now) => Spends(k, rows, now)
  BY <1>1, UnpaidAt
<1>4. Become(h, l)
  BY <1>2
<1> HIDE DEF l
<1>5. Spends(l, rows, now) => Uses(k, l.bill, rows, now, handlers)
  BY <1>1, <1>3 DEF Uses
<1> QED
  BY <1>1, <1>3, <1>4, <1>5, OwnStep

(* The plain moves between quiet places. *)
LEMMA PlainTokens ==
  ASSUME TokenInv, OperatorInv, OperatorInv', NEW h \in Handlers, ~At(h, "idle"), NEW place \in Quiet, Go(h, place),
         UNCHANGED <<rows, escalations, now, payments, claims>>, SameBudget,
         handlers[h].at \in {"bill", "append", "find", "close", "row", "check"},
         handlers[h].flow \in {"handle", "expire"} => place = "record" \/ (place = "close" /\ handlers[h].flow = "expire"),
         Resolves(handlers[h]) => place # "bill",
         Resolves(handlers[h]) /\ handlers[h].at = "row" => place = "save" \/ ~Timely(handlers[h].row, rows, now)
  PROVE  TokenInv'
<1> DEFINE k == handlers[h]
           l == [k EXCEPT !.at = place]
<1>1. Agrees(k, rows, escalations) /\ k.flow \in {"handle", "approve", "reject", "expire"}
  BY Flows DEF TokenInv, NamesInv
<1>2. l \in CallOf(RowIds) /\ MovedOn(l, k, place)
  BY GoesTo DEF Place, Quiet
<1>3. Become(h, l)
  BY DEF Go
<1> HIDE DEF l
<1>4. Settled(l)
  BY <1>1, <1>2 DEF Settled, MovedOn, Agrees, AgreesHandle, HandlePlaces, ExpirePlaces, Resolves
<1>5. ~Lone(k)
  BY DEF Lone, Opener
<1>6. Spends(l, rows, now) => Spends(k, rows, now)
  BY <1>2 DEF Spends, Resolves, MovedOn, Quiet
<1> QED
  BY <1>2, <1>3, <1>4, <1>5, <1>6, QuietGo DEF MovedOn, Quiet

-----------------------------------------------------------------------------
LEMMA TimelyRows == \A i : Actionable(i) <=> Timely(i, rows, now)
  BY DEF Actionable, Stale, Timely

LEMMA WriteBillTokens ==
  ASSUME TokenInv, OperatorInv, OperatorInv', NEW h \in Handlers, UpdateBill(h) \/ CloseBill(h)
  PROVE  TokenInv'
<1>1. /\ UNCHANGED <<rows, escalations, now, payments, claims>> /\ SameBudget /\ ~At(h, "idle") /\ Go(h, "record")
      /\ handlers[h].at \in {"bill", "close"}
  BY BudgetSame DEF UpdateBill, CloseBill, vaultVars, At
<1> QED
  BY <1>1, PlainTokens DEF Quiet

LEMMA RelinkTokens ==
  ASSUME TokenInv, OperatorInv, OperatorInv', NEW h \in Handlers, Relink(h) \/ RecordThrows(h)
  PROVE  TokenInv'
<1>1. /\ UNCHANGED <<rows, escalations, now, payments, claims>> /\ SameBudget /\ ~At(h, "idle")
      /\ handlers[h].at = "append" /\ ~Lone(handlers[h])
  BY BudgetSame DEF Relink, RecordThrows, vaultVars, At, Lone, Opener
<1>2. CASE Go(h, "record")
  BY <1>1, <1>2, PlainTokens DEF Quiet
<1>3. CASE (Is(h, "approve") \/ Is(h, "reject")) /\ Go(h, "unclaim")
  BY <1>1, <1>3, PlainTokens DEF Quiet, Is
<1>4. CASE Done(h)
  BY <1>1, <1>4, DoneTokens
<1> QED
  BY <1>2, <1>3, <1>4 DEF Relink, RecordThrows

LEMMA LoadRowTokens ==
  ASSUME TokenInv, OperatorInv, OperatorInv', NEW h \in Handlers, LoadRow(h)
  PROVE  TokenInv'
<1>1. /\ UNCHANGED <<rows, escalations, now, payments, claims>> /\ SameBudget /\ ~At(h, "idle")
      /\ handlers[h].at = "row"
  BY BudgetSame DEF LoadRow, vaultVars, At
<1>2. handlers[h].flow \notin {"handle", "expire"}
  BY <1>1 DEF TokenInv, NamesInv, Agrees, AgreesHandle, HandlePlaces, ExpirePlaces
<1>3. Go(h, "save") \/ (~Timely(handlers[h].row, rows, now) /\ Go(h, "unclaim"))
  BY TimelyRows DEF LoadRow
<1> QED
  BY <1>1, <1>2, <1>3, PlainTokens DEF Quiet

LEMMA FindBillTokens ==
  ASSUME TokenInv, OperatorInv, OperatorInv', NEW h \in Handlers, FindBill(h)
  PROVE  TokenInv'
<1>1. /\ UNCHANGED <<rows, escalations, now, payments, claims>> /\ SameBudget /\ ~At(h, "idle")
      /\ handlers[h].at = "find"
  BY BudgetSame DEF FindBill, vaultVars, At
<1>2. handlers[h].flow # "handle"
  BY <1>1 DEF TokenInv, NamesInv, Agrees, AgreesHandle, HandlePlaces
<1>3. Go(h, "close") \/ Go(h, "record")
  BY DEF FindBill
<1> QED
  BY <1>1, <1>2, <1>3, PlainTokens DEF Quiet

LEMMA CheckRowTokens ==
  ASSUME TokenInv, OperatorInv, OperatorInv', NEW h \in Handlers, CheckRow(h)
  PROVE  TokenInv'
<1> DEFINE k == handlers[h]
<1>1. /\ UNCHANGED <<rows, escalations, now, payments, claims>> /\ SameBudget /\ ~At(h, "idle") /\ k.at = "check"
  BY BudgetSame DEF CheckRow, vaultVars, At
<1>2. Agrees(k, rows, escalations) /\ k.flow \in {"handle", "approve", "reject", "expire"} /\ k.bill \in Bills
  BY <1>1, Flows DEF TokenInv, NamesInv
<1>3. /\ Resolves(k) /\ k.row \in DOMAIN rows /\ rows[k.row].bill = k.bill
      /\ k.vaultId = rows[k.row].vaultId /\ k.fresh = 0
  BY <1>1, <1>2 DEF Agrees, AgreesHandle, AgreesResolve, Resolves, HandlePlaces, ExpirePlaces
<1>4. CASE Go(h, "unclaim") \/ Go(h, "row")
  BY <1>1, <1>3, <1>4, PlainTokens DEF Quiet, Resolves
<1>5. CASE k.vaultId # 0 /\ Go(h, "vault")
  <2> DEFINE l == [k EXCEPT !.at = "vault"]
  <2>1. l \in CallOf(RowIds) /\ MovedOn(l, k, "vault")
    BY <1>1, GoesTo DEF Place
  <2>2. Become(h, l)
    BY <1>5 DEF Go
  <2> HIDE DEF l
  <2>3. Known(k.vaultId, k.bill, escalations)
    BY <1>3, <1>5 DEF TokenInv, NamesInv
  <2>4. Agrees(l, rows, escalations) /\ ~Opener(l) /\ l.at # "open"
    BY <1>3, <1>5, <2>1, <2>3 DEF Agrees, AgreesHandle, AgreesResolve, AgreesOpen, AgreesVault, Resolves, MovedOn, Opener
  <2>5. ~Spends(l, rows, now)
    BY <1>3, <1>5, <2>1 DEF Spends, MovedOn, Resolves
  <2>6. Intrudes(l, handlers) => Uses(k, l.bill, rows, now, handlers)
    BY <1>1, <2>1 DEF Uses, Intrudes, MovedOn
  <2> QED
    BY <1>1, <2>1, <2>2, <2>4, <2>5, <2>6, OwnStep DEF Lone, Opener
<1>6. CASE k.vaultId = 0 /\ Is(h, "approve") /\ Actionable(k.row) /\ Go(h, "pay")
  <2> DEFINE l == [k EXCEPT !.at = "pay"]
  <2>1. l \in CallOf(RowIds) /\ MovedOn(l, k, "pay")
    BY <1>1, GoesTo DEF Place
  <2>2. Become(h, l)
    BY <1>6 DEF Go
  <2> HIDE DEF l
  <2>4. Agrees(l, rows, escalations) /\ ~Opener(l) /\ l.at # "open"
    BY <1>3, <1>6, <2>1 DEF Agrees, AgreesHandle, AgreesResolve, AgreesOpen, Resolves, MovedOn, Opener, Is
  <2>5. Uses(k, l.bill, rows, now, handlers)
    BY <1>1, <1>3, <1>6, <2>1, TimelyRows DEF Uses, Spends, MovedOn
  <2> QED
    BY <1>1, <2>1, <2>2, <2>4, <2>5, OwnStep DEF Lone, Opener
<1> QED
  BY <1>4, <1>5, <1>6 DEF CheckRow

LEMMA ReadHeadTokens ==
  ASSUME TokenInv, OperatorInv, OperatorInv', NEW h \in Handlers, ReadHead(h)
  PROVE  TokenInv'
<1> DEFINE k == handlers[h]
           l == [k EXCEPT !.at = "append", !.behind = FALSE]
<1>1. /\ UNCHANGED <<rows, escalations, now, payments>> /\ claims \subseteq claims' /\ SameBudget
      /\ ~Lone(k) /\ ~At(h, "idle") /\ k.at = "record"
  BY BudgetSame DEF ReadHead, vaultVars, At, Lone, Opener
<1>2. Agrees(k, rows, escalations) /\ k.flow \in {"handle", "approve", "reject", "expire"} /\ k \in CallOf(RowIds)
  BY <1>1, Flows DEF TokenInv, NamesInv
<1>3. l \in CallOf(RowIds) /\ l.at = "append" /\ l.flow = k.flow /\ l.bill = k.bill /\ l.row = k.row /\ l.keep = k.keep
  BY <1>2 DEF CallOf, Place
<1>4. Become(h, l)
  BY DEF ReadHead
<1> HIDE DEF l
<1>5. Settled(l)
  BY <1>2, <1>3 DEF Settled, Agrees, AgreesHandle, HandlePlaces, ExpirePlaces
<1>6. Spends(l, rows, now) => Spends(k, rows, now)
  BY <1>1, <1>3 DEF Spends, Resolves
<1> QED
  BY <1>1, <1>3, <1>4, <1>5, <1>6, QuietGo DEF Quiet

LEMMA ListStaleTokens ==
  ASSUME TokenInv, OperatorInv, OperatorInv', NEW h \in Handlers, ListStale(h)
  PROVE  TokenInv'
<1> DEFINE b == rows[One(StaleRows)].bill
           base == New("expire", b, "stale")
           l == [base EXCEPT !.todo = StaleRows, !.done = StaleRows]
<1>1. /\ UNCHANGED <<rows, escalations, now, payments>> /\ claims \subseteq claims' /\ SameBudget
      /\ ~Lone(handlers[h])
  BY BudgetSame DEF ListStale, vaultVars, At, Lone, Opener
<1>2. One(StaleRows) \in StaleRows
  BY DEF ListStale, One
<1>3. StaleRows \subseteq RowIds \ {0} /\ b \in Bills
  BY <1>2, RowOf DEF StaleRows, OperatorInv
<1>4. base \in CallOf(RowIds) /\ Agrees(base, rows, escalations) /\ base.at = "stale" /\ base.flow = "expire"
  BY <1>3, NewCall
<1>5. Become(h, l)
  BY DEF ListStale
<1> HIDE DEF base
<1>6. l \in CallOf(RowIds) /\ l.at = "stale" /\ l.flow = "expire"
  <2> DEFINE half == [base EXCEPT !.todo = StaleRows]
  <2>1. half \in CallOf(RowIds) /\ half.at = "stale" /\ half.flow = "expire"
    BY <1>3, <1>4 DEF CallOf
  <2>2. l = [half EXCEPT !.done = StaleRows]
    OBVIOUS
  <2> HIDE DEF half
  <2>3. [half EXCEPT !.done = StaleRows] \in CallOf(RowIds) /\ [half EXCEPT !.done = StaleRows].at = "stale"
        /\ [half EXCEPT !.done = StaleRows].flow = "expire"
    BY <1>3, <2>1 DEF CallOf
  <2> QED
    BY <2>2, <2>3
<1> HIDE DEF l
<1>7. Agrees(l, rows, escalations) /\ ~Opener(l) /\ ~Spends(l, rows, now) /\ ~Intrudes(l, handlers)
  BY <1>6 DEF Agrees, AgreesHandle, AgreesResolve, AgreesOpen, Resolves, ExpirePlaces, Opener, Spends, Intrudes
<1> QED
  BY <1>1, <1>5, <1>6, <1>7, OwnStep

-----------------------------------------------------------------------------
(* The steps of the world, and stuttering: no call moves but to fall behind. *)
LEMMA AlikeStep ==
  ASSUME TokenInv, OperatorInv, OperatorInv', \A g \in Handlers : Alike(handlers'[g], handlers[g]),
         UNCHANGED <<rows, escalations, payments, claims>>, SameBudget, now <= now'
  PROVE  TokenInv'
<1>1. RowsKept /\ EscsKept
  BY DEF RowsKept, EscsKept
<1>2. Moves(0, 0, 0)
  BY <1>1 DEF Moves, Alike, Lone, Opener
<1>3. NewRowNamed(0, 0)
  BY DEF NewRowNamed
<1>4. ASSUME 0 \in Handlers PROVE CallNamed(0, handlers[0])
  <2> DEFINE k == handlers[0]
  <2>1. k.at # "idle" => Agrees(k, rows, escalations)
    BY <1>4 DEF TokenInv, NamesInv, At
  <2>2. k.at # "idle" => Agrees(k, rows', escalations')
    BY <2>1
  <2>3. k.at = "open" /\ k.vaultId # 0 => Unshown(k.vaultId, 0)
    BY <1>4 DEF TokenInv, NamesInv, OpenApart, Unshown
  <2> QED
    BY <1>4, <2>2, <2>3 DEF CallNamed
<1>5. ASSUME NEW b \in Bills PROVE Balanced(b, 0, 0, 0)
  <2>1. 0 \in Holders(b)' => 0 \in Holders(b)
    <3>1. SUFFICES ASSUME 0 \in Holders(b)' PROVE 0 \in Holders(b)
      OBVIOUS
    <3> DEFINE k == handlers[0]
    <3>2. 0 \in Handlers /\ Alike(handlers'[0], k) /\ k.at # "idle"
      BY <3>1 DEF Holders, Uses, Alike
    <3>3. Resolves(k) => k.row \in DOMAIN rows
      BY <3>2 DEF TokenInv, NamesInv, Agrees, AgreesResolve, At
    <3>4. k.at # "idle" /\ k.bill = b /\ (Spends(k, rows, now) \/ Intrudes(k, handlers))
      BY <1>2, <3>1, <3>2, <3>3, HeldAfter
    <3> QED
      BY <3>2, <3>4 DEF Holders, Uses
  <2>2. /\ 0 \notin OpenRows(b) /\ 0 \notin OpenRows(b)' /\ 0 \notin LiveOf(b) /\ 0 \notin LiveOf(b)'
    BY ZeroIsNone
  <2>3. Bit(0 \in Holders(b)') <= Bit(0 \in Holders(b))
    BY <2>1, BitGrows
  <2>4. payments[b] \in Nat /\ Budget(b) \in Nat /\ Budget(b)' = Budget(b)
    BY Shapes DEF SameBudget
  <2> QED
    BY <2>2, <2>3, <2>4, BitType DEF Balanced, Bit
<1> QED
  BY <1>2, <1>3, <1>4, <1>5, TokenStep

LEMMA OvertakenAlike == ASSUME OperatorInv, NEW g \in Handlers PROVE Alike(Overtaken(g), handlers[g])
<1>1. CASE At(g, "append")
  <2>1. handlers[g] \in CallOf(RowIds)
    BY <1>1, UnderWay DEF OperatorInv, At
  <2> QED
    BY <1>1, <2>1 DEF Overtaken, Alike, CallOf
<1>2. CASE ~At(g, "append")
  BY <1>2, AlikeSelf DEF Overtaken
<1> QED
  BY <1>1, <1>2

LEMMA WorldTokens ==
  ASSUME TokenInv, OperatorInv, OperatorInv', World
  PROVE  TokenInv'
<1>1. UNCHANGED <<rows, escalations, payments, claims>> /\ UNCHANGED <<history, faults>>
  BY DEF World, Fund, FundBills, OwnerAdmin, Inflow, VaultTick, Allocate, SetAllowlist, serviceVars
<1>a. SameBudget
  BY <1>1, BudgetSame
<1>2. now <= now'
  BY Shapes DEF World, Fund, FundBills, OwnerAdmin, Inflow, VaultTick, Allocate, SetAllowlist, Tick
<1>3. \A g \in Handlers : Alike(handlers'[g], handlers[g])
  <2>1. CASE Fund
    BY <2>1, OvertakenAlike DEF Fund
  <2>2. CASE handlers' = handlers
    BY <2>2, AlikeSelf
  <2> QED
    BY <2>1, <2>2 DEF World, OwnerAdmin, serviceVars
<1> QED
  BY <1>1, <1>a, <1>2, <1>3, AlikeStep

-----------------------------------------------------------------------------
(* A calm step in which call h goes to a place where it opens nothing.     *)
LEMMA CalmHeld ==
  ASSUME TokenInv, OperatorInv, OperatorInv', NEW h \in Handlers, NEW l, NEW e, Calm(h, l, e),
         payments' = payments, SameBudget, \A b \in Bills : e \in LiveOf(b)' => e \in LiveOf(b),
         ~Intrudes(l, handlers), l.at # "idle" => handlers[h].at # "idle" /\ l.bill = handlers[h].bill,
         Spends(l, rows', now') /\ Spends(l, rows, now) => Spends(handlers[h], rows, now)
  PROVE  TokenInv'
<1>1. ASSUME NEW b \in Bills, h \in Holders(b)' PROVE h \in Holders(b)
  <2>1. Moves(h, e, 0) /\ Alike(handlers'[h], l)
    BY CalmMoves DEF Calm
  <2>2. l.at # "idle"
    BY <1>1, <2>1 DEF Holders, Uses, Alike
  <2>3. Resolves(l) => l.row \in DOMAIN rows
    BY <2>2 DEF Calm, Agrees, AgreesResolve
  <2>4. l.bill = b /\ Spends(l, rows', now') /\ Spends(l, rows, now)
    BY <1>1, <2>1, <2>3, HeldAfter
  <2> QED
    BY <2>2, <2>4 DEF Holders, Uses
<1> QED
  BY <1>1, CalmStep

(* What is written of a row, and of an escalation, is that it is resolved. *)
LEMMA RowsWritten ==
  ASSUME OperatorInv, NEW i, NEW status, status # "pending", rows' = [rows EXCEPT ![i].status = status]
  PROVE  RowsKept /\ DOMAIN rows' = DOMAIN rows /\ ~Timely(i, rows', now')
<1>1. \A j \in DOMAIN rows : rows[j] \in Row
  BY Shapes
<1>2. DOMAIN rows' = DOMAIN rows
  OBVIOUS
<1>3. \A j \in DOMAIN rows : rows'[j] = IF j = i THEN [rows[j] EXCEPT !.status = status] ELSE rows[j]
  OBVIOUS
<1>4. \A r \in Row : /\ [r EXCEPT !.status = status].bill = r.bill /\ [r EXCEPT !.status = status].vaultId = r.vaultId
                     /\ [r EXCEPT !.status = status].createdAt = r.createdAt
                     /\ [r EXCEPT !.status = status].status = status
  BY DEF Row
<1>5. \A j \in DOMAIN rows : /\ rows'[j].bill = rows[j].bill /\ rows'[j].vaultId = rows[j].vaultId
                             /\ rows'[j].createdAt = rows[j].createdAt
                             /\ rows'[j].status = IF j = i THEN status ELSE rows[j].status
  BY <1>1, <1>3, <1>4
<1> QED
  BY <1>2, <1>5 DEF RowsKept, Timely

LEMMA EscsWritten ==
  ASSUME OperatorInv, NEW x, NEW status, status # "Pending", Resolve(x, status)
  PROVE  /\ EscsKept /\ DOMAIN escalations' = DOMAIN escalations
         /\ \A b : x \notin LiveOf(b)'
<1>1. \A j \in DOMAIN escalations : escalations[j] \in Escalation
  BY Shapes
<1>2. DOMAIN escalations' = DOMAIN escalations
  BY DEF Resolve
<1>3. \A j \in DOMAIN escalations : escalations'[j] = IF j = x THEN [escalations[j] EXCEPT !.status = status] ELSE escalations[j]
  BY DEF Resolve
<1>4. \A r \in Escalation : /\ [r EXCEPT !.status = status].decision = r.decision
                            /\ [r EXCEPT !.status = status].createdAt = r.createdAt
                            /\ [r EXCEPT !.status = status].status = status
  BY DEF Escalation
<1>5. \A j \in DOMAIN escalations : /\ escalations'[j].decision = escalations[j].decision
                                    /\ escalations'[j].createdAt = escalations[j].createdAt
                                    /\ escalations'[j].status = IF j = x THEN status ELSE escalations[j].status
  BY <1>1, <1>3, <1>4
<1> QED
  BY <1>2, <1>5 DEF EscsKept, LiveOf, PendingIds

LEMMA AppendDecisionTokens ==
  ASSUME TokenInv, OperatorInv, OperatorInv', NEW h \in Handlers, AppendDecision(h)
  PROVE  TokenInv'
<1> DEFINE k == handlers[h]
           l == Recorded(k)
<1>1. /\ UNCHANGED <<rows, escalations, now, payments, claims>> /\ SameBudget /\ ~Lone(k) /\ k.at = "append" /\ ~At(h, "idle")
  BY BudgetSame DEF AppendDecision, vaultVars, At, Lone, Opener
<1>2. Agrees(k, rows, escalations) /\ k.flow \in {"handle", "approve", "reject", "expire"} /\ k \in CallOf(RowIds)
  BY <1>1, Flows DEF TokenInv, NamesInv
<1>3. \/ l = NoCall
      \/ l \in CallOf(RowIds) /\ MovedOn(l, k, "lapse") /\ k.flow = "expire"
      \/ l \in CallOf(RowIds) /\ MovedOn(l, k, "unclaim") /\ Resolves(k)
  <2>1. \A place \in Place : [k EXCEPT !.at = place] \in CallOf(RowIds) /\ MovedOn([k EXCEPT !.at = place], k, place)
    BY <1>1, GoesTo
  <2>2. "lapse" \in Place /\ "unclaim" \in Place
    BY DEF Place
  <2>3. k.flow = "handle" => k.keep
    BY <1>2 DEF Agrees, AgreesHandle
  <2>4. l = NoCall \/ (k.flow = "expire" /\ l = [k EXCEPT !.at = "lapse"])
        \/ (k.flow # "expire" /\ ~k.keep /\ l = [k EXCEPT !.at = "unclaim"])
    BY DEF Recorded
  <2> QED
    BY <1>2, <2>1, <2>2, <2>3, <2>4 DEF Resolves
<1> HIDE DEF l
<1>4. RowIds' = RowIds
  BY <1>1 DEF RowIds
<1>5. Alike(handlers'[h], l)
  <2>1. handlers'[h] = Tidy(l)
    BY DEF AppendDecision, l
  <2> QED
    BY <1>3, <1>4, <2>1, TidyAlike
<1>6. \A g \in Handlers \ {h} : Alike(handlers'[g], handlers[g])
  BY OvertakenAlike DEF AppendDecision
<1>7. /\ ~Opener(l) /\ l.at # "open" /\ ~Intrudes(l, handlers)
      /\ l.at # "idle" => l.bill = k.bill /\ Agrees(l, rows, escalations)
  <2>1. CASE l = NoCall
    BY <2>1 DEF NoCall, Opener, Intrudes
  <2>2. CASE MovedOn(l, k, "lapse") /\ k.flow = "expire"
    BY <2>2 DEF MovedOn, Opener, Intrudes, Agrees, AgreesHandle, AgreesResolve, AgreesOpen, Resolves, ExpirePlaces
  <2>3. CASE MovedOn(l, k, "unclaim") /\ Resolves(k)
    BY <1>2, <2>3, SettledAgrees DEF MovedOn, Settled, Resolves, Quiet
  <2> QED
    BY <1>3, <2>1, <2>2, <2>3
<1>8. Spends(l, rows, now) => Spends(k, rows, now)
  BY <1>1, <1>3 DEF Spends, MovedOn, Resolves, NoCall
<1>9. Calm(h, l, 0)
  BY <1>1, <1>5, <1>6, <1>7, Shapes DEF Calm, RowsKept, EscsKept
<1> QED
  BY <1>1, <1>7, <1>8, <1>9, CalmHeld, ZeroIsNone, Shapes DEF At

LEMMA WriteRowTokens ==
  ASSUME TokenInv, OperatorInv, OperatorInv', NEW h \in Handlers, ApproveFresh(h) \/ SaveRow(h)
  PROVE  TokenInv'
<1> DEFINE k == handlers[h]
<1>1. /\ UNCHANGED <<escalations, now, payments, claims>> /\ SameBudget /\ ~Lone(k) /\ k.at \in {"fresh", "save"} /\ ~At(h, "idle")
  BY BudgetSame DEF ApproveFresh, SaveRow, vaultVars, At, Lone, Opener
<1>2. Agrees(k, rows, escalations) /\ k.flow \in {"handle", "approve", "reject", "expire"} /\ k \in CallOf(RowIds)
  BY <1>1, Flows DEF TokenInv, NamesInv
<1>3. Resolves(k)
  BY <1>1, <1>2 DEF Agrees, AgreesHandle, HandlePlaces, ExpirePlaces, Resolves
<1>4. RowsKept /\ DOMAIN rows' = DOMAIN rows /\ (SaveRow(h) => ~Timely(k.row, rows', now'))
  <2>1. CASE SaveRow(h)
    <3> DEFINE status == IF Is(h, "approve") THEN "approved" ELSE "rejected"
    <3>1. rows' = [rows EXCEPT ![k.row].status = status] /\ status # "pending"
      BY <2>1 DEF SaveRow
    <3> HIDE DEF status
    <3> QED
      BY <3>1, RowsWritten
  <2>2. CASE ApproveFresh(h) /\ ~SaveRow(h)
    <3>1. CASE rows' = rows
      BY <2>2, <3>1 DEF RowsKept
    <3>2. CASE rows' = [rows EXCEPT ![k.fresh].status = "approved"]
      BY <2>2, <3>2, RowsWritten
    <3> QED
      BY <2>2, <3>1, <3>2 DEF ApproveFresh
  <2> QED
    BY <2>1, <2>2
<1>5. PICK l \in CallOf(RowIds) :
        /\ Become(h, l) /\ l.flow = k.flow /\ l.bill = k.bill /\ l.row = k.row
        /\ \/ ApproveFresh(h) /\ l.at = "row" /\ k.outcome = "paid"
           \/ ApproveFresh(h) /\ l.at = "record" /\ k.outcome # "paid"
           \/ SaveRow(h) /\ l.at = "find"
  <2>1. CASE ApproveFresh(h)
    <3> DEFINE place == IF k.outcome = "paid" THEN "row" ELSE "record"
               l == [k EXCEPT !.at = place]
    <3>1. place \in Place
      BY DEF Place
    <3>2. Become(h, l)
      BY <2>1 DEF ApproveFresh, Go
    <3> HIDE DEF place
    <3>3. l \in CallOf(RowIds) /\ MovedOn(l, k, place)
      BY <1>1, <3>1, GoesTo
    <3> HIDE DEF l
    <3> QED
      BY <2>1, <3>2, <3>3 DEF MovedOn, place
  <2>2. CASE SaveRow(h)
    <3> DEFINE outcome == IF Is(h, "approve") THEN "paid" ELSE "rejected"
               l == [k EXCEPT !.at = "find", !.outcome = outcome]
    <3>1. outcome \in {"paid", "rejected"}
      OBVIOUS
    <3>2. Become(h, l)
      BY <2>2 DEF SaveRow
    <3> HIDE DEF outcome
    <3>3. l \in CallOf(RowIds) /\ l.at = "find" /\ l.flow = k.flow /\ l.bill = k.bill /\ l.row = k.row
      BY <1>2, <3>1 DEF CallOf, Place
    <3> HIDE DEF l
    <3> QED
      BY <2>2, <3>2, <3>3
  <2> QED
    BY <2>1, <2>2
<1>6. SaveRow(h) \/ k.at = "fresh"
  BY DEF ApproveFresh, At
<1>7. l.at \in Quiet /\ Settled(l)
  BY <1>3, <1>5 DEF Settled, Resolves, Quiet
<1>8. Agrees(l, rows, escalations) /\ ~Opener(l) /\ l.at # "open" /\ ~Intrudes(l, handlers)
  BY <1>2, <1>5, <1>7, SettledAgrees
<1>9. Spends(l, rows', now') /\ Spends(l, rows, now) => Spends(k, rows, now)
  <2>1. CASE SaveRow(h) /\ l.at = "find"
    BY <1>3, <1>4, <1>5, <2>1 DEF Spends, Resolves
  <2>2. CASE l.at = "row"
    BY <1>3, <1>5, <2>2 DEF Spends, Resolves
  <2>3. CASE ApproveFresh(h) /\ l.at = "record" /\ k.outcome # "paid"
    <3>1. k.at = "fresh"
      BY <2>3 DEF ApproveFresh, At
    <3> QED
      BY <1>3, <1>5, <2>3, <3>1 DEF Spends, Resolves
  <2> QED
    BY <1>5, <2>1, <2>2, <2>3
<1>10. Len(rows') = Len(rows) /\ RowIds' = RowIds
  <2>1. rows \in Seq(Row) /\ rows' \in Seq(Row) /\ DOMAIN rows' = DOMAIN rows
    BY <1>4, Shapes, ShapesNext
  <2>2. Len(rows') = Len(rows)
    BY <2>1
  <2> QED
    BY <2>2 DEF RowIds
<1>11. Alike(handlers'[h], l) /\ \A g \in Handlers \ {h} : Alike(handlers'[g], handlers[g])
  BY <1>5, <1>10, Becomes
<1>12. Calm(h, l, 0)
  BY <1>1, <1>4, <1>8, <1>11, Shapes DEF Calm, EscsKept
<1> QED
  BY <1>1, <1>5, <1>8, <1>9, <1>12, CalmHeld, ZeroIsNone, Shapes DEF At

-----------------------------------------------------------------------------
(* The calls that expire. *)
LEMMA ExpiresCalmly ==
  ASSUME NEW l, l.flow = "expire", l.at \in ExpirePlaces
  PROVE  /\ Agrees(l, rows, escalations) /\ ~Opener(l) /\ l.at # "open" /\ ~Intrudes(l, handlers)
         /\ \A rs, t : ~Spends(l, rs, t)
BY DEF Agrees, AgreesHandle, AgreesResolve, AgreesOpen, Resolves, ExpirePlaces, Opener, Intrudes, Spends

LEMMA ExpireFlow ==
  ASSUME TokenInv, OperatorInv, NEW h \in Handlers, handlers[h].at \in {"stale", "lapse"}
  PROVE  handlers[h].flow = "expire" /\ handlers[h] \in CallOf(RowIds) /\ handlers[h].at # "idle"
<1>1. ~At(h, "idle")
  BY DEF At
<1>2. Agrees(handlers[h], rows, escalations)
  BY <1>1 DEF TokenInv, NamesInv
<1> QED
  BY <1>1, <1>2, Flows DEF Agrees, AgreesHandle, AgreesResolve, Resolves, HandlePlaces, At

LEMMA SaveExpiredTokens ==
  ASSUME TokenInv, OperatorInv, OperatorInv', NEW h \in Handlers, SaveExpired(h)
  PROVE  TokenInv'
<1> DEFINE k == handlers[h]
           i == One(k.todo)
           left == k.todo \ {i}
<1>1. /\ UNCHANGED <<escalations, now, payments, claims>> /\ SameBudget /\ ~Lone(k) /\ k.at = "stale"
  BY BudgetSame DEF SaveExpired, vaultVars, At, Lone, Opener
<1>2. k.flow = "expire" /\ k \in CallOf(RowIds) /\ k.at # "idle"
  BY <1>1, ExpireFlow
<1>3. RowsKept /\ DOMAIN rows' = DOMAIN rows
  <2>1. rows' = [rows EXCEPT ![i].status = "expired"]
    BY DEF SaveExpired
  <2> QED
    BY <2>1, RowsWritten
<1>4. left \in SUBSET (RowIds \ {0}) /\ k.done \in SUBSET (RowIds \ {0})
  BY <1>2 DEF CallOf
<1>5. PICK l \in CallOf(RowIds) : Become(h, l) /\ l.flow = "expire" /\ l.bill = k.bill /\ l.at \in {"stale", "lapse"}
  <2>1. CASE left = {}
    <3> DEFINE l == [k EXCEPT !.at = "lapse", !.todo = k.done]
    <3>1. Become(h, l)
      BY <2>1 DEF SaveExpired
    <3>2. l \in CallOf(RowIds) /\ l.flow = "expire" /\ l.at = "lapse" /\ l.bill = k.bill
      BY <1>2, <1>4 DEF CallOf, Place
    <3> QED
      BY <3>1, <3>2
  <2>2. CASE left # {}
    <3> DEFINE l == [k EXCEPT !.todo = left]
    <3>1. Become(h, l)
      BY <2>2 DEF SaveExpired
    <3> HIDE DEF left
    <3>2. l \in CallOf(RowIds) /\ l.flow = "expire" /\ l.at = "stale" /\ l.bill = k.bill
      BY <1>1, <1>2, <1>4 DEF CallOf, Place
    <3> QED
      BY <3>1, <3>2
  <2> QED
    BY <2>1, <2>2
<1>6. /\ Agrees(l, rows, escalations) /\ ~Opener(l) /\ l.at # "open" /\ ~Intrudes(l, handlers)
      /\ \A rs, t : ~Spends(l, rs, t)
  BY <1>5, ExpiresCalmly DEF ExpirePlaces
<1>7. RowIds' = RowIds
  <2>1. rows \in Seq(Row) /\ rows' \in Seq(Row) /\ DOMAIN rows' = DOMAIN rows
    BY <1>3, Shapes, ShapesNext
  <2>2. Len(rows') = Len(rows)
    BY <2>1
  <2> QED
    BY <2>2 DEF RowIds
<1>8. Alike(handlers'[h], l) /\ \A g \in Handlers \ {h} : Alike(handlers'[g], handlers[g])
  BY <1>5, <1>7, Becomes
<1>9. Calm(h, l, 0)
  BY <1>1, <1>3, <1>6, <1>8, Shapes DEF Calm, EscsKept
<1> QED
  BY <1>1, <1>2, <1>5, <1>6, <1>9, CalmHeld, ZeroIsNone, Shapes

LEMMA ExpireNextTokens ==
  ASSUME TokenInv, OperatorInv, OperatorInv', NEW h \in Handlers, NEW called \in BOOLEAN, ExpireNext(h, called)
  PROVE  TokenInv'
<1> DEFINE k == handlers[h]
           i == One(k.todo)
           left == k.todo \ {i}
           b == rows[i].bill
           l == [k EXCEPT !.at = "find", !.todo = left, !.bill = b, !.outcome = "rejected"]
<1>1. /\ UNCHANGED <<rows, payments, claims>> /\ SameBudget /\ ~Lone(k) /\ k.at = "lapse" /\ At(h, "lapse")
  BY BudgetSame DEF ExpireNext, At, Lone, Opener
<1>2. k.flow = "expire" /\ k \in CallOf(RowIds) /\ k.at # "idle"
  BY <1>1, ExpireFlow
<1>3. EscsKept /\ DOMAIN escalations' = DOMAIN escalations /\ now' = now
  <2>1. CASE UNCHANGED vaultVars
    BY <2>1 DEF vaultVars, EscsKept
  <2>2. CASE Expire(rows[i].vaultId)
    <3>1. Resolve(rows[i].vaultId, "Expired") /\ now' = now
      BY <2>2 DEF Expire, Release
    <3> QED
      BY <3>1, EscsWritten
  <2> QED
    BY <2>1, <2>2 DEF ExpireNext
<1>4. b \in Bills /\ left \in SUBSET (RowIds \ {0})
  <2>1. i \in DOMAIN rows
    BY <1>1, NextExpired DEF OperatorInv
  <2> QED
    BY <1>2, <2>1, RowOf DEF OperatorInv, CallOf
<1>5. Become(h, l)
  BY DEF ExpireNext
<1> HIDE DEF left, b
<1>6. l \in CallOf(RowIds) /\ l.flow = "expire" /\ l.at = "find"
  BY <1>2, <1>4 DEF CallOf, Place
<1> HIDE DEF l
<1>7. /\ Agrees(l, rows, escalations) /\ ~Opener(l) /\ l.at # "open" /\ ~Intrudes(l, handlers)
      /\ \A rs, t : ~Spends(l, rs, t)
  BY <1>6, ExpiresCalmly DEF ExpirePlaces
<1>8. RowIds' = RowIds /\ RowsKept
  BY <1>1 DEF RowIds, RowsKept
<1>9. Alike(handlers'[h], l) /\ \A g \in Handlers \ {h} : Alike(handlers'[g], handlers[g])
  BY <1>5, <1>6, <1>8, Becomes
<1>10. Calm(h, l, 0)
  BY <1>1, <1>3, <1>7, <1>8, <1>9, Shapes DEF Calm
<1>11. Moves(h, 0, 0)
  BY <1>10, CalmMoves
<1>12. ASSUME NEW c \in Bills PROVE h \notin Holders(c)'
  BY <1>6, <1>7, <1>9, <1>11, HeldAfter DEF Resolves
<1> QED
  BY <1>1, <1>10, <1>12, CalmStep, ZeroIsNone, Shapes

-----------------------------------------------------------------------------
(* A step in which something is lost: a call ends, or goes on without its  *)
(* answer.  At most one token appears, and the fault pays for it.          *)
LEMMA FaultStep ==
  ASSUME TokenInv, OperatorInv, OperatorInv', NEW h \in Handlers, NEW l, NEW e, Calm(h, l, e),
         \A b \in Bills : Budget(b)' = Budget(b) + 1,
         \A b \in Bills : payments'[b] + Bit(h \in Holders(b)') + Bit(e \in LiveOf(b)')
                          <= payments[b] + Bit(h \in Holders(b)) + Bit(e \in LiveOf(b)) + 1
  PROVE  TokenInv'
<1>1. Moves(h, e, 0)
  BY CalmMoves
<1>2. NewRowNamed(h, 0)
  BY DEF NewRowNamed, Calm
<1>3. CallNamed(h, l)
  BY CalmNames
<1>4. ASSUME NEW b \in Bills PROVE Balanced(b, h, e, 0)
  <2>1. 0 \notin OpenRows(b) /\ 0 \notin OpenRows(b)'
    BY ZeroIsNone
  <2>3. Bit(0 \in OpenRows(b)') = 0 /\ Bit(0 \in OpenRows(b)) = 0
    BY <2>1 DEF Bit
  <2>4. payments[b] \in Nat /\ payments'[b] \in Nat /\ Budget(b) \in Nat /\ Budget(b)' = Budget(b) + 1
    BY Shapes, ShapesNext
  <2> DEFINE g == Bit(h \in Holders(b))
             G == Bit(h \in Holders(b)')
             v == Bit(e \in LiveOf(b))
             V == Bit(e \in LiveOf(b)')
  <2>5. payments'[b] + G + V <= payments[b] + g + v + 1
    OBVIOUS
  <2>6. g \in Nat /\ G \in Nat /\ v \in Nat /\ V \in Nat
    BY BitType
  <2> HIDE DEF g, G, v, V
  <2>7. payments'[b] + G + V + 0 + Budget(b) <= payments[b] + g + v + 0 + (Budget(b) + 1)
    BY <2>4, <2>5, <2>6
  <2> QED
    BY <2>3, <2>4, <2>7 DEF Balanced, g, G, v, V
<1> QED
  BY <1>1, <1>2, <1>3, <1>4, TokenStep

(* ... and the call holds no more than before.                             *)
LEMMA HeldFaultStep ==
  ASSUME TokenInv, OperatorInv, OperatorInv', NEW h \in Handlers, NEW l, NEW e, Calm(h, l, e),
         \A b \in Bills : Budget(b)' = Budget(b) + 1,
         \A b \in Bills : h \in Holders(b)' => h \in Holders(b),
         \A b \in Bills : payments'[b] + Bit(e \in LiveOf(b)') <= payments[b] + Bit(e \in LiveOf(b)) + 1
  PROVE  TokenInv'
<1>1. ASSUME NEW b \in Bills
      PROVE  payments'[b] + Bit(h \in Holders(b)') + Bit(e \in LiveOf(b)')
               <= payments[b] + Bit(h \in Holders(b)) + Bit(e \in LiveOf(b)) + 1
  <2>1. payments[b] \in Nat /\ payments'[b] \in Nat
    BY Shapes, ShapesNext
  <2>2. Bit(h \in Holders(b)') <= Bit(h \in Holders(b))
    BY BitGrows
  <2> DEFINE g == Bit(h \in Holders(b))
             G == Bit(h \in Holders(b)')
             v == Bit(e \in LiveOf(b))
             V == Bit(e \in LiveOf(b)')
  <2>3. g \in Nat /\ G \in Nat /\ v \in Nat /\ V \in Nat
    BY BitType
  <2>4. payments'[b] + V <= payments[b] + v + 1 /\ G <= g
    BY <2>2
  <2> HIDE DEF g, G, v, V
  <2>5. payments'[b] + G + V <= payments[b] + g + v + 1
    BY <2>1, <2>3, <2>4
  <2> QED
    BY <2>5 DEF g, G, v, V
<1> QED
  BY <1>1, FaultStep

(* The escalation a lone call keeps to itself. *)
Kept(h) == IF Lone(handlers[h]) THEN handlers[h].vaultId ELSE 0

LEMMA LiveOnce ==
  ASSUME OperatorInv, NEW x, EscsKept, DOMAIN escalations' = DOMAIN escalations, payments' = payments
  PROVE  \A b \in Bills : payments'[b] + Bit(x \in LiveOf(b)') <= payments[b] + Bit(x \in LiveOf(b)) + 1
<1> TAKE b \in Bills
<1>1. payments[b] \in Nat
  BY Shapes
<1>2. Bit(x \in LiveOf(b)) \in {0, 1} /\ Bit(x \in LiveOf(b)') \in {0, 1}
  BY BitType
<1> DEFINE v == Bit(x \in LiveOf(b))
           V == Bit(x \in LiveOf(b)')
<1> HIDE DEF v, V
<1>3. payments[b] + V <= payments[b] + v + 1
  BY <1>1, <1>2 DEF v, V
<1> QED
  BY <1>3 DEF v, V

LEMMA KillTokens ==
  ASSUME TokenInv, OperatorInv, OperatorInv', NEW h \in Handlers, Kill(h)
  PROVE  TokenInv'
<1> DEFINE l == NoCall
           e == Kept(h)
<1>1. /\ UNCHANGED <<rows, escalations, now, payments, claims>> /\ RowIds' = RowIds
      /\ Become(h, l) /\ \A b \in Bills : Budget(b)' = Budget(b) + 1
  BY BudgetOfFault DEF Kill, vaultVars, Fault, Done, RowIds
<1>2. l.at = "idle" /\ l = NoCall
  BY DEF NoCall
<1> HIDE DEF l
<1>3. Alike(handlers'[h], l) /\ \A g \in Handlers \ {h} : Alike(handlers'[g], handlers[g])
  BY <1>1, <1>2, Becomes
<1>4. Calm(h, l, e)
  BY <1>1, <1>2, <1>3, Shapes DEF Calm, Kept, RowsKept, EscsKept, Opener
<1>5. \A b \in Bills : h \notin Holders(b)'
  BY <1>2, <1>3 DEF Holders, Uses, Alike
<1>6. \A b \in Bills : payments'[b] + Bit(e \in LiveOf(b)') <= payments[b] + Bit(e \in LiveOf(b)) + 1
  BY <1>1, LiveOnce DEF EscsKept
<1> QED
  BY <1>1, <1>4, <1>5, <1>6, HeldFaultStep

(* A storage error ends an owner's request.  Before the claim is let go,   *)
(* the call holds the token that makes its row ready again; what it kept   *)
(* to itself shows.  One of the two it had.                                *)
LEMMA ResolveThrowsTokens ==
  ASSUME TokenInv, OperatorInv, OperatorInv', NEW h \in Handlers, ResolveThrows(h)
  PROVE  TokenInv'
<1> DEFINE k == handlers[h]
           l == [k EXCEPT !.at = "unclaim"]
           e == Kept(h)
<1>1. /\ UNCHANGED <<rows, escalations, now, payments, claims>> /\ RowIds' = RowIds
      /\ \A b \in Bills : Budget(b)' = Budget(b) + 1
      /\ Resolves(k) /\ k.at \in {"check", "open", "row", "save", "find", "close", "record", "append"} /\ ~At(h, "idle")
      /\ Go(h, "unclaim")
  BY BudgetOfFault DEF ResolveThrows, vaultVars, Fault, RowIds, Resolves, Is, At
<1>2. Agrees(k, rows, escalations) /\ k.row \in DOMAIN rows
  BY <1>1 DEF TokenInv, NamesInv, Agrees, AgreesResolve
<1>3. l \in CallOf(RowIds) /\ MovedOn(l, k, "unclaim")
  BY <1>1, GoesTo DEF Place
<1>4. Become(h, l)
  BY <1>1 DEF Go
<1> HIDE DEF l
<1>5. Alike(handlers'[h], l) /\ \A g \in Handlers \ {h} : Alike(handlers'[g], handlers[g])
  BY <1>1, <1>3, <1>4, Becomes
<1>6. Agrees(l, rows, escalations) /\ ~Opener(l) /\ l.at # "open" /\ ~Intrudes(l, handlers)
  BY <1>1, <1>2, <1>3, SettledAgrees DEF MovedOn, Quiet, Settled, Resolves
<1>7. Calm(h, l, e)
  BY <1>1, <1>5, <1>6, Shapes DEF Calm, Kept, RowsKept, EscsKept
<1>8. ASSUME NEW b \in Bills
      PROVE  payments'[b] + Bit(h \in Holders(b)') + Bit(e \in LiveOf(b)')
               <= payments[b] + Bit(h \in Holders(b)) + Bit(e \in LiveOf(b)) + 1
  <2>1. h \in Holders(b)' => l.bill = b /\ Spends(l, rows, now)
    BY <1>2, <1>3, <1>6, <1>7, CalmMoves, HeldAfter DEF MovedOn, Calm
  <2>2. k.at = "open" /\ b = k.bill => h \in Holders(b)
    BY <1>1, <1>2 DEF Holders, Uses, Spends, Agrees, AgreesResolve
  <2>3. e \in LiveOf(b)' => k.at = "open" /\ b = k.bill
    <3>1. SUFFICES ASSUME e \in LiveOf(b)' PROVE k.at = "open" /\ b = k.bill
      OBVIOUS
    <3>2. e # 0
      BY <3>1, ZeroIsNone
    <3>3. Lone(k) /\ e = k.vaultId
      BY <3>2 DEF Kept
    <3>4. k.at = "open"
      BY <1>1, <3>3 DEF Lone, Opener
    <3>5. Known(e, k.bill, escalations)
      BY <1>2, <3>2, <3>3, <3>4 DEF Agrees, AgreesOpen
    <3> QED
      BY <1>1, <3>1, <3>4, <3>5 DEF Known, LiveOf
  <2>4. payments'[b] = payments[b] /\ payments[b] \in Nat
    BY <1>1, Shapes
  <2> DEFINE g == Bit(h \in Holders(b))
             G == Bit(h \in Holders(b)')
             v == Bit(e \in LiveOf(b))
             V == Bit(e \in LiveOf(b)')
  <2>5. g \in {0, 1} /\ G \in {0, 1} /\ v \in {0, 1} /\ V \in {0, 1}
    BY BitType
  <2>6. V <= g
    BY <2>2, <2>3 DEF Bit
  <2> HIDE DEF g, G, v, V
  <2>7. payments[b] + G + V <= payments[b] + g + v + 1
    BY <2>4, <2>5, <2>6
  <2> QED
    BY <2>4, <2>7 DEF g, G, v, V
<1> QED
  BY <1>1, <1>7, <1>8, FaultStep

-----------------------------------------------------------------------------
(* The owner's call to the vault. *)
LEMMA CallsVault ==
  ASSUME TokenInv, OperatorInv, NEW h \in Handlers, At(h, "vault")
  PROVE  LET k == handlers[h] IN
         /\ Resolves(k) /\ k.row \in DOMAIN rows /\ AgreesVault(k, rows, escalations) /\ k \in CallOf(RowIds)
         /\ k.bill \in Bills /\ ~At(h, "idle") /\ k.at = "vault" /\ Agrees(k, rows, escalations)
<1> DEFINE k == handlers[h]
<1>1. ~At(h, "idle") /\ k.at = "vault"
  BY DEF At
<1>2. Agrees(k, rows, escalations) /\ k.flow \in {"handle", "approve", "reject", "expire"} /\ k \in CallOf(RowIds)
      /\ k.bill \in Bills
  BY <1>1, Flows DEF TokenInv, NamesInv
<1>3. Resolves(k)
  BY <1>1, <1>2 DEF Agrees, AgreesHandle, HandlePlaces, ExpirePlaces, Resolves
<1> QED
  BY <1>1, <1>2, <1>3 DEF Agrees, AgreesResolve

LEMMA AfterCall ==
  ASSUME TokenInv, OperatorInv, NEW h \in Handlers, At(h, "vault"), NEW ok \in BOOLEAN, NEW keep \in BOOLEAN,
         AfterVault(h, ok, keep), rows' = rows
  PROVE  \E l \in CallOf(RowIds) :
           /\ Alike(handlers'[h], l) /\ \A g \in Handlers \ {h} : Alike(handlers'[g], handlers[g])
           /\ l.at # "idle" /\ l.bill = handlers[h].bill
           /\ Agrees(l, rows, escalations) /\ ~Opener(l) /\ l.at # "open" /\ ~Intrudes(l, handlers)
           /\ Spends(l, rows, now) => Spends(handlers[h], rows, now)
           /\ ok => ~Spends(l, rows, now)
<1> DEFINE k == handlers[h]
           at == IF k.fresh # 0 THEN "fresh" ELSE IF ok THEN "row" ELSE "record"
           outcome == IF ~ok THEN "none" ELSE IF Is(h, "approve") THEN "paid" ELSE "rejected"
           l == [k EXCEPT !.at = at, !.outcome = outcome, !.keep = keep]
<1>1. /\ Resolves(k) /\ k.row \in DOMAIN rows /\ AgreesVault(k, rows, escalations) /\ k \in CallOf(RowIds)
      /\ k.at = "vault" /\ Agrees(k, rows, escalations)
  BY CallsVault
<1>2. Become(h, l)
  BY DEF AfterVault
<1>3. /\ at \in {"fresh", "row", "record"} /\ outcome \in {"none", "paid", "rejected"}
      /\ ok => at # "record"
      /\ at = "fresh" => k.fresh # 0
      /\ ok /\ k.flow = "approve" => outcome = "paid"
  BY DEF Is
<1> HIDE DEF at, outcome
<1>4. /\ l \in CallOf(RowIds) /\ l.at = at /\ l.outcome = outcome /\ l.flow = k.flow /\ l.bill = k.bill /\ l.row = k.row
  BY <1>1, <1>3 DEF CallOf, Place
<1> HIDE DEF l
<1>5. l.at \in Quiet /\ Settled(l) /\ l.at # "idle"
  BY <1>1, <1>3, <1>4 DEF Settled, Quiet, Resolves
<1>6. Agrees(l, rows, escalations) /\ ~Opener(l) /\ l.at # "open" /\ ~Intrudes(l, handlers)
  BY <1>1, <1>4, <1>5, SettledAgrees
<1>7. RowIds' = RowIds
  BY DEF RowIds
<1>8. Alike(handlers'[h], l) /\ \A g \in Handlers \ {h} : Alike(handlers'[g], handlers[g])
  BY <1>2, <1>4, <1>7, Becomes
<1>9. Spends(l, rows, now) => Spends(k, rows, now)
  BY <1>1, <1>4 DEF Spends, Resolves
<1>10. ok => ~Spends(l, rows, now)
  <2>1. l.at = "fresh" => k.flow = "approve"
    BY <1>1, <1>3, <1>4 DEF AgreesVault
  <2> QED
    BY <1>1, <1>3, <1>4, <2>1 DEF Spends, Resolves
<1> QED
  BY <1>4, <1>5, <1>6, <1>8, <1>9, <1>10

LEMMA OwnerCallMoves ==
  ASSUME OperatorInv, NEW h \in Handlers, OwnerCall(h)
  PROVE  /\ EscsKept /\ DOMAIN escalations' = DOMAIN escalations /\ now' = now
         /\ \A b : handlers[h].vaultId \notin LiveOf(b)'
         /\ \A b \in Bills : payments'[b] = payments[b] + Bit(Is(h, "approve") /\ b = handlers[h].bill)
<1>1. payments \in [Bills -> Nat]
  BY Shapes
<1>2. CASE Is(h, "approve")
  <2>1. Resolve(handlers[h].vaultId, "Approved") /\ now' = now
    BY <1>2 DEF OwnerCall, Approve
  <2>2. \A b \in Bills : payments'[b] = payments[b] + Bit(Is(h, "approve") /\ b = handlers[h].bill)
    BY <1>1, <1>2 DEF OwnerCall, Bit
  <2> QED
    BY <2>1, <2>2, EscsWritten
<1>3. CASE ~Is(h, "approve")
  <2>1. Resolve(handlers[h].vaultId, "Rejected") /\ now' = now
    BY <1>3 DEF OwnerCall, Reject, Release
  <2>2. \A b \in Bills : payments'[b] = payments[b] + Bit(Is(h, "approve") /\ b = handlers[h].bill)
    BY <1>1, <1>3 DEF OwnerCall, Bit
  <2> QED
    BY <2>1, <2>2, EscsWritten
<1> QED
  BY <1>2, <1>3

(* What an approval that the vault grants spends: its own token, or the    *)
(* escalation's, if no other call keeps that to itself; and if one does,   *)
(* this call is intruding.                                                 *)
LEMMA ApprovalHasToken ==
  ASSUME TokenInv, OperatorInv, NEW h \in Handlers, At(h, "vault"), Is(h, "approve"), OwnerCall(h)
  PROVE  LET k == handlers[h] IN h \in Holders(k.bill) \/ k.vaultId \in LiveOf(k.bill)
<1> DEFINE k == handlers[h]
           e == k.vaultId
<1>1. /\ Resolves(k) /\ k.row \in DOMAIN rows /\ AgreesVault(k, rows, escalations) /\ k.at = "vault" /\ k.at # "idle"
  BY CallsVault
<1>2. e \in PendingIds /\ ~TooOld(escalations[e])
  BY DEF OwnerCall, Approve
<1>3. escalations[e].decision = k.bill /\ e # 0
  BY <1>1 DEF AgreesVault, Known
<1>4. CASE k.fresh # 0
  BY <1>1, <1>4 DEF Holders, Uses, Spends, AgreesVault
<1>5. CASE k.fresh = 0 /\ ~Private(e)
  BY <1>2, <1>3, <1>5 DEF LiveOf
<1>6. CASE k.fresh = 0 /\ Private(e)
  <2>1. PICK g \in Handlers : Lone(handlers[g]) /\ handlers[g].vaultId = e
    BY <1>6 DEF Private
  <2>2. ~At(g, "idle")
    BY <2>1 DEF At, Lone, Opener
  <2>3. Agrees(handlers[g], rows, escalations)
    BY <2>2 DEF TokenInv, NamesInv
  <2>4. rows[k.row].vaultId = e
    BY <1>1, <1>6 DEF AgreesVault
  <2>5. handlers[g].at # "open"
    BY <1>1, <1>3, <2>1, <2>3, <2>4 DEF Agrees, AgreesOpen
  <2>6. At(g, "vault") /\ handlers[g].fresh # 0
    BY <2>1, <2>5 DEF Lone, Opener, At
  <2>7. AgreesVault(handlers[g], rows, escalations)
    BY <2>6, CallsVault
  <2>8. handlers[g].fresh \in DOMAIN rows /\ rows[handlers[g].fresh].vaultId = e
    BY <2>1, <2>6, <2>7 DEF AgreesVault
  <2>9. handlers[g].fresh = k.row
    BY <1>1, <1>3, <2>4, <2>8 DEF TokenInv, NamesInv
  <2>10. Intrudes(k, handlers)
    BY <1>1, <2>6, <2>9 DEF Intrudes, Opened, Opener, At, Is
  <2> QED
    BY <1>1, <2>10 DEF Holders, Uses
<1> QED
  BY <1>4, <1>5, <1>6

LEMMA VaultCallTokens ==
  ASSUME TokenInv, OperatorInv, OperatorInv', NEW h \in Handlers, VaultCall(h)
  PROVE  TokenInv'
<1> DEFINE k == handlers[h]
           e == k.vaultId
<1>1. At(h, "vault") /\ OwnerCall(h) /\ AfterVault(h, TRUE, TRUE) /\ UNCHANGED <<rows, claims>> /\ SameBudget
  BY BudgetSame DEF VaultCall
<1>2. PICK l \in CallOf(RowIds) :
           /\ Alike(handlers'[h], l) /\ \A g \in Handlers \ {h} : Alike(handlers'[g], handlers[g])
           /\ l.at # "idle" /\ l.bill = k.bill
           /\ Agrees(l, rows, escalations) /\ ~Opener(l) /\ l.at # "open" /\ ~Intrudes(l, handlers)
           /\ ~Spends(l, rows, now)
  BY <1>1, AfterCall
<1>3. /\ EscsKept /\ DOMAIN escalations' = DOMAIN escalations /\ now' = now
      /\ \A b : e \notin LiveOf(b)'
      /\ \A b \in Bills : payments'[b] = payments[b] + Bit(Is(h, "approve") /\ b = k.bill)
  BY <1>1, OwnerCallMoves
<1>4. Calm(h, l, e)
  BY <1>1, <1>2, <1>3, Shapes DEF Calm, RowsKept
<1>5. Moves(h, e, 0) /\ NewRowNamed(h, 0) /\ CallNamed(h, l)
  BY <1>4, CalmMoves, CalmNames DEF NewRowNamed, Calm
<1>6. ASSUME NEW b \in Bills PROVE h \notin Holders(b)'
  <2>1. l.row \in DOMAIN rows \/ ~Resolves(l)
    BY <1>2 DEF Agrees, AgreesResolve
  <2> QED
    BY <1>2, <1>5, <2>1, HeldAfter
<1>7. ASSUME NEW b \in Bills PROVE Balanced(b, h, e, 0)
  <2>1. Bit(Is(h, "approve") /\ b = k.bill) <= Bit(h \in Holders(b)) + Bit(e \in LiveOf(b))
    <3>1. CASE Is(h, "approve") /\ b = k.bill
      <4>1. h \in Holders(b) \/ e \in LiveOf(b)
        BY <1>1, <3>1, ApprovalHasToken
      <4> QED
        BY <3>1, <4>1, BitType DEF Bit
    <3>2. CASE ~(Is(h, "approve") /\ b = k.bill)
      BY <3>2, BitType DEF Bit
    <3> QED
      BY <3>1, <3>2
  <2>2. 0 \notin OpenRows(b) /\ 0 \notin OpenRows(b)' /\ h \notin Holders(b)' /\ e \notin LiveOf(b)'
    BY <1>3, <1>6, ZeroIsNone
  <2>3. Bit(0 \in OpenRows(b)') = 0 /\ Bit(0 \in OpenRows(b)) = 0 /\ Bit(h \in Holders(b)') = 0 /\ Bit(e \in LiveOf(b)') = 0
    BY <2>2 DEF Bit
  <2>4. payments[b] \in Nat /\ Budget(b) \in Nat /\ Budget(b)' = Budget(b)
    BY <1>1, Shapes DEF SameBudget
  <2>5. payments'[b] = payments[b] + Bit(Is(h, "approve") /\ b = k.bill)
    BY <1>3
  <2> DEFINE x == Bit(Is(h, "approve") /\ b = k.bill)
             g == Bit(h \in Holders(b))
             v == Bit(e \in LiveOf(b))
  <2>6. x \in Nat /\ g \in Nat /\ v \in Nat
    BY BitType
  <2> HIDE DEF x, g, v
  <2>8. (payments[b] + x) + 0 + 0 + 0 + Budget(b) <= payments[b] + g + v + 0 + Budget(b)
    BY <2>1, <2>4, <2>6 DEF x, g, v
  <2> QED
    BY <2>3, <2>4, <2>5, <2>8 DEF Balanced, x, g, v
<1> QED
  BY <1>5, <1>7, TokenStep

LEMMA VaultCallRefusedTokens ==
  ASSUME TokenInv, OperatorInv, OperatorInv', NEW h \in Handlers, VaultCallRefused(h)
  PROVE  TokenInv'
<1> DEFINE k == handlers[h]
           e == Kept(h)
<1>1. At(h, "vault") /\ Refused(h) /\ UNCHANGED <<rows, escalations, now, payments, claims>> /\ SameBudget
  BY BudgetSame DEF VaultCallRefused, vaultVars
<1>2. PICK keep \in BOOLEAN : AfterVault(h, FALSE, keep)
  <2>1. PICK mined \in BOOLEAN : AfterVault(h, FALSE, mined /\ Is(h, "approve"))
    BY DEF VaultCallRefused
  <2>2. (mined /\ Is(h, "approve")) \in BOOLEAN
    BY DEF Is
  <2> QED
    BY <2>1, <2>2
<1>3. PICK l \in CallOf(RowIds) :
           /\ Alike(handlers'[h], l) /\ \A g \in Handlers \ {h} : Alike(handlers'[g], handlers[g])
           /\ l.at # "idle" /\ l.bill = k.bill
           /\ Agrees(l, rows, escalations) /\ ~Opener(l) /\ l.at # "open" /\ ~Intrudes(l, handlers)
           /\ Spends(l, rows, now) => Spends(k, rows, now)
  BY <1>1, <1>2, AfterCall
<1>4. Calm(h, l, e)
  BY <1>1, <1>3, Shapes DEF Calm, RowsKept, EscsKept, Kept
<1>5. ASSUME NEW b \in Bills PROVE e \notin LiveOf(b)'
  <2>1. CASE e = 0
    BY <2>1, ZeroIsNone
  <2>2. CASE e # 0
    <3>1. e = k.vaultId /\ Opener(k)
      BY <1>1, <2>2 DEF Kept, Lone, At
    <3>2. AgreesVault(k, rows, escalations) /\ k.fresh # 0
      BY <1>1, <3>1, CallsVault DEF Opener
    <3>3. Is(h, "approve")
      BY <3>2 DEF AgreesVault, Is
    <3>4. e \notin PendingIds \/ TooOld(escalations[e])
      BY <1>1, <3>1, <3>2, <3>3 DEF Refused
    <3> QED
      BY <1>1, <3>4 DEF LiveOf, PendingIds, TooOld
  <2> QED
    BY <2>1, <2>2
<1> QED
  BY <1>1, <1>3, <1>4, <1>5, CalmHeld, Shapes, CallsVault DEF At

LEMMA VaultCallFailsTokens ==
  ASSUME TokenInv, OperatorInv, OperatorInv', NEW h \in Handlers, VaultCallFails(h)
  PROVE  TokenInv'
<1> DEFINE k == handlers[h]
           e == Kept(h)
<1>1. /\ At(h, "vault") /\ UNCHANGED <<rows, escalations, now, payments, claims>> /\ AfterVault(h, FALSE, FALSE)
      /\ \A b \in Bills : Budget(b)' = Budget(b) + 1
  BY BudgetOfFault DEF VaultCallFails, vaultVars, Fault
<1>2. PICK l \in CallOf(RowIds) :
           /\ Alike(handlers'[h], l) /\ \A g \in Handlers \ {h} : Alike(handlers'[g], handlers[g])
           /\ l.at # "idle" /\ l.bill = k.bill
           /\ Agrees(l, rows, escalations) /\ ~Opener(l) /\ l.at # "open" /\ ~Intrudes(l, handlers)
           /\ Spends(l, rows, now) => Spends(k, rows, now)
  BY <1>1, AfterCall
<1>3. Calm(h, l, e)
  BY <1>1, <1>2, Shapes DEF Calm, RowsKept, EscsKept, Kept
<1>4. ASSUME NEW b \in Bills, h \in Holders(b)' PROVE h \in Holders(b)
  <2>1. l.row \in DOMAIN rows \/ ~Resolves(l)
    BY <1>2 DEF Agrees, AgreesResolve
  <2>2. l.bill = b /\ Spends(l, rows, now)
    BY <1>2, <1>3, <1>4, <2>1, CalmMoves, HeldAfter
  <2> QED
    BY <1>1, <1>2, <2>2 DEF Holders, Uses, At
<1>5. \A b \in Bills : payments'[b] + Bit(e \in LiveOf(b)') <= payments[b] + Bit(e \in LiveOf(b)) + 1
  BY <1>1, LiveOnce DEF EscsKept
<1> QED
  BY <1>1, <1>3, <1>4, <1>5, HeldFaultStep

LEMMA VaultCallLostTokens ==
  ASSUME TokenInv, OperatorInv, OperatorInv', NEW h \in Handlers, NEW hash \in BOOLEAN, VaultCallLost(h, hash)
  PROVE  TokenInv'
<1> DEFINE k == handlers[h]
           e == k.vaultId
<1>1. /\ At(h, "vault") /\ UNCHANGED <<rows, claims>> /\ OwnerCall(h)
      /\ \A b \in Bills : Budget(b)' = Budget(b) + 1
  BY BudgetOfFault DEF VaultCallLost, Fault
<1>2. PICK l \in CallOf(RowIds) :
           /\ Alike(handlers'[h], l) /\ \A g \in Handlers \ {h} : Alike(handlers'[g], handlers[g])
           /\ l.at # "idle" /\ l.bill = k.bill
           /\ Agrees(l, rows, escalations) /\ ~Opener(l) /\ l.at # "open" /\ ~Intrudes(l, handlers)
           /\ Spends(l, rows, now) => Spends(k, rows, now)
  <2>1. (hash /\ Is(h, "approve")) \in BOOLEAN /\ AfterVault(h, FALSE, hash /\ Is(h, "approve"))
    BY DEF VaultCallLost, Is
  <2> QED
    BY <1>1, <2>1, AfterCall
<1>3. /\ EscsKept /\ DOMAIN escalations' = DOMAIN escalations /\ now' = now
      /\ \A b : e \notin LiveOf(b)'
      /\ \A b \in Bills : payments'[b] = payments[b] + Bit(Is(h, "approve") /\ b = k.bill)
  BY <1>1, OwnerCallMoves
<1>4. Calm(h, l, e)
  BY <1>1, <1>2, <1>3, Shapes DEF Calm, RowsKept
<1>5. ASSUME NEW b \in Bills, h \in Holders(b)' PROVE h \in Holders(b)
  <2>1. l.row \in DOMAIN rows \/ ~Resolves(l)
    BY <1>2 DEF Agrees, AgreesResolve
  <2>2. l.bill = b /\ Spends(l, rows, now)
    BY <1>2, <1>4, <1>5, <2>1, CalmMoves, HeldAfter
  <2> QED
    BY <1>1, <1>2, <2>2 DEF Holders, Uses, At
<1>6. ASSUME NEW b \in Bills PROVE payments'[b] + Bit(e \in LiveOf(b)') <= payments[b] + Bit(e \in LiveOf(b)) + 1
  <2> DEFINE x == Bit(Is(h, "approve") /\ b = k.bill)
             v == Bit(e \in LiveOf(b))
  <2>1. payments[b] \in Nat /\ x \in {0, 1} /\ v \in {0, 1}
    BY Shapes, BitType
  <2>2. payments'[b] = payments[b] + x
    BY <1>3
  <2>3. Bit(e \in LiveOf(b)') = 0
    BY <1>3 DEF Bit
  <2> HIDE DEF x, v
  <2>4. (payments[b] + x) + 0 <= payments[b] + v + 1
    BY <2>1
  <2> QED
    BY <2>2, <2>3, <2>4 DEF v
<1> QED
  BY <1>1, <1>4, <1>5, <1>6, HeldFaultStep

-----------------------------------------------------------------------------
(* A payment, and a reservation: the escalation it makes is the last one.  *)
LEMMA PaysOne ==
  ASSUME OperatorInv, NEW b \in Bills, VaultPays(b)
  PROVE  /\ UNCHANGED <<escalations, now>>
         /\ \A c \in Bills : payments'[c] = payments[c] + Bit(c = b)
<1>1. payments \in [Bills -> Nat]
  BY Shapes
<1> QED
  BY <1>1 DEF VaultPays, PayNow, Bit

LEMMA ReservesOne ==
  ASSUME OperatorInv, NEW b \in Bills, VaultReserves(b)
  PROVE  LET e == Len(escalations') IN
         /\ EscsKept /\ UNCHANGED <<payments, now>> /\ e \in Nat /\ e # 0
         /\ DOMAIN escalations' = DOMAIN escalations \cup {e} /\ e \notin DOMAIN escalations
         /\ escalations'[e].decision = b
<1> DEFINE r == [decision |-> b, bucket |-> "OPERATING", to |-> PayTo[b], amount |-> Owed[b],
                 createdAt |-> now, status |-> "Pending"]
           e == Len(escalations) + 1
<1>1. escalations' = Append(escalations, r) /\ UNCHANGED <<payments, now>>
  BY DEF VaultReserves, Escalate
<1>2. escalations \in Seq(Escalation) /\ r.decision = b
  BY Shapes
<1> HIDE DEF r
<1>3. /\ Len(escalations') = e /\ DOMAIN escalations = 1..Len(escalations) /\ Len(escalations) \in Nat
      /\ DOMAIN escalations' = 1..e /\ escalations'[e] = r
      /\ \A x \in DOMAIN escalations : escalations'[x] = escalations[x]
  BY <1>1, <1>2
<1>4. EscsKept
  BY <1>3 DEF EscsKept
<1> QED
  BY <1>1, <1>2, <1>3, <1>4

LEMMA PaysAt ==
  ASSUME TokenInv, OperatorInv, NEW h \in Handlers, At(h, "pay")
  PROVE  LET k == handlers[h] IN
         /\ k.at = "pay" /\ ~At(h, "idle") /\ k \in CallOf(RowIds) /\ k.bill \in Bills /\ Agrees(k, rows, escalations)
         /\ k.flow \in {"handle", "approve"} /\ (k.flow = "handle" => k.keep)
         /\ k.flow = "approve" => k.row \in DOMAIN rows /\ rows[k.row].vaultId = 0
         /\ h \in Holders(k.bill) /\ \A b : b # k.bill => h \notin Holders(b)
<1> DEFINE k == handlers[h]
<1>1. ~At(h, "idle") /\ k.at = "pay"
  BY DEF At
<1>2. Agrees(k, rows, escalations) /\ k.flow \in {"handle", "approve", "reject", "expire"} /\ k \in CallOf(RowIds)
      /\ k.bill \in Bills
  BY <1>1, Flows DEF TokenInv, NamesInv
<1>3. k.flow \in {"handle", "approve"} /\ (k.flow = "handle" => k.keep)
      /\ (k.flow = "approve" => k.row \in DOMAIN rows /\ rows[k.row].vaultId = 0)
  BY <1>1, <1>2 DEF Agrees, AgreesHandle, AgreesResolve, ExpirePlaces, Resolves
<1>4. Spends(k, rows, now)
  BY <1>1, <1>3 DEF Spends, Resolves
<1> QED
  BY <1>1, <1>2, <1>3, <1>4 DEF Holders, Uses

LEMMA PaidTokens ==
  ASSUME TokenInv, OperatorInv, OperatorInv', NEW h \in Handlers, PayBill(h), VaultPays(handlers[h].bill),
         Become(h, IF Is(h, "handle") THEN Answered(h, "executed")
                   ELSE [handlers[h] EXCEPT !.at = "row", !.outcome = "paid"])
  PROVE  TokenInv'
<1> DEFINE k == handlers[h]
<1>1. At(h, "pay") /\ UNCHANGED <<rows, claims>> /\ SameBudget
  BY BudgetStays DEF PayBill
<1>2. /\ k.at = "pay" /\ ~At(h, "idle") /\ k \in CallOf(RowIds) /\ k.bill \in Bills /\ Agrees(k, rows, escalations)
      /\ k.flow \in {"handle", "approve"} /\ (k.flow = "handle" => k.keep)
      /\ h \in Holders(k.bill) /\ \A b : b # k.bill => h \notin Holders(b)
  BY <1>1, PaysAt
<1>3. UNCHANGED <<escalations, now>> /\ \A c \in Bills : payments'[c] = payments[c] + Bit(c = k.bill)
  BY <1>2, PaysOne
<1>4. PICK l \in CallOf(RowIds) :
        /\ Become(h, l) /\ l.at # "idle" /\ l.at # "open" /\ Agrees(l, rows, escalations) /\ ~Opener(l)
        /\ ~Intrudes(l, handlers) /\ ~Spends(l, rows, now)
  <2>1. CASE k.flow = "handle"
    <3> DEFINE l == Answered(h, "executed")
    <3>1. Become(h, l)
      BY <2>1 DEF Is
    <3>2. l \in CallOf(RowIds) /\ l.at = "act" /\ l.flow = "handle" /\ l.keep /\ l.vaultId = 0
      BY <1>2, <2>1, AnsweredCall DEF Results
    <3> HIDE DEF l
    <3> QED
      BY <3>1, <3>2, ActAgrees
  <2>2. CASE k.flow = "approve"
    <3> DEFINE l == [k EXCEPT !.at = "row", !.outcome = "paid"]
    <3>1. Become(h, l)
      BY <2>2 DEF Is
    <3>2. l \in CallOf(RowIds) /\ l.at = "row" /\ l.flow = "approve" /\ l.bill = k.bill /\ l.row = k.row
      BY <1>2, <2>2 DEF CallOf, Place
    <3> HIDE DEF l
    <3>3. Agrees(l, rows, escalations) /\ ~Opener(l) /\ l.at # "open" /\ ~Intrudes(l, handlers)
      BY <1>2, <2>2, <3>2, SettledAgrees DEF Quiet, Settled, Resolves
    <3>4. ~Spends(l, rows, now)
      BY <3>2 DEF Spends, Resolves
    <3> QED
      BY <3>1, <3>2, <3>3, <3>4
  <2> QED
    BY <1>2, <2>1, <2>2
<1>10. RowIds' = RowIds
  BY <1>1 DEF RowIds
<1>11. Alike(handlers'[h], l) /\ \A g \in Handlers \ {h} : Alike(handlers'[g], handlers[g])
  BY <1>4, <1>10, Becomes
<1>12. Calm(h, l, 0)
  BY <1>1, <1>2, <1>3, <1>4, <1>11, Shapes DEF Calm, RowsKept, EscsKept, Lone, Opener
<1>13. Moves(h, 0, 0) /\ NewRowNamed(h, 0) /\ CallNamed(h, l)
  BY <1>12, CalmMoves, CalmNames DEF NewRowNamed, Calm
<1>14. ASSUME NEW b \in Bills PROVE Balanced(b, h, 0, 0)
  <2>1. l.row \in DOMAIN rows \/ ~Resolves(l)
    BY <1>4 DEF Agrees, AgreesResolve
  <2>2. h \notin Holders(b)'
    BY <1>4, <1>11, <1>13, <2>1, HeldAfter
  <2>3. Bit(b = k.bill) <= Bit(h \in Holders(b))
    BY <1>2, BitGrows
  <2>4. 0 \notin OpenRows(b) /\ 0 \notin OpenRows(b)' /\ 0 \notin LiveOf(b) /\ 0 \notin LiveOf(b)'
    BY ZeroIsNone
  <2>5. /\ Bit(0 \in OpenRows(b)') = 0 /\ Bit(0 \in OpenRows(b)) = 0 /\ Bit(h \in Holders(b)') = 0
        /\ Bit(0 \in LiveOf(b)') = 0 /\ Bit(0 \in LiveOf(b)) = 0
    BY <2>2, <2>4 DEF Bit
  <2>6. payments[b] \in Nat /\ Budget(b) \in Nat /\ Budget(b)' = Budget(b)
    BY <1>1, Shapes DEF SameBudget
  <2> DEFINE x == Bit(b = k.bill)
             g == Bit(h \in Holders(b))
  <2>7. x \in Nat /\ g \in Nat /\ payments'[b] = payments[b] + x
    BY <1>3, BitType
  <2> HIDE DEF x, g
  <2>8. (payments[b] + x) + 0 + 0 + 0 + Budget(b) <= payments[b] + g + 0 + 0 + Budget(b)
    BY <2>3, <2>6, <2>7 DEF x, g
  <2> QED
    BY <2>5, <2>6, <2>7, <2>8 DEF Balanced, x, g
<1> QED
  BY <1>13, <1>14, TokenStep

(* What escalations name is an escalation that was there. *)
LEMMA NamedBefore ==
  ASSUME TokenInv, OperatorInv, NEW e, e \notin DOMAIN escalations, e # 0
  PROVE  /\ \A i \in DOMAIN rows : rows[i].vaultId # e
         /\ \A h : Unshown(e, h)
<1>1. \A i \in DOMAIN rows : rows[i].vaultId # e
  BY DEF TokenInv, NamesInv, Known
<1>2. ASSUME NEW g \in Handlers, handlers[g].at = "open" PROVE handlers[g].vaultId # e
  BY <1>2 DEF TokenInv, NamesInv, Agrees, AgreesOpen, Known, At
<1> QED
  BY <1>1, <1>2 DEF Unshown

LEMMA ReservedTokens ==
  ASSUME TokenInv, OperatorInv, OperatorInv', NEW h \in Handlers, PayBill(h), VaultReserves(handlers[h].bill),
         Become(h, [handlers[h] EXCEPT !.at = "open", !.vaultId = Len(escalations')])
  PROVE  TokenInv'
<1> DEFINE k == handlers[h]
           e == Len(escalations')
           l == [k EXCEPT !.at = "open", !.vaultId = e]
<1>1. At(h, "pay") /\ UNCHANGED <<rows, claims>> /\ SameBudget
  BY BudgetStays DEF PayBill
<1>2. /\ k.at = "pay" /\ ~At(h, "idle") /\ k \in CallOf(RowIds) /\ k.bill \in Bills /\ Agrees(k, rows, escalations)
      /\ k.flow \in {"handle", "approve"} /\ (k.flow = "handle" => k.keep)
      /\ k.flow = "approve" => k.row \in DOMAIN rows /\ rows[k.row].vaultId = 0
      /\ h \in Holders(k.bill) /\ \A b : b # k.bill => h \notin Holders(b)
  BY <1>1, PaysAt
<1>3. /\ EscsKept /\ UNCHANGED <<payments, now>> /\ e \in Nat /\ e # 0
      /\ DOMAIN escalations' = DOMAIN escalations \cup {e} /\ e \notin DOMAIN escalations
      /\ escalations'[e].decision = k.bill
  BY <1>2, ReservesOne
<1>4. Become(h, l)
  OBVIOUS
<1> HIDE DEF e
<1>5. /\ l \in CallOf(RowIds) /\ l.at = "open" /\ l.flow = k.flow /\ l.bill = k.bill /\ l.row = k.row /\ l.keep = k.keep
      /\ l.vaultId = e
  BY <1>2, <1>3 DEF CallOf, Place
<1> HIDE DEF l
<1>6. (\A i \in DOMAIN rows : rows[i].vaultId # e) /\ Unshown(e, h)
  BY <1>3, NamedBefore
<1>7. Agrees(l, rows', escalations')
  <2>1. AgreesOpen(l, rows', escalations')
    BY <1>1, <1>3, <1>5, <1>6 DEF AgreesOpen, Known
  <2>2. k.flow = "approve" => rows[k.row].bill = k.bill
    BY <1>2 DEF Agrees, AgreesResolve, Resolves
  <2>3. AgreesResolve(l, rows', escalations')
    BY <1>1, <1>2, <1>3, <1>5, <2>2 DEF AgreesResolve, Resolves
  <2> QED
    BY <1>2, <1>5, <2>1, <2>3 DEF Agrees, AgreesHandle, HandlePlaces
<1>8. RowIds' = RowIds
  BY <1>1 DEF RowIds
<1>9. Alike(handlers'[h], l) /\ \A g \in Handlers \ {h} : Alike(handlers'[g], handlers[g])
  BY <1>4, <1>5, <1>8, Becomes
<1>10. handlers'[h].at = "open" /\ handlers'[h].vaultId = e
  BY <1>5, <1>9 DEF Alike
<1>11. Moves(h, e, 0)
  BY <1>1, <1>2, <1>3, <1>9, <1>10, Shapes DEF Moves, RowsKept, Lone, Opener
<1>12. NewRowNamed(h, 0) /\ CallNamed(h, l)
  BY <1>1, <1>5, <1>6, <1>7, <1>9 DEF NewRowNamed, CallNamed
<1>13. ASSUME NEW b \in Bills PROVE Balanced(b, h, e, 0)
  <2>1. l.row \in DOMAIN rows \/ ~Resolves(l)
    BY <1>2, <1>5 DEF Resolves
  <2>2. h \in Holders(b)' => h \in Holders(b)
    BY <1>2, <1>5, <1>9, <1>11, <2>1, HeldAfter
  <2>3. e \notin LiveOf(b)'
    BY <1>10 DEF LiveOf, Private, Lone
  <2>4. Bit(h \in Holders(b)') <= Bit(h \in Holders(b)) /\ Bit(e \in LiveOf(b)') <= Bit(e \in LiveOf(b))
    BY <2>2, <2>3, BitGrows
  <2>5. 0 \notin OpenRows(b) /\ 0 \notin OpenRows(b)'
    BY ZeroIsNone
  <2>6. Bit(0 \in OpenRows(b)') = 0 /\ Bit(0 \in OpenRows(b)) = 0
    BY <2>5 DEF Bit
  <2>7. payments[b] \in Nat /\ Budget(b) \in Nat /\ Budget(b)' = Budget(b) /\ payments' = payments
    BY <1>1, <1>3, Shapes DEF SameBudget
  <2> QED
    BY <2>4, <2>6, <2>7, BitType DEF Balanced
<1> QED
  BY <1>11, <1>12, <1>13, TokenStep

LEMMA PayBillTokens ==
  ASSUME TokenInv, OperatorInv, OperatorInv', NEW h \in Handlers, PayBill(h)
  PROVE  TokenInv'
<1>1. CASE VaultPays(handlers[h].bill) /\ Is(h, "handle") /\ Become(h, Answered(h, "executed"))
  <2>1. Become(h, IF Is(h, "handle") THEN Answered(h, "executed")
                  ELSE [handlers[h] EXCEPT !.at = "row", !.outcome = "paid"])
    BY <1>1
  <2> QED
    BY <1>1, <2>1, PaidTokens
<1>2. CASE VaultPays(handlers[h].bill) /\ ~Is(h, "handle") /\ Become(h, [handlers[h] EXCEPT !.at = "row", !.outcome = "paid"])
  <2>1. Become(h, IF Is(h, "handle") THEN Answered(h, "executed")
                  ELSE [handlers[h] EXCEPT !.at = "row", !.outcome = "paid"])
    BY <1>2
  <2> QED
    BY <1>2, <2>1, PaidTokens
<1>3. CASE VaultReserves(handlers[h].bill) /\ Become(h, [handlers[h] EXCEPT !.at = "open", !.vaultId = Len(escalations')])
  BY <1>3, ReservedTokens
<1> QED
  BY <1>1, <1>2, <1>3 DEF PayBill

LEMMA PayLostTokens ==
  ASSUME TokenInv, OperatorInv, OperatorInv', NEW h \in Handlers, NEW hash \in BOOLEAN, PayLost(h, hash)
  PROVE  TokenInv'
<1> DEFINE k == handlers[h]
           l == Unpaid(h, hash)
           e == Len(escalations) + 1
<1>1. At(h, "pay") /\ UNCHANGED <<rows, claims>> /\ \A b \in Bills : Budget(b)' = Budget(b) + 1
  BY BudgetOfFault DEF PayLost, Fault
<1>2. /\ k.at = "pay" /\ ~At(h, "idle") /\ k \in CallOf(RowIds) /\ k.bill \in Bills
      /\ h \in Holders(k.bill) /\ \A b : b # k.bill => h \notin Holders(b)
  BY <1>1, PaysAt
<1>3. Become(h, l)
  BY DEF PayLost
<1>7. /\ l \in CallOf(RowIds) /\ l.at # "idle" /\ l.at # "open" /\ l.bill = k.bill
      /\ Agrees(l, rows, escalations) /\ ~Opener(l) /\ ~Intrudes(l, handlers)
      /\ Resolves(l) => l.row \in DOMAIN rows
  BY <1>1, UnpaidAt
<1> HIDE DEF l
<1>8. RowIds' = RowIds /\ RowsKept
  BY <1>1 DEF RowIds, RowsKept
<1>9. Alike(handlers'[h], l) /\ \A g \in Handlers \ {h} : Alike(handlers'[g], handlers[g])
  BY <1>3, <1>7, <1>8, Becomes
<1>10. /\ EscsKept /\ now' = now /\ DOMAIN escalations' \subseteq DOMAIN escalations \cup {e}
       /\ \A b \in Bills : payments'[b] + Bit(e \in LiveOf(b)') <= payments[b] + Bit(e \in LiveOf(b)) + 1
  <2>1. CASE VaultPays(k.bill)
    <3>1. UNCHANGED <<escalations, now>> /\ \A c \in Bills : payments'[c] = payments[c] + Bit(c = k.bill)
      BY <1>2, <2>1, PaysOne
    <3>2. escalations \in Seq(Escalation) /\ payments \in [Bills -> Nat]
      BY Shapes
    <3>3. e \notin DOMAIN escalations
      BY <3>2
    <3>4. ASSUME NEW b \in Bills PROVE payments'[b] + Bit(e \in LiveOf(b)') <= payments[b] + Bit(e \in LiveOf(b)) + 1
      <4>1. e \notin LiveOf(b) /\ e \notin LiveOf(b)'
        BY <3>1, <3>3 DEF LiveOf, PendingIds
      <4>2. Bit(e \in LiveOf(b)') = 0 /\ Bit(e \in LiveOf(b)) = 0
        BY <4>1 DEF Bit
      <4>3. payments'[b] <= payments[b] + 1 /\ payments'[b] \in Nat /\ payments[b] \in Nat
        BY <3>1, <3>2 DEF Bit
      <4> QED
        BY <4>2, <4>3
    <3> QED
      BY <3>1, <3>4 DEF EscsKept
  <2>2. CASE VaultReserves(k.bill)
    <3>1. /\ EscsKept /\ UNCHANGED <<payments, now>>
          /\ DOMAIN escalations' = DOMAIN escalations \cup {Len(escalations')}
      BY <1>2, <2>2, ReservesOne
    <3>2. escalations \in Seq(Escalation) /\ escalations' = Append(escalations, [decision |-> k.bill, bucket |-> "OPERATING",
              to |-> PayTo[k.bill], amount |-> Owed[k.bill], createdAt |-> now, status |-> "Pending"])
      BY <2>2, Shapes DEF VaultReserves, Escalate
    <3>3. Len(escalations') = e
      BY <3>2
    <3>4. ASSUME NEW b \in Bills PROVE payments'[b] + Bit(e \in LiveOf(b)') <= payments[b] + Bit(e \in LiveOf(b)) + 1
      <4>1. payments[b] \in Nat /\ payments' = payments
        BY <3>1, Shapes
      <4> DEFINE v == Bit(e \in LiveOf(b))
                 V == Bit(e \in LiveOf(b)')
      <4>2. v \in {0, 1} /\ V \in {0, 1}
        BY BitType
      <4> HIDE DEF v, V
      <4>3. payments[b] + V <= payments[b] + v + 1
        BY <4>1, <4>2
      <4> QED
        BY <4>1, <4>3 DEF v, V
    <3> QED
      BY <3>1, <3>3, <3>4
  <2> QED
    BY <2>1, <2>2 DEF PayLost
<1>11. ~Lone(k) /\ ~Opener(handlers'[h])
  BY <1>2, <1>7, <1>9 DEF Lone, Opener, Alike
<1>12. Moves(h, e, 0)
  BY <1>1, <1>8, <1>9, <1>10, <1>11, Shapes DEF Moves
<1>13. NewRowNamed(h, 0)
  BY <1>1 DEF NewRowNamed
<1>14. CallNamed(h, l)
  <2>1. Agrees(l, rows', escalations')
    BY <1>7, <1>8, <1>10, AlikeSelf, AgreesLasts
  <2> QED
    BY <1>7, <1>9, <2>1 DEF CallNamed
<1>15. ASSUME NEW b \in Bills PROVE Balanced(b, h, e, 0)
  <2>2. h \in Holders(b)' => h \in Holders(b)
    BY <1>2, <1>7, <1>9, <1>12, HeldAfter
  <2>3. Bit(h \in Holders(b)') <= Bit(h \in Holders(b))
    BY <2>2, BitGrows
  <2>4. 0 \notin OpenRows(b) /\ 0 \notin OpenRows(b)'
    BY ZeroIsNone
  <2>5. Bit(0 \in OpenRows(b)') = 0 /\ Bit(0 \in OpenRows(b)) = 0
    BY <2>4 DEF Bit
  <2>6. payments[b] \in Nat /\ payments'[b] \in Nat /\ Budget(b) \in Nat /\ Budget(b)' = Budget(b) + 1
    BY <1>1, Shapes, ShapesNext
  <2> DEFINE g == Bit(h \in Holders(b))
             G == Bit(h \in Holders(b)')
             v == Bit(e \in LiveOf(b))
             V == Bit(e \in LiveOf(b)')
  <2>7. g \in Nat /\ G \in Nat /\ v \in Nat /\ V \in Nat
    BY BitType
  <2>8. payments'[b] + V <= payments[b] + v + 1
    BY <1>10
  <2> HIDE DEF g, G, v, V
  <2>9. payments'[b] + G + V + 0 + Budget(b) <= payments[b] + g + v + 0 + (Budget(b) + 1)
    BY <2>3, <2>6, <2>7, <2>8 DEF g, G
  <2> QED
    BY <2>5, <2>6, <2>9 DEF Balanced, g, G, v, V
<1> QED
  BY <1>12, <1>13, <1>14, <1>15, TokenStep

-----------------------------------------------------------------------------
(* A row is opened: for a bill that was handled, or for one whose row is   *)
(* being approved.                                                         *)
LEMMA OpensAt ==
  ASSUME TokenInv, OperatorInv, NEW h \in Handlers, OpenRow(h)
  PROVE  LET k == handlers[h] IN
         /\ k.at = "open" /\ ~At(h, "idle") /\ k \in CallOf(RowIds) /\ k.bill \in Bills /\ Agrees(k, rows, escalations)
         /\ k.flow \in {"handle", "approve"} /\ (k.flow = "handle" => k.keep)
         /\ k.flow = "approve" => k.row \in DOMAIN rows /\ rows[k.row].vaultId = 0 /\ rows[k.row].bill = k.bill /\ k.vaultId # 0
         /\ h \in Holders(k.bill) /\ \A b : b # k.bill => h \notin Holders(b)
<1> DEFINE k == handlers[h]
<1>1. ~At(h, "idle") /\ k.at = "open"
  BY DEF OpenRow, At
<1>2. Agrees(k, rows, escalations) /\ k.flow \in {"handle", "approve", "reject", "expire"} /\ k \in CallOf(RowIds)
      /\ k.bill \in Bills
  BY <1>1, Flows DEF TokenInv, NamesInv
<1>3. /\ k.flow \in {"handle", "approve"} /\ (k.flow = "handle" => k.keep)
      /\ (k.flow = "approve" => k.row \in DOMAIN rows /\ rows[k.row].vaultId = 0 /\ rows[k.row].bill = k.bill /\ k.vaultId # 0)
  BY <1>1, <1>2 DEF Agrees, AgreesHandle, AgreesResolve, ExpirePlaces, Resolves
<1>4. Spends(k, rows, now)
  BY <1>1, <1>3 DEF Spends, Resolves
<1> QED
  BY <1>1, <1>2, <1>3, <1>4 DEF Holders, Uses

LEMMA NewRow ==
  ASSUME OperatorInv, NEW h \in Handlers, OpenRow(h)
  PROVE  LET i == Len(rows') IN
         /\ RowsKept /\ i \in Nat /\ i # 0 /\ DOMAIN rows' = DOMAIN rows \cup {i} /\ i \notin DOMAIN rows
         /\ rows'[i].bill = handlers[h].bill /\ rows'[i].vaultId = handlers[h].vaultId
         /\ RowIds \subseteq RowIds' /\ i \in RowIds'
<1> DEFINE r == [bill |-> handlers[h].bill, vaultId |-> handlers[h].vaultId, createdAt |-> now, status |-> "pending"]
           i == Len(rows) + 1
<1>1. rows' = Append(rows, r) /\ rows \in Seq(Row) /\ r.bill = handlers[h].bill /\ r.vaultId = handlers[h].vaultId
  BY Shapes DEF OpenRow
<1> HIDE DEF r
<1>2. /\ Len(rows') = i /\ DOMAIN rows = 1..Len(rows) /\ Len(rows) \in Nat
      /\ DOMAIN rows' = 1..i /\ rows'[i] = r
      /\ \A j \in DOMAIN rows : rows'[j] = rows[j]
  BY <1>1
<1>3. RowsKept
  BY <1>2 DEF RowsKept
<1> QED
  BY <1>1, <1>2, <1>3 DEF RowIds

LEMMA OpenRowTokens ==
  ASSUME TokenInv, OperatorInv, OperatorInv', NEW h \in Handlers, OpenRow(h)
  PROVE  TokenInv'
<1> DEFINE k == handlers[h]
           e == k.vaultId
           i == Len(rows')
<1>1. UNCHANGED <<escalations, now, claims, payments>> /\ SameBudget
  BY BudgetSame DEF OpenRow, vaultVars
<1>2. /\ k.at = "open" /\ ~At(h, "idle") /\ k \in CallOf(RowIds) /\ k.bill \in Bills /\ Agrees(k, rows, escalations)
      /\ k.flow \in {"handle", "approve"} /\ (k.flow = "handle" => k.keep)
      /\ k.flow = "approve" => k.row \in DOMAIN rows /\ rows[k.row].vaultId = 0 /\ rows[k.row].bill = k.bill /\ k.vaultId # 0
      /\ h \in Holders(k.bill) /\ \A b : b # k.bill => h \notin Holders(b)
  BY OpensAt
<1>3. /\ RowsKept /\ i \in Nat /\ i # 0 /\ DOMAIN rows' = DOMAIN rows \cup {i} /\ i \notin DOMAIN rows
      /\ rows'[i].bill = k.bill /\ rows'[i].vaultId = e /\ RowIds \subseteq RowIds' /\ i \in RowIds'
  BY NewRow
<1>4. e # 0 => Known(e, k.bill, escalations) /\ (\A j \in DOMAIN rows : rows[j].vaultId # e) /\ Unshown(e, h)
  <2>1. e # 0 => Known(e, k.bill, escalations) /\ (\A j \in DOMAIN rows : rows[j].vaultId # e)
    BY <1>2 DEF Agrees, AgreesOpen
  <2>2. e # 0 => Unshown(e, h)
    BY <1>2 DEF TokenInv, NamesInv, OpenApart, Unshown
  <2> QED
    BY <2>1, <2>2
<1>5. EscsKept
  BY <1>1 DEF EscsKept
<1>6. NewRowNamed(h, i)
  BY <1>1, <1>3, <1>4 DEF NewRowNamed
<1>7. payments \in [Bills -> Nat] /\ now \in Nat /\ \A b \in Bills : Budget(b) \in Nat
  BY Shapes
<1>8. CASE k.flow = "handle"
  <2> DEFINE l == Answered(h, "escalated")
  <2>1. Become(h, l)
    BY <1>8 DEF OpenRow, Is
  <2>a. l \in CallOf(RowIds) /\ l.at = "act" /\ l.flow = "handle" /\ l.keep = k.keep /\ l.bill = k.bill /\ l.vaultId = 0
    BY <1>2, <1>8, AnsweredCall DEF Results
  <2> HIDE DEF l
  <2>2. l \in CallOf(RowIds') /\ l.at = "act" /\ l.flow = "handle" /\ l.keep = k.keep /\ l.bill = k.bill
    BY <1>3, <2>a DEF CallOf
  <2>3. Alike(handlers'[h], l) /\ \A g \in Handlers \ {h} : Alike(handlers'[g], handlers[g])
    BY <2>1, <2>2, Becomes
  <2>4. \A rs, es, t, hs : Agrees(l, rs, es) /\ ~Opener(l) /\ l.at # "open" /\ ~Spends(l, rs, t) /\ ~Intrudes(l, hs)
    BY <1>2, <1>8, <2>a, ActAgrees
  <2>5. ~Opener(handlers'[h])
    BY <2>2, <2>3 DEF Alike, Opener
  <2> HIDE DEF i
  <2>6. Moves(h, e, i)
    BY <1>1, <1>3, <1>5, <1>7, <2>3, <2>5 DEF Moves
  <2>7. CallNamed(h, l)
    BY <2>3, <2>4 DEF CallNamed
  <2>8. ASSUME NEW b \in Bills PROVE Balanced(b, h, e, i)
    <3>1. h \notin Holders(b)'
      BY <2>2, <2>3, <2>4, <2>6, HeldAfter DEF Resolves
    <3>2. i \notin OpenRows(b)
      BY <1>3 DEF OpenRows
    <3>3. i \in OpenRows(b)' => b = k.bill /\ e = 0
      BY <1>3 DEF OpenRows
    <3>4. e \in LiveOf(b)' => b = k.bill /\ e # 0
      BY <1>1, <1>4, ZeroIsNone DEF LiveOf, Known
    <3>5. b = k.bill => h \in Holders(b)
      BY <1>2
    <3>6. Bit(e \in LiveOf(b)') + Bit(i \in OpenRows(b)') <= Bit(h \in Holders(b))
      BY <3>3, <3>4, <3>5 DEF Bit
    <3>7. Bit(h \in Holders(b)') = 0 /\ Bit(i \in OpenRows(b)) = 0
      BY <3>1, <3>2 DEF Bit
    <3>8. payments'[b] = payments[b] /\ payments[b] \in Nat /\ Budget(b)' = Budget(b) /\ Budget(b) \in Nat
      BY <1>1, <1>7 DEF SameBudget
    <3> DEFINE g == Bit(h \in Holders(b))
               v == Bit(e \in LiveOf(b))
               V == Bit(e \in LiveOf(b)')
               x == Bit(i \in OpenRows(b)')
    <3>9. g \in Nat /\ v \in Nat /\ V \in Nat /\ x \in Nat
      BY BitType
    <3> HIDE DEF g, v, V, x
    <3>10. payments[b] + 0 + V + x + Budget(b) <= payments[b] + g + v + 0 + Budget(b)
      BY <3>6, <3>8, <3>9 DEF g, V, x
    <3> QED
      BY <3>7, <3>8, <3>10 DEF Balanced, g, v, V, x
  <2> QED
    BY <1>6, <2>6, <2>7, <2>8, TokenStep
<1>9. CASE k.flow = "approve"
  <2> DEFINE l == [k EXCEPT !.at = "vault", !.fresh = i]
  <2>1. Become(h, l)
    BY <1>9 DEF OpenRow, Is
  <2> HIDE DEF i
  <2>2. /\ l \in CallOf(RowIds') /\ l.at = "vault" /\ l.flow = "approve" /\ l.keep = k.keep /\ l.bill = k.bill
        /\ l.row = k.row /\ l.vaultId = e /\ l.fresh = i
    BY <1>2, <1>3, <1>9 DEF CallOf, Place
  <2> HIDE DEF l
  <2>3. Alike(handlers'[h], l) /\ \A g \in Handlers \ {h} : Alike(handlers'[g], handlers[g])
    BY <2>1, <2>2, Becomes
  <2>4. Opener(handlers'[h]) /\ handlers'[h].vaultId = e /\ handlers'[h].fresh = i
    BY <1>3, <2>2, <2>3 DEF Alike, Opener
  <2>5. Moves(h, e, i)
    BY <1>1, <1>3, <1>5, <1>7, <2>3, <2>4 DEF Moves, Lone
  <2>6. AgreesVault(l, rows', escalations')
    BY <1>1, <1>2, <1>3, <1>4, <1>9, <2>2 DEF AgreesVault, RowsKept
  <2>7. Agrees(l, rows', escalations')
    BY <1>2, <1>3, <1>9, <2>2, <2>6 DEF Agrees, AgreesHandle, AgreesResolve, AgreesOpen, Resolves, RowsKept
  <2>8. CallNamed(h, l)
    BY <2>2, <2>3, <2>7 DEF CallNamed
  <2>9. ASSUME NEW b \in Bills PROVE Balanced(b, h, e, i)
    <3>1. l.row \in DOMAIN rows
      BY <1>2, <1>9, <2>2
    <3>2. h \in Holders(b)' => h \in Holders(b)
      BY <1>2, <2>2, <2>3, <2>5, <3>1, HeldAfter
    <3>3. i \notin OpenRows(b)' /\ e \notin LiveOf(b)'
      BY <1>2, <1>3, <1>9, <2>4 DEF OpenRows, LiveOf, Private, Lone
    <3>4. /\ Bit(h \in Holders(b)') <= Bit(h \in Holders(b)) /\ Bit(e \in LiveOf(b)') <= Bit(e \in LiveOf(b))
          /\ Bit(i \in OpenRows(b)') <= Bit(i \in OpenRows(b))
      BY <3>2, <3>3, BitGrows
    <3>5. payments'[b] = payments[b] /\ payments[b] \in Nat /\ Budget(b)' = Budget(b) /\ Budget(b) \in Nat
      BY <1>1, <1>7 DEF SameBudget
    <3> QED
      BY <1>7, <3>4, <3>5, BitType DEF Balanced
  <2> QED
    BY <1>6, <2>5, <2>8, <2>9, TokenStep
<1> QED
  BY <1>2, <1>8, <1>9

-----------------------------------------------------------------------------
(* The claims: on an event, and on a row to resolve.                       *)
LEMMA KeysApart ==
  /\ \A b, c : EventOf(b) = EventOf(c) => b = c
  /\ \A i, j : ResolveOf(i) = ResolveOf(j) => i = j
  /\ \A b, i : EventOf(b) # ResolveOf(i)
BY DEF EventOf, ResolveOf

(* A step of one call that leaves the rows, the vault and the payments,    *)
(* and moves a claim between the call and the row.                         *)
LEMMA ClaimStep ==
  ASSUME TokenInv, OperatorInv, OperatorInv', NEW h \in Handlers, NEW l, NEW i,
         Alike(handlers'[h], l), \A g \in Handlers \ {h} : Alike(handlers'[g], handlers[g]),
         UNCHANGED <<rows, escalations, now, payments>>, SameBudget, ~Lone(handlers[h]),
         l.at # "idle" => Agrees(l, rows, escalations), ~Opener(l), l.at = "open" => l.vaultId = 0,
         \A j \in DOMAIN rows : ResolveOf(j) \in claims => ResolveOf(j) \in claims' \/ j = i,
         \A b \in Bills : Bit(h \in Holders(b)') + Bit(i \in OpenRows(b)') <= Bit(h \in Holders(b)) + Bit(i \in OpenRows(b))
  PROVE  TokenInv'
<1>1. now \in Nat /\ payments \in [Bills -> Nat]
  BY Shapes
<1>2. ~Opener(handlers'[h])
  BY DEF Alike, Opener
<1>3. RowsKept /\ EscsKept
  BY DEF RowsKept, EscsKept
<1>4. Moves(h, 0, i)
  BY <1>1, <1>2, <1>3 DEF Moves
<1>5. NewRowNamed(h, i)
  BY DEF NewRowNamed
<1>6. CallNamed(h, l)
  BY DEF CallNamed
<1>7. ASSUME NEW b \in Bills PROVE Balanced(b, h, 0, i)
  <2>1. 0 \notin LiveOf(b) /\ 0 \notin LiveOf(b)'
    BY ZeroIsNone
  <2>2. Bit(0 \in LiveOf(b)') = 0 /\ Bit(0 \in LiveOf(b)) = 0
    BY <2>1 DEF Bit
  <2>3. payments'[b] = payments[b] /\ payments[b] \in Nat /\ Budget(b)' = Budget(b) /\ Budget(b) \in Nat
    BY <1>1, Shapes DEF SameBudget
  <2> DEFINE g == Bit(h \in Holders(b))
             G == Bit(h \in Holders(b)')
             x == Bit(i \in OpenRows(b))
             X == Bit(i \in OpenRows(b)')
  <2>4. g \in Nat /\ G \in Nat /\ x \in Nat /\ X \in Nat
    BY BitType
  <2>5. G + X <= g + x
    OBVIOUS
  <2> HIDE DEF g, G, x, X
  <2>6. payments[b] + G + 0 + X + Budget(b) <= payments[b] + g + 0 + x + Budget(b)
    BY <2>3, <2>4, <2>5
  <2> QED
    BY <2>2, <2>3, <2>6 DEF Balanced, g, G, x, X
<1> QED
  BY <1>4, <1>5, <1>6, <1>7, TokenStep

(* What a call that claims or lets go holds afterwards. *)
LEMMA ClaimHeld ==
  ASSUME OperatorInv, OperatorInv', NEW h \in Handlers, NEW l, NEW i,
         Alike(handlers'[h], l), \A g \in Handlers \ {h} : Alike(handlers'[g], handlers[g]),
         UNCHANGED <<rows, escalations, now>>, ~Lone(handlers[h]), ~Opener(l),
         l.at # "idle" => Agrees(l, rows, escalations),
         \A j \in DOMAIN rows : ResolveOf(j) \in claims => ResolveOf(j) \in claims' \/ j = i,
         NEW b, h \in Holders(b)'
  PROVE  l.at # "idle" /\ l.bill = b /\ (Spends(l, rows, now) \/ Intrudes(l, handlers))
<1>1. ~Opener(handlers'[h]) /\ now <= now'
  BY Shapes DEF Alike, Opener
<1>2. RowsKept /\ EscsKept
  BY DEF RowsKept, EscsKept
<1>3. Moves(h, 0, i)
  BY <1>1, <1>2 DEF Moves
<1>4. l.at # "idle"
  BY DEF Holders, Uses, Alike
<1>5. Resolves(l) => l.row \in DOMAIN rows
  BY <1>4 DEF Agrees, AgreesResolve
<1> QED
  BY <1>3, <1>5, HeldAfter

LEMMA TakeEventTokens ==
  ASSUME TokenInv, OperatorInv, OperatorInv', NEW h \in Handlers, TakeClaim(h), KeyOf(h) \notin claims, Is(h, "handle")
  PROVE  TokenInv'
<1> DEFINE k == handlers[h]
           l == [k EXCEPT !.at = "decide"]
<1>1. /\ UNCHANGED <<rows, escalations, now, payments>> /\ claims \subseteq claims' /\ SameBudget
      /\ ~Lone(k) /\ ~At(h, "idle") /\ k.at = "claim" /\ Go(h, "decide") /\ k.flow = "handle"
  BY BudgetSame DEF TakeClaim, vaultVars, At, Lone, Opener, Is
<1>2. Agrees(k, rows, escalations)
  BY <1>1 DEF TokenInv, NamesInv
<1>3. l \in CallOf(RowIds) /\ MovedOn(l, k, "decide")
  BY <1>1, GoesTo DEF Place
<1>4. Become(h, l)
  BY <1>1 DEF Go
<1> HIDE DEF l
<1>5. l.flow = "handle" /\ l.keep /\ l.vaultId = 0 /\ l.at = "decide"
  BY <1>1, <1>2, <1>3 DEF Agrees, AgreesHandle, MovedOn
<1> QED
  BY <1>1, <1>3, <1>4, <1>5, ActStep

LEMMA ClaimsRow ==
  ASSUME TokenInv, OperatorInv, NEW h \in Handlers, handlers[h].at \in {"claim", "unclaim"}, ~Is(h, "handle")
  PROVE  LET k == handlers[h] IN
         /\ Agrees(k, rows, escalations) /\ Resolves(k) /\ k.row \in DOMAIN rows /\ rows[k.row].bill = k.bill
         /\ k.at = "claim" => k.vaultId = rows[k.row].vaultId /\ k.fresh = 0
         /\ k.bill \in Bills /\ KeyOf(h) = ResolveOf(k.row)
<1> DEFINE k == handlers[h]
<1>1. ~At(h, "idle")
  BY DEF At
<1>2. Agrees(k, rows, escalations) /\ k.flow \in {"handle", "approve", "reject", "expire"} /\ k.bill \in Bills
  BY <1>1, Flows DEF TokenInv, NamesInv
<1>3. Resolves(k)
  BY <1>2 DEF Agrees, ExpirePlaces, Resolves, Is
<1> QED
  BY <1>2, <1>3 DEF Agrees, AgreesResolve, KeyOf

LEMMA TakeRowTokens ==
  ASSUME TokenInv, OperatorInv, OperatorInv', NEW h \in Handlers, TakeClaim(h), KeyOf(h) \notin claims, ~Is(h, "handle")
  PROVE  TokenInv'
<1> DEFINE k == handlers[h]
           i == k.row
           l == [k EXCEPT !.at = "check"]
<1>1. /\ UNCHANGED <<rows, escalations, now, payments>> /\ SameBudget /\ ~Lone(k) /\ ~At(h, "idle") /\ k.at = "claim"
      /\ claims' = claims \cup {KeyOf(h)} /\ Go(h, "check")
  BY BudgetSame DEF TakeClaim, vaultVars, At, Lone, Opener
<1>2. /\ Agrees(k, rows, escalations) /\ Resolves(k) /\ i \in DOMAIN rows /\ rows[i].bill = k.bill
      /\ k.vaultId = rows[i].vaultId /\ k.fresh = 0 /\ k.bill \in Bills /\ KeyOf(h) = ResolveOf(i)
  BY <1>1, ClaimsRow
<1>3. l \in CallOf(RowIds) /\ MovedOn(l, k, "check")
  BY <1>1, GoesTo DEF Place
<1>4. Become(h, l)
  BY <1>1 DEF Go
<1> HIDE DEF l
<1>5. RowIds' = RowIds
  BY <1>1 DEF RowIds
<1>6. Alike(handlers'[h], l) /\ \A g \in Handlers \ {h} : Alike(handlers'[g], handlers[g])
  BY <1>3, <1>4, <1>5, Becomes
<1>7. Agrees(l, rows, escalations) /\ ~Opener(l) /\ l.at # "open"
  BY <1>1, <1>2, <1>3 DEF Agrees, AgreesHandle, AgreesResolve, AgreesOpen, Resolves, Opener, MovedOn
<1>8. ASSUME NEW b \in Bills, h \in Holders(b)' PROVE h \in Holders(b) \/ i \in OpenRows(b)
  <2>1. l.bill = b /\ (Spends(l, rows, now) \/ Intrudes(l, handlers))
    BY <1>1, <1>6, <1>7, <1>8, ClaimHeld
  <2>2. CASE Intrudes(l, handlers)
    BY <1>1, <1>3, <2>1, <2>2 DEF Intrudes, MovedOn, Holders, Uses
  <2>3. CASE Spends(l, rows, now)
    BY <1>1, <1>2, <1>3, <2>1, <2>3 DEF Spends, MovedOn, OpenRows, Resolves, Timely
  <2> QED
    BY <2>1, <2>2, <2>3
<1>9. ASSUME NEW b \in Bills
      PROVE  Bit(h \in Holders(b)') + Bit(i \in OpenRows(b)') <= Bit(h \in Holders(b)) + Bit(i \in OpenRows(b))
  <2>1. i \notin OpenRows(b)'
    BY <1>1, <1>2 DEF OpenRows
  <2>3. Bit(i \in OpenRows(b)') = 0
    BY <2>1 DEF Bit
  <2>4. Bit(h \in Holders(b)') <= Bit(h \in Holders(b)) + Bit(i \in OpenRows(b))
    BY <1>8 DEF Bit
  <2>5. Bit(h \in Holders(b)) \in Nat /\ Bit(h \in Holders(b)') \in Nat /\ Bit(i \in OpenRows(b)) \in Nat
    BY BitType
  <2> QED
    BY <2>3, <2>4, <2>5
<1> QED
  BY <1>1, <1>6, <1>7, <1>9, ClaimStep

LEMMA TakeClaimTokens ==
  ASSUME TokenInv, OperatorInv, OperatorInv', NEW h \in Handlers, TakeClaim(h)
  PROVE  TokenInv'
<1>1. CASE KeyOf(h) \in claims
  <2>1. /\ UNCHANGED <<rows, escalations, now, payments, claims>> /\ SameBudget /\ ~Lone(handlers[h]) /\ Done(h)
    BY <1>1, BudgetSame DEF TakeClaim, vaultVars, At, Lone, Opener
  <2> QED
    BY <2>1, DoneTokens
<1> QED
  BY <1>1, TakeEventTokens, TakeRowTokens

LEMMA UnclaimTokens ==
  ASSUME TokenInv, OperatorInv, OperatorInv', NEW h \in Handlers, Unclaim(h)
  PROVE  TokenInv'
<1> DEFINE k == handlers[h]
           l == NoCall
<1>1. /\ UNCHANGED <<rows, escalations, now, payments>> /\ SameBudget /\ ~Lone(k) /\ ~At(h, "idle") /\ k.at = "unclaim"
      /\ claims' = claims \ {KeyOf(h)} /\ Become(h, l) /\ RowIds' = RowIds
  BY BudgetSame DEF Unclaim, vaultVars, At, Lone, Opener, Done, RowIds
<1>2. l.at = "idle" /\ l = NoCall
  BY DEF NoCall
<1> HIDE DEF l
<1>3. Alike(handlers'[h], l) /\ \A g \in Handlers \ {h} : Alike(handlers'[g], handlers[g])
  BY <1>1, <1>2, Becomes
<1>4. \A b \in Bills : h \notin Holders(b)'
  BY <1>2, <1>3 DEF Holders, Uses, Alike
<1>5. CASE Is(h, "handle")
  <2>2. \A j \in DOMAIN rows : ResolveOf(j) \in claims => ResolveOf(j) \in claims'
    BY <1>1, <1>5, KeysApart DEF KeyOf
  <2>3. ASSUME NEW b \in Bills
        PROVE  Bit(h \in Holders(b)') + Bit(0 \in OpenRows(b)') <= Bit(h \in Holders(b)) + Bit(0 \in OpenRows(b))
    <3>1. 0 \notin OpenRows(b) /\ 0 \notin OpenRows(b)'
      BY ZeroIsNone
    <3> QED
      BY <1>4, <3>1, BitType DEF Bit
  <2> QED
    BY <1>1, <1>2, <1>3, <2>2, <2>3, ClaimStep DEF Opener
<1>6. CASE ~Is(h, "handle")
  <2>1. /\ Resolves(k) /\ k.row \in DOMAIN rows /\ rows[k.row].bill = k.bill /\ KeyOf(h) = ResolveOf(k.row)
    BY <1>1, <1>6, ClaimsRow
  <2>2. \A j \in DOMAIN rows : ResolveOf(j) \in claims => ResolveOf(j) \in claims' \/ j = k.row
    BY <1>1, <2>1, KeysApart
  <2>3. ASSUME NEW b \in Bills
        PROVE  Bit(h \in Holders(b)') + Bit(k.row \in OpenRows(b)') <= Bit(h \in Holders(b)) + Bit(k.row \in OpenRows(b))
    <3>1. Bit(h \in Holders(b)') = 0
      BY <1>4 DEF Bit
    <3>2. k.row \in OpenRows(b)' => h \in Holders(b)
      BY <1>1, <2>1 DEF OpenRows, Holders, Uses, Spends
    <3>3. Bit(k.row \in OpenRows(b)') <= Bit(h \in Holders(b))
      BY <3>2, BitGrows
    <3>4. Bit(h \in Holders(b)) \in Nat /\ Bit(k.row \in OpenRows(b)') \in Nat /\ Bit(k.row \in OpenRows(b)) \in Nat
      BY BitType
    <3> QED
      BY <3>1, <3>3, <3>4
  <2> QED
    BY <1>1, <1>2, <1>3, <2>2, <2>3, ClaimStep DEF Opener
<1> QED
  BY <1>5, <1>6

LEMMA BeginResolveTokens ==
  ASSUME TokenInv, OperatorInv, OperatorInv', NEW h \in Handlers, NEW i \in DOMAIN rows, NEW flow \in {"approve", "reject"},
         BeginResolve(h, i, flow)
  PROVE  TokenInv'
<1> DEFINE base == New(flow, rows[i].bill, "claim")
           l == [base EXCEPT !.row = i, !.vaultId = rows[i].vaultId]
<1>1. /\ UNCHANGED <<rows, escalations, now, payments, claims>> /\ ~Lone(handlers[h]) /\ At(h, "idle") /\ RowIds' = RowIds
      /\ Become(h, l)
  BY DEF BeginResolve, vaultVars, At, Lone, Opener, RowIds
<1>2. rows[i].bill \in Bills /\ rows[i].vaultId \in Nat /\ i \in RowIds /\ 0 \in RowIds
  <2>1. ServiceInv
    BY DEF OperatorInv
  <2>2. 0 \in RowIds
    BY <2>1, Shapes DEF RowIds
  <2> QED
    BY <2>1, <2>2, RowOf
<1>a. rows[i].bill \in Events /\ 0 \in 0..MaxProposals /\ "deferred" \in Results
  BY <1>2, OperatorEventsAssumption, OperatorBoundAssumption DEF Results
<1>3. base \in CallOf(RowIds) /\ base.at = "claim" /\ base.flow = flow /\ base.bill = rows[i].bill /\ base.fresh = 0
  BY <1>2, <1>a DEF New, CallOf, Place
<1> HIDE DEF base
<1>4. /\ l \in CallOf(RowIds) /\ l.at = "claim" /\ l.flow = flow /\ l.bill = rows[i].bill /\ l.fresh = 0
      /\ l.row = i /\ l.vaultId = rows[i].vaultId
  BY <1>2, <1>3 DEF CallOf
<1> HIDE DEF l
<1>5. Agrees(l, rows, escalations) /\ ~Opener(l) /\ l.at # "open" /\ ~Spends(l, rows, now) /\ l.at # "idle"
  BY <1>4 DEF Agrees, AgreesHandle, AgreesResolve, AgreesOpen, Resolves, Opener, Spends
<1>b. UNCHANGED <<planned, faults>>
  BY DEF BeginResolve
<1>6. CASE UNCHANGED overlaps /\ ~(\E g \in Handlers : ~At(g, "idle") /\ handlers[g].fresh = i)
  <2>1. SameBudget
    BY <1>6, <1>b, BudgetStays
  <2>2. ~Intrudes(l, handlers)
    BY <1>4, <1>6 DEF Intrudes, Opened, Opener, At
  <2> QED
    BY <1>1, <1>4, <1>5, <2>1, <2>2, OwnStep
<1>7. CASE overlaps' = overlaps + 1
  <2>1. Alike(handlers'[h], l) /\ \A g \in Handlers \ {h} : Alike(handlers'[g], handlers[g])
    BY <1>1, <1>4, Becomes
  <2>2. Calm(h, l, 0)
    BY <1>1, <1>5, <2>1, Shapes DEF Calm, RowsKept, EscsKept
  <2>3. \A b \in Bills : Budget(b)' = Budget(b) + 1
    <3>1. planned \in [Bills -> Nat] /\ overlaps \in Nat /\ faults \in Nat
      BY DEF OperatorInv, ServiceInv, Books, Told
    <3> QED
      BY <1>7, <1>b, <3>1 DEF Budget
  <2>4. ASSUME NEW b \in Bills
        PROVE  payments'[b] + Bit(h \in Holders(b)') + Bit(0 \in LiveOf(b)')
                 <= payments[b] + Bit(h \in Holders(b)) + Bit(0 \in LiveOf(b)) + 1
    <3>1. 0 \notin LiveOf(b) /\ 0 \notin LiveOf(b)'
      BY ZeroIsNone
    <3>2. Bit(0 \in LiveOf(b)') = 0 /\ Bit(0 \in LiveOf(b)) = 0
      BY <3>1 DEF Bit
    <3>3. payments'[b] = payments[b] /\ payments[b] \in Nat
      BY <1>1, Shapes
    <3> DEFINE g == Bit(h \in Holders(b))
               G == Bit(h \in Holders(b)')
    <3>4. g \in {0, 1} /\ G \in {0, 1}
      BY BitType
    <3> HIDE DEF g, G
    <3>5. payments[b] + G + 0 <= payments[b] + g + 0 + 1
      BY <3>3, <3>4
    <3> QED
      BY <3>2, <3>3, <3>5 DEF g, G
  <2> QED
    BY <2>2, <2>3, <2>4, FaultStep
<1> QED
  BY <1>6, <1>7 DEF BeginResolve

-----------------------------------------------------------------------------
LEMMA ContinueTokens ==
  ASSUME TokenInv, OperatorInv, OperatorInv', NEW h \in Handlers, Continue(h)
  PROVE  TokenInv'
<1>1. CASE TakeClaim(h) \/ Unclaim(h) \/ ReadBills(h) \/ EngineThrows(h) \/ Decide(h)
  BY <1>1, TakeClaimTokens, UnclaimTokens, DecideTokens
<1>2. CASE \/ \E b \in Bills : ProposeUnmatched(h, b) \/ \E place \in Place : ProposePayout(h, b, place)
           \/ \E status \in Results : ProposeAside(h, status)
           \/ Finish(h)
  BY <1>2, ProposeTokens, ProposeAsideTokens, FinishTokens
<1>3. CASE PayBill(h) \/ PayFails(h) \/ OpenRow(h) \/ UpdateBill(h) \/ ReadHead(h) \/ AppendDecision(h)
  BY <1>3, PayBillTokens, PayFailsTokens, OpenRowTokens, WriteBillTokens, ReadHeadTokens, AppendDecisionTokens
<1>4. CASE \/ Relink(h) \/ RecordThrows(h) \/ CheckRow(h) \/ VaultCall(h) \/ VaultCallRefused(h) \/ ApproveFresh(h)
           \/ LoadRow(h)
  BY <1>4, RelinkTokens, CheckRowTokens, VaultCallTokens, VaultCallRefusedTokens, WriteRowTokens, LoadRowTokens
<1>5. CASE SaveRow(h) \/ FindBill(h) \/ CloseBill(h) \/ SaveExpired(h) \/ \E called \in BOOLEAN : ExpireNext(h, called)
  BY <1>5, WriteRowTokens, FindBillTokens, WriteBillTokens, SaveExpiredTokens, ExpireNextTokens
<1> QED
  BY <1>1, <1>2, <1>3, <1>4, <1>5 DEF Continue

LEMMA StutterTokens ==
  ASSUME TokenInv, OperatorInv, OperatorInv', UNCHANGED operatorVars
  PROVE  TokenInv'
<1>1. UNCHANGED <<rows, escalations, payments, claims, history, faults, now, handlers>>
  BY DEF operatorVars, serviceVars, vaultVars
<1>2. now <= now' /\ \A g \in Handlers : Alike(handlers'[g], handlers[g])
  BY <1>1, AlikeSelf, Shapes
<1> QED
  BY <1>1, <1>2, AlikeStep, BudgetSame

LEMMA TokensStep ==
  ASSUME TokenInv, OperatorInv, [OperatorStep]_operatorVars
  PROVE  TokenInv'
<1>1. OperatorInv'
  BY OperatorStepInv
<1>2. CASE World
  BY <1>1, <1>2, WorldTokens
<1>3. ASSUME NEW h \in Handlers, Begin(h) PROVE TokenInv'
  BY <1>1, <1>3, BeginHandleTokens, BeginResolveTokens, ListStaleTokens DEF Begin
<1>4. ASSUME NEW h \in Handlers, Continue(h) PROVE TokenInv'
  BY <1>1, <1>4, ContinueTokens
<1>5. ASSUME NEW h \in Handlers,
             \/ VaultCallFails(h) \/ ResolveThrows(h) \/ Kill(h)
             \/ \E hash \in BOOLEAN : PayLost(h, hash) \/ VaultCallLost(h, hash)
      PROVE  TokenInv'
  BY <1>1, <1>5, VaultCallFailsTokens, ResolveThrowsTokens, KillTokens, PayLostTokens, VaultCallLostTokens
<1>6. CASE UNCHANGED operatorVars
  BY <1>1, <1>6, StutterTokens
<1> QED
  BY <1>2, <1>3, <1>4, <1>5, <1>6 DEF OperatorStep

(* At first no bill has a token.                                           *)
LEMMA TokensAtFirst == ASSUME ServiceInit, escalations = <<>> PROVE TokenInv
<1>1. /\ rows = <<>> /\ claims = {} /\ payments = [b \in Bills |-> 0] /\ escalations = <<>>
      /\ planned = [b \in Bills |-> 0] /\ overlaps = 0 /\ faults = 0
      /\ \A h \in Handlers : handlers[h].at = "idle"
  BY DEF ServiceInit, NoCall
<1>2. NamesInv
  BY <1>1 DEF NamesInv, At, OpenApart
<1>3. ASSUME NEW b \in Bills PROVE Counted(b)
  <2>1. Holders(b) = {} /\ LiveOf(b) = {} /\ OpenRows(b) = {}
    BY <1>1 DEF Holders, Uses, LiveOf, PendingIds, OpenRows
  <2>2. IsFiniteSet({}) /\ Cardinality({}) = 0
    BY FS_EmptySet
  <2>3. payments[b] = 0 /\ planned[b] = 0
    BY <1>1
  <2>4. Tokens(b) <= Budget(b)
    BY <1>1, <2>1, <2>2, <2>3 DEF Tokens, Budget
  <2> QED
    BY <2>1, <2>2, <2>4 DEF Counted
<1> QED
  BY <1>2, <1>3 DEF TokenInv

LEMMA TokensBound ==
  ASSUME OperatorInv, TokenInv, NEW b \in Bills
  PROVE  payments[b] <= planned[b] + overlaps + faults
<1>1. IsFiniteSet(Holders(b)) /\ IsFiniteSet(LiveOf(b)) /\ IsFiniteSet(OpenRows(b)) /\ Tokens(b) <= Budget(b)
  BY DEF TokenInv, Counted
<1>2. Cardinality(Holders(b)) \in Nat /\ Cardinality(LiveOf(b)) \in Nat /\ Cardinality(OpenRows(b)) \in Nat
  BY <1>1, FS_CardinalityType
<1>3. payments[b] \in Nat /\ Budget(b) \in Nat
  BY Shapes
<1>4. payments[b] <= Budget(b)
  BY <1>1, <1>2, <1>3 DEF Tokens
<1> QED
  BY <1>4 DEF Budget

-----------------------------------------------------------------------------
(***************************************************************************)
(* No event is decided twice: a call that handles an event, from its claim *)
(* to its end, has the claim and is alone with it; it frees the claim only *)
(* if its engine threw, so before anything was decided.                    *)
(***************************************************************************)
InCharge(l) == l.flow = "handle" /\ l.at # "claim"
Undecided(l) == InCharge(l) /\ l.at \in {"decide", "unclaim"}
ClaimsInv ==
  /\ \A e \in Events : acted[e] <= 1 /\ (EventOf(e) \notin claims => acted[e] = 0)
  /\ \A h \in Handlers : InCharge(handlers[h]) => EventOf(handlers[h].event) \in claims
  /\ \A h \in Handlers : Undecided(handlers[h]) => acted[handlers[h].event] = 0
  /\ \A h, g \in Handlers : InCharge(handlers[h]) /\ InCharge(handlers[g]) /\ handlers[h].event = handlers[g].event => h = g

(* A call is no more in charge of an event than it was.                    *)
Follows(m, l) == InCharge(m) => InCharge(l) /\ m.event = l.event /\ (Undecided(m) => Undecided(l))

LEMMA Charged ==
  ASSUME OperatorInv, NEW h \in Handlers, InCharge(handlers[h])
  PROVE  handlers[h] \in CallOf(RowIds) /\ handlers[h].event \in Events /\ ~At(h, "idle") /\ Is(h, "handle")
<1>1. handlers[h] # NoCall
  BY DEF InCharge, NoCall
<1>2. handlers[h] \in CallOf(RowIds)
  BY <1>1, Shapes
<1> QED
  BY <1>2 DEF InCharge, CallOf, At, Is, Place

LEMMA FollowsStep ==
  ASSUME OperatorInv, ClaimsInv, \A g \in Handlers : Follows(handlers'[g], handlers[g]), UNCHANGED acted,
         \A e \in Events : EventOf(e) \in claims => EventOf(e) \in claims'
  PROVE  /\ \A h \in Handlers : InCharge(handlers'[h]) => EventOf(handlers'[h].event) \in claims'
         /\ \A h \in Handlers : Undecided(handlers'[h]) => acted'[handlers'[h].event] = 0
         /\ \A h, g \in Handlers : InCharge(handlers'[h]) /\ InCharge(handlers'[g]) /\ handlers'[h].event = handlers'[g].event => h = g
         /\ ClaimsInv'
<1>1. \A h \in Handlers : InCharge(handlers[h]) => handlers[h].event \in Events
  BY Charged
<1>2. \A h \in Handlers : InCharge(handlers'[h]) => EventOf(handlers'[h].event) \in claims'
  BY <1>1 DEF ClaimsInv, Follows
<1>3. \A h \in Handlers : Undecided(handlers'[h]) => acted'[handlers'[h].event] = 0
  BY DEF ClaimsInv, Follows, Undecided
<1>4. \A h, g \in Handlers : InCharge(handlers'[h]) /\ InCharge(handlers'[g]) /\ handlers'[h].event = handlers'[g].event => h = g
  BY DEF ClaimsInv, Follows
<1>5. \A e \in Events : acted'[e] <= 1 /\ (EventOf(e) \notin claims' => acted'[e] = 0)
  BY DEF ClaimsInv
<1> QED
  BY <1>2, <1>3, <1>4, <1>5 DEF ClaimsInv

(* What a call becomes, but for what Tidy forgets.                         *)
Fields == {"at", "flow", "event", "bill", "open", "left", "said", "row", "vaultId", "fresh", "outcome", "keep",
           "todo", "done", "behind"}
LEMMA TidyKeeps ==
  ASSUME NEW l, DOMAIN l = Fields
  PROVE  Tidy(l).at = l.at /\ Tidy(l).flow = l.flow /\ Tidy(l).event = l.event
BY DEF Tidy, Fields

LEMMA CallFields == ASSUME NEW l \in CallOf(RowIds) PROVE DOMAIN l = Fields
BY DEF CallOf, Fields

(* The same call somewhere else, or an end of it.                          *)
LEMMA MovesFollow ==
  ASSUME OperatorInv, NEW h \in Handlers, NEW l, Become(h, l), l = NoCall \/ DOMAIN l = Fields,
         Follows(l, handlers[h])
  PROVE  \A g \in Handlers : Follows(handlers'[g], handlers[g])
<1>1. \A g \in Handlers : handlers'[g] = IF g = h THEN Tidy(l) ELSE handlers[g]
  BY DEF Become, OperatorInv, ServiceInv, Calls
<1>2. CASE DOMAIN l = Fields
  BY <1>1, <1>2, TidyKeeps DEF Follows, InCharge, Undecided
<1>3. CASE l = NoCall
  <2>1. Tidy(l) = l
    BY <1>3 DEF Tidy, NoCall
  <2> QED
    BY <1>1, <1>3, <2>1 DEF Follows
<1> QED
  BY <1>2, <1>3

LEMMA GoesOn ==
  ASSUME OperatorInv, NEW h \in Handlers, ~At(h, "idle"), ~At(h, "claim"), NEW l, Become(h, l), DOMAIN l = Fields,
         l.flow = handlers[h].flow, l.event = handlers[h].event,
         l.flow = "handle" /\ l.at \in {"decide", "unclaim"} => At(h, "decide")
  PROVE  \A g \in Handlers : Follows(handlers'[g], handlers[g])
<1>1. Follows(l, handlers[h])
  BY DEF Follows, InCharge, Undecided, At
<1> QED
  BY <1>1, MovesFollow

LEMMA Ends == ASSUME OperatorInv, NEW h \in Handlers, Done(h) PROVE \A g \in Handlers : Follows(handlers'[g], handlers[g])
<1>1. Follows(NoCall, handlers[h])
  BY DEF Follows, InCharge, NoCall
<1> QED
  BY <1>1, MovesFollow DEF Done

LEMMA OthersFollow == \A l : Follows(l, l)
  BY DEF Follows

Ordinary(h) ==
  \/ ReadBills(h) \/ EngineThrows(h)
  \/ \E b \in Bills : ProposeUnmatched(h, b) \/ \E place \in Place : ProposePayout(h, b, place)
  \/ \E status \in Results : ProposeAside(h, status)
  \/ Finish(h) \/ OpenRow(h) \/ UpdateBill(h) \/ ReadHead(h) \/ Relink(h)
LEMMA HandleFollows ==
  ASSUME OperatorInv, NEW h \in Handlers, Ordinary(h)
  PROVE  \A g \in Handlers : Follows(handlers'[g], handlers[g])
<1>1. ~At(h, "idle") /\ ~At(h, "claim")
  BY DEF Ordinary, ReadBills, EngineThrows, ProposeUnmatched, ProposePayout, ProposeAside, Proposes, Finish, OpenRow, UpdateBill, ReadHead, Relink, At
<1>2. DOMAIN handlers[h] = Fields
  BY <1>1, UnderWay, CallFields DEF OperatorInv
<1>3. CASE ReadBills(h)
  BY <1>1, <1>2, <1>3, GoesOn DEF ReadBills, At, Fields
<1>4. CASE EngineThrows(h)
  BY <1>1, <1>2, <1>4, GoesOn DEF EngineThrows, Go, Fields
<1>5. CASE \E b \in Bills : ProposeUnmatched(h, b) \/ \E place \in Place : ProposePayout(h, b, place)
  <2>1. PICK b \in Bills, place \in {"pay", "open"} :
          Become(h, [handlers[h] EXCEPT !.at = place, !.bill = b, !.left = @ - 1])
    BY <1>5 DEF ProposeUnmatched, ProposePayout
  <2> QED
    BY <1>1, <1>2, <2>1, GoesOn DEF Fields
<1>6. CASE \E status \in Results : ProposeAside(h, status)
  BY <1>1, <1>2, <1>6, GoesOn DEF ProposeAside, Proposes, At, Fields
<1>7. CASE Finish(h) \/ UpdateBill(h) \/ Relink(h)
  BY <1>1, <1>2, <1>7, GoesOn DEF Finish, UpdateBill, Relink, Go, Fields
<1>8. CASE ReadHead(h)
  BY <1>1, <1>2, <1>8, GoesOn DEF ReadHead, Fields
<1>9. CASE OpenRow(h)
  BY <1>1, <1>2, <1>9, GoesOn DEF OpenRow, Answered, Fields
<1> QED
  BY <1>3, <1>4, <1>5, <1>6, <1>7, <1>8, <1>9 DEF Ordinary

LEMMA PayFollows ==
  ASSUME OperatorInv, NEW h \in Handlers,
         PayBill(h) \/ PayFails(h) \/ \E hash \in BOOLEAN : PayLost(h, hash)
  PROVE  \A g \in Handlers : Follows(handlers'[g], handlers[g])
<1>1. ~At(h, "idle") /\ ~At(h, "claim")
  BY DEF PayBill, PayFails, PayLost, At
<1>2. DOMAIN handlers[h] = Fields
  BY <1>1, UnderWay, CallFields DEF OperatorInv
<1>3. CASE PayBill(h)
  BY <1>1, <1>2, <1>3, GoesOn DEF PayBill, Answered, Fields
<1>4. CASE PayFails(h) \/ \E hash \in BOOLEAN : PayLost(h, hash)
  <2>1. PICK hash : Become(h, Unpaid(h, hash))
    BY <1>4 DEF PayFails, PayLost
  <2> QED
    BY <1>1, <1>2, <2>1, GoesOn DEF Unpaid, Answered, Fields
<1> QED
  BY <1>3, <1>4

(* The owner's calls and those that expire rows are in charge of no event. *)
LEMMA Elsewhere ==
  ASSUME OperatorInv, NEW h \in Handlers, ~At(h, "idle"), ~Is(h, "handle"), NEW l, Become(h, l),
         l = NoCall \/ (DOMAIN l = Fields /\ l.flow = handlers[h].flow)
  PROVE  \A g \in Handlers : Follows(handlers'[g], handlers[g])
<1>1. Follows(l, handlers[h])
  BY DEF Follows, InCharge, Is, NoCall
<1> QED
  BY <1>1, MovesFollow

OwnersPlace == {"check", "vault", "fresh", "row", "save", "find", "close", "stale", "lapse"}
LEMMA OwnersCall ==
  ASSUME OperatorInv, NamesInv, NEW h \in Handlers, handlers[h].at \in OwnersPlace
  PROVE  ~At(h, "idle") /\ ~Is(h, "handle") /\ DOMAIN handlers[h] = Fields
<1>1. ~At(h, "idle")
  BY DEF OwnersPlace, At
<1>2. ~Is(h, "handle")
  BY <1>1 DEF NamesInv, Agrees, AgreesHandle, HandlePlaces, OwnersPlace, Is
<1> QED
  BY <1>1, <1>2, UnderWay, CallFields DEF OperatorInv

Owners(h) ==
  \/ CheckRow(h) \/ VaultCall(h) \/ VaultCallRefused(h) \/ ApproveFresh(h) \/ LoadRow(h) \/ SaveRow(h) \/ FindBill(h)
  \/ CloseBill(h) \/ SaveExpired(h) \/ \E called \in BOOLEAN : ExpireNext(h, called)
  \/ VaultCallFails(h) \/ \E hash \in BOOLEAN : VaultCallLost(h, hash)
LEMMA OwnersFollow ==
  ASSUME OperatorInv, NamesInv, NEW h \in Handlers, Owners(h)
  PROVE  \A g \in Handlers : Follows(handlers'[g], handlers[g])
<1>1. handlers[h].at \in OwnersPlace
  BY DEF Owners, CheckRow, VaultCall, VaultCallRefused, ApproveFresh, LoadRow, SaveRow, FindBill, CloseBill, SaveExpired,
         ExpireNext, VaultCallFails, VaultCallLost, At, OwnersPlace
<1>2. ~At(h, "idle") /\ ~Is(h, "handle") /\ DOMAIN handlers[h] = Fields
  BY <1>1, OwnersCall
<1>3. CASE CheckRow(h) \/ ApproveFresh(h) \/ LoadRow(h) \/ FindBill(h) \/ CloseBill(h)
  BY <1>2, <1>3, Elsewhere DEF CheckRow, ApproveFresh, LoadRow, FindBill, CloseBill, Go, Fields
<1>4. CASE VaultCall(h) \/ VaultCallRefused(h) \/ VaultCallFails(h) \/ \E hash \in BOOLEAN : VaultCallLost(h, hash)
  <2>1. PICK ok, keep : AfterVault(h, ok, keep)
    BY <1>4 DEF VaultCall, VaultCallRefused, VaultCallFails, VaultCallLost
  <2> QED
    BY <1>2, <2>1, Elsewhere DEF AfterVault, Fields
<1>5. CASE SaveRow(h)
  BY <1>2, <1>5, Elsewhere DEF SaveRow, Fields
<1>6. CASE SaveExpired(h)
  BY <1>2, <1>6, Elsewhere DEF SaveExpired, Fields
<1>7. CASE \E called \in BOOLEAN : ExpireNext(h, called)
  BY <1>2, <1>7, Elsewhere DEF ExpireNext, Fields
<1> QED
  BY <1>3, <1>4, <1>5, <1>6, <1>7 DEF Owners

LEMMA ThrowsFollow ==
  ASSUME OperatorInv, NEW h \in Handlers, ResolveThrows(h) \/ RecordThrows(h) \/ Kill(h)
  PROVE  \A g \in Handlers : Follows(handlers'[g], handlers[g])
<1>1. CASE Done(h)
  BY <1>1, Ends
<1>2. CASE (Is(h, "approve") \/ Is(h, "reject")) /\ ~At(h, "idle") /\ Go(h, "unclaim")
  <2>1. ~Is(h, "handle")
    BY <1>2 DEF Is
  <2>2. DOMAIN handlers[h] = Fields
    BY <1>2, UnderWay, CallFields DEF OperatorInv
  <2> QED
    BY <1>2, <2>1, <2>2, Elsewhere DEF Go, Fields
<1> QED
  BY <1>1, <1>2 DEF ResolveThrows, RecordThrows, Kill, At

LEMMA BeginFollows ==
  ASSUME OperatorInv, NEW h \in Handlers, Begin(h)
  PROVE  \A g \in Handlers : Follows(handlers'[g], handlers[g])
<1>1. PICK l : Become(h, l) /\ (l = NoCall \/ (DOMAIN l = Fields /\ (l.at = "claim" \/ l.flow # "handle")))
  <2>1. \A flow, b, place : /\ DOMAIN New(flow, b, place) = Fields
                            /\ New(flow, b, place).at = place /\ New(flow, b, place).flow = flow
    BY DEF New, Fields
  <2>2. CASE \E b \in Bills : Intake(h, b)
    <3>1. PICK b \in Bills : Become(h, NoCall) \/ Become(h, New("handle", b, "claim"))
      BY <2>2 DEF Intake, Done
    <3>2. CASE Become(h, NoCall)
      BY <3>2
    <3>3. CASE Become(h, New("handle", b, "claim"))
      <4>1. DOMAIN New("handle", b, "claim") = Fields /\ New("handle", b, "claim").at = "claim"
        BY <2>1
      <4> QED
        BY <3>3, <4>1
    <3> QED
      BY <3>1, <3>2, <3>3
  <2>3. CASE \E b \in Bills, e \in Events : PickDue(h, e, b)
    BY <2>1, <2>3 DEF PickDue, Fields
  <2>4. CASE \E i \in DOMAIN rows, flow \in {"approve", "reject"} : BeginResolve(h, i, flow)
    <3>1. PICK i \in DOMAIN rows, flow \in {"approve", "reject"} : BeginResolve(h, i, flow)
      BY <2>4
    <3> DEFINE base == New(flow, rows[i].bill, "claim")
               l == [base EXCEPT !.row = i, !.vaultId = rows[i].vaultId]
    <3>2. DOMAIN base = Fields /\ base.at = "claim" /\ Become(h, l)
      BY <2>1, <3>1 DEF BeginResolve
    <3> HIDE DEF base
    <3>3. DOMAIN l = Fields /\ l.at = "claim"
      BY <3>2 DEF Fields
    <3> QED
      BY <3>2, <3>3
  <2>5. CASE ListStale(h)
    <3> DEFINE base == New("expire", rows[One(StaleRows)].bill, "stale")
               l == [base EXCEPT !.todo = StaleRows, !.done = StaleRows]
    <3>2. DOMAIN base = Fields /\ base.flow = "expire" /\ Become(h, l)
      BY <2>1, <2>5 DEF ListStale
    <3> HIDE DEF base
    <3>3. DOMAIN l = Fields /\ l.flow = "expire"
      BY <3>2 DEF Fields
    <3> QED
      BY <3>2, <3>3
  <2> QED
    BY <2>2, <2>3, <2>4, <2>5 DEF Begin
<1>2. Follows(l, handlers[h])
  BY <1>1 DEF Follows, InCharge, NoCall
<1> QED
  BY <1>1, <1>2, MovesFollow

LEMMA OvertakenFollows ==
  ASSUME OperatorInv, NEW g \in Handlers
  PROVE  Follows(Overtaken(g), handlers[g])
<1>1. CASE At(g, "append")
  <2>1. DOMAIN handlers[g] = Fields
    BY <1>1, UnderWay, CallFields DEF OperatorInv, At
  <2> QED
    BY <1>1, <2>1 DEF Overtaken, Follows, InCharge, Undecided, Fields
<1> QED
  BY <1>1 DEF Overtaken, Follows

(* A call that handled an event keeps its claim when it is on record.      *)
LEMMA AppendFollows ==
  ASSUME OperatorInv, NamesInv, NEW h \in Handlers, AppendDecision(h)
  PROVE  \A g \in Handlers : Follows(handlers'[g], handlers[g])
<1>1. At(h, "append") /\ ~At(h, "idle") /\ \A g \in Handlers : handlers'[g] = IF g = h THEN Tidy(Recorded(handlers[h])) ELSE Overtaken(g)
  BY DEF AppendDecision, At
<1>2. DOMAIN handlers[h] = Fields
  BY <1>1, UnderWay, CallFields DEF OperatorInv
<1>3. Is(h, "handle") => handlers[h].keep
  BY <1>1 DEF NamesInv, Agrees, AgreesHandle, Is
<1>4. Follows(Tidy(Recorded(handlers[h])), handlers[h])
  <2>1. CASE Recorded(handlers[h]) = NoCall
    BY <2>1 DEF Follows, InCharge, NoCall, Tidy
  <2>2. CASE Recorded(handlers[h]) # NoCall
    <3>1. DOMAIN Recorded(handlers[h]) = Fields /\ Recorded(handlers[h]).flow = handlers[h].flow
      BY <1>2, <2>2 DEF Recorded, Fields
    <3>2. ~Is(h, "handle")
      BY <1>3, <2>2 DEF Recorded, Is
    <3> QED
      BY <3>1, <3>2, TidyKeeps DEF Follows, InCharge, Is
  <2> QED
    BY <2>1, <2>2
<1> QED
  BY <1>1, <1>4, OvertakenFollows

LEMMA TakesEvent ==
  ASSUME OperatorInv, ClaimsInv, NEW h \in Handlers, TakeClaim(h)
  PROVE  ClaimsInv'
<1> DEFINE k == handlers[h]
           l == [k EXCEPT !.at = IF Is(h, "handle") THEN "decide" ELSE "check"]
<1>1. UNCHANGED acted /\ At(h, "claim") /\ ~At(h, "idle")
  BY DEF TakeClaim, At, history
<1>2. k \in CallOf(RowIds) /\ DOMAIN k = Fields /\ k.event \in Events /\ ~InCharge(k)
  BY <1>1, UnderWay, CallFields DEF OperatorInv, InCharge, At
<1>3. CASE Done(h) /\ UNCHANGED claims
  BY <1>1, <1>3, Ends, FollowsStep
<1>4. CASE ~Is(h, "handle") /\ claims' = claims \cup {KeyOf(h)} /\ Become(h, l)
  <2>1. DOMAIN l = Fields /\ l.flow = k.flow
    BY <1>2 DEF Fields
  <2>2. Follows(l, k)
    BY <1>4, <2>1 DEF Follows, InCharge, Is
  <2> QED
    BY <1>1, <1>4, <2>1, <2>2, MovesFollow, FollowsStep
<1>5. CASE Is(h, "handle") /\ EventOf(k.event) \notin claims /\ claims' = claims \cup {EventOf(k.event)} /\ Become(h, l)
  <2>1. DOMAIN l = Fields /\ l.flow = "handle" /\ l.at = "decide" /\ l.event = k.event
    BY <1>2, <1>5 DEF Fields, Is
  <2>2. /\ handlers'[h].flow = "handle" /\ handlers'[h].at = "decide" /\ handlers'[h].event = k.event
        /\ \A g \in Handlers \ {h} : handlers'[g] = handlers[g]
    <3>1. handlers'[h] = Tidy(l) /\ \A g \in Handlers \ {h} : handlers'[g] = handlers[g]
      BY <1>5 DEF Become, OperatorInv, ServiceInv, Calls
    <3> HIDE DEF l
    <3> QED
      BY <2>1, <3>1, TidyKeeps
  <2>3. \A g \in Handlers \ {h} : InCharge(handlers[g]) => handlers[g].event # k.event
    BY <1>5 DEF ClaimsInv
  <2>4. \A e \in Events : acted'[e] <= 1 /\ (EventOf(e) \notin claims' => acted'[e] = 0)
    BY <1>1, <1>5 DEF ClaimsInv
  <2>5. \A g \in Handlers : InCharge(handlers'[g]) => EventOf(handlers'[g].event) \in claims'
    BY <1>5, <2>2 DEF ClaimsInv
  <2>6. \A g \in Handlers : Undecided(handlers'[g]) => acted'[handlers'[g].event] = 0
    BY <1>1, <1>2, <1>5, <2>2 DEF ClaimsInv, Undecided
  <2>7. \A g, i \in Handlers : InCharge(handlers'[g]) /\ InCharge(handlers'[i]) /\ handlers'[g].event = handlers'[i].event => g = i
    BY <2>2, <2>3 DEF ClaimsInv
  <2> QED
    BY <2>4, <2>5, <2>6, <2>7 DEF ClaimsInv
<1> QED
  BY <1>3, <1>4, <1>5 DEF TakeClaim, KeyOf, Go, Is

LEMMA FreesEvent ==
  ASSUME OperatorInv, ClaimsInv, NEW h \in Handlers, Unclaim(h)
  PROVE  ClaimsInv'
<1> DEFINE k == handlers[h]
<1>1. UNCHANGED acted /\ At(h, "unclaim") /\ ~At(h, "idle") /\ Done(h) /\ claims' = claims \ {KeyOf(h)}
  BY DEF Unclaim, At, history
<1>2. CASE ~Is(h, "handle")
  <2>1. \A e \in Events : EventOf(e) \in claims => EventOf(e) \in claims'
    BY <1>1, <1>2, KeysApart DEF KeyOf
  <2> QED
    BY <1>1, <2>1, Ends, FollowsStep
<1>3. CASE Is(h, "handle")
  <2>1. /\ k.event \in Events /\ InCharge(k) /\ Undecided(k) /\ claims' = claims \ {EventOf(k.event)}
    BY <1>1, <1>3, UnderWay DEF OperatorInv, InCharge, Undecided, Is, At, KeyOf
  <2>2. ~InCharge(handlers'[h]) /\ \A g \in Handlers \ {h} : handlers'[g] = handlers[g]
    BY <1>1 DEF Done, Become, Tidy, NoCall, InCharge, OperatorInv, ServiceInv, Calls
  <2>3. acted[k.event] = 0
    BY <2>1 DEF ClaimsInv
  <2>4. \A e \in Events : acted'[e] <= 1 /\ (EventOf(e) \notin claims' => acted'[e] = 0)
    BY <1>1, <2>1, <2>3 DEF ClaimsInv, EventOf
  <2>5. \A g \in Handlers \ {h} : InCharge(handlers[g]) => handlers[g].event # k.event
    BY <2>1 DEF ClaimsInv
  <2>6. \A g \in Handlers : InCharge(handlers'[g]) => EventOf(handlers'[g].event) \in claims'
    BY <2>1, <2>2, <2>5, KeysApart DEF ClaimsInv
  <2>7. \A g \in Handlers : Undecided(handlers'[g]) => acted'[handlers'[g].event] = 0
    BY <1>1, <2>2 DEF ClaimsInv, Undecided
  <2>8. \A g, i \in Handlers : InCharge(handlers'[g]) /\ InCharge(handlers'[i]) /\ handlers'[g].event = handlers'[i].event => g = i
    BY <2>2 DEF ClaimsInv
  <2> QED
    BY <2>4, <2>6, <2>7, <2>8 DEF ClaimsInv
<1> QED
  BY <1>2, <1>3

LEMMA DecidesOnce ==
  ASSUME OperatorInv, NamesInv, ClaimsInv, NEW h \in Handlers, Decide(h)
  PROVE  ClaimsInv'
<1> DEFINE k == handlers[h]
           l == [k EXCEPT !.at = "act", !.left = MaxProposals]
<1>1. At(h, "decide") /\ ~At(h, "idle") /\ UNCHANGED claims /\ Become(h, l) /\ acted' = [acted EXCEPT ![k.event] = @ + 1]
  BY DEF Decide, At
<1>2. k.event \in Events /\ DOMAIN k = Fields
  BY <1>1, UnderWay, CallFields DEF OperatorInv
<1>3. k.flow = "handle"
  BY <1>1, UnderWay DEF OperatorInv, NamesInv, Agrees, AgreesResolve, ExpirePlaces, Resolves, At, CallOf
<1>4. InCharge(k) /\ Undecided(k) /\ acted[k.event] = 0 /\ EventOf(k.event) \in claims
  BY <1>1, <1>3 DEF InCharge, Undecided, At, ClaimsInv
<1>5. DOMAIN l = Fields /\ l.flow = "handle" /\ l.at = "act" /\ l.event = k.event
  BY <1>2, <1>3 DEF Fields
<1>6. /\ handlers'[h].flow = "handle" /\ handlers'[h].at = "act" /\ handlers'[h].event = k.event
      /\ \A g \in Handlers \ {h} : handlers'[g] = handlers[g]
  BY <1>1, <1>5, TidyKeeps DEF Become, OperatorInv, ServiceInv, Calls
<1>7. acted \in [Events -> Nat]
  BY DEF OperatorInv, ServiceInv, Told
<1>8. acted'[k.event] = 1 /\ \A e \in Events : e # k.event => acted'[e] = acted[e]
  BY <1>1, <1>2, <1>4, <1>7
<1>9. \A e \in Events : acted'[e] <= 1 /\ (EventOf(e) \notin claims' => acted'[e] = 0)
  BY <1>1, <1>4, <1>8 DEF ClaimsInv
<1>10. \A g \in Handlers \ {h} : InCharge(handlers[g]) => handlers[g].event \in Events /\ handlers[g].event # k.event
  BY <1>4, Charged DEF ClaimsInv
<1>11. \A g \in Handlers : InCharge(handlers'[g]) => EventOf(handlers'[g].event) \in claims'
  BY <1>1, <1>4, <1>6 DEF ClaimsInv
<1>12. \A g \in Handlers : Undecided(handlers'[g]) => acted'[handlers'[g].event] = 0
  BY <1>6, <1>8, <1>10 DEF ClaimsInv, Undecided
<1>13. \A g, i \in Handlers : InCharge(handlers'[g]) /\ InCharge(handlers'[i]) /\ handlers'[g].event = handlers'[i].event => g = i
  BY <1>4, <1>6 DEF ClaimsInv
<1> QED
  BY <1>9, <1>11, <1>12, <1>13 DEF ClaimsInv

LEMMA ClaimsStep ==
  ASSUME OperatorInv, NamesInv, ClaimsInv, [OperatorStep]_operatorVars
  PROVE  ClaimsInv'
<1>1. ASSUME NEW h \in Handlers, Ordinary(h) \/ PayBill(h) \/ PayFails(h) \/ (\E hash \in BOOLEAN : PayLost(h, hash)) \/ Owners(h)
                                  \/ ResolveThrows(h) \/ RecordThrows(h) \/ Kill(h) \/ Begin(h) \/ AppendDecision(h)
      PROVE  ClaimsInv'
  <2>1. UNCHANGED <<acted, claims>>
    BY <1>1 DEF Ordinary, ReadBills, EngineThrows, ProposeUnmatched, ProposePayout, ProposeAside, Finish, OpenRow, UpdateBill,
       ReadHead, Relink, PayBill, PayFails, PayLost, Owners, CheckRow, VaultCall, VaultCallRefused, ApproveFresh, LoadRow,
       SaveRow, FindBill, CloseBill, SaveExpired, ExpireNext, VaultCallFails, VaultCallLost, ResolveThrows, RecordThrows,
       Kill, Begin, Intake, PickDue, BeginResolve, ListStale, AppendDecision, history
  <2>2. \A g \in Handlers : Follows(handlers'[g], handlers[g])
    BY <1>1, HandleFollows, PayFollows, OwnersFollow, ThrowsFollow, BeginFollows, AppendFollows
  <2> QED
    BY <2>1, <2>2, FollowsStep
<1>2. CASE Fund
  <2>1. UNCHANGED <<acted, claims>> /\ \A g \in Handlers : handlers'[g] = Overtaken(g)
    BY <1>2 DEF Fund, history
  <2> QED
    BY <2>1, OvertakenFollows, FollowsStep
<1>3. CASE UNCHANGED serviceVars
  <2>1. UNCHANGED <<acted, claims, handlers>>
    BY <1>3 DEF serviceVars, history
  <2> QED
    BY <2>1, FollowsStep, OthersFollow
<1>4. ASSUME NEW h \in Handlers, Continue(h) PROVE ClaimsInv'
  BY <1>1, <1>4, TakesEvent, FreesEvent, DecidesOnce DEF Continue, Ordinary, Owners
<1> QED
  BY <1>1, <1>2, <1>3, <1>4 DEF OperatorStep, World, OwnerAdmin, operatorVars, Owners

LEMMA ClaimsAtFirst == ServiceInit => ClaimsInv
BY DEF ServiceInit, ClaimsInv, InCharge, Undecided, NoCall

LEMMA OnceBound == OperatorInv /\ TokenInv /\ ClaimsInv => BillPaidOnce
BY TokensBound DEF BillPaidOnce, ClaimsInv

(* No event is decided twice, and a bill is paid no more often than        *)
(* payouts of it were decided on, and once more for each fault and for     *)
(* each request on a row under an approval that opened it: for any number  *)
(* of bills, events, proposals, calls and escalations.                     *)
THEOREM BillsPaidOnce == OperatorSpec => []BillPaidOnce
<1>1. OperatorInit => OperatorInv /\ TokenInv /\ ClaimsInv
  BY OperatorInitInv, TokensAtFirst, ClaimsAtFirst DEF OperatorInit, VaultInit
<1>2. /\ OperatorInv /\ TokenInv /\ ClaimsInv /\ [OperatorStep]_operatorVars
      => OperatorInv' /\ TokenInv' /\ ClaimsInv'
  BY OperatorStepInv, TokensStep, ClaimsStep DEF TokenInv
<1>3. OperatorInv /\ TokenInv /\ ClaimsInv => BillPaidOnce
  BY OnceBound
<1> QED
  BY <1>1, <1>2, <1>3, PTL DEF OperatorSpec
=============================================================================
