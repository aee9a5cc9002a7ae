---------------------------- MODULE OperatorVault ----------------------------
(***************************************************************************)
(* OperatorVault.sol: the guard rails on Arc around the autonomous         *)
(* operator.  The vault splits the USDC it holds into four buckets; the    *)
(* operator allocates, pays and moves yield inside the owner's caps, and a *)
(* payment above escalateAbove is reserved until the owner approves or     *)
(* rejects it or its time runs out.                                        *)
(*                                                                         *)
(* A transaction is one action: its guard is every check that would        *)
(* revert.  An escalation's id is its place in the sequence.  Of           *)
(* spentOnDay only the entry of the current day is kept, which is the only *)
(* one the code reads.  Checked arithmetic that would underflow reverts;   *)
(* uint256 does not overflow on any supply of USDC.                        *)
(***************************************************************************)
EXTENDS BlockTime, Sequences

CONSTANTS
  Accounts,         \* who may sign
  Self,             \* the vault's own address
  Payees,           \* addresses that may be paid
  Adapters,         \* yield adapters
  NoAdapter,        \* address(0)
  Decisions,        \* decision hashes
  Amounts,          \* amounts used in calls
  CapChoices,       \* caps the owner may set
  Day,              \* one day, in ticks of the clock
  EscalationTTL,    \* ESCALATION_TTL, in ticks of the clock
  MaxIn,            \* bound: USDC that ever flows in
  MaxEscalations    \* bound: escalations

Buckets == {"OPERATING", "TAX", "YIELD", "REFUND"}
Splits == [Buckets -> Amounts \cup {0}]
Caps == [perTx : Nat, daily : Nat, escalateAbove : Nat]

ValidCaps(c) == c.perTx > 0 /\ c.daily >= c.perTx /\ c.escalateAbove <= c.perTx

ASSUME VaultAmountsAssumption == Amounts \subseteq Nat \ {0}
ASSUME VaultCapsAssumption == CapChoices \subseteq {c \in Caps : ValidCaps(c)}
ASSUME VaultTimesAssumption == Day \in Nat \ {0} /\ EscalationTTL \in Nat
ASSUME VaultNamesAssumption == NoAdapter \notin Adapters
ASSUME VaultBoundsAssumption == MaxIn \in Nat /\ MaxEscalations \in Nat

VARIABLES
  held,             \* token.balanceOf(vault)
  buckets, pendingReserved, yieldDeployed,
  escalations,      \* _pending
  spentToday,       \* spentOnDay[currentDay()]
  caps, allowlisted, paused, yieldAdapter, owner, operator,
  received,         \* history: USDC that flowed in
  placed,           \* what each adapter holds for the vault
  operatorToday,    \* history: what the operator paid on its own today
  capToday          \* history: the largest daily cap in force today

funds == <<held, buckets, pendingReserved, yieldDeployed, placed>>
rules == <<caps, allowlisted, paused, yieldAdapter, owner, operator>>
today == <<spentToday, operatorToday, capToday>>
vaultVars == <<now, funds, escalations, rules, today, received>>

Escalation == [decision : Decisions, bucket : Buckets, to : Payees, amount : Nat,
               createdAt : Nat, status : {"Pending", "Approved", "Rejected", "Expired"}]

VaultTypeOK ==
  /\ now \in Nat /\ held \in Nat /\ pendingReserved \in Nat /\ yieldDeployed \in Nat
  /\ buckets \in [Buckets -> Nat]
  /\ escalations \in Seq(Escalation)
  /\ spentToday \in Nat /\ operatorToday \in Nat /\ capToday \in Nat
  /\ caps \in Caps /\ allowlisted \subseteq Payees /\ paused \in BOOLEAN
  /\ yieldAdapter \in Adapters \cup {NoAdapter}
  /\ owner \in Accounts /\ operator \in Accounts
  /\ received \in Nat /\ placed \in [Adapters -> Nat]

SplitSum(a) == a["OPERATING"] + a["TAX"] + a["YIELD"] + a["REFUND"]
Accounted == SplitSum(buckets) + pendingReserved

(* Mutant: what is reserved for escalations is allocated again. *)
UnallocatedIgnoringReserved == IF held > SplitSum(buckets) THEN held - SplitSum(buckets) ELSE 0

Unallocated == IF held > Accounted THEN held - Accounted ELSE 0
DayOf(t) == t \div Day
TooOld(e) == now > e.createdAt + EscalationTTL
PendingIds == {i \in DOMAIN escalations : escalations[i].status = "Pending"}

VaultInit ==
  /\ ClockInit
  /\ held = 0 /\ pendingReserved = 0 /\ yieldDeployed = 0 /\ received = 0
  /\ buckets = [b \in Buckets |-> 0]
  /\ placed = [a \in Adapters |-> 0]
  /\ escalations = <<>>
  /\ caps \in CapChoices
  /\ spentToday = 0 /\ operatorToday = 0 /\ capToday = caps.daily
  /\ allowlisted = {} /\ paused = FALSE /\ yieldAdapter = NoAdapter
  /\ owner \in Accounts /\ operator \in Accounts

-----------------------------------------------------------------------------
(* SafeTransfer reverts unless the token has the balance. *)
Transfer(to, amount) ==
  /\ amount <= held
  /\ held' = IF to = Self THEN held ELSE held - amount

Take(b, amount) == buckets' = [buckets EXCEPT ![b] = @ - amount]
Put(b, amount) == buckets' = [buckets EXCEPT ![b] = @ + amount]

AsOperator(s) == s = operator /\ ~paused

Allocate(s, amounts) ==
  /\ AsOperator(s)
  /\ SplitSum(amounts) > 0 /\ SplitSum(amounts) <= Unallocated
  /\ buckets' = [b \in Buckets |-> buckets[b] + amounts[b]]
  /\ UNCHANGED <<now, held, pendingReserved, yieldDeployed, placed, escalations, rules, today, received>>

(* Mutant: a payment is not checked against its bucket. *)
PayChecksUnbacked(s, b, to, amount) ==
  /\ AsOperator(s)
  /\ b # "TAX" /\ amount > 0
  /\ to \in allowlisted
  /\ amount <= caps.perTx

(* The checks of pay, in their order. *)
PayChecks(s, b, to, amount) ==
  /\ AsOperator(s)
  /\ b # "TAX" /\ amount > 0
  /\ to \in allowlisted
  /\ amount <= caps.perTx /\ amount <= buckets[b]

(* Mutant: the daily cap is compared with what was spent before. *)
PayNowCappedLate(s, b, to, amount) ==
  /\ PayChecks(s, b, to, amount)
  /\ amount <= caps.escalateAbove
  /\ spentToday <= caps.daily
  /\ Take(b, amount)
  /\ spentToday' = spentToday + amount
  /\ operatorToday' = operatorToday + amount
  /\ Transfer(to, amount)
  /\ UNCHANGED <<now, pendingReserved, yieldDeployed, placed, escalations, rules, capToday, received>>

PayNow(s, b, to, amount) ==
  /\ PayChecks(s, b, to, amount)
  /\ amount <= caps.escalateAbove
  /\ spentToday + amount <= caps.daily
  /\ Take(b, amount)
  /\ spentToday' = spentToday + amount
  /\ operatorToday' = operatorToday + amount
  /\ Transfer(to, amount)
  /\ UNCHANGED <<now, pendingReserved, yieldDeployed, placed, escalations, rules, capToday, received>>

Escalate(s, h, b, to, amount) ==
  /\ PayChecks(s, b, to, amount)
  /\ amount > caps.escalateAbove
  /\ Take(b, amount)
  /\ pendingReserved' = pendingReserved + amount
  /\ escalations' = Append(escalations,
       [decision |-> h, bucket |-> b, to |-> to, amount |-> amount, createdAt |-> now, status |-> "Pending"])
  /\ UNCHANGED <<now, held, yieldDeployed, placed, rules, today, received>>

SweepToYield(s, amount) ==
  /\ AsOperator(s) /\ yieldAdapter # NoAdapter
  /\ amount > 0 /\ amount <= buckets["YIELD"]
  /\ Take("YIELD", amount)
  /\ yieldDeployed' = yieldDeployed + amount
  /\ Transfer(yieldAdapter, amount)
  /\ placed' = [placed EXCEPT ![yieldAdapter] = @ + amount]
  /\ UNCHANGED <<now, pendingReserved, escalations, rules, today, received>>

(* The adapter sends back what it can: the vault books what arrived. *)
RedeemFromYield(s, amount, sent) ==
  /\ AsOperator(s) /\ yieldAdapter # NoAdapter
  /\ amount > 0 /\ amount <= yieldDeployed
  /\ sent <= amount /\ sent <= placed[yieldAdapter]
  /\ yieldDeployed' = yieldDeployed - amount
  /\ placed' = [placed EXCEPT ![yieldAdapter] = @ - sent]
  /\ held' = held + sent
  /\ Put("YIELD", sent)
  /\ UNCHANGED <<now, pendingReserved, escalations, rules, today, received>>

-----------------------------------------------------------------------------
Resolve(i, status) == escalations' = [escalations EXCEPT ![i].status = status]

Approve(s, i) ==
  /\ s = owner /\ ~paused
  /\ i \in PendingIds /\ ~TooOld(escalations[i])
  /\ escalations[i].to \in allowlisted
  /\ escalations[i].amount <= pendingReserved
  /\ Resolve(i, "Approved")
  /\ pendingReserved' = pendingReserved - escalations[i].amount
  /\ spentToday' = spentToday + escalations[i].amount
  /\ Transfer(escalations[i].to, escalations[i].amount)
  /\ UNCHANGED <<now, buckets, yieldDeployed, placed, rules, operatorToday, capToday, received>>

Release(i, status) ==
  /\ i \in PendingIds
  /\ escalations[i].amount <= pendingReserved
  /\ Resolve(i, status)
  /\ pendingReserved' = pendingReserved - escalations[i].amount
  /\ Put(escalations[i].bucket, escalations[i].amount)
  /\ UNCHANGED <<now, held, yieldDeployed, placed, rules, today, received>>

Reject(s, i) == s = owner /\ Release(i, "Rejected")
Expire(i) == i \in PendingIds /\ TooOld(escalations[i]) /\ Release(i, "Expired")

-----------------------------------------------------------------------------
OwnerWithdraw(s, b, to, amount) ==
  /\ s = owner /\ amount > 0 /\ amount <= buckets[b]
  /\ Take(b, amount)
  /\ Transfer(to, amount)
  /\ UNCHANGED <<now, pendingReserved, yieldDeployed, placed, escalations, rules, today, received>>

SetCaps(s, c) ==
  /\ s = owner /\ ValidCaps(c)
  /\ caps' = c
  /\ capToday' = IF c.daily > capToday THEN c.daily ELSE capToday
  /\ UNCHANGED <<now, funds, escalations, allowlisted, paused, yieldAdapter, owner, operator, spentToday, operatorToday, received>>

SetAllowlist(s, to, allowed) ==
  /\ s = owner
  /\ allowlisted' = IF allowed THEN allowlisted \cup {to} ELSE allowlisted \ {to}
  /\ UNCHANGED <<now, funds, escalations, caps, paused, yieldAdapter, owner, operator, today, received>>

SetOperator(s, a) ==
  /\ s = owner /\ operator' = a
  /\ UNCHANGED <<now, funds, escalations, caps, allowlisted, paused, yieldAdapter, owner, today, received>>

TransferOwnership(s, a) ==
  /\ s = owner /\ owner' = a
  /\ UNCHANGED <<now, funds, escalations, caps, allowlisted, paused, yieldAdapter, operator, today, received>>

(* Clearing the adapter needs nothing deployed; replacing it does not. *)
SetYieldAdapter(s, a) ==
  /\ s = owner
  /\ ~(a = NoAdapter /\ yieldDeployed # 0)
  /\ yieldAdapter' = a
  /\ UNCHANGED <<now, funds, escalations, caps, allowlisted, paused, owner, operator, today, received>>

SetPaused(s, p) ==
  /\ s = owner /\ paused' = p
  /\ UNCHANGED <<now, funds, escalations, caps, allowlisted, yieldAdapter, owner, operator, today, received>>

(* Anyone may send USDC to the vault. *)
Inflow(amount) ==
  /\ received + amount <= MaxIn
  /\ held' = held + amount /\ received' = received + amount
  /\ UNCHANGED <<now, buckets, pendingReserved, yieldDeployed, placed, escalations, rules, today>>

VaultTick ==
  /\ Tick
  /\ IF DayOf(now') = DayOf(now) THEN UNCHANGED today
     ELSE spentToday' = 0 /\ operatorToday' = 0 /\ capToday' = caps.daily
  /\ UNCHANGED <<funds, escalations, rules, received>>

-----------------------------------------------------------------------------
OperatorNext ==
  \E s \in Accounts, amount \in Amounts :
    \/ \E b \in Buckets, to \in Payees :
         \/ PayNow(s, b, to, amount)
         \/ \E h \in Decisions : Len(escalations) < MaxEscalations /\ Escalate(s, h, b, to, amount)
    \/ SweepToYield(s, amount)
    \/ \E sent \in 0..amount : RedeemFromYield(s, amount, sent)

OwnerNext ==
  \E s \in Accounts :
    \/ \E i \in PendingIds : Approve(s, i) \/ Reject(s, i)
    \/ \E b \in Buckets, to \in Payees, amount \in Amounts : OwnerWithdraw(s, b, to, amount)
    \/ \E c \in CapChoices : SetCaps(s, c)
    \/ \E to \in Payees, allowed \in BOOLEAN : SetAllowlist(s, to, allowed)
    \/ \E a \in Accounts : SetOperator(s, a) \/ TransferOwnership(s, a)
    \/ \E a \in Adapters \cup {NoAdapter} : SetYieldAdapter(s, a)
    \/ \E p \in BOOLEAN : SetPaused(s, p)

VaultNext ==
  \/ \E s \in Accounts, amounts \in Splits : Allocate(s, amounts)
  \/ OperatorNext
  \/ OwnerNext
  \/ \E i \in PendingIds : Expire(i)
  \/ \E amount \in Amounts : Inflow(amount)
  \/ VaultTick

VaultSpec == VaultInit /\ [][VaultNext]_vaultVars

-----------------------------------------------------------------------------
(* The buckets and the reservations are backed by USDC the vault holds, so *)
(* neither a payment, an approval nor a withdrawal can be refused by the   *)
(* token: SafeTransfer after the effects of pay, approve, sweepToYield.    *)
VaultSolvent == held >= Accounted

(* What the operator pays without the owner on one UTC day never exceeds   *)
(* the largest daily cap the owner had in force on that day: pay against   *)
(* spentOnDay, with caps changed, approvals and days turning in between.   *)
OperatorWithinCap == operatorToday <= capToday

(* A payment above the threshold that was resolved stays resolved: no      *)
(* order of approve, reject and expire moves its amount twice.             *)
EscalationsFinal ==
  [][\A i \in DOMAIN escalations \ PendingIds :
       i \in DOMAIN escalations' /\ escalations'[i] = escalations[i]]_vaultVars
=============================================================================
