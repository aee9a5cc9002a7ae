---------------------------- MODULE RoyaltySweep ----------------------------
(***************************************************************************)
(* The Lepton payouts: sweepPendingRoyalties pays a wallet all its pending *)
(* royalty legs in one transfer, the stream refund job pays back what a    *)
(* stopped stream did not use, and ArcSettlementProvider makes each        *)
(* transfer under withIdempotency.                                         *)
(*                                                                         *)
(* The royalties are those of one wallet and network: wallets share        *)
(* neither legs nor references.  A reference is the set of legs it pays,   *)
(* which for a refund is the stream alone.  A transfer is broadcast and    *)
(* then waited for, so it may happen and still be reported as failed.  A   *)
(* receipt is final when it is settled, submitted or failed: nobody who    *)
(* finds one asks which.                                                   *)
(* Sweeps of one process may overlap: the worker never runs a job twice at *)
(* once, but a sidecar answers every POST /admin/sweep with a sweep.       *)
(***************************************************************************)
EXTENDS Naturals, FiniteSets

CONSTANTS
  Royalties,        \* royalty legs
  Refunds,          \* stopped streams with something to refund
  Sweepers,         \* sweeps that may run at once
  MaxSweepFaults    \* bound: answers lost, saves failed, crashes

ASSUME SweepBoundAssumption == MaxSweepFaults \in Nat
ASSUME SweepLegsAssumption == Royalties \cap Refunds = {}

Legs == Royalties \cup Refunds
References == {r \in SUBSET Legs : r # {} /\ (r \subseteq Royalties \/ \E l \in Refunds : r = {l})}

VARIABLES
  durable,          \* the deployment keeps the receipts in Postgres, else in memory
  legs,             \* status of each leg, of each stream
  receipts,         \* the idempotency store
  sweeps,           \* the sweeps in progress
  sent,             \* history: transfers made under each reference
  paid,             \* history: transfers made that included each leg
  unpaid,           \* history: references answered for good with no transfer made
  overlapped,       \* history: two sweeps of the royalties were in progress at once
  sweepFaults       \* history: faults so far

chainFacts == <<sent, paid, unpaid>>
sweepVars == <<durable, legs, receipts, sweeps, chainFacts, overlapped, sweepFaults>>

Asleep == [at |-> "idle"]
Sweep == {Asleep}
         \cup [at : {"get", "reserve", "recheck", "send", "put", "release"}, ref : References]
         \cup [at : {"mark"}, ref : References, todo : SUBSET Legs]

SweepStateOK ==
  /\ durable \in BOOLEAN
  /\ legs \in [Legs -> {"none", "pending", "settled"}]
  /\ receipts \in [References -> {"none", "pending", "final"}]
  /\ sweeps \in [Sweepers -> Sweep]
  /\ sent \in [References -> Nat]
  /\ unpaid \subseteq References
  /\ overlapped \in BOOLEAN /\ sweepFaults \in Nat
SweepTypeOK == SweepStateOK /\ paid \in [Legs -> Nat]

SweepInit ==
  /\ durable \in BOOLEAN
  /\ legs = [l \in Legs |-> "none"]
  /\ receipts = [r \in References |-> "none"]
  /\ sweeps = [s \in Sweepers |-> Asleep]
  /\ sent = [r \in References |-> 0] /\ paid = [l \in Legs |-> 0]
  /\ unpaid = {}
  /\ overlapped = FALSE /\ sweepFaults = 0

InSweep(s, place) == sweeps[s].at = place
Goes(s, sweep) == sweeps' = [sweeps EXCEPT ![s] = sweep]
Step(place, ref) == [at |-> place, ref |-> ref]
Marking(ref) == [at |-> "mark", ref |-> ref, todo |-> ref]
Faulty == sweepFaults < MaxSweepFaults /\ sweepFaults' = sweepFaults + 1

-----------------------------------------------------------------------------
(* A paid access appends a leg; a stream stops with something left. *)
Owe(l) ==
  /\ legs[l] = "none"
  /\ legs' = [legs EXCEPT ![l] = "pending"]
  /\ UNCHANGED <<receipts, sweeps, chainFacts, overlapped, sweepFaults>>

Pending(of) == {l \in of : legs[l] = "pending"}
OnRoyalties(s) == ~InSweep(s, "idle") /\ sweeps[s].ref \subseteq Royalties

(* listPending: every leg of the wallet in one group. *)
ListRoyalties(s) ==
  /\ InSweep(s, "idle") /\ Pending(Royalties) # {}
  /\ Goes(s, Step("get", Pending(Royalties)))
  /\ overlapped' = (overlapped \/ \E t \in Sweepers : OnRoyalties(t))
  /\ UNCHANGED <<legs, receipts, chainFacts, sweepFaults>>

ListRefund(s, l) ==
  /\ InSweep(s, "idle") /\ l \in Pending(Refunds)
  /\ Goes(s, Step("get", {l}))
  /\ UNCHANGED <<legs, receipts, chainFacts, overlapped, sweepFaults>>

-----------------------------------------------------------------------------
(* withIdempotency: each await is a step. *)
Get(s) ==
  /\ InSweep(s, "get")
  /\ LET ref == sweeps[s].ref
     IN Goes(s, CASE receipts[ref] = "final" -> Marking(ref)
                [] receipts[ref] = "none" -> Step("reserve", ref)
                [] receipts[ref] = "pending" -> Step("recheck", ref))
  /\ UNCHANGED <<legs, receipts, chainFacts, overlapped, sweepFaults>>

(* Mutant: the claim is taken from whoever holds it. *)
ReserveAnyway(s) ==
  /\ InSweep(s, "reserve")
  /\ receipts' = [receipts EXCEPT ![sweeps[s].ref] = "pending"]
  /\ Goes(s, Step("send", sweeps[s].ref))
  /\ UNCHANGED <<legs, chainFacts, overlapped, sweepFaults>>

ReserveClaim(s) ==
  /\ InSweep(s, "reserve")
  /\ LET ref == sweeps[s].ref
     IN IF receipts[ref] = "none"
        THEN receipts' = [receipts EXCEPT ![ref] = "pending"] /\ Goes(s, Step("send", ref))
        ELSE Goes(s, Step("recheck", ref)) /\ UNCHANGED receipts
  /\ UNCHANGED <<legs, chainFacts, overlapped, sweepFaults>>

(* Mutant: a claim under way counts as a receipt. *)
RecheckHopefully(s) ==
  /\ InSweep(s, "recheck")
  /\ Goes(s, IF receipts[sweeps[s].ref] # "none" THEN Marking(sweeps[s].ref) ELSE Asleep)
  /\ UNCHANGED <<legs, receipts, chainFacts, overlapped, sweepFaults>>

(* Someone else has the claim: use the receipt, or give up for this time. *)
Recheck(s) ==
  /\ InSweep(s, "recheck")
  /\ Goes(s, IF receipts[sweeps[s].ref] = "final" THEN Marking(sweeps[s].ref) ELSE Asleep)
  /\ UNCHANGED <<legs, receipts, chainFacts, overlapped, sweepFaults>>

(* The transfer is made.  The receipt says settled, submitted if it is not *)
(* mined yet, or failed if the SDK's state is one the client does not know. *)
SendPays(s) ==
  /\ InSweep(s, "send")
  /\ sent' = [sent EXCEPT ![sweeps[s].ref] = @ + 1]
  /\ paid' = [l \in Legs |-> IF l \in sweeps[s].ref THEN paid[l] + 1 ELSE paid[l]]
  /\ Goes(s, Step("put", sweeps[s].ref))
  /\ UNCHANGED <<legs, receipts, unpaid, overlapped, sweepFaults>>

(* No transfer is made, and the answer is a receipt all the same: failed,  *)
(* for a request the client refuses, a transfer that was mined and         *)
(* reverted or an unknown state, or submitted, for one that is never mined. *)
SendPaysNothing(s) ==
  /\ InSweep(s, "send")
  /\ unpaid' = unpaid \cup {sweeps[s].ref}
  /\ Goes(s, Step("put", sweeps[s].ref))
  /\ UNCHANGED <<legs, receipts, sent, paid, overlapped, sweepFaults>>

(* Any exception of the SDK is retryable, a timeout after the broadcast too. *)
SendThrows(s) ==
  /\ InSweep(s, "send")
  /\ Goes(s, Step("release", sweeps[s].ref))
  /\ UNCHANGED <<legs, receipts, chainFacts, overlapped, sweepFaults>>

SendLost(s) ==
  /\ InSweep(s, "send") /\ Faulty
  /\ sent' = [sent EXCEPT ![sweeps[s].ref] = @ + 1]
  /\ paid' = [l \in Legs |-> IF l \in sweeps[s].ref THEN paid[l] + 1 ELSE paid[l]]
  /\ Goes(s, Step("release", sweeps[s].ref))
  /\ UNCHANGED <<legs, receipts, unpaid, overlapped>>

(* Mutant: the legs are left for the next sweep to mark. *)
PutReceiptOnly(s) ==
  /\ InSweep(s, "put")
  /\ receipts' = [receipts EXCEPT ![sweeps[s].ref] = "final"]
  /\ Goes(s, Asleep)
  /\ UNCHANGED <<legs, chainFacts, overlapped, sweepFaults>>

PutReceipt(s) ==
  /\ InSweep(s, "put")
  /\ receipts' = [receipts EXCEPT ![sweeps[s].ref] = "final"]
  /\ Goes(s, Marking(sweeps[s].ref))
  /\ UNCHANGED <<legs, chainFacts, overlapped, sweepFaults>>

(* A put that throws releases the claim, whatever was sent. *)
PutThrows(s) ==
  /\ durable /\ InSweep(s, "put") /\ Faulty
  /\ Goes(s, Step("release", sweeps[s].ref))
  /\ UNCHANGED <<legs, receipts, chainFacts, overlapped>>

(* Mutant: an attempt that failed keeps its claim. *)
ReleaseNothing(s) ==
  /\ InSweep(s, "release")
  /\ Goes(s, Asleep)
  /\ UNCHANGED <<legs, receipts, chainFacts, overlapped, sweepFaults>>

ReleaseClaim(s) ==
  /\ InSweep(s, "release")
  /\ receipts' = [receipts EXCEPT ![sweeps[s].ref] = IF @ = "pending" THEN "none" ELSE @]
  /\ Goes(s, Asleep)
  /\ UNCHANGED <<legs, chainFacts, overlapped, sweepFaults>>

-----------------------------------------------------------------------------
(* markSettled, one leg at a time; whatever the receipt says. *)
Mark(s, l) ==
  /\ InSweep(s, "mark") /\ l \in sweeps[s].todo
  /\ legs' = [legs EXCEPT ![l] = "settled"]
  /\ Goes(s, IF sweeps[s].todo = {l} THEN Asleep ELSE [sweeps[s] EXCEPT !.todo = @ \ {l}])
  /\ UNCHANGED <<receipts, chainFacts, overlapped, sweepFaults>>

(* The first markSettled that throws ends the group. *)
MarkThrows(s) ==
  /\ InSweep(s, "mark") /\ Faulty
  /\ Goes(s, Asleep)
  /\ UNCHANGED <<legs, receipts, chainFacts, overlapped>>

SweepCrash ==
  /\ Faulty
  /\ sweeps' = [s \in Sweepers |-> Asleep]
  /\ receipts' = IF durable THEN receipts ELSE [r \in References |-> "none"]
  /\ UNCHANGED <<legs, chainFacts, overlapped>>

ListsSome(s) == ListRoyalties(s) \/ \E l \in Refunds : ListRefund(s, l)
Answered(s) == SendPays(s) \/ SendPaysNothing(s)
Proceed(s) ==
  \/ Get(s) \/ ReserveClaim(s) \/ Recheck(s)
  \/ Answered(s) \/ SendThrows(s)
  \/ PutReceipt(s) \/ ReleaseClaim(s)
  \/ \E l \in Legs : Mark(s, l)

SweepNext ==
  /\ UNCHANGED durable
  /\ \/ \E l \in Legs : Owe(l)
     \/ \E s \in Sweepers :
          ListsSome(s) \/ Proceed(s) \/ SendLost(s) \/ PutThrows(s) \/ MarkThrows(s)
     \/ SweepCrash

SweepSpec == SweepInit /\ [][SweepNext]_sweepVars

(* The worker's jobs come again, what they await ends, and the node does  *)
(* not fail every transfer for ever.                                      *)
SweepFairness ==
  \A s \in Sweepers :
    /\ WF_sweepVars((ListsSome(s) \/ Proceed(s)) /\ UNCHANGED durable)
    /\ SF_sweepVars(Answered(s) /\ UNCHANGED durable)
SweepFairSpec == SweepSpec /\ SweepFairness

-----------------------------------------------------------------------------
PaidBy(l) == {r \in References : l \in r}

(* Under one reference a transfer is made once, and once more for each     *)
(* fault: however many sweeps race for it, one claims it at a time, and a  *)
(* claim is given up only after an attempt that failed ("exactly one       *)
(* concurrent caller wins the claim", idempotency.ts).                     *)
SentOnce == \A r \in References : sent[r] <= 1 + sweepFaults

(* The worker's sweeps, which never overlap, pay a leg once plus once for  *)
(* each fault, though a retry may come with more legs or fewer and so      *)
(* under another reference.                                                *)
LegPaidOnce == ~overlapped => \A l \in Legs : paid[l] <= 1 + sweepFaults

(* A leg marked settled was in a transfer, or in one that the client       *)
(* answered for good without making it: a transfer that threw, or that     *)
(* somebody else is making, settles nothing.  In Postgres the receipt of   *)
(* that answer stays on record.                                            *)
SettledIsAnswered ==
  \A l \in Legs : legs[l] = "settled" =>
    \E r \in PaidBy(l) :
      /\ sent[r] > 0 \/ r \in unpaid
      /\ durable => receipts[r] = "final"

(* With the receipts in memory no leg stays pending for good, though       *)
(* transfers fail, answers are lost and sweepers die and retry.  (In       *)
(* Postgres the claim of a sweeper that died stays "pending" for good.)    *)
LegsSettle == <>[](durable \/ \A l \in Legs : legs[l] # "pending")
=============================================================================
