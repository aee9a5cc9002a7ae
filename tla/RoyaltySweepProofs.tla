-------------------------- MODULE RoyaltySweepProofs --------------------------
(***************************************************************************)
(* The royalty sweeps pay under an idempotency claim: a reference is paid  *)
(* once plus once for each fault, and nothing is marked settled without a  *)
(* final answer.  For any number of legs, sweeps and faults.               *)
(* A leg is paid once plus once for each fault, too, while the sweeps of   *)
(* the royalties do not overlap.                                           *)
(***************************************************************************)
EXTENDS RoyaltySweep, TLAPS

(* A sweep that has the claim on its reference, and what it knows.         *)
Holding(w) == w.at \in {"send", "put", "release"}
HasAnswer(r, made, failed) == made[r] > 0 \/ r \in failed
Fits(w, held, made, failed) ==
  /\ w \in Sweep
  /\ Holding(w) => held[w.ref] = "pending"
  /\ w.at \in {"put", "mark"} => HasAnswer(w.ref, made, failed)
  /\ w.at = "mark" => w.todo \subseteq w.ref /\ (durable => held[w.ref] = "final")

OneHolder ==
  \A s, t \in Sweepers :
    Holding(sweeps[s]) /\ Holding(sweeps[t]) /\ sweeps[s].ref = sweeps[t].ref => s = t
Putting(r) == \E s \in Sweepers : sweeps[s].at = "put" /\ sweeps[s].ref = r
Owned(r) == receipts[r] = "final" \/ Putting(r)

SweepInv ==
  /\ SweepStateOK
  /\ \A s \in Sweepers : Fits(sweeps[s], receipts, sent, unpaid)
  /\ OneHolder
  /\ \A r \in References : receipts[r] = "final" => HasAnswer(r, sent, unpaid)
  /\ \A r \in References : sent[r] <= sweepFaults + (IF Owned(r) THEN 1 ELSE 0)
  /\ SettledIsAnswered

-----------------------------------------------------------------------------
LEMMA SweepIs ==
  ASSUME SweepInv, NEW s \in Sweepers
  PROVE  /\ sweeps[s] \in Sweep /\ Fits(sweeps[s], receipts, sent, unpaid)
         /\ sweeps[s].at # "idle" => sweeps[s].ref \in References
         /\ sweeps[s].at = "mark" => sweeps[s].todo \in SUBSET Legs
<1>1. sweeps[s] \in Sweep /\ Fits(sweeps[s], receipts, sent, unpaid)
  BY DEF SweepInv, SweepStateOK
<1> QED
  BY <1>1 DEF Sweep, Asleep

LEMMA StepIsSweep ==
  ASSUME NEW r \in References
  PROVE  /\ \A place \in {"get", "reserve", "recheck", "send", "put", "release"} : Step(place, r) \in Sweep
         /\ Marking(r) \in Sweep /\ Asleep \in Sweep
BY DEF Sweep, Step, Marking, Asleep, References

(* A step of a sweep that has no claim, before or after: it can only have  *)
(* marked a leg.                                                           *)
LEMMA QuietStep ==
  ASSUME SweepInv, NEW s \in Sweepers, NEW new, Goes(s, new), UNCHANGED <<durable, receipts, sent, unpaid>>,
         ~Holding(sweeps[s]), ~Holding(new), Fits(new, receipts, sent, unpaid),
         legs' \in [Legs -> {"none", "pending", "settled"}], overlapped' \in BOOLEAN,
         sweepFaults' \in Nat, sweepFaults <= sweepFaults',
         \A l \in Legs : legs'[l] = "settled" =>
           \/ legs[l] = "settled"
           \/ \E r \in PaidBy(l) : HasAnswer(r, sent, unpaid) /\ (durable => receipts[r] = "final")
  PROVE  SweepInv'
<1>1. sweeps \in [Sweepers -> Sweep] /\ sweeps' = [sweeps EXCEPT ![s] = new]
  BY DEF Goes, SweepInv, SweepStateOK
<1>2. sweeps'[s] = new /\ \A t \in Sweepers \ {s} : sweeps'[t] = sweeps[t]
  BY <1>1
<1>3. SweepStateOK'
  BY <1>1 DEF SweepInv, SweepStateOK, Fits
<1>4. (\A t \in Sweepers : Fits(sweeps[t], receipts, sent, unpaid))'
  BY <1>2 DEF SweepInv, Fits
<1>5. OneHolder'
  BY <1>2 DEF SweepInv, OneHolder
<1>6. \A r \in References : Owned(r) => Owned(r)'
  BY <1>2 DEF Owned, Putting, Holding
<1>7. (\A r \in References : sent[r] <= sweepFaults + (IF Owned(r) THEN 1 ELSE 0))'
  <2> SUFFICES ASSUME NEW r \in References PROVE sent[r] <= sweepFaults' + (IF Owned(r)' THEN 1 ELSE 0)
    OBVIOUS
  <2>1. sent[r] \in Nat /\ sweepFaults \in Nat /\ sent[r] <= sweepFaults + (IF Owned(r) THEN 1 ELSE 0)
    BY DEF SweepInv, SweepStateOK
  <2> QED
    BY <1>6, <2>1
<1>8. SettledIsAnswered'
  BY DEF SweepInv, SettledIsAnswered, PaidBy, HasAnswer
<1>9. (\A r \in References : receipts[r] = "final" => HasAnswer(r, sent, unpaid))'
  BY DEF SweepInv
<1> QED
  BY <1>3, <1>4, <1>5, <1>7, <1>8, <1>9 DEF SweepInv

(* A step of the only sweep with a claim on ref, or about to have it.      *)
LEMMA ClaimStep ==
  ASSUME SweepInv, NEW s \in Sweepers, NEW ref \in References, NEW new, Goes(s, new),
         UNCHANGED <<durable, legs, overlapped>>,
         \A t \in Sweepers \ {s} : Holding(sweeps[t]) => sweeps[t].ref # ref,
         Holding(sweeps[s]) => sweeps[s].ref = ref, Holding(new) => new.ref = ref,
         receipts' \in [References -> {"none", "pending", "final"}], sent' \in [References -> Nat],
         unpaid' \subseteq References, unpaid \subseteq unpaid', sent[ref] <= sent'[ref],
         \A r \in References \ {ref} : receipts'[r] = receipts[r] /\ sent'[r] = sent[r],
         Fits(new, receipts', sent', unpaid'),
         receipts'[ref] = "final" => HasAnswer(ref, sent', unpaid'),
         receipts[ref] = "final" => receipts'[ref] = "final",
         sweepFaults' \in Nat, sweepFaults <= sweepFaults',
         sent'[ref] <= sweepFaults' + (IF receipts'[ref] = "final" \/ new.at = "put" THEN 1 ELSE 0)
  PROVE  SweepInv'
<1>1. sweeps \in [Sweepers -> Sweep] /\ sweeps' = [sweeps EXCEPT ![s] = new]
  BY DEF Goes, SweepInv, SweepStateOK
<1>2. sweeps'[s] = new /\ \A t \in Sweepers \ {s} : sweeps'[t] = sweeps[t]
  BY <1>1
<1>3. SweepStateOK'
  BY <1>1 DEF SweepInv, SweepStateOK, Fits
<1>4. \A r \in References : HasAnswer(r, sent, unpaid) => HasAnswer(r, sent', unpaid')
  <2> SUFFICES ASSUME NEW r \in References, sent[r] > 0 PROVE sent'[r] > 0
    BY DEF HasAnswer
  <2>1. sent[r] \in Nat /\ sent'[r] \in Nat /\ sent[r] <= sent'[r]
    BY DEF SweepInv, SweepStateOK
  <2> QED
    BY <2>1
<1>5. (\A t \in Sweepers : Fits(sweeps[t], receipts, sent, unpaid))'
  <2> SUFFICES ASSUME NEW t \in Sweepers PROVE Fits(sweeps'[t], receipts', sent', unpaid')
    BY DEF Fits
  <2>1. CASE t = s
    BY <1>2, <2>1
  <2>2. CASE t # s
    <3>1. sweeps'[t] = sweeps[t] /\ Fits(sweeps[t], receipts, sent, unpaid)
          /\ (sweeps[t].at # "idle" => sweeps[t].ref \in References)
      BY <1>2, <2>2, SweepIs
    <3>2. Holding(sweeps[t]) => receipts'[sweeps[t].ref] = "pending"
      BY <2>2, <3>1 DEF Fits, Holding
    <3>3. durable /\ sweeps[t].at = "mark" => receipts'[sweeps[t].ref] = "final"
      BY <3>1 DEF Fits
    <3> QED
      BY <1>4, <3>1, <3>2, <3>3 DEF Fits
  <2> QED
    BY <2>1, <2>2
<1>6. OneHolder'
  BY <1>2 DEF SweepInv, OneHolder
<1>7. (\A r \in References : sent[r] <= sweepFaults + (IF Owned(r) THEN 1 ELSE 0))'
  <2> SUFFICES ASSUME NEW r \in References PROVE sent'[r] <= sweepFaults' + (IF Owned(r)' THEN 1 ELSE 0)
    OBVIOUS
  <2>1. CASE r = ref
    <3>1. Fits(new, receipts', sent', unpaid')
      OBVIOUS
    <3>2. new.at = "put" => Putting(ref)'
      BY <1>2 DEF Putting, Holding
    <3> QED
      BY <2>1, <3>2 DEF Owned
  <2>2. CASE r # ref
    <3>1. sent[r] \in Nat /\ sweepFaults \in Nat /\ sent[r] <= sweepFaults + (IF Owned(r) THEN 1 ELSE 0)
      BY DEF SweepInv, SweepStateOK
    <3>2. Putting(r) => Putting(r)'
      BY <1>2, <2>2 DEF Putting, Holding
    <3>3. Owned(r) => Owned(r)'
      BY <2>2, <3>2 DEF Owned
    <3> QED
      BY <2>2, <3>1, <3>3
  <2> QED
    BY <2>1, <2>2
<1>8. (\A r \in References : receipts[r] = "final" => HasAnswer(r, sent, unpaid))'
  BY <1>4 DEF SweepInv
<1>9. SettledIsAnswered'
  <2>1. \A l \in Legs : legs[l] = "settled" =>
          \E r \in PaidBy(l) : HasAnswer(r, sent, unpaid) /\ (durable => receipts[r] = "final")
    BY DEF SweepInv, SettledIsAnswered, HasAnswer
  <2>2. \A r \in References : receipts[r] = "final" => receipts'[r] = "final"
    OBVIOUS
  <2> QED
    BY <1>4, <2>1, <2>2 DEF SettledIsAnswered, PaidBy, HasAnswer
<1> QED
  BY <1>3, <1>5, <1>6, <1>7, <1>8, <1>9 DEF SweepInv

-----------------------------------------------------------------------------
(* The steps, one by one. *)
LEMMA OweInv ==
  ASSUME SweepInv, NEW l \in Legs, Owe(l), UNCHANGED durable
  PROVE  SweepInv'
<1>1. legs' \in [Legs -> {"none", "pending", "settled"}] /\ \A k \in Legs : legs'[k] = "settled" => legs[k] = "settled"
  BY DEF Owe, SweepInv, SweepStateOK
<1>2. UNCHANGED <<receipts, sweeps, sent, unpaid, overlapped, sweepFaults>>
  BY DEF Owe, chainFacts
<1>3. SweepStateOK' /\ SettledIsAnswered'
  BY <1>1, <1>2 DEF SweepInv, SweepStateOK, SettledIsAnswered, PaidBy
<1>4. OneHolder' /\ \A r \in References : Owned(r) <=> Owned(r)'
  BY <1>2 DEF SweepInv, OneHolder, Owned, Putting
<1> QED
  BY <1>2, <1>3, <1>4 DEF SweepInv, Fits

LEMMA ListsInv ==
  ASSUME SweepInv, NEW s \in Sweepers, ListsSome(s), UNCHANGED durable
  PROVE  SweepInv'
<1>1. PICK ref \in References : Goes(s, Step("get", ref))
  <2>1. CASE ListRoyalties(s)
    <3>1. Pending(Royalties) \in References
      BY <2>1 DEF ListRoyalties, Pending, References, Legs
    <3> QED
      BY <2>1, <3>1 DEF ListRoyalties
  <2>2. CASE \E l \in Refunds : ListRefund(s, l)
    <3>1. \A l \in Refunds : {l} \in References
      BY DEF References, Legs
    <3> QED
      BY <2>2, <3>1 DEF ListRefund
  <2> QED
    BY <2>1, <2>2 DEF ListsSome
<1>2. /\ sweeps[s].at = "idle" /\ UNCHANGED <<durable, legs, receipts, sent, unpaid, sweepFaults>>
      /\ overlapped' \in BOOLEAN
  BY DEF ListsSome, ListRoyalties, ListRefund, InSweep, chainFacts, SweepInv, SweepStateOK
<1> DEFINE new == Step("get", ref)
<1>3. new \in Sweep /\ new.at = "get"
  BY StepIsSweep DEF Step
<1> HIDE DEF new
<1>4. Fits(new, receipts, sent, unpaid) /\ ~Holding(new) /\ ~Holding(sweeps[s])
  BY <1>2, <1>3 DEF Fits, Holding
<1>5. sweepFaults' \in Nat /\ sweepFaults <= sweepFaults' /\ legs' \in [Legs -> {"none", "pending", "settled"}]
  BY <1>2 DEF SweepInv, SweepStateOK
<1> QED
  BY <1>1, <1>2, <1>4, <1>5, QuietStep DEF new

LEMMA RestsOrMarks ==
  ASSUME SweepInv, NEW ref \in References
  PROVE  /\ Fits(Asleep, receipts, sent, unpaid) /\ ~Holding(Asleep)
         /\ HasAnswer(ref, sent, unpaid) /\ receipts[ref] = "final" =>
              Fits(Marking(ref), receipts, sent, unpaid)
         /\ ~Holding(Marking(ref))
         /\ \A place \in {"get", "reserve", "recheck"} :
              Fits(Step(place, ref), receipts, sent, unpaid) /\ ~Holding(Step(place, ref))
<1>1. Asleep \in Sweep /\ Marking(ref) \in Sweep
      /\ \A place \in {"get", "reserve", "recheck", "send", "release"} : Step(place, ref) \in Sweep
  BY StepIsSweep
<1>2. Asleep.at = "idle" /\ Marking(ref).at = "mark" /\ Marking(ref).todo = ref /\ Marking(ref).ref = ref
  BY DEF Asleep, Marking
<1>3. \A place : Step(place, ref).at = place
  BY DEF Step
<1> QED
  BY <1>1, <1>2, <1>3 DEF Fits, Holding

LEMMA CheckInv ==
  ASSUME SweepInv, NEW s \in Sweepers, Get(s) \/ Recheck(s), UNCHANGED durable
  PROVE  SweepInv'
<1> DEFINE ref == sweeps[s].ref
<1>1. /\ ref \in References /\ ~Holding(sweeps[s])
      /\ UNCHANGED <<durable, legs, receipts, sent, unpaid, overlapped, sweepFaults>>
  BY SweepIs DEF Get, Recheck, InSweep, Holding, chainFacts
<1>2. receipts[ref] \in {"none", "pending", "final"} /\ (receipts[ref] = "final" => HasAnswer(ref, sent, unpaid))
  BY <1>1 DEF SweepInv, SweepStateOK
<1>3. PICK new : Goes(s, new) /\ Fits(new, receipts, sent, unpaid) /\ ~Holding(new)
  <2>1. CASE receipts[ref] = "final"
    <3>1. Goes(s, Marking(ref))
      BY <2>1 DEF Get, Recheck
    <3> QED
      BY <1>1, <1>2, <2>1, <3>1, RestsOrMarks
  <2>2. CASE receipts[ref] # "final"
    <3>1. Goes(s, Asleep) \/ Goes(s, Step("reserve", ref)) \/ Goes(s, Step("recheck", ref))
      <4>1. CASE Get(s) /\ receipts[ref] = "none"
        BY <4>1 DEF Get
      <4>2. CASE Get(s) /\ receipts[ref] = "pending"
        BY <4>2 DEF Get
      <4>3. CASE Recheck(s)
        BY <2>2, <4>3 DEF Recheck
      <4> QED
        BY <1>2, <2>2, <4>1, <4>2, <4>3
    <3> QED
      BY <1>1, <3>1, RestsOrMarks
  <2> QED
    BY <2>1, <2>2
<1>4. /\ sweepFaults' \in Nat /\ sweepFaults <= sweepFaults' /\ overlapped' \in BOOLEAN
      /\ legs' \in [Legs -> {"none", "pending", "settled"}]
  BY <1>1 DEF SweepInv, SweepStateOK
<1> QED
  BY <1>1, <1>3, <1>4, QuietStep

LEMMA MarkInv ==
  ASSUME SweepInv, NEW s \in Sweepers, MarkThrows(s) \/ \E l \in Legs : Mark(s, l), UNCHANGED durable
  PROVE  SweepInv'
<1> DEFINE w == sweeps[s]
<1>1. /\ w.at = "mark" /\ w.ref \in References /\ w \in Sweep /\ w.todo \in SUBSET Legs /\ w.todo \subseteq w.ref
      /\ HasAnswer(w.ref, sent, unpaid) /\ (durable => receipts[w.ref] = "final")
      /\ UNCHANGED <<durable, receipts, sent, unpaid, overlapped>>
  BY SweepIs DEF MarkThrows, Mark, InSweep, Fits, chainFacts
<1>2. /\ sweepFaults' \in Nat /\ sweepFaults <= sweepFaults' /\ overlapped' \in BOOLEAN
      /\ legs \in [Legs -> {"none", "pending", "settled"}]
  <2>1. sweepFaults' = sweepFaults \/ sweepFaults' = sweepFaults + 1
    BY DEF MarkThrows, Mark, Faulty
  <2> QED
    BY <1>1, <2>1 DEF SweepInv, SweepStateOK
<1>3. ~Holding(w)
  BY <1>1 DEF Holding
<1>4. CASE MarkThrows(s)
  <2>1. Goes(s, Asleep) /\ legs' = legs
    BY <1>4 DEF MarkThrows
  <2> QED
    BY <1>1, <1>2, <1>3, <2>1, RestsOrMarks, QuietStep
<1>5. CASE \E l \in Legs : Mark(s, l)
  <2>1. PICK l \in Legs : Mark(s, l)
    BY <1>5
  <2> DEFINE marked == [w EXCEPT !.todo = w.todo \ {l}]
             new == IF w.todo = {l} THEN Asleep ELSE marked
  <2>2. Goes(s, new) /\ legs' = [legs EXCEPT ![l] = "settled"] /\ l \in w.todo
    BY <2>1 DEF Mark
  <2>3. w \in [at : {"mark"}, ref : References, todo : SUBSET Legs]
    BY <1>1 DEF Sweep, Asleep
  <2>4. /\ marked \in [at : {"mark"}, ref : References, todo : SUBSET Legs]
        /\ marked.at = "mark" /\ marked.ref = w.ref /\ marked.todo \subseteq w.ref
    BY <1>1, <2>3
  <2>5. marked \in Sweep
    BY <2>4 DEF Sweep
  <2>6. Fits(marked, receipts, sent, unpaid) /\ ~Holding(marked)
    BY <1>1, <2>4, <2>5 DEF Fits, Holding
  <2> HIDE DEF marked
  <2>7. Fits(new, receipts, sent, unpaid) /\ ~Holding(new)
    BY <1>1, <2>6, RestsOrMarks
  <2>8. \A k \in Legs : legs'[k] = "settled" =>
          \/ legs[k] = "settled"
          \/ \E r \in PaidBy(k) : HasAnswer(r, sent, unpaid) /\ (durable => receipts[r] = "final")
    BY <1>1, <1>2, <2>2 DEF PaidBy
  <2>9. legs' \in [Legs -> {"none", "pending", "settled"}]
    BY <1>2, <2>2
  <2> HIDE DEF new
  <2> QED
    BY <1>1, <1>2, <1>3, <2>2, <2>7, <2>8, <2>9, QuietStep
<1> QED
  BY <1>4, <1>5

-----------------------------------------------------------------------------
(* Around the claim. *)
LEMMA Alone ==
  ASSUME SweepInv, NEW s \in Sweepers, Holding(sweeps[s])
  PROVE  /\ sweeps[s].ref \in References /\ receipts[sweeps[s].ref] = "pending"
         /\ \A t \in Sweepers \ {s} : Holding(sweeps[t]) => sweeps[t].ref # sweeps[s].ref
<1>1. sweeps[s].ref \in References
  BY SweepIs DEF Holding
<1> QED
  BY <1>1, SweepIs DEF SweepInv, OneHolder, Fits

LEMMA Budget ==
  ASSUME SweepInv, NEW r \in References
  PROVE  /\ sent[r] \in Nat /\ sweepFaults \in Nat /\ sent[r] <= sweepFaults + 1
         /\ ~Owned(r) => sent[r] <= sweepFaults
BY DEF SweepInv, SweepStateOK

LEMMA ReserveInv ==
  ASSUME SweepInv, NEW s \in Sweepers, ReserveClaim(s), UNCHANGED durable
  PROVE  SweepInv'
<1> DEFINE ref == sweeps[s].ref
<1>1. /\ ref \in References /\ ~Holding(sweeps[s]) /\ UNCHANGED <<legs, sent, unpaid, overlapped, sweepFaults>>
  BY SweepIs DEF ReserveClaim, InSweep, Holding, chainFacts
<1>2. /\ sweepFaults \in Nat /\ sweepFaults <= sweepFaults' /\ overlapped' \in BOOLEAN
      /\ legs' \in [Legs -> {"none", "pending", "settled"}] /\ sent' \in [References -> Nat]
      /\ unpaid' \subseteq References /\ receipts \in [References -> {"none", "pending", "final"}]
  BY <1>1 DEF SweepInv, SweepStateOK
<1>3. CASE receipts[ref] # "none"
  <2>1. Goes(s, Step("recheck", ref)) /\ receipts' = receipts
    BY <1>3 DEF ReserveClaim
  <2> QED
    BY <1>1, <1>2, <2>1, RestsOrMarks, QuietStep
<1>4. CASE receipts[ref] = "none"
  <2> DEFINE new == Step("send", ref)
  <2>1. Goes(s, new) /\ receipts' = [receipts EXCEPT ![ref] = "pending"]
    BY <1>4 DEF ReserveClaim
  <2>2. \A t \in Sweepers : Holding(sweeps[t]) => sweeps[t].ref # ref
    BY <1>4, SweepIs DEF Fits
  <2>3. new \in Sweep /\ new.at = "send" /\ new.ref = ref
    BY <1>1, StepIsSweep DEF Step
  <2> HIDE DEF new
  <2>4. /\ receipts'[ref] = "pending" /\ receipts' \in [References -> {"none", "pending", "final"}]
        /\ \A r \in References \ {ref} : receipts'[r] = receipts[r]
    BY <1>1, <1>2, <2>1
  <2>5. Fits(new, receipts', sent', unpaid') /\ receipts'[ref] # "final"
    BY <2>3, <2>4 DEF Fits
  <2>6. ~Owned(ref)
    BY <1>4, <2>2 DEF Owned, Putting, Holding
  <2>7. sent[ref] <= sweepFaults /\ sent[ref] \in Nat
    BY <1>1, <2>6, Budget
  <2>8. sent'[ref] <= sweepFaults' + (IF receipts'[ref] = "final" \/ new.at = "put" THEN 1 ELSE 0) /\ sent[ref] <= sent'[ref]
    BY <1>1, <1>2, <2>3, <2>5, <2>7
  <2> HIDE DEF ref
  <2>9. /\ Holding(sweeps[s]) => sweeps[s].ref = ref
        /\ Holding(new) => new.ref = ref
        /\ \A t \in Sweepers \ {s} : Holding(sweeps[t]) => sweeps[t].ref # ref
    BY <1>1, <2>2, <2>3
  <2>10. /\ unpaid \subseteq unpaid'
         /\ receipts'[ref] = "final" => HasAnswer(ref, sent', unpaid')
         /\ \A r \in References \ {ref} : receipts'[r] = receipts[r] /\ sent'[r] = sent[r]
    BY <1>1, <2>4, <2>5
  <2>11. UNCHANGED <<durable, legs, overlapped>>
    BY <1>1
  <2>12. receipts[ref] = "final" => receipts'[ref] = "final"
    BY <1>4 DEF ref
  <2> QED
    BY <1>1, <1>2, <2>1, <2>4, <2>5, <2>8, <2>9, <2>10, <2>11, <2>12, ClaimStep
<1> QED
  BY <1>3, <1>4

(* A transfer that was answered, one way or the other. *)
LEMMA AnsweredInv ==
  ASSUME SweepInv, NEW s \in Sweepers, Answered(s), UNCHANGED durable
  PROVE  SweepInv'
<1> DEFINE ref == sweeps[s].ref
<1>1. /\ sweeps[s].at = "send" /\ Holding(sweeps[s]) /\ UNCHANGED <<legs, receipts, overlapped, sweepFaults>>
  BY DEF Answered, SendPays, SendPaysNothing, InSweep, Holding
<1>2. /\ ref \in References /\ receipts[ref] = "pending"
      /\ \A t \in Sweepers \ {s} : Holding(sweeps[t]) => sweeps[t].ref # ref
  BY <1>1, Alone
<1>3. ~Owned(ref)
  BY <1>1, <1>2 DEF Owned, Putting, Holding
<1>4. sent[ref] \in Nat /\ sweepFaults \in Nat /\ sent[ref] <= sweepFaults
  BY <1>2, <1>3, Budget
<1>5. /\ sent \in [References -> Nat] /\ unpaid \subseteq References
      /\ receipts \in [References -> {"none", "pending", "final"}]
  BY DEF SweepInv, SweepStateOK
<1>6. /\ Goes(s, Step("put", ref))
      /\ \/ sent' = [sent EXCEPT ![ref] = @ + 1] /\ unpaid' = unpaid
         \/ sent' = sent /\ unpaid' = unpaid \cup {ref}
  BY DEF Answered, SendPays, SendPaysNothing
<1> DEFINE new == Step("put", ref)
<1>7. new \in Sweep /\ new.at = "put" /\ new.ref = ref
  BY <1>2, StepIsSweep DEF Step
<1>8. Goes(s, new)
  BY <1>6
<1> HIDE DEF new
<1>9. /\ sent' \in [References -> Nat] /\ unpaid' \subseteq References /\ unpaid \subseteq unpaid'
      /\ sent[ref] <= sent'[ref] /\ sent'[ref] <= sweepFaults + 1
      /\ \A r \in References \ {ref} : sent'[r] = sent[r]
      /\ HasAnswer(ref, sent', unpaid')
  BY <1>2, <1>4, <1>5, <1>6 DEF HasAnswer
<1> HIDE DEF ref
<1>10. receipts'[ref] = "pending" /\ receipts'[ref] # "final"
  BY <1>1, <1>2
<1>11. Fits(new, receipts', sent', unpaid')
  BY <1>7, <1>9, <1>10 DEF Fits
<1>12. sent'[ref] <= sweepFaults' + (IF receipts'[ref] = "final" \/ new.at = "put" THEN 1 ELSE 0)
  BY <1>1, <1>7, <1>9
<1>13. /\ \A r \in References \ {ref} : receipts'[r] = receipts[r] /\ sent'[r] = sent[r]
       /\ receipts' \in [References -> {"none", "pending", "final"}]
       /\ sweepFaults' \in Nat /\ sweepFaults <= sweepFaults'
       /\ (Holding(new) => new.ref = ref) /\ (Holding(sweeps[s]) => sweeps[s].ref = ref)
  BY <1>1, <1>4, <1>5, <1>7, <1>9 DEF ref
<1> QED
  BY <1>1, <1>2, <1>8, <1>9, <1>10, <1>11, <1>12, <1>13, ClaimStep

(* A transfer, or its receipt, that failed: the claim is given up next. *)
LEMMA GivesUpInv ==
  ASSUME SweepInv, NEW s \in Sweepers, SendThrows(s) \/ SendLost(s) \/ PutThrows(s), UNCHANGED durable
  PROVE  SweepInv'
<1> DEFINE ref == sweeps[s].ref
           new == Step("release", ref)
<1>1. /\ sweeps[s].at \in {"send", "put"} /\ Holding(sweeps[s]) /\ Goes(s, new)
      /\ UNCHANGED <<legs, receipts, unpaid, overlapped>>
  BY DEF SendThrows, SendLost, PutThrows, InSweep, Holding, chainFacts
<1>2. /\ ref \in References /\ receipts[ref] = "pending"
      /\ \A t \in Sweepers \ {s} : Holding(sweeps[t]) => sweeps[t].ref # ref
  BY <1>1, Alone
<1>3. sweeps[s].at = "send" => ~Owned(ref)
  BY <1>1, <1>2 DEF Owned, Putting, Holding
<1>4. /\ sent[ref] \in Nat /\ sweepFaults \in Nat /\ sent[ref] <= sweepFaults + 1
      /\ sweeps[s].at = "send" => sent[ref] <= sweepFaults
  BY <1>2, <1>3, Budget
<1>5. /\ sent \in [References -> Nat] /\ unpaid \subseteq References
      /\ receipts \in [References -> {"none", "pending", "final"}]
  BY DEF SweepInv, SweepStateOK
<1>6. new \in Sweep /\ new.at = "release" /\ new.ref = ref
  BY <1>2, StepIsSweep DEF Step
<1> HIDE DEF new
<1>7. /\ sent' \in [References -> Nat] /\ \A r \in References \ {ref} : sent'[r] = sent[r]
      /\ sent[ref] <= sent'[ref] /\ sweepFaults' \in Nat /\ sweepFaults <= sweepFaults'
      /\ sent'[ref] <= sweepFaults'
  <2>1. CASE SendThrows(s)
    BY <1>4, <1>5, <2>1 DEF SendThrows, InSweep, chainFacts
  <2>2. CASE SendLost(s)
    <3>1. sent' = [sent EXCEPT ![ref] = @ + 1] /\ sweepFaults' = sweepFaults + 1 /\ sweeps[s].at = "send"
      BY <2>2 DEF SendLost, Faulty, InSweep
    <3> QED
      BY <1>2, <1>4, <1>5, <3>1
  <2>3. CASE PutThrows(s)
    <3>1. sent' = sent /\ sweepFaults' = sweepFaults + 1
      BY <2>3 DEF PutThrows, Faulty, chainFacts
    <3> QED
      BY <1>4, <1>5, <3>1
  <2> QED
    BY <2>1, <2>2, <2>3
<1> HIDE DEF ref
<1>8. receipts'[ref] = "pending" /\ receipts'[ref] # "final"
  BY <1>1, <1>2
<1>9. Fits(new, receipts', sent', unpaid')
  BY <1>6, <1>8 DEF Fits
<1>10. sent'[ref] <= sweepFaults' + (IF receipts'[ref] = "final" \/ new.at = "put" THEN 1 ELSE 0)
  BY <1>6, <1>7, <1>8
<1>11. /\ \A r \in References \ {ref} : receipts'[r] = receipts[r] /\ sent'[r] = sent[r]
       /\ receipts' \in [References -> {"none", "pending", "final"}]
       /\ unpaid' \subseteq References /\ unpaid \subseteq unpaid'
       /\ (Holding(new) => new.ref = ref) /\ (Holding(sweeps[s]) => sweeps[s].ref = ref)
  BY <1>1, <1>5, <1>6, <1>7 DEF ref
<1> QED
  BY <1>1, <1>2, <1>7, <1>8, <1>9, <1>10, <1>11, ClaimStep

LEMMA PutReceiptInv ==
  ASSUME SweepInv, NEW s \in Sweepers, PutReceipt(s), UNCHANGED durable
  PROVE  SweepInv'
<1> DEFINE ref == sweeps[s].ref
           new == Marking(ref)
<1>1. /\ sweeps[s].at = "put" /\ Holding(sweeps[s]) /\ Goes(s, new)
      /\ UNCHANGED <<legs, sent, unpaid, overlapped, sweepFaults>> /\ HasAnswer(ref, sent, unpaid)
      /\ receipts' = [receipts EXCEPT ![ref] = "final"]
  BY SweepIs DEF PutReceipt, InSweep, Holding, chainFacts, Fits
<1>2. /\ ref \in References
      /\ \A t \in Sweepers \ {s} : Holding(sweeps[t]) => sweeps[t].ref # ref
  BY <1>1, Alone
<1>3. sent[ref] \in Nat /\ sweepFaults \in Nat /\ sent[ref] <= sweepFaults + 1
  BY <1>2, Budget
<1>4. /\ sent \in [References -> Nat] /\ unpaid \subseteq References
      /\ receipts \in [References -> {"none", "pending", "final"}]
  BY DEF SweepInv, SweepStateOK
<1>5. new \in Sweep /\ new.at = "mark" /\ new.ref = ref /\ new.todo = ref
  BY <1>2, StepIsSweep DEF Marking
<1>6. /\ receipts' \in [References -> {"none", "pending", "final"}] /\ receipts'[ref] = "final"
      /\ \A r \in References \ {ref} : receipts'[r] = receipts[r]
  BY <1>1, <1>2, <1>4
<1> HIDE DEF new, ref
<1>7. Fits(new, receipts', sent', unpaid') /\ ~Holding(new)
  BY <1>1, <1>5, <1>6 DEF Fits, Holding
<1>8. /\ sent'[ref] <= sweepFaults' + (IF receipts'[ref] = "final" \/ new.at = "put" THEN 1 ELSE 0)
      /\ sent[ref] <= sent'[ref] /\ sweepFaults' \in Nat /\ sweepFaults <= sweepFaults'
      /\ sent' \in [References -> Nat] /\ \A r \in References \ {ref} : sent'[r] = sent[r]
      /\ unpaid' \subseteq References /\ unpaid \subseteq unpaid'
      /\ HasAnswer(ref, sent', unpaid')
  BY <1>1, <1>3, <1>4, <1>6
<1>9. Holding(sweeps[s]) => sweeps[s].ref = ref
  BY DEF ref
<1> QED
  BY <1>1, <1>2, <1>6, <1>7, <1>8, <1>9, ClaimStep

LEMMA ReleaseInv ==
  ASSUME SweepInv, NEW s \in Sweepers, ReleaseClaim(s), UNCHANGED durable
  PROVE  SweepInv'
<1> DEFINE ref == sweeps[s].ref
<1>1. /\ sweeps[s].at = "release" /\ Holding(sweeps[s]) /\ Goes(s, Asleep)
      /\ UNCHANGED <<legs, sent, unpaid, overlapped, sweepFaults>>
  BY DEF ReleaseClaim, InSweep, Holding, chainFacts
<1>2. /\ ref \in References /\ receipts[ref] = "pending"
      /\ \A t \in Sweepers \ {s} : Holding(sweeps[t]) => sweeps[t].ref # ref
  BY <1>1, Alone
<1>3. ~Owned(ref)
  BY <1>1, <1>2 DEF Owned, Putting, Holding
<1>4. sent[ref] \in Nat /\ sweepFaults \in Nat /\ sent[ref] <= sweepFaults
  BY <1>2, <1>3, Budget
<1>5. /\ sent \in [References -> Nat] /\ unpaid \subseteq References
      /\ receipts \in [References -> {"none", "pending", "final"}]
  BY DEF SweepInv, SweepStateOK
<1>6. receipts' = [receipts EXCEPT ![ref] = "none"]
  BY <1>2 DEF ReleaseClaim
<1>7. /\ receipts' \in [References -> {"none", "pending", "final"}] /\ receipts'[ref] # "final"
      /\ \A r \in References \ {ref} : receipts'[r] = receipts[r]
  BY <1>2, <1>5, <1>6
<1> HIDE DEF ref
<1>8. Fits(Asleep, receipts', sent', unpaid') /\ ~Holding(Asleep)
  BY <1>2, StepIsSweep DEF Fits, Holding, Asleep
<1>9. /\ sent'[ref] <= sweepFaults' + (IF receipts'[ref] = "final" \/ Asleep.at = "put" THEN 1 ELSE 0)
      /\ sent[ref] <= sent'[ref] /\ sweepFaults' \in Nat /\ sweepFaults <= sweepFaults'
      /\ sent' \in [References -> Nat] /\ \A r \in References \ {ref} : sent'[r] = sent[r]
      /\ unpaid' \subseteq References /\ unpaid \subseteq unpaid'
  BY <1>1, <1>4, <1>5, <1>7 DEF Asleep
<1>10. Holding(sweeps[s]) => sweeps[s].ref = ref
  BY DEF ref
<1> QED
  BY <1>1, <1>2, <1>7, <1>8, <1>9, <1>10, ClaimStep

LEMMA CrashInv ==
  ASSUME SweepInv, SweepCrash, UNCHANGED durable
  PROVE  SweepInv'
<1>1. /\ UNCHANGED <<durable, legs, sent, unpaid, overlapped>> /\ sweepFaults' = sweepFaults + 1
      /\ sweeps' = [s \in Sweepers |-> Asleep]
  BY DEF SweepCrash, Faulty, chainFacts
<1>2. /\ receipts' \in [References -> {"none", "pending", "final"}]
      /\ \A r \in References : receipts'[r] = "final" => receipts[r] = "final"
      /\ durable => receipts' = receipts
  BY DEF SweepCrash, SweepInv, SweepStateOK
<1>3. Asleep \in Sweep /\ Asleep.at = "idle"
  BY DEF Sweep, Asleep
<1>4. SweepStateOK'
  BY <1>1, <1>2, <1>3 DEF SweepInv, SweepStateOK
<1>5. \A s \in Sweepers : Fits(Asleep, receipts', sent', unpaid')
  BY <1>3 DEF Fits, Holding
<1>6. (\A s \in Sweepers : Fits(sweeps[s], receipts, sent, unpaid))' /\ OneHolder'
  BY <1>1, <1>3, <1>5 DEF OneHolder, Holding, Fits
<1>7. \A r \in References : sent'[r] <= sweepFaults' + (IF Owned(r)' THEN 1 ELSE 0)
  BY <1>1, Budget
<1>8. SettledIsAnswered' /\ \A r \in References : receipts'[r] = "final" => HasAnswer(r, sent', unpaid')
  BY <1>1, <1>2 DEF SweepInv, SettledIsAnswered, PaidBy, HasAnswer
<1> QED
  BY <1>4, <1>6, <1>7, <1>8 DEF SweepInv

-----------------------------------------------------------------------------
LEMMA SweepStepInv ==
  ASSUME SweepInv, [SweepNext]_sweepVars
  PROVE  SweepInv'
<1>1. CASE SweepNext
  BY <1>1, OweInv, ListsInv, CheckInv, ReserveInv, AnsweredInv, GivesUpInv, PutReceiptInv, ReleaseInv,
     MarkInv, CrashInv DEF SweepNext, Proceed
<1>2. CASE UNCHANGED sweepVars
  BY <1>2 DEF sweepVars, chainFacts, SweepInv, SweepStateOK, OneHolder, Owned, Putting, SettledIsAnswered, PaidBy,
       Fits
<1> QED
  BY <1>1, <1>2

LEMMA SweepInvHolds == SweepSpec => []SweepInv
<1>1. SweepInit => SweepInv
  <2> SUFFICES ASSUME SweepInit PROVE SweepInv
    OBVIOUS
  <2>1. Asleep \in Sweep /\ Asleep.at = "idle"
    BY DEF Sweep, Asleep
  <2>2. SweepStateOK
    BY <2>1 DEF SweepInit, SweepStateOK
  <2>3. (\A s \in Sweepers : Fits(sweeps[s], receipts, sent, unpaid)) /\ OneHolder
    BY <2>1 DEF SweepInit, Fits, Holding, OneHolder
  <2>4. /\ \A r \in References : receipts[r] # "final"
        /\ \A r \in References : sent[r] <= sweepFaults + (IF Owned(r) THEN 1 ELSE 0)
    BY DEF SweepInit
  <2>5. SettledIsAnswered
    BY DEF SweepInit, SettledIsAnswered
  <2> QED
    BY <2>2, <2>3, <2>4, <2>5 DEF SweepInv
<1>2. SweepInv /\ [SweepNext]_sweepVars => SweepInv'
  BY SweepStepInv
<1> QED
  BY <1>1, <1>2, PTL DEF SweepSpec

-----------------------------------------------------------------------------
(***************************************************************************)
(* How often a leg is paid.  While the sweeps of the royalties do not      *)
(* overlap, the one in progress has none of its legs settled until its     *)
(* transfer is answered; a leg that was paid, but for a fault, is settled  *)
(* or the sweep that paid it is about to mark it.                          *)
(***************************************************************************)
Ahead(w) == w.at \in {"get", "reserve", "recheck", "send"}
Marks(w, l) == (w.at = "put" /\ l \in w.ref) \/ (w.at = "mark" /\ l \in w.todo)
Spent(l) == legs[l] = "settled" \/ \E s \in Sweepers : Marks(sweeps[s], l)
LegUnit(b) == IF b THEN 1 ELSE 0

OneSweep == \A s, t \in Sweepers : OnRoyalties(s) /\ OnRoyalties(t) => s = t
Unsettled(w) == Ahead(w) => \A l \in w.ref \cap Royalties : legs[l] # "settled"
LegInv ==
  /\ paid \in [Legs -> Nat]
  /\ \A l \in Refunds : paid[l] = sent[{l}]
  /\ ~overlapped => /\ OneSweep
                    /\ \A s \in Sweepers : Unsettled(sweeps[s])
                    /\ \A l \in Royalties : paid[l] <= sweepFaults + LegUnit(Spent(l))

(* A reference with a royalty in it is of royalties alone, one with a      *)
(* refund pays that refund alone.                                          *)
LEMMA OneKind ==
  ASSUME NEW r \in References
  PROVE  /\ \A l \in Royalties : l \in r => r \subseteq Royalties
         /\ \A l \in Refunds : l \in r <=> r = {l}
         /\ r \subseteq Legs
  BY SweepLegsAssumption DEF References, Legs

LEMMA RefundKnown == \A l \in Refunds : {l} \in References /\ l \in Legs
  BY DEF References, Legs

(* What a step of sweep s, which comes to w, does to a royalty.            *)
Accounts(s, w, l) ==
  \/ /\ paid'[l] = paid[l] /\ sweepFaults' = sweepFaults
     /\ Marks(sweeps[s], l) => Marks(w, l) \/ legs'[l] = "settled"
  \/ /\ paid'[l] = paid[l] + 1 /\ sweepFaults' = sweepFaults
     /\ sweeps[s].at = "send" /\ l \in sweeps[s].ref /\ Marks(w, l)
  \/ /\ sweepFaults' = sweepFaults + 1
     /\ \/ paid'[l] = paid[l]
        \/ paid'[l] = paid[l] + 1 /\ sweeps[s].at = "send" /\ l \in sweeps[s].ref

LEMMA LegStep ==
  ASSUME SweepInv, SweepInv', LegInv, NEW s \in Sweepers, NEW w, Goes(s, w), UNCHANGED overlapped,
         sweeps[s].at # "idle", w.at # "idle" => w.ref = sweeps[s].ref,
         Ahead(w) => Ahead(sweeps[s]),
         \A l \in Royalties : legs[l] = "settled" => legs'[l] = "settled",
         \A l \in Royalties : legs'[l] = "settled" => legs[l] = "settled" \/ (sweeps[s].at = "mark" /\ l \in sweeps[s].ref),
         paid' \in [Legs -> Nat], \A l \in Refunds : paid'[l] = sent'[{l}],
         \A l \in Royalties : Accounts(s, w, l)
  PROVE  LegInv'
<1>1. sweeps'[s] = w /\ \A t \in Sweepers \ {s} : sweeps'[t] = sweeps[t]
  BY DEF Goes, SweepInv, SweepStateOK
<1>2. SUFFICES ASSUME ~overlapped
               PROVE  /\ OneSweep'
                      /\ \A t \in Sweepers : Unsettled(sweeps[t])'
                      /\ \A l \in Royalties : paid'[l] <= sweepFaults' + LegUnit(Spent(l)')
  BY DEF LegInv
<1>3. \A t \in Sweepers : OnRoyalties(t)' => OnRoyalties(t)
  BY <1>1 DEF OnRoyalties, InSweep
<1>4. OneSweep'
  BY <1>2, <1>3 DEF LegInv, OneSweep
(* Another sweep with a royalty in its reference is not in progress.       *)
<1>5. ASSUME NEW t \in Sweepers \ {s}, NEW l \in Royalties, l \in sweeps[s].ref, sweeps[t].at # "idle"
      PROVE  l \notin sweeps[t].ref
  <2> SUFFICES ASSUME l \in sweeps[t].ref PROVE FALSE
    OBVIOUS
  <2>1. sweeps[s].ref \in References /\ sweeps[t].ref \in References
    BY <1>5, SweepIs
  <2>2. OnRoyalties(s) /\ OnRoyalties(t)
    BY <1>5, <2>1, OneKind DEF OnRoyalties, InSweep
  <2> QED
    BY <1>2, <1>5, <2>2 DEF LegInv, OneSweep
<1>6. ASSUME NEW t \in Sweepers PROVE Unsettled(sweeps[t])'
  <2>1. Unsettled(sweeps[t])
    BY <1>2 DEF LegInv
  <2>2. CASE t = s
    <3>1. Ahead(w) => sweeps[s].at # "mark" /\ w.at # "idle"
      BY DEF Ahead
    <3>2. ASSUME Ahead(w), NEW l \in w.ref \cap Royalties PROVE legs'[l] # "settled"
      BY <2>1, <2>2, <3>1, <3>2 DEF Unsettled
    <3> QED
      BY <1>1, <2>2, <3>2 DEF Unsettled
  <2>3. CASE t # s
    <3>1. ASSUME Ahead(sweeps[t]), NEW l \in sweeps[t].ref \cap Royalties PROVE legs'[l] # "settled"
      <4>1. legs[l] # "settled" /\ sweeps[t].at # "idle"
        BY <2>1, <3>1 DEF Unsettled, Ahead
      <4>2. l \notin sweeps[s].ref
        BY <1>5, <2>3, <3>1, <4>1
      <4> QED
        BY <3>1, <4>1, <4>2
    <3> QED
      BY <1>1, <2>3, <3>1 DEF Unsettled
  <2> QED
    BY <2>2, <2>3
<1>7. ASSUME NEW l \in Royalties PROVE paid'[l] <= sweepFaults' + LegUnit(Spent(l)')
  <2>1. /\ paid[l] \in Nat /\ paid'[l] \in Nat /\ sweepFaults \in Nat
        /\ LegUnit(Spent(l)) \in {0, 1} /\ LegUnit(Spent(l)') \in {0, 1}
        /\ paid[l] <= sweepFaults + LegUnit(Spent(l))
    BY <1>2 DEF LegInv, SweepInv, SweepStateOK, Legs, LegUnit
  <2>2. CASE sweepFaults' = sweepFaults /\ paid'[l] = paid[l] /\ (Marks(sweeps[s], l) => Marks(w, l) \/ legs'[l] = "settled")
    <3>1. Spent(l) => Spent(l)'
      BY <1>1, <2>2 DEF Spent
    <3>2. LegUnit(Spent(l)) <= LegUnit(Spent(l)')
      BY <3>1 DEF LegUnit
    <3> QED
      BY <2>1, <2>2, <3>2
  <2>3. ASSUME sweeps[s].at = "send", l \in sweeps[s].ref PROVE paid[l] <= sweepFaults
    <3>1. legs[l] # "settled"
      BY <1>2, <2>3 DEF LegInv, Unsettled, Ahead
    <3>2. ASSUME NEW t \in Sweepers, Marks(sweeps[t], l) PROVE FALSE
      <4>1. sweeps[t].at \in {"put", "mark"} /\ l \in sweeps[t].ref
        BY <3>2, SweepIs DEF Marks, Fits
      <4> QED
        BY <1>5, <2>3, <4>1
    <3>3. ~Spent(l)
      BY <3>1, <3>2 DEF Spent
    <3> QED
      BY <2>1, <3>3 DEF LegUnit
  <2>4. CASE paid'[l] = paid[l] + 1 /\ sweepFaults' = sweepFaults /\ sweeps[s].at = "send" /\ l \in sweeps[s].ref /\ Marks(w, l)
    <3>1. Spent(l)'
      BY <1>1, <2>4 DEF Spent
    <3>2. LegUnit(Spent(l)') = 1
      BY <3>1 DEF LegUnit
    <3> QED
      BY <2>1, <2>3, <2>4, <3>2
  <2>5. CASE /\ sweepFaults' = sweepFaults + 1
             /\ \/ paid'[l] = paid[l]
                \/ paid'[l] = paid[l] + 1 /\ sweeps[s].at = "send" /\ l \in sweeps[s].ref
    BY <2>1, <2>3, <2>5
  <2> QED
    BY <2>2, <2>4, <2>5 DEF Accounts
<1> QED
  BY <1>4, <1>6, <1>7

LEMMA ListsKeepsLegs ==
  ASSUME SweepInv, SweepInv', LegInv, NEW s \in Sweepers, ListsSome(s)
  PROVE  LegInv'
<1>1. PICK ref \in References :
        /\ Goes(s, Step("get", ref))
        /\ \A l \in ref : legs[l] = "pending"
        /\ \/ overlapped' = (overlapped \/ \E t \in Sweepers : OnRoyalties(t))
           \/ overlapped' = overlapped /\ \E l \in Refunds : ref = {l}
  <2>1. CASE ListRoyalties(s)
    <3>1. Pending(Royalties) \in References
      BY <2>1 DEF ListRoyalties, Pending, References, Legs
    <3> QED
      BY <2>1, <3>1 DEF ListRoyalties, Pending
  <2>2. CASE \E l \in Refunds : ListRefund(s, l)
    BY <2>2, RefundKnown DEF ListRefund, Pending
  <2> QED
    BY <2>1, <2>2 DEF ListsSome
<1>2. /\ sweeps[s].at = "idle" /\ UNCHANGED <<legs, sent, paid, sweepFaults>>
      /\ overlapped => overlapped'
  BY DEF ListsSome, ListRoyalties, ListRefund, InSweep, chainFacts, SweepInv, SweepStateOK
<1> DEFINE new == Step("get", ref)
<1>3. new.at = "get" /\ new.ref = ref
  BY DEF Step
<1>4. Goes(s, new)
  BY <1>1
<1> HIDE DEF new
<1>5. sweeps'[s] = new /\ \A t \in Sweepers \ {s} : sweeps'[t] = sweeps[t]
  BY <1>4 DEF Goes, SweepInv, SweepStateOK
<1>6. SUFFICES ASSUME ~overlapped, ~overlapped'
               PROVE  /\ OneSweep'
                      /\ \A t \in Sweepers : Unsettled(sweeps[t])'
                      /\ \A l \in Royalties : paid'[l] <= sweepFaults' + LegUnit(Spent(l)')
  BY <1>2 DEF LegInv
<1>7. OneSweep'
  <2>1. \A t \in Sweepers \ {s} : OnRoyalties(t)' <=> OnRoyalties(t)
    BY <1>5 DEF OnRoyalties, InSweep
  <2>2. (\A t \in Sweepers : ~OnRoyalties(t)) \/ ~OnRoyalties(s)'
    <3>1. CASE \E l \in Refunds : ref = {l}
      <4>1. ~(ref \subseteq Royalties)
        BY <3>1, SweepLegsAssumption
      <4> QED
        BY <1>3, <1>5, <4>1 DEF OnRoyalties, InSweep
    <3>2. CASE overlapped' = (overlapped \/ \E t \in Sweepers : OnRoyalties(t))
      BY <1>6, <3>2
    <3> QED
      BY <1>1, <3>1, <3>2
  <2> QED
    BY <1>6, <2>1, <2>2 DEF LegInv, OneSweep
<1>8. \A t \in Sweepers : Unsettled(sweeps[t])'
  BY <1>1, <1>2, <1>3, <1>5, <1>6 DEF LegInv, Unsettled
<1>9. ASSUME NEW l \in Royalties PROVE paid'[l] <= sweepFaults' + LegUnit(Spent(l)')
  <2>1. Spent(l)' <=> Spent(l)
    BY <1>2, <1>3, <1>5 DEF Spent, Marks
  <2>2. LegUnit(Spent(l)') = LegUnit(Spent(l))
    BY <2>1 DEF LegUnit
  <2>3. paid[l] <= sweepFaults + LegUnit(Spent(l))
    BY <1>6 DEF LegInv
  <2> QED
    BY <1>2, <2>2, <2>3
<1> QED
  BY <1>7, <1>8, <1>9

(* A step of a sweep that pays nothing and gives up no marks.              *)
LEMMA CalmKeepsLegs ==
  ASSUME SweepInv, SweepInv', LegInv, NEW s \in Sweepers, NEW w, Goes(s, w),
         UNCHANGED <<legs, sent, paid, overlapped>>, sweeps[s].at # "idle", w.at # "idle" => w.ref = sweeps[s].ref,
         Ahead(w) => Ahead(sweeps[s]),
         \/ sweepFaults' = sweepFaults /\ \A l \in Royalties : Marks(sweeps[s], l) => Marks(w, l)
         \/ sweepFaults' = sweepFaults + 1
  PROVE  LegInv'
<1>1. \A l \in Royalties : Accounts(s, w, l)
  BY DEF Accounts
<1>2. paid' \in [Legs -> Nat] /\ \A l \in Refunds : paid'[l] = sent'[{l}]
  BY DEF LegInv
<1> QED
  BY <1>1, <1>2, LegStep

LEMMA Places ==
  ASSUME NEW ref
  PROVE  /\ Asleep.at = "idle"
         /\ Marking(ref).at = "mark" /\ Marking(ref).ref = ref /\ Marking(ref).todo = ref
         /\ \A place : Step(place, ref).at = place /\ Step(place, ref).ref = ref
  BY DEF Asleep, Marking, Step

LEMMA CalmSteps ==
  ASSUME SweepInv, SweepInv', LegInv, NEW s \in Sweepers,
         Get(s) \/ ReserveClaim(s) \/ Recheck(s) \/ SendThrows(s) \/ PutThrows(s) \/ PutReceipt(s)
           \/ ReleaseClaim(s) \/ MarkThrows(s) \/ SendPaysNothing(s)
  PROVE  LegInv'
<1> DEFINE ref == sweeps[s].ref
<1>1. UNCHANGED <<legs, sent, paid, overlapped>>
  BY DEF Get, ReserveClaim, Recheck, SendThrows, PutThrows, PutReceipt, ReleaseClaim, MarkThrows, SendPaysNothing, chainFacts
<1>2. CASE Get(s) \/ ReserveClaim(s) \/ Recheck(s) \/ SendThrows(s)
  <2>1. PICK w : /\ Goes(s, w)
                 /\ \/ w = Asleep \/ w = Marking(ref)
                    \/ \E place \in {"reserve", "recheck", "send", "release"} : w = Step(place, ref)
    <3>1. CASE Get(s)
      <4>1. receipts[ref] \in {"none", "pending", "final"}
        BY <3>1, SweepIs DEF Get, InSweep, SweepInv, SweepStateOK
      <4>2. receipts[ref] = "final" => Goes(s, Marking(ref))
        BY <3>1 DEF Get
      <4>3. receipts[ref] = "none" => Goes(s, Step("reserve", ref))
        BY <3>1 DEF Get
      <4>4. receipts[ref] = "pending" => Goes(s, Step("recheck", ref))
        BY <3>1 DEF Get
      <4> QED
        BY <4>1, <4>2, <4>3, <4>4
    <3>2. CASE ReserveClaim(s)
      BY <3>2 DEF ReserveClaim
    <3>3. CASE Recheck(s)
      BY <3>3 DEF Recheck
    <3>4. CASE SendThrows(s)
      BY <3>4 DEF SendThrows
    <3> QED
      BY <1>2, <3>1, <3>2, <3>3, <3>4
  <2>2. Ahead(sweeps[s]) /\ sweeps[s].at # "idle" /\ sweepFaults' = sweepFaults
    BY <1>2 DEF Get, ReserveClaim, Recheck, SendThrows, InSweep, Ahead
  <2>3. w.at # "idle" => w.ref = ref
    BY <2>1, Places
  <2>4. \A l \in Royalties : ~Marks(sweeps[s], l)
    BY <2>2 DEF Marks, Ahead
  <2> QED
    BY <1>1, <2>1, <2>2, <2>3, <2>4, CalmKeepsLegs
<1>3. CASE PutReceipt(s)
  <2>1. Goes(s, Marking(ref)) /\ sweeps[s].at = "put" /\ sweepFaults' = sweepFaults
    BY <1>3 DEF PutReceipt, InSweep
  <2> DEFINE w == Marking(ref)
  <2>2. w.at = "mark" /\ w.ref = ref /\ w.todo = ref
    BY Places
  <2>3. Goes(s, w)
    BY <2>1
  <2> HIDE DEF w
  <2>4. ~Ahead(w) /\ \A l \in Royalties : Marks(sweeps[s], l) => Marks(w, l)
    BY <2>1, <2>2 DEF Ahead, Marks
  <2> QED
    BY <1>1, <2>1, <2>2, <2>3, <2>4, CalmKeepsLegs
<1>4. CASE ReleaseClaim(s)
  <2>1. Goes(s, Asleep) /\ sweeps[s].at = "release" /\ sweepFaults' = sweepFaults
    BY <1>4 DEF ReleaseClaim, InSweep
  <2>2. ~Ahead(Asleep) /\ \A l \in Royalties : ~Marks(sweeps[s], l)
    BY <2>1, Places DEF Ahead, Marks
  <2> QED
    BY <1>1, <2>1, <2>2, Places, CalmKeepsLegs
<1>5. CASE PutThrows(s) \/ MarkThrows(s)
  <2>1. PICK w \in {Asleep, Step("release", ref)} : Goes(s, w)
    BY <1>5 DEF PutThrows, MarkThrows
  <2>2. sweeps[s].at # "idle" /\ sweepFaults' = sweepFaults + 1
    BY <1>5 DEF PutThrows, MarkThrows, InSweep, Faulty
  <2>3. ~Ahead(w) /\ (w.at # "idle" => w.ref = ref)
    BY <2>1, Places DEF Ahead
  <2> QED
    BY <1>1, <2>1, <2>2, <2>3, CalmKeepsLegs
<1>6. CASE SendPaysNothing(s)
  <2> DEFINE w == Step("put", ref)
  <2>1. Goes(s, w) /\ sweeps[s].at = "send" /\ sweepFaults' = sweepFaults
    BY <1>6 DEF SendPaysNothing, InSweep
  <2>2. w.at = "put" /\ w.ref = ref
    BY DEF Step
  <2> HIDE DEF w
  <2>3. ~Ahead(w) /\ \A l \in Royalties : ~Marks(sweeps[s], l)
    BY <2>1, <2>2 DEF Ahead, Marks
  <2> QED
    BY <1>1, <2>1, <2>2, <2>3, CalmKeepsLegs
<1> QED
  BY <1>2, <1>3, <1>4, <1>5, <1>6

(* A transfer that is made pays each of its legs. *)
LEMMA SendKeepsLegs ==
  ASSUME SweepInv, SweepInv', LegInv, NEW s \in Sweepers, SendPays(s) \/ SendLost(s)
  PROVE  LegInv'
<1> DEFINE ref == sweeps[s].ref
<1>1. /\ sweeps[s].at = "send" /\ UNCHANGED <<legs, overlapped>>
      /\ sent' = [sent EXCEPT ![ref] = @ + 1]
      /\ paid' = [l \in Legs |-> IF l \in ref THEN paid[l] + 1 ELSE paid[l]]
  BY DEF SendPays, SendLost, InSweep
<1>2. ref \in References
  BY <1>1, SweepIs
<1>3. paid \in [Legs -> Nat] /\ sent \in [References -> Nat]
  BY DEF LegInv, SweepInv, SweepStateOK
<1>4. paid' \in [Legs -> Nat]
  BY <1>1, <1>3
<1>5. ASSUME NEW l \in Refunds PROVE paid'[l] = sent'[{l}]
  <2>1. {l} \in References /\ l \in Legs /\ paid[l] = sent[{l}]
    BY RefundKnown DEF LegInv
  <2>2. l \in ref <=> ref = {l}
    BY <1>2, OneKind
  <2>3. CASE ref = {l}
    BY <1>1, <1>2, <1>3, <2>1, <2>3
  <2>4. CASE ref # {l}
    BY <1>1, <1>2, <1>3, <2>1, <2>2, <2>4
  <2> QED
    BY <2>3, <2>4
<1>6. \A l \in Royalties : paid'[l] = IF l \in ref THEN paid[l] + 1 ELSE paid[l]
  BY <1>1 DEF Legs
<1> HIDE DEF ref
<1>7. CASE SendPays(s)
  <2> DEFINE w == Step("put", ref)
  <2>1. Goes(s, w) /\ sweepFaults' = sweepFaults
    BY <1>7 DEF SendPays, ref
  <2>2. w.at = "put" /\ w.ref = ref
    BY DEF Step
  <2> HIDE DEF w
  <2>3. ~Ahead(w) /\ w.ref = sweeps[s].ref
    BY <2>2 DEF Ahead, ref
  <2>4. \A l \in Royalties : Accounts(s, w, l)
    BY <1>1, <1>6, <2>1, <2>2 DEF Accounts, Marks, ref
  <2> QED
    BY <1>1, <1>4, <1>5, <2>1, <2>3, <2>4, LegStep
<1>8. CASE SendLost(s)
  <2> DEFINE w == Step("release", ref)
  <2>1. Goes(s, w) /\ sweepFaults' = sweepFaults + 1
    BY <1>8 DEF SendLost, Faulty, ref
  <2>2. w.at = "release" /\ w.ref = ref
    BY Places
  <2> HIDE DEF w
  <2>3. ~Ahead(w) /\ w.ref = sweeps[s].ref
    BY <2>2 DEF Ahead, ref
  <2>4. \A l \in Royalties : Accounts(s, w, l)
    BY <1>1, <1>6, <2>1 DEF Accounts, ref
  <2> QED
    BY <1>1, <1>4, <1>5, <2>1, <2>3, <2>4, LegStep
<1> QED
  BY <1>7, <1>8

LEMMA MarkKeepsLegs ==
  ASSUME SweepInv, SweepInv', LegInv, NEW s \in Sweepers, NEW l \in Legs, Mark(s, l)
  PROVE  LegInv'
<1> DEFINE v == sweeps[s]
           marked == [v EXCEPT !.todo = v.todo \ {l}]
           w == IF v.todo = {l} THEN Asleep ELSE marked
<1>1. /\ v.at = "mark" /\ l \in v.todo /\ Goes(s, w) /\ legs' = [legs EXCEPT ![l] = "settled"]
      /\ UNCHANGED <<sent, paid, overlapped, sweepFaults>>
  BY DEF Mark, InSweep, chainFacts
<1>2. v \in [at : {"mark"}, ref : References, todo : SUBSET Legs] /\ v.todo \subseteq v.ref
  BY <1>1, SweepIs DEF Sweep, Asleep, Fits
<1>3. marked.at = "mark" /\ marked.ref = v.ref /\ marked.todo = v.todo \ {l}
  BY <1>2
<1>4. legs \in [Legs -> {"none", "pending", "settled"}]
  BY DEF SweepInv, SweepStateOK
<1>5. legs'[l] = "settled" /\ \A k \in Legs \ {l} : legs'[k] = legs[k]
  BY <1>1, <1>4
<1> HIDE DEF marked
<1>6. (w.at # "idle" => w.ref = v.ref) /\ ~Ahead(w)
  BY <1>3, Places DEF Ahead
<1>7. ASSUME NEW k \in Royalties PROVE Accounts(s, w, k)
  <2>1. Marks(v, k) => Marks(w, k) \/ k = l
    BY <1>1, <1>3 DEF Marks
  <2> QED
    BY <1>1, <1>5, <2>1 DEF Accounts
<1>8. \A k \in Royalties : legs[k] = "settled" => legs'[k] = "settled"
  BY <1>5 DEF Legs
<1>9. \A k \in Royalties : legs'[k] = "settled" => legs[k] = "settled" \/ k \in v.ref
  BY <1>1, <1>2, <1>5 DEF Legs
<1>10. paid' \in [Legs -> Nat] /\ \A k \in Refunds : paid'[k] = sent'[{k}]
  BY <1>1 DEF LegInv
<1> HIDE DEF w
<1> QED
  BY <1>1, <1>6, <1>7, <1>8, <1>9, <1>10, LegStep

(* The steps of no sweep: a leg comes, the processes die. *)
LEMMA OweKeepsLegs ==
  ASSUME SweepInv, SweepInv', LegInv, NEW k \in Legs, Owe(k)
  PROVE  LegInv'
<1>1. UNCHANGED <<sweeps, sent, paid, overlapped, sweepFaults>>
  BY DEF Owe, chainFacts
<1>2. \A l \in Legs : legs'[l] = "settled" <=> legs[l] = "settled"
  BY DEF Owe, SweepInv, SweepStateOK
<1>3. \A l \in Royalties : (Spent(l)' <=> Spent(l))
  BY <1>1, <1>2 DEF Spent, Legs
<1>4. \A l \in Royalties : LegUnit(Spent(l)') = LegUnit(Spent(l))
  BY <1>3 DEF LegUnit
<1>5. \A s \in Sweepers : Unsettled(sweeps[s]) => Unsettled(sweeps[s])'
  BY <1>1, <1>2 DEF Unsettled, Legs
<1>6. OneSweep => OneSweep'
  BY <1>1 DEF OneSweep, OnRoyalties, InSweep
<1> QED
  BY <1>1, <1>4, <1>5, <1>6 DEF LegInv

LEMMA CrashKeepsLegs == ASSUME SweepInv, SweepInv', LegInv, SweepCrash PROVE LegInv'
<1>1. /\ UNCHANGED <<legs, sent, paid, overlapped>> /\ sweepFaults' = sweepFaults + 1
      /\ \A s \in Sweepers : sweeps'[s].at = "idle"
  BY Places DEF SweepCrash, Faulty, chainFacts
<1>2. OneSweep' /\ \A s \in Sweepers : Unsettled(sweeps[s])'
  BY <1>1 DEF OneSweep, OnRoyalties, InSweep, Unsettled, Ahead
<1>3. ASSUME ~overlapped, NEW l \in Royalties PROVE paid'[l] <= sweepFaults' + LegUnit(Spent(l)')
  <2>1. /\ paid[l] \in Nat /\ sweepFaults \in Nat
        /\ LegUnit(Spent(l)) \in {0, 1} /\ LegUnit(Spent(l)') \in {0, 1}
        /\ paid[l] <= sweepFaults + LegUnit(Spent(l))
    BY <1>3 DEF LegInv, SweepInv, SweepStateOK, Legs, LegUnit
  <2> QED
    BY <1>1, <2>1
<1> QED
  BY <1>1, <1>2, <1>3 DEF LegInv

LEMMA LegInvNext == SweepInv /\ SweepInv' /\ LegInv /\ [SweepNext]_sweepVars => LegInv'
<1> SUFFICES ASSUME SweepInv, SweepInv', LegInv, [SweepNext]_sweepVars PROVE LegInv'
  OBVIOUS
<1>1. CASE SweepNext
  BY <1>1, ListsKeepsLegs, CalmSteps, SendKeepsLegs, MarkKeepsLegs, OweKeepsLegs, CrashKeepsLegs
     DEF SweepNext, Proceed, Answered
<1>2. CASE UNCHANGED sweepVars
  <2>1. UNCHANGED <<legs, sweeps, sent, paid, overlapped, sweepFaults>>
    BY <1>2 DEF sweepVars, chainFacts
  <2>2. \A l \in Royalties : LegUnit(Spent(l)') = LegUnit(Spent(l))
    BY <2>1 DEF Spent, LegUnit
  <2> QED
    BY <2>1, <2>2 DEF LegInv, OneSweep, OnRoyalties, InSweep, Unsettled
<1> QED
  BY <1>1, <1>2

LEMMA LegInvHolds == SweepSpec => [](SweepInv /\ LegInv)
<1>1. SweepInit => LegInv
  <2> SUFFICES ASSUME SweepInit PROVE LegInv
    OBVIOUS
  <2>1. paid \in [Legs -> Nat] /\ \A l \in Refunds : paid[l] = sent[{l}]
    BY RefundKnown DEF SweepInit
  <2>2. \A s \in Sweepers : sweeps[s].at = "idle"
    BY Places DEF SweepInit
  <2>3. OneSweep /\ \A s \in Sweepers : Unsettled(sweeps[s])
    BY <2>2 DEF OneSweep, OnRoyalties, InSweep, Unsettled, Ahead
  <2>4. \A l \in Royalties : paid[l] <= sweepFaults + LegUnit(Spent(l))
    BY DEF SweepInit, LegUnit, Legs
  <2> QED
    BY <2>1, <2>3, <2>4 DEF LegInv
<1>2. SweepInv /\ SweepInv' /\ LegInv /\ [SweepNext]_sweepVars => LegInv'
  BY LegInvNext
<1> QED
  BY <1>1, <1>2, SweepInvHolds, PTL DEF SweepSpec

-----------------------------------------------------------------------------
(* Whatever races, fails or dies, each reference is paid at most once plus *)
(* once per fault.                                                         *)
THEOREM RoyaltiesPayOnce == SweepSpec => [](SweepTypeOK /\ SentOnce)
<1>1. SweepInv /\ LegInv => SweepTypeOK /\ SentOnce
  <2> SUFFICES ASSUME SweepInv, LegInv PROVE SentOnce
    BY DEF SweepInv, LegInv, SweepTypeOK
  <2>1. ASSUME NEW r \in References PROVE sent[r] <= 1 + sweepFaults
    BY Budget
  <2> QED
    BY <2>1 DEF SentOnce
<1> QED
  BY <1>1, LegInvHolds, PTL

(* While the sweeps of the royalties do not overlap, each leg is paid at   *)
(* most once plus once per fault, under whatever references.               *)
THEOREM LegsPayOnce == SweepSpec => []LegPaidOnce
<1>1. SweepInv /\ LegInv => LegPaidOnce
  <2> SUFFICES ASSUME SweepInv, LegInv, ~overlapped, NEW l \in Legs PROVE paid[l] <= 1 + sweepFaults
    BY DEF LegPaidOnce
  <2>1. CASE l \in Royalties
    <3>1. paid[l] \in Nat /\ sweepFaults \in Nat /\ paid[l] <= sweepFaults + LegUnit(Spent(l))
      BY <2>1 DEF LegInv, SweepInv, SweepStateOK
    <3>2. LegUnit(Spent(l)) \in {0, 1}
      BY DEF LegUnit
    <3> QED
      BY <3>1, <3>2
  <2>2. CASE l \in Refunds
    <3>1. {l} \in References /\ paid[l] = sent[{l}]
      BY <2>2, RefundKnown DEF LegInv
    <3>2. sent[{l}] \in Nat /\ sweepFaults \in Nat /\ sent[{l}] <= sweepFaults + 1
      BY <3>1, Budget
    <3> QED
      BY <3>1, <3>2
  <2> QED
    BY <2>1, <2>2 DEF Legs
<1> QED
  BY <1>1, LegInvHolds, PTL

(* A leg marked settled was in a transfer, or in one that was answered for *)
(* good and not made; in Postgres the receipt of the answer is on record.  *)
THEOREM SettledWasAnswered == SweepSpec => []SettledIsAnswered
<1>1. SweepInv => SettledIsAnswered
  BY DEF SweepInv
<1> QED
  BY <1>1, SweepInvHolds, PTL
=============================================================================
