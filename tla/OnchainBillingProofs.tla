------------------------- MODULE OnchainBillingProofs -------------------------
(***************************************************************************)
(* Proofs about OnchainBilling, for every value of its constants.  The     *)
(* type invariant is kept in two parts: the rows (RowsOK), and the pulls   *)
(* with the charges and calls that record them (PullsOK).  PulledOnce      *)
(* rests on PullInv, which counts the tokens of a period, and PaidIsPulled *)
(* on PaidInv, which counts the periods that a pull or a read allowance    *)
(* may make paid.  KeepsPromise, that the engine implements PeriodCharge,  *)
(* rests on both and on ExactInv: before anything fails, what is booked,   *)
(* served or held in a copy is a period marked paid.                       *)
(***************************************************************************)
EXTENDS OnchainBilling, TLAPS, SequenceTheorems, FiniteSetTheorems

(* A period, no period paid. *)
LEMMA Zero == 0 \in Periods /\ -1 \in Reached /\ Periods \subseteq Reached
  BY SizesAssumption DEF Periods, Reached

LEMMA NewSubOk == NewSub \in Sub
  BY Zero DEF NewSub, Sub

LEMMA NoDunningOk == NoDunning \in Dunning
  BY SizesAssumption DEF NoDunning, Dunning

LEMMA NoChargeOk == NoCharge \in Charge /\ NoCharge.step = 0
  BY DEF NoCharge, Charge, ChargeStatus

LEMMA RestOk == Rest \in Run /\ Rest.step = 0 /\ Rest.pc = "idle"
  BY Zero, NewSubOk, NoDunningOk DEF Rest, Run, Stage, Course

LEMMA TypeInit == Init => TypeOK
<1> SUFFICES ASSUME Init PROVE TypeOK
  OBVIOUS
<1>1. RowsOK
  BY Zero, NewSubOk, NoDunningOk, SizesAssumption, BoundsAssumption
     DEF Init, RowsOK, NoAccess, Access, NoCancel
<1>2. PullsOK
  BY NoChargeOk, RestOk, EmptySeq DEF Init, PullsOK, Sound
<1> QED
  BY <1>1, <1>2 DEF TypeOK

(* The stages an action names are stages, its outcomes outcomes. *)
LEMMA Words ==
  /\ {"idle", "start", "wait", "claim", "list", "receipt", "allowance", "send", "record", "confirm"} \subseteq Stage
  /\ {"succeed", "decline", "dunning", "begin", "open", "find", "attempt", "patch", "save", "core", "entitle"} \subseteq Stage
  /\ {"paid", "declined", "canceled", "past_due", "suspended"} \subseteq Course
  BY DEF Stage, Course

(* The updates of a call's record keep its type. *)
LEMMA UpdateOk ==
  ASSUME NEW l \in Run, NEW pc \in Stage, NEW c \in Course
  PROVE  /\ \A n \in Nat : [l EXCEPT !.pc = pc, !.step = n] \in Run
         /\ [l EXCEPT !.pc = pc, !.then = c] \in Run
         /\ [l EXCEPT !.pc = pc, !.then = c, !.step = 0, !.leased = FALSE] \in Run
         /\ \A p \in Periods : [l EXCEPT !.pc = pc, !.at = p, !.then = c] \in Run
         /\ \A s \in Sub : [l EXCEPT !.pc = pc, !.patched = s] \in Run
<1>1. ASSUME NEW n \in Nat PROVE [l EXCEPT !.pc = pc, !.step = n] \in Run
  BY DEF Run
<1>2. [l EXCEPT !.pc = pc, !.then = c] \in Run
  BY DEF Run
<1>3. [l EXCEPT !.pc = pc, !.then = c, !.step = 0, !.leased = FALSE] \in Run
  BY DEF Run
<1>4. ASSUME NEW p \in Periods PROVE [l EXCEPT !.pc = pc, !.at = p, !.then = c] \in Run
  BY DEF Run
<1>5. ASSUME NEW s \in Sub PROVE [l EXCEPT !.pc = pc, !.patched = s] \in Run
  BY DEF Run
<1> QED
  BY <1>1, <1>2, <1>3, <1>4, <1>5

(* A call moves to a state of the type, with pulls that were broadcast. *)
LEMMA BecomeOk ==
  ASSUME PullsOK, UNCHANGED <<txs, charge>>, NEW r \in Runs, NEW l \in Run, Sound(l), Become(r, l)
  PROVE  PullsOK'
  BY DEF Become, PullsOK, Sound

LEMMA GoOk ==
  ASSUME PullsOK, UNCHANGED <<txs, charge>>, NEW r \in Runs, NEW pc \in Stage \ {"patch", "save"},
         Go(r, pc)
  PROVE  PullsOK'
<1> DEFINE l == [run[r] EXCEPT !.pc = pc]
<1>1. l \in Run /\ Sound(l)
  BY DEF Run, PullsOK, Sound
<1>2. Become(r, l)
  BY DEF Go
<1> HIDE DEF l
<1> QED
  BY <1>1, <1>2, BecomeOk

LEMMA EndOk ==
  ASSUME PullsOK, UNCHANGED <<txs, charge>>, NEW r \in Runs, End(r)
  PROVE  PullsOK'
<1>1. Sound(Rest)
  BY RestOk, LenProperties DEF PullsOK, Sound
<1> QED
  BY <1>1, RestOk, BecomeOk DEF End

LEMMA StillOk ==
  ASSUME PullsOK, UNCHANGED <<txs, charge, run>> PROVE PullsOK'
  BY DEF PullsOK, Sound

(* Saving a charge from the call's copy. *)
LEMMA SaveOk ==
  ASSUME PullsOK, NEW r \in Runs, NEW status \in ChargeStatus, SaveCharge(r, status),
         UNCHANGED txs
  PROVE  charge' \in [Periods -> Charge] /\ \A p \in Periods : charge'[p].step <= Len(txs)
<1> DEFINE c == IF status # "pending" THEN [NoCharge EXCEPT !.status = status]
                ELSE [status |-> status, step |-> run[r].step,
                      lease |-> IF run[r].leased THEN r ELSE NoRun]
<1>1. run[r] \in Run /\ run[r].step <= Len(txs) /\ Len(txs) \in Nat
  BY LenProperties DEF PullsOK, Sound
<1>2. c \in Charge /\ c.step <= Len(txs)
  BY <1>1, NoChargeOk DEF Charge, Run
<1>3. run[r].at \in Periods
  BY <1>1 DEF Run
<1>4. charge' = [charge EXCEPT ![run[r].at] = c]
  BY DEF SaveCharge
<1> HIDE DEF c
<1> QED
  BY <1>2, <1>3, <1>4 DEF PullsOK

LEMMA SaveAndBecomeOk ==
  ASSUME PullsOK, NEW r \in Runs, NEW status \in ChargeStatus, SaveCharge(r, status),
         UNCHANGED txs, NEW l \in Run, Sound(l), Become(r, l)
  PROVE  PullsOK'
<1>1. charge' \in [Periods -> Charge] /\ \A p \in Periods : charge'[p].step <= Len(txs)
  BY SaveOk
<1> QED
  BY <1>1 DEF PullsOK, Become, Sound

(* One pull more. *)
LEMMA BroadcastOk ==
  ASSUME RowsOK, PullsOK, NEW r \in Runs, Broadcast(r), UNCHANGED charge,
         NEW l \in Run, l.step <= Len(txs) + 1,
         l.pc \notin {"patch", "save"}, Become(r, l)
  PROVE  PullsOK'
<1> DEFINE t == [period |-> run[r].at, status |-> "sent"]
<1>1. t \in Tx
  BY DEF PullsOK, Run, Tx
<1>2. txs' = Append(txs, t) /\ txs \in Seq(Tx)
  BY DEF Broadcast, PullsOK
<1> HIDE DEF t
<1>3. txs' \in Seq(Tx) /\ Len(txs') = Len(txs) + 1 /\ Len(txs) \in Nat
  BY <1>1, <1>2, LenProperties, AppendProperties
<1>4. \A p \in Periods : charge[p].step \in Nat
  BY DEF PullsOK, Charge
<1>5. \A q \in Runs : run[q].step \in Nat
  BY DEF PullsOK, Run
<1>6. l.step \in Nat
  BY DEF Run
<1> QED
  BY <1>3, <1>4, <1>5, <1>6 DEF PullsOK, Become, Sound

LEMMA SucceededFinite == IsFiniteSet(Succeeded)
<1>1. IsFiniteSet(0..MaxPeriod)
  BY SizesAssumption, FS_Interval
<1> QED
  BY <1>1, FS_Subset DEF Succeeded, Periods

LEMMA StartedOk == [NoDunning EXCEPT !.status = "active"] \in Dunning
  BY NoDunningOk DEF Dunning

LEMMA AttemptOk ==
  ASSUME NEW d \in Dunning, NEW ok \in BOOLEAN PROVE Attempt(d, ok) \in Dunning
<1>1. \A st \in {"recovered", "exhausted"} : [NoDunning EXCEPT !.status = st] \in Dunning
  BY NoDunningOk DEF Dunning
<1>2. d.attempt \in 0..Attempts
  BY DEF Dunning
<1> QED
  BY <1>1, <1>2, SizesAssumption DEF Attempt, Dunning

LEMMA MergedOk ==
  ASSUME NEW s \in Sub, NEW l \in Run, l.then \in Outcome
  PROVE  Merged(s, l) \in Sub
<1>1. MaxOf(l.seen, l.at) \in Reached
  BY Zero DEF MaxOf, Run
<1> QED
  BY <1>1 DEF Merged, Sub, Outcome

LEMMA BroadcastChanges ==
  ASSUME NEW r \in Runs, txs \in Seq(Tx), Len(txs) \in Nat, run[r].at \in Periods, Broadcast(r)
  PROVE  txs' # txs
<1> DEFINE t == [period |-> run[r].at, status |-> "sent"]
<1>1. t \in Tx
  BY DEF Tx
<1>2. txs' = Append(txs, t)
  BY DEF Broadcast
<1> HIDE DEF t
<1> QED
  BY <1>1, <1>2, AppendProperties

LEMMA TypeNext == TypeOK /\ [Next]_vars => TypeOK'
<1> SUFFICES ASSUME RowsOK, PullsOK, [Next]_vars PROVE RowsOK' /\ PullsOK'
  BY DEF TypeOK
<1> USE DEF edits, chain
<1>0. Len(txs) \in Nat /\ \A r \in Runs : run[r] \in Run /\ Sound(run[r]) /\ run[r].step <= Len(txs)
  BY LenProperties DEF PullsOK, Sound
<1>1. CASE GrantRead
  <2>1. RowsOK'
    BY <1>1, SizesAssumption DEF GrantRead, RowsOK
  <2>2. PullsOK'
    BY <1>1, StillOk DEF GrantRead
  <2> QED
    BY <2>1, <2>2
<1>2. ASSUME NEW r \in Runs, GrantSave(r) PROVE RowsOK' /\ PullsOK'
  <2>1. RowsOK'
    BY <1>2, NewSubOk DEF GrantSave, RowsOK, NewSub, Sub
  <2>2. PullsOK'
    BY <1>2, GoOk, Words DEF GrantSave
  <2> QED
    BY <2>1, <2>2
<1>3. CASE CancelRead
  <2>1. RowsOK'
    BY <1>3, BoundsAssumption DEF CancelRead, RowsOK
  <2>2. PullsOK'
    BY <1>3, StillOk DEF CancelRead
  <2> QED
    BY <2>1, <2>2
<1>4. CASE CancelSave
  <2>1. RowsOK'
    BY <1>4, NewSubOk DEF CancelSave, RowsOK, Sub
  <2>2. PullsOK'
    BY <1>4, StillOk DEF CancelSave
  <2> QED
    BY <2>1, <2>2
<1>5. CASE CancelCore
  <2>1. RowsOK'
    BY <1>5, NewSubOk DEF CancelCore, RowsOK, Access, NoCancel
  <2>2. PullsOK'
    BY <1>5, StillOk DEF CancelCore
  <2> QED
    BY <2>1, <2>2
<1>6. ASSUME NEW r \in Runs, Call(r) PROVE RowsOK' /\ PullsOK'
  <2>1. RowsOK'
    BY <1>6 DEF Call, RowsOK
  <2>2. PullsOK'
    BY <1>6, GoOk, Words DEF Call
  <2> QED
    BY <2>1, <2>2
<1>7. ASSUME NEW r \in Runs, Start(r) PROVE RowsOK' /\ PullsOK'
  <2>1. RowsOK'
    BY <1>7 DEF Start, RowsOK
  <2>2. PullsOK'
    <3>1. CASE End(r)
      BY <1>7, <3>1, EndOk DEF Start
    <3>2. CASE ~End(r)
      <4> DEFINE l == [Rest EXCEPT !.at = current, !.seen = sub.paidThrough]
                 m == IF sub.cancelAtPeriodEnd THEN [l EXCEPT !.pc = "patch", !.then = "canceled"]
                      ELSE [l EXCEPT !.pc = IF sub.status = "past_due" THEN "wait" ELSE "claim"]
      <4>1. l \in Run /\ l.step = 0
        BY RestOk DEF RowsOK, Run, Sub
      <4>2. Become(r, m)
        BY <1>7, <3>2 DEF Start
      <4> HIDE DEF l
      <4>3. m \in Run /\ Sound(m)
        <5>1. m \in Run
          <6>1. /\ {"patch", "wait", "claim"} \subseteq Stage /\ "canceled" \in Course
                /\ l \in Run
            BY <4>1, Words
          <6>2. [l EXCEPT !.pc = "patch", !.then = "canceled"] \in Run
            BY <6>1, UpdateOk
          <6>3. \A pc \in {"wait", "claim"} : [l EXCEPT !.pc = pc] \in Run
            BY <6>1 DEF Run
          <6> QED
            BY <6>2, <6>3
        <5>2. Sound(m)
          BY <1>0, <4>1 DEF Run, Sound, Outcome
        <5> QED
          BY <5>1, <5>2
      <4> HIDE DEF m
      <4> QED
        BY <1>7, <1>0, <4>2, <4>3, BecomeOk DEF Start
    <3> QED
      BY <3>1, <3>2
  <2> QED
    BY <2>1, <2>2
<1>8. ASSUME NEW r \in Runs, WaitForRetry(r) PROVE RowsOK' /\ PullsOK'
  <2>1. RowsOK'
    BY <1>8 DEF WaitForRetry, RowsOK
  <2>2. PullsOK'
    BY <1>8, GoOk, EndOk, Words DEF WaitForRetry
  <2> QED
    BY <2>1, <2>2
<1>9. ASSUME NEW r \in Runs, ClaimCharge(r) PROVE RowsOK' /\ PullsOK'
  <2>1. RowsOK'
    BY <1>9 DEF ClaimCharge, RowsOK
  <2>2. PullsOK'
    <3> DEFINE l == run[r]
               c == charge[l.at]
    <3>1. l \in Run /\ l.at \in Periods /\ l.step <= Len(txs)
      BY <1>0, Words DEF Run
    <3>2. c \in Charge /\ c.step <= Len(txs)
      BY <3>1 DEF PullsOK
    <3>3. ASSUME Claimable(c) PROVE PullsOK'
      <4> DEFINE d == [status |-> "pending", step |-> ClaimedStep(c), lease |-> r]
                 m == [l EXCEPT !.step = ClaimedStep(c), !.leased = TRUE,
                                !.pc = IF l.at >= Covered THEN "decline" ELSE "list"]
      <4>1. charge' = [charge EXCEPT ![l.at] = d] /\ Become(r, m) /\ txs' = txs
        BY <1>9, <3>3 DEF ClaimCharge, Claimable
      <4>2. ClaimedStep(c) \in Nat /\ ClaimedStep(c) <= Len(txs)
        BY <1>0, Words, <3>2 DEF ClaimedStep, Charge
      <4>3. d \in Charge /\ d.step <= Len(txs)
        BY <4>2 DEF Charge, ChargeStatus
      <4>4. m \in Run /\ Sound(m)
        BY <1>0, <3>1, <4>2, Words DEF Run, Sound
      <4> HIDE DEF d, m
      <4> QED
        BY <3>1, <4>1, <4>3, <4>4 DEF PullsOK, Become, Sound
    <3>4. ASSUME ~Claimable(c), c.status = "succeeded" PROVE PullsOK'
      <4> DEFINE m == [l EXCEPT !.pc = "patch", !.then = "paid"]
      <4>1. m \in Run /\ Sound(m)
        BY <1>0, <3>1, Words DEF Run, Sound, Outcome
      <4>2. Become(r, m) /\ UNCHANGED <<txs, charge>>
        BY <1>9, <3>4 DEF ClaimCharge
      <4> HIDE DEF m
      <4> QED
        BY <4>1, <4>2, BecomeOk
    <3>5. ASSUME ~Claimable(c), c.status # "succeeded" PROVE PullsOK'
      <4>1. End(r) /\ UNCHANGED <<txs, charge>>
        BY <1>9, <3>5 DEF ClaimCharge
      <4> QED
        BY <4>1, EndOk
    <3> QED
      BY <3>3, <3>4, <3>5
  <2> QED
    BY <2>1, <2>2
<1>10. ASSUME NEW r \in Runs, ListCharges(r) PROVE RowsOK' /\ PullsOK'
  <2>1. RowsOK'
    BY <1>10 DEF ListCharges, RowsOK
  <2>2. PullsOK'
    <3> DEFINE n == Cardinality(Succeeded \ {run[r].at})
               m == [run[r] EXCEPT !.prior = n, !.inTry = TRUE,
                                   !.pc = IF run[r].step = 0 THEN "allowance" ELSE "receipt"]
    <3>1. n \in Nat
      BY SucceededFinite, FS_Difference, FS_CardinalityType
    <3>2. Become(r, m) /\ UNCHANGED <<txs, charge>>
      BY <1>10 DEF ListCharges
    <3> HIDE DEF n
    <3>3. m \in Run /\ Sound(m)
      BY <1>0, Words, <3>1 DEF Run, Sound
    <3> HIDE DEF m
    <3> QED
      BY <3>2, <3>3, BecomeOk
  <2> QED
    BY <2>1, <2>2
<1>11. ASSUME NEW r \in Runs, ReadReceipt(r) PROVE RowsOK' /\ PullsOK'
  <2>1. RowsOK'
    BY <1>11 DEF ReadReceipt, RowsOK
  <2>2. PullsOK'
    BY <1>11, GoOk, EndOk, Words DEF ReadReceipt
  <2> QED
    BY <2>1, <2>2
<1>12. ASSUME NEW r \in Runs, ReadAllowance(r) PROVE RowsOK' /\ PullsOK'
  <2>1. RowsOK'
    BY <1>12 DEF ReadAllowance, RowsOK
  <2>2. PullsOK'
    <3> DEFINE m == [run[r] EXCEPT !.prior = 0,
                                   !.pc = IF Reconciled(run[r]) THEN "succeed"
                                          ELSE IF allowance < 1 THEN "decline" ELSE "send"]
    <3>1. m \in Run /\ Sound(m)
      BY <1>0, Words DEF Run, Sound
    <3>2. Become(r, m) /\ UNCHANGED <<txs, charge>>
      BY <1>12 DEF ReadAllowance
    <3> HIDE DEF m
    <3> QED
      BY <3>1, <3>2, BecomeOk
  <2> QED
    BY <2>1, <2>2
<1>13. ASSUME NEW r \in Runs, Send(r) PROVE RowsOK' /\ PullsOK'
  <2>1. RowsOK'
    BY <1>13 DEF Send, RowsOK, Broadcast
  <2>2. PullsOK'
    <3>1. CASE Broadcast(r)
      <4> DEFINE m == [run[r] EXCEPT !.pc = "record", !.step = Len(txs) + 1]
      <4>1. m \in Run /\ m.step <= Len(txs) + 1 /\ m.pc \notin {"patch", "save"}
        <5>1. m \in Run
          <6>1. Len(txs) + 1 \in Nat /\ "record" \in Stage /\ "paid" \in Course /\ run[r] \in Run
            BY <1>0, Words
          <6> QED
            BY <6>1, UpdateOk
        <5>2. m.step <= Len(txs) + 1 /\ m.pc \notin {"patch", "save"}
          BY <1>0 DEF Run
        <5> QED
          BY <5>1, <5>2
      <4>2. txs' # txs
        BY <3>1, <1>0, BroadcastChanges DEF PullsOK, Run
      <4>3. Become(r, m) /\ UNCHANGED charge
        BY <1>13, <4>2 DEF Send
      <4> HIDE DEF m
      <4> QED
        BY <3>1, <4>1, <4>3, BroadcastOk
    <3>2. CASE ~Broadcast(r)
      BY <1>13, <3>2, GoOk, Words DEF Send
    <3> QED
      BY <3>1, <3>2
  <2> QED
    BY <2>1, <2>2
<1>14. ASSUME NEW r \in Runs, RecordStep(r) PROVE RowsOK' /\ PullsOK'
  <2>1. RowsOK'
    BY <1>14 DEF RecordStep, RowsOK
  <2>2. PullsOK'
    <3> DEFINE m == [run[r] EXCEPT !.pc = "confirm"]
    <3>1. m \in Run /\ Sound(m)
      BY <1>0, Words DEF Run, Sound, Outcome
    <3>2. Become(r, m) /\ SaveCharge(r, "pending") /\ UNCHANGED txs
      BY <1>14 DEF RecordStep, Go
    <3>3. "pending" \in ChargeStatus
      BY DEF ChargeStatus
    <3> HIDE DEF m
    <3> QED
      BY <3>1, <3>2, <3>3, SaveAndBecomeOk
  <2> QED
    BY <2>1, <2>2
<1>15. ASSUME NEW r \in Runs, Confirm(r) PROVE RowsOK' /\ PullsOK'
  <2>1. RowsOK'
    BY <1>15 DEF Confirm, RowsOK
  <2>2. PullsOK'
    BY <1>15, GoOk, EndOk, Words DEF Confirm
  <2> QED
    BY <2>1, <2>2
<1>16. ASSUME NEW r \in Runs, SaveSucceeded(r) PROVE RowsOK' /\ PullsOK'
  <2>1. RowsOK'
    BY <1>16 DEF SaveSucceeded, RowsOK
  <2>2. PullsOK'
    <3> DEFINE m == [run[r] EXCEPT !.pc = "patch", !.then = "paid", !.step = 0, !.leased = FALSE]
    <3>1. m \in Run /\ Sound(m)
      <4>1. m \in Run
        BY <1>0, Words, UpdateOk
      <4>2. Sound(m)
        BY <1>0 DEF Run, Sound, Outcome
      <4> QED
        BY <4>1, <4>2
    <3>2. Become(r, m) /\ SaveCharge(r, "succeeded") /\ UNCHANGED txs
      BY <1>16 DEF SaveSucceeded, Go
    <3>3. "succeeded" \in ChargeStatus
      BY DEF ChargeStatus
    <3> HIDE DEF m
    <3> QED
      BY <3>1, <3>2, <3>3, SaveAndBecomeOk
  <2> QED
    BY <2>1, <2>2
<1>17. ASSUME NEW r \in Runs, SaveFailed(r) PROVE RowsOK' /\ PullsOK'
  <2>1. RowsOK'
    BY <1>17 DEF SaveFailed, RowsOK
  <2>2. PullsOK'
    <3> DEFINE m == [Rest EXCEPT !.pc = "dunning", !.at = run[r].at, !.then = "declined"]
    <3>1. m \in Run /\ Sound(m)
      <4>1. m \in Run
        BY <1>0, Words, RestOk, UpdateOk DEF Run
      <4>2. Sound(m)
        BY <1>0, RestOk DEF Run, Sound
      <4> QED
        BY <4>1, <4>2
    <3>2. Become(r, m) /\ SaveCharge(r, "failed") /\ UNCHANGED txs
      BY <1>17 DEF SaveFailed, Go
    <3>3. "failed" \in ChargeStatus
      BY DEF ChargeStatus
    <3> HIDE DEF m
    <3> QED
      BY <3>1, <3>2, <3>3, SaveAndBecomeOk
  <2> QED
    BY <2>1, <2>2
<1>18a. ASSUME NEW r \in Runs, GetDunning(r) PROVE RowsOK' /\ PullsOK'
  <2>1. RowsOK'
    BY <1>18a DEF GetDunning, RowsOK
  <2>2. PullsOK'
    <3>1. CASE dunning.status = "active"
      BY <1>18a, <3>1, GoOk, Words DEF GetDunning
    <3>2. CASE dunning.status # "active" /\ run[r].then = "paid"
      BY <1>18a, <3>2, GoOk, Words DEF GetDunning
    <3>3. CASE dunning.status # "active" /\ run[r].then # "paid"
      BY <1>18a, <3>3, GoOk, Words DEF GetDunning
    <3> QED
      BY <3>1, <3>2, <3>3
  <2> QED
    BY <2>1, <2>2
<1>18b. ASSUME NEW r \in Runs, FindActive(r) PROVE RowsOK' /\ PullsOK'
  <2>1. RowsOK'
    BY <1>18b DEF FindActive, RowsOK
  <2>2. PullsOK'
    BY <1>18b, GoOk, EndOk, Words DEF FindActive
  <2> QED
    BY <2>1, <2>2
<1>18c. ASSUME NEW r \in Runs, StartDunning(r) PROVE RowsOK' /\ PullsOK'
  <2>1. RowsOK'
    BY <1>18c, StartedOk DEF StartDunning, RowsOK
  <2>2. PullsOK'
    BY <1>18c, GoOk, EndOk, Words DEF StartDunning
  <2> QED
    BY <2>1, <2>2
<1>18d. ASSUME NEW r \in Runs, FindCampaign(r) PROVE RowsOK' /\ PullsOK'
  <2>1. RowsOK'
    BY <1>18d DEF FindCampaign, RowsOK
  <2>2. PullsOK'
    <3>1. CASE dunning.status = "active"
      <4> DEFINE m == [run[r] EXCEPT !.pc = "attempt", !.dun = dunning]
      <4>1. m \in Run /\ Sound(m)
        BY <1>0, Words DEF Run, Sound, RowsOK
      <4>2. Become(r, m) /\ UNCHANGED <<txs, charge>>
        BY <1>18d, <3>1 DEF FindCampaign
      <4> HIDE DEF m
      <4> QED
        BY <4>1, <4>2, BecomeOk
    <3>2. CASE dunning.status # "active"
      BY <1>18d, <3>2, GoOk, EndOk, Words DEF FindCampaign
    <3> QED
      BY <3>1, <3>2
  <2> QED
    BY <2>1, <2>2
<1>19. ASSUME NEW r \in Runs, RecordAttempt(r) PROVE RowsOK' /\ PullsOK'
  <2>1. RowsOK'
    BY <1>19, <1>0, AttemptOk DEF RecordAttempt, RowsOK, Run
  <2>2. PullsOK'
    <3> DEFINE d == Attempt(run[r].dun, run[r].then = "paid")
               m == IF run[r].then = "paid" THEN [run[r] EXCEPT !.pc = "core", !.dun = NoDunning]
                    ELSE [run[r] EXCEPT !.pc = "patch", !.dun = NoDunning,
                                        !.then = IF d.status = "exhausted" THEN "suspended" ELSE "past_due"]
    <3>1. Become(r, m) /\ UNCHANGED <<txs, charge>>
      BY <1>19 DEF RecordAttempt
    <3> HIDE DEF d
    <3>2. m \in Run /\ Sound(m)
      BY <1>0, Words, NoDunningOk DEF Run, Sound, Outcome
    <3> HIDE DEF m
    <3> QED
      BY <3>1, <3>2, BecomeOk
  <2> QED
    BY <2>1, <2>2
<1>20. ASSUME NEW r \in Runs, ReadForPatch(r) PROVE RowsOK' /\ PullsOK'
  <2>1. RowsOK'
    BY <1>20 DEF ReadForPatch, RowsOK
  <2>2. PullsOK'
    <3> DEFINE m == [run[r] EXCEPT !.pc = "save", !.patched = sub]
    <3>1. m \in Run /\ Sound(m)
      <4>1. m \in Run
        BY <1>0, Words, UpdateOk DEF RowsOK
      <4>2. Sound(m)
        BY <1>0, <1>20 DEF ReadForPatch, Run, Sound
      <4> QED
        BY <4>1, <4>2
    <3>2. Become(r, m) /\ UNCHANGED <<txs, charge>>
      BY <1>20 DEF ReadForPatch
    <3> HIDE DEF m
    <3> QED
      BY <3>1, <3>2, BecomeOk
  <2> QED
    BY <2>1, <2>2
<1>21. ASSUME NEW r \in Runs, PatchSubscription(r) PROVE RowsOK' /\ PullsOK'
  <2>1. RowsOK'
    BY <1>21, <1>0, MergedOk DEF PatchSubscription, RowsOK, Run, Sound
  <2>2. PullsOK'
    <3> DEFINE m == [run[r] EXCEPT !.patched = NewSub,
                                   !.pc = IF run[r].then = "paid" THEN "dunning" ELSE "core"]
    <3>1. m \in Run /\ Sound(m)
      BY <1>0, Words, NewSubOk DEF Run, Sound
    <3>2. (End(r) \/ Become(r, m)) /\ UNCHANGED <<txs, charge>>
      BY <1>21 DEF PatchSubscription
    <3> HIDE DEF m
    <3> QED
      BY <3>1, <3>2, BecomeOk, EndOk
  <2> QED
    BY <2>1, <2>2
<1>22. ASSUME NEW r \in Runs, HookCore(r) PROVE RowsOK' /\ PullsOK'
  <2>1. RowsOK'
    BY <1>22 DEF HookCore, RowsOK, Access
  <2>2. PullsOK'
    <3> DEFINE m == [run[r] EXCEPT !.pc = "entitle",
                                   !.delivers = access.core \in {"none", "expired"} \/ run[r].at = 0]
    <3>1. m \in Run /\ Sound(m)
      BY <1>0, Words DEF Run, Sound
    <3>2. (End(r) \/ Become(r, m)) /\ UNCHANGED <<txs, charge>>
      BY <1>22 DEF HookCore
    <3> HIDE DEF m
    <3> QED
      BY <3>1, <3>2, BecomeOk, EndOk
  <2> QED
    BY <2>1, <2>2
<1>23. ASSUME NEW r \in Runs, HookEntitlement(r) PROVE RowsOK' /\ PullsOK'
  <2>1. RowsOK'
    BY <1>23, <1>0, Zero DEF HookEntitlement, RowsOK, Access, Run
  <2>2. PullsOK'
    BY <1>23, EndOk DEF HookEntitlement
  <2> QED
    BY <2>1, <2>2
<1>24. ASSUME NEW r \in Runs, Throw(r) PROVE RowsOK' /\ PullsOK'
  <2>1. RowsOK'
    BY <1>24, BoundsAssumption DEF Throw, RowsOK, Fault
  <2>2. PullsOK'
    BY <1>24, GoOk, Words DEF Throw
  <2> QED
    BY <2>1, <2>2
<1>25. ASSUME NEW r \in Runs, Crash(r) PROVE RowsOK' /\ PullsOK'
  <2>1. RowsOK'
    BY <1>25, BoundsAssumption DEF Crash, RowsOK, Fault
  <2>2. PullsOK'
    BY <1>25, EndOk DEF Crash
  <2> QED
    BY <2>1, <2>2
<1>26. ASSUME NEW r \in Runs, SendLost(r) PROVE RowsOK' /\ PullsOK'
  <2>1. RowsOK'
    BY <1>26, BoundsAssumption DEF SendLost, RowsOK, Fault, Broadcast
  <2>2. PullsOK'
    <3> DEFINE m == [run[r] EXCEPT !.pc = "decline"]
    <3>1. m \in Run /\ m.step <= Len(txs) + 1 /\ m.pc \notin {"patch", "save"}
      BY <1>0, Words DEF Run, Sound
    <3>2. Become(r, m) /\ Broadcast(r) /\ UNCHANGED charge
      BY <1>26 DEF SendLost, Go
    <3> HIDE DEF m
    <3> QED
      BY <3>1, <3>2, BroadcastOk
  <2> QED
    BY <2>1, <2>2
<1>27. ASSUME NEW p \in Periods, LeaseEnds(p) PROVE RowsOK' /\ PullsOK'
  <2>1. RowsOK'
    BY <1>27, BoundsAssumption DEF LeaseEnds, RowsOK, Fault
  <2>2. PullsOK'
    <3> DEFINE q == charge[p].lease
               c == [charge[p] EXCEPT !.lease = NoRun]
               m == [run[q] EXCEPT !.leased = FALSE]
    <3>1. charge[p] \in Charge /\ charge[p].step <= Len(txs)
      BY DEF PullsOK
    <3>2. c \in Charge /\ c.step <= Len(txs) /\ q \in Runs
      BY <1>27, <3>1 DEF LeaseEnds, Charge
    <3>3. m \in Run /\ Sound(m)
      BY <1>0, <3>2 DEF Run, Sound
    <3>4. charge' = [charge EXCEPT ![p] = c] /\ (Become(q, m) \/ UNCHANGED run) /\ UNCHANGED txs
      BY <1>27, <3>1 DEF LeaseEnds, Charge
    <3> HIDE DEF q, c, m
    <3> QED
      BY <3>2, <3>3, <3>4 DEF PullsOK, Become, Sound
  <2> QED
    BY <2>1, <2>2
<1>28. ASSUME NEW i \in DOMAIN txs, Mine(i) PROVE RowsOK' /\ PullsOK'
  <2>1. RowsOK'
    BY <1>28, SizesAssumption DEF Mine, RowsOK
  <2>2. PullsOK'
    <3>1. PICK st \in {"mined", "reverted"} : txs' = [txs EXCEPT ![i].status = st]
      BY <1>28 DEF Mine
    <3>2. txs[i] \in Tx
      BY ElementOfSeq, LenProperties DEF PullsOK
    <3> DEFINE t == [txs[i] EXCEPT !.status = st]
    <3>3. t \in Tx
      BY <3>2 DEF Tx
    <3>4. txs' = [txs EXCEPT ![i] = t]
      BY <3>1
    <3> HIDE DEF t
    <3>5. txs' \in Seq(Tx) /\ Len(txs') = Len(txs)
      BY <3>3, <3>4, ExceptSeq, LenProperties DEF PullsOK
    <3> QED
      BY <1>28, <3>5 DEF Mine, PullsOK, Sound
  <2> QED
    BY <2>1, <2>2
<1>29. CASE RetryIsDue
  <2>1. RowsOK'
    BY <1>29 DEF RetryIsDue, RowsOK, Dunning
  <2>2. PullsOK'
    BY <1>29, StillOk DEF RetryIsDue
  <2> QED
    BY <2>1, <2>2
<1>30. CASE Revoke
  <2>1. RowsOK'
    BY <1>30, SizesAssumption DEF Revoke, RowsOK
  <2>2. PullsOK'
    BY <1>30, StillOk DEF Revoke
  <2> QED
    BY <2>1, <2>2
<1>31. CASE NextPeriod
  <2>1. RowsOK'
    BY <1>31, SizesAssumption, BoundsAssumption DEF NextPeriod, RowsOK, Fault, Periods
  <2>2. PullsOK'
    BY <1>31, StillOk DEF NextPeriod
  <2> QED
    BY <2>1, <2>2
<1>32. CASE UNCHANGED vars
  <2>1. RowsOK'
    BY <1>32 DEF vars, RowsOK
  <2>2. PullsOK'
    BY <1>32, StillOk DEF vars
  <2> QED
    BY <2>1, <2>2
<1> QED
  BY <1>1, <1>2, <1>3, <1>4, <1>5, <1>6, <1>7, <1>8, <1>9, <1>10, <1>11, <1>12, <1>13, <1>14, <1>15, <1>16,
      <1>17, <1>18a, <1>18b, <1>18c, <1>18d,
     <1>19, <1>20, <1>21, <1>22, <1>23, <1>24, <1>25, <1>26, <1>27, <1>28, <1>29, <1>30, <1>31, <1>32 DEF Next, Step

(***************************************************************************)
(* Rows, charges, calls and pulls keep their types, and no charge or call  *)
(* names a pull that was not broadcast.                                    *)
(***************************************************************************)
THEOREM BillingTypeCorrect == Spec => []TypeOK
<1>1. Init => TypeOK
  BY TypeInit
<1>2. TypeOK /\ [Next]_vars => TypeOK'
  BY TypeNext
<1> QED
  BY <1>1, <1>2, PTL DEF Spec

(* A row read as canceled is merged as canceled. *)
LEMMA MergedKeepsCancel ==
  ASSUME NEW s \in Sub, NEW l, s.status = "canceled"
  PROVE  Merged(s, l).status = "canceled"
  BY DEF Merged, Sub

LEMMA CancelStep ==
  ASSUME TypeOK, [Next]_vars, sub.status = "canceled", sub'.status # "canceled"
  PROVE  \/ grant = "read"
         \/ cancel.pc = "save" /\ cancel.seen.status # "canceled"
         \/ \E r \in Runs : run[r].pc = "save" /\ run[r].patched.status # "canceled"
<1> DEFINE Excused == \/ grant = "read"
                      \/ cancel.pc = "save" /\ cancel.seen.status # "canceled"
                      \/ \E r \in Runs : run[r].pc = "save" /\ run[r].patched.status # "canceled"
<1>1. ASSUME NEW r \in Runs, GrantSave(r) PROVE Excused
  BY <1>1 DEF GrantSave
<1>2. ASSUME CancelSave PROVE Excused
  <2>1. cancel.seen \in Sub
    BY DEF TypeOK, RowsOK
  <2>2. cancel.seen.status = "canceled" => sub'.status = "canceled"
    BY <1>2, <2>1 DEF CancelSave, Sub
  <2> QED
    BY <1>2, <2>2 DEF CancelSave
<1>3. ASSUME NEW r \in Runs, PatchSubscription(r) PROVE Excused
  <2>1. run[r].patched \in Sub
    BY DEF TypeOK, PullsOK, Run
  <2>2. run[r].patched.status # "canceled"
    BY <1>3, <2>1, MergedKeepsCancel DEF PatchSubscription
  <2> QED
    BY <1>3, <2>2 DEF PatchSubscription
<1>4. ASSUME NEW r \in Runs, Step(r), ~PatchSubscription(r) PROVE sub' = sub
  BY <1>4 DEF Step, Start, WaitForRetry, ClaimCharge, ListCharges, ReadReceipt, ReadAllowance,
     Send, RecordStep, Confirm, SaveSucceeded, SaveFailed, GetDunning, FindActive,
     StartDunning, FindCampaign, RecordAttempt,
     ReadForPatch, HookCore, HookEntitlement
<1>5. ASSUME NEW r \in Runs, Call(r) \/ Throw(r) \/ Crash(r) \/ SendLost(r) PROVE sub' = sub
  BY <1>5 DEF Call, Throw, Crash, SendLost
<1>6. ASSUME \/ GrantRead \/ CancelRead \/ CancelCore \/ RetryIsDue \/ Revoke \/ NextPeriod
             \/ UNCHANGED vars
             \/ \E p \in Periods : LeaseEnds(p)
             \/ \E i \in DOMAIN txs : Mine(i)
      PROVE  sub' = sub
  BY <1>6 DEF GrantRead, CancelRead, CancelCore, RetryIsDue, Revoke, NextPeriod, vars,
     LeaseEnds, Mine
<1> QED
  BY <1>1, <1>2, <1>3, <1>4, <1>5, <1>6 DEF Next

(***************************************************************************)
(* The row of a canceled subscription comes back only by the save of a row *)
(* that was read before the cancel, however many calls run together.       *)
(***************************************************************************)
THEOREM CancelKept == Spec => CanceledStays
<1>1. TypeOK /\ [Next]_vars =>
        [sub.status = "canceled" /\ sub'.status # "canceled" =>
           \/ grant = "read"
           \/ cancel.pc = "save" /\ cancel.seen.status # "canceled"
           \/ \E r \in Runs : run[r].pc = "save" /\ run[r].patched.status # "canceled"]_vars
  BY CancelStep
<1> QED
  BY <1>1, BillingTypeCorrect, PTL DEF Spec, CanceledStays
-----------------------------------------------------------------------------
(***************************************************************************)
(* PulledOnce.  A pull of a period spends a token, and a period has one    *)
(* token: the pulls broadcast for it that did not revert, the calls that   *)
(* may yet broadcast one, and the charge itself while the next claim of it *)
(* starts a new pull.  A call hands its token on; a fault makes at most    *)
(* two.                                                                    *)
(***************************************************************************)
Bit(b) == IF b THEN 1 ELSE 0
Reverted(t, i) == i \in DOMAIN t /\ t[i].status = "reverted"
Live(t, p) == {i \in DOMAIN t : t[i].period = p /\ t[i].status # "reverted"}

\* What a call goes through from the claim of a charge to its outcome.
HeldStages == {"list", "receipt", "record", "confirm"}
SettlesStages == {"list", "receipt", "confirm"}
ChargeStages == HeldStages \cup {"allowance", "send", "succeed", "decline"}

(* A call that may yet cause a pull no other token stands for ...          *)
Poised(l, t) ==
  \/ l.pc \in {"allowance", "send", "decline"}
  \/ l.pc \in {"list", "receipt"} /\ (l.step = 0 \/ ~l.leased \/ Reverted(t, l.step))
  \/ l.pc = "record" /\ Reverted(t, l.step)
  \/ l.pc = "confirm" /\ (~l.leased \/ Reverted(t, l.step))

(* ... and one that lost its lease and may record its pull over another's. *)
Overruns(l) == ~l.leased /\ l.pc \in {"list", "receipt", "allowance", "send", "record"}

PoisedAt(p) == {r \in Runs : run[r].at = p /\ Poised(run[r], txs)}
OverrunsAt(p) == {r \in Runs : run[r].at = p /\ Overruns(run[r])}
Owned(p) == charge[p].lease # NoRun /\ run[charge[p].lease].leased /\ run[charge[p].lease].at = p
Free(p) ==
  /\ ~Owned(p)
  /\ \/ charge[p].status \in {"none", "failed"}
     \/ charge[p].status = "pending" /\ (charge[p].step = 0 \/ Reverted(txs, charge[p].step))

Tokens(p) ==
  Cardinality(Live(txs, p)) + Cardinality(PoisedAt(p)) + Cardinality(OverrunsAt(p)) + Bit(Free(p))

(* Call r with its copy l, and the charge c of its period.                 *)
Kept(r, l, c) ==
  /\ l.pc \in {"receipt", "record", "confirm"} => l.step > 0
  /\ l.leased => l.pc \in ChargeStages
  /\ l.pc \in HeldStages \cup {"allowance", "send"} => l.at < Covered
  /\ l.leased /\ c.lease = r => c.status = "pending" /\ (l.pc \in SettlesStages => c.step = l.step)
  /\ l.leased /\ l.pc \in SettlesStages /\ l.step > 0 /\ c.step = l.step => c.lease = r
  /\ l.pc = "record" => c.step # l.step
Named(l, t) == l.pc \in HeldStages /\ l.step > 0 => t[l.step].period = l.at

(* A pull not recorded yet is known to its caller alone, and the one that  *)
(* is to be settled to a single holder of the lease.                       *)
Alone(r, l, q, m) ==
  /\ l.step > 0 /\ l.step = m.step
  /\ \/ l.pc = "record" /\ m.pc \in HeldStages
     \/ l.leased /\ m.leased /\ l.pc \in SettlesStages /\ m.pc \in SettlesStages
  => r = q
ChargeKept(p, c, t) ==
  /\ c.step > 0 => t[c.step].period = p /\ c.status = "pending"
  /\ c.lease # NoRun => c.status = "pending"

Counted(p) ==
  /\ IsFiniteSet(PoisedAt(p)) /\ IsFiniteSet(OverrunsAt(p))
  /\ Tokens(p) <= 1 + 2 * faults

PullInv ==
  /\ \A r \in Runs : Kept(r, run[r], charge[run[r].at]) /\ Named(run[r], txs)
  /\ \A r, q \in Runs : Alone(r, run[r], q, run[q])
  /\ \A p \in Periods : ChargeKept(p, charge[p], txs)
  /\ \A i \in DOMAIN txs : txs[i].period < Covered
  /\ \A p \in Periods : p < Covered => Counted(p)

(* One element comes or goes. *)
LEMMA Recount ==
  ASSUME NEW S, NEW T, NEW r, IsFiniteSet(S), \A x : x # r => (x \in T <=> x \in S)
  PROVE  /\ IsFiniteSet(T) /\ Cardinality(S) \in Nat /\ Cardinality(T) \in Nat
         /\ Cardinality(T) = Cardinality(S) - Bit(r \in S) + Bit(r \in T)
<1>0. Cardinality(S) \in Nat
  BY FS_CardinalityType
<1>1. CASE r \in S /\ r \in T
  <2>1. T = S
    BY <1>1
  <2> QED
    BY <1>0, <1>1, <2>1 DEF Bit
<1>2. CASE r \in S /\ r \notin T
  <2>1. T = S \ {r}
    BY <1>2
  <2>2. IsFiniteSet(T) /\ Cardinality(T) = Cardinality(S) - 1 /\ Cardinality(T) \in Nat
    BY <1>2, <2>1, FS_RemoveElement, FS_CardinalityType
  <2> QED
    BY <1>0, <1>2, <2>2 DEF Bit
<1>3. CASE r \notin S /\ r \in T
  <2>1. T = S \cup {r}
    BY <1>3
  <2>2. IsFiniteSet(T) /\ Cardinality(T) = Cardinality(S) + 1 /\ Cardinality(T) \in Nat
    BY <1>3, <2>1, FS_AddElement, FS_CardinalityType
  <2> QED
    BY <1>0, <1>3, <2>2 DEF Bit
<1>4. CASE r \notin S /\ r \notin T
  <2>1. T = S
    BY <1>4
  <2> QED
    BY <1>0, <1>4, <2>1 DEF Bit
<1> QED
  BY <1>1, <1>2, <1>3, <1>4

LEMMA LiveFinite ==
  ASSUME NEW t \in Seq(Tx), NEW p
  PROVE  IsFiniteSet(Live(t, p)) /\ Cardinality(Live(t, p)) \in Nat
<1>1. Len(t) \in Nat /\ DOMAIN t = 1..Len(t)
  BY LenProperties
<1>2. IsFiniteSet(1..Len(t))
  BY <1>1, FS_Interval
<1> QED
  BY <1>1, <1>2, FS_Subset, FS_CardinalityType DEF Live

(* A step of a call broadcasts nothing (w = 0), or one pull of period p.   *)
Grows(p, w) ==
  \/ w = 0 /\ txs' = txs
  \/ w = 1 /\ txs' = Append(txs, [period |-> p, status |-> "sent"])

LEMMA Growth ==
  ASSUME txs \in Seq(Tx), NEW p \in Periods, NEW w, Grows(p, w)
  PROVE  /\ w \in {0, 1} /\ DOMAIN txs = 1..Len(txs) /\ Len(txs) \in Nat
         /\ txs' \in Seq(Tx)
         /\ \A i \in 1..Len(txs) : txs'[i] = txs[i]
         /\ \A i : Reverted(txs', i) <=> Reverted(txs, i)
         /\ w = 1 => /\ txs'[Len(txs) + 1].period = p /\ Len(txs') = Len(txs) + 1
                     /\ DOMAIN txs' = 1..(Len(txs) + 1)
         /\ \A q : Cardinality(Live(txs', q)) = Cardinality(Live(txs, q)) + (IF q = p THEN w ELSE 0)
<1>0. Len(txs) \in Nat /\ DOMAIN txs = 1..Len(txs)
  BY LenProperties
<1>1. CASE w = 0 /\ txs' = txs
  <2>1. \A q : Cardinality(Live(txs, q)) \in Nat
    BY LiveFinite
  <2> QED
    BY <1>0, <1>1, <2>1
<1>2. CASE w = 1 /\ txs' = Append(txs, [period |-> p, status |-> "sent"])
  <2> DEFINE t == [period |-> p, status |-> "sent"]
             n == Len(txs) + 1
  <2>1. t \in Tx /\ t.period = p /\ t.status = "sent"
    BY DEF Tx
  <2>2. txs' = Append(txs, t)
    BY <1>2
  <2> HIDE DEF t
  <2>3. /\ txs' \in Seq(Tx) /\ Len(txs') = n /\ txs'[n] = t
        /\ \A i \in 1..Len(txs) : txs'[i] = txs[i]
    BY <2>1, <2>2, AppendProperties
  <2>4. DOMAIN txs' = 1..n
    BY <2>3, LenProperties
  <2>5. \A i : Reverted(txs', i) <=> Reverted(txs, i)
    BY <1>0, <2>1, <2>3, <2>4 DEF Reverted
  <2>6. ASSUME NEW q PROVE Cardinality(Live(txs', q)) = Cardinality(Live(txs, q)) + (IF q = p THEN w ELSE 0)
    <3>1. \A x : x # n => (x \in Live(txs', q) <=> x \in Live(txs, q))
      BY <1>0, <2>3, <2>4 DEF Live
    <3>2. n \notin Live(txs, q) /\ (n \in Live(txs', q) <=> q = p)
      BY <1>0, <2>1, <2>3, <2>4 DEF Live
    <3>3. IsFiniteSet(Live(txs, q))
      BY LiveFinite
    <3>4. /\ Cardinality(Live(txs', q)) = Cardinality(Live(txs, q)) - Bit(n \in Live(txs, q)) + Bit(n \in Live(txs', q))
          /\ Cardinality(Live(txs, q)) \in Nat
      BY <3>1, <3>3, Recount
    <3> QED
      BY <1>2, <3>2, <3>4 DEF Bit
  <2> QED
    BY <1>0, <1>2, <2>1, <2>3, <2>4, <2>5, <2>6
<1> QED
  BY <1>1, <1>2 DEF Grows

LEMMA PullInit == Init => PullInv
<1> SUFFICES ASSUME Init PROVE PullInv
  OBVIOUS
<1>1. /\ txs = << >> /\ DOMAIN txs = {} /\ faults = 0
      /\ \A r \in Runs : run[r] = Rest
      /\ \A p \in Periods : charge[p] = NoCharge
  BY DEF Init
<1>2. ASSUME NEW p \in Periods PROVE Counted(p)
  <2>1. PoisedAt(p) = {} /\ OverrunsAt(p) = {} /\ Live(txs, p) = {}
    BY <1>1 DEF PoisedAt, OverrunsAt, Live, Poised, Overruns, Rest
  <2>2. Bit(Free(p)) \in {0, 1}
    BY DEF Bit
  <2> QED
    BY <1>1, <2>1, <2>2, FS_EmptySet DEF Counted, Tokens
<1>3. \A p \in Periods : ChargeKept(p, charge[p], txs)
  BY <1>1 DEF ChargeKept, NoCharge
<1>4. \A r \in Runs : Kept(r, run[r], charge[run[r].at]) /\ Named(run[r], txs)
  BY <1>1 DEF Kept, Named, Rest, ChargeStages, HeldStages, SettlesStages
<1>5. \A r, q \in Runs : Alone(r, run[r], q, run[q])
  BY <1>1 DEF Alone, Rest
<1> QED
  BY <1>1, <1>2, <1>3, <1>4, <1>5 DEF PullInv

(* What a step of call r needs to keep PullInv: it moves to l, saves c as  *)
(* the charge of period p and broadcasts w pulls.                          *)
Balance(r, l, p, w) ==
  w + Bit(l.at = p /\ Poised(l, txs')) + Bit(l.at = p /\ Overruns(l)) + Bit(Free(p)')
    <= Bit(run[r].at = p /\ Poised(run[r], txs)) + Bit(run[r].at = p /\ Overruns(run[r]))
       + Bit(Free(p)) + 2 * (faults' - faults)

LEMMA SamePoised ==
  ASSUME NEW l, \A i : Reverted(txs', i) <=> Reverted(txs, i)
  PROVE  Poised(l, txs') <=> Poised(l, txs)
  BY DEF Poised

LEMMA BitIs == \A b : Bit(b) \in {0, 1}
  BY DEF Bit

(* The tokens of a period before and after a step of call r.               *)
LEMMA Tally ==
  ASSUME PullsOK, NEW r \in Runs, NEW l \in Run, NEW p \in Periods, NEW w, NEW q \in Periods,
         run' = [run EXCEPT ![r] = l], Grows(p, w), Counted(q)
  PROVE  /\ IsFiniteSet(PoisedAt(q)') /\ IsFiniteSet(OverrunsAt(q)')
         /\ Tokens(q) \in Nat /\ Tokens(q)' \in Nat
         /\ Tokens(q)' = Tokens(q) + (IF q = p THEN w ELSE 0)
              - Bit(run[r].at = q /\ Poised(run[r], txs)) + Bit(l.at = q /\ Poised(l, txs'))
              - Bit(run[r].at = q /\ Overruns(run[r])) + Bit(l.at = q /\ Overruns(l))
              - Bit(Free(q)) + Bit(Free(q)')
<1>1. /\ \A x \in Runs : x # r => run'[x] = run[x]
      /\ run'[r] = l
  BY DEF PullsOK
<1>2. txs \in Seq(Tx)
  BY DEF PullsOK
<1>3. /\ w \in {0, 1} /\ txs' \in Seq(Tx)
      /\ \A i : Reverted(txs', i) <=> Reverted(txs, i)
      /\ Cardinality(Live(txs', q)) = Cardinality(Live(txs, q)) + (IF q = p THEN w ELSE 0)
  BY <1>2, Growth
<1>4. \A m : Poised(m, txs') <=> Poised(m, txs)
  BY <1>3, SamePoised
<1>5. IsFiniteSet(PoisedAt(q)) /\ IsFiniteSet(OverrunsAt(q))
  BY DEF Counted
<1>6. \A x : x # r => (x \in PoisedAt(q)' <=> x \in PoisedAt(q))
  BY <1>1, <1>4 DEF PoisedAt
<1>7. \A x : x # r => (x \in OverrunsAt(q)' <=> x \in OverrunsAt(q))
  BY <1>1 DEF OverrunsAt
<1> DEFINE a == Cardinality(PoisedAt(q))
           b == Cardinality(PoisedAt(q)')
           c == Cardinality(OverrunsAt(q))
           d == Cardinality(OverrunsAt(q)')
           n == Cardinality(Live(txs, q))
           m == Cardinality(Live(txs', q))
           u == Bit(run[r].at = q /\ Poised(run[r], txs))
           v == Bit(l.at = q /\ Poised(l, txs'))
           x == Bit(run[r].at = q /\ Overruns(run[r]))
           y == Bit(l.at = q /\ Overruns(l))
           f == Bit(Free(q))
           g == Bit(Free(q)')
           z == IF q = p THEN w ELSE 0
<1>8. /\ IsFiniteSet(PoisedAt(q)') /\ a \in Nat /\ b \in Nat
      /\ b = a - Bit(r \in PoisedAt(q)) + Bit(r \in PoisedAt(q)')
  BY <1>5, <1>6, Recount
<1>9. /\ IsFiniteSet(OverrunsAt(q)') /\ c \in Nat /\ d \in Nat
      /\ d = c - Bit(r \in OverrunsAt(q)) + Bit(r \in OverrunsAt(q)')
  BY <1>5, <1>7, Recount
<1>10. /\ Bit(r \in PoisedAt(q)) = Bit(run[r].at = q /\ Poised(run[r], txs))
       /\ Bit(r \in PoisedAt(q)') = Bit(l.at = q /\ Poised(l, txs'))
  BY <1>1 DEF PoisedAt, Bit
<1>11. /\ Bit(r \in OverrunsAt(q)) = Bit(run[r].at = q /\ Overruns(run[r]))
       /\ Bit(r \in OverrunsAt(q)') = Bit(l.at = q /\ Overruns(l))
  BY <1>1 DEF OverrunsAt, Bit
<1>12. n \in Nat
  BY <1>2, LiveFinite
<1>13. /\ Tokens(q) = n + a + c + Bit(Free(q))
       /\ Tokens(q)' = Cardinality(Live(txs', q)) + b + d + Bit(Free(q)')
  BY DEF Tokens
<1>14. {u, v, x, y, f, g, z} \subseteq {0, 1}
  BY <1>3, BitIs
<1>15. m = n + z /\ b = a - u + v /\ d = c - x + y
  BY <1>3, <1>8, <1>9, <1>10, <1>11
<1>16. Tokens(q) = n + a + c + f /\ Tokens(q)' = m + b + d + g
  BY <1>13
<1> HIDE DEF a, b, c, d, n, m, u, v, x, y, f, g, z
<1>17. /\ Tokens(q) \in Nat /\ Tokens(q)' \in Nat
       /\ Tokens(q)' = Tokens(q) + z - u + v - x + y - f + g
  BY <1>8, <1>9, <1>12, <1>14, <1>15, <1>16
<1> QED
  BY <1>8, <1>9, <1>17 DEF u, v, x, y, f, g, z

LEMMA Sums ==
  ASSUME NEW a \in Nat, NEW b \in Nat, NEW t \in Nat, NEW n \in Nat,
         NEW u \in {0, 1}, NEW v \in {0, 1}, NEW x \in {0, 1}, NEW y \in {0, 1},
         NEW f \in {0, 1}, NEW g \in {0, 1}, NEW z \in {0, 1},
         n = t + z - u + v - x + y - f + g, z + v + y + g <= u + x + f + 2 * (b - a), t <= 1 + 2 * a
  PROVE  n <= 1 + 2 * b
  OBVIOUS

(* A step that gives up no more than it holds, or that a fault pays for.   *)
LEMMA NoMore ==
  ASSUME NEW a \in Nat, NEW b \in Nat, a <= b,
         NEW u \in {0, 1}, NEW v \in {0, 1}, NEW x \in {0, 1}, NEW y \in {0, 1},
         NEW f \in {0, 1}, NEW g \in {0, 1}, NEW w \in {0, 1},
         \/ w + v + y + g <= u + x + f
         \/ a < b /\ w + v + y + g <= u + x + f + 2
  PROVE  w + v + y + g <= u + x + f + 2 * (b - a)
  OBVIOUS

(* The call is at period p, or has nothing to do with a charge.            *)
At(l, p) == l.at = p \/ (l.pc \notin ChargeStages /\ ~l.leased)

StepKeeps(r, l, p, c, w) ==
  /\ run' = [run EXCEPT ![r] = l] /\ charge' = [charge EXCEPT ![p] = c] /\ Grows(p, w)
  /\ w = 1 => p < Covered
  /\ faults' \in Nat /\ faults' >= faults
  /\ l = run[r] \/ (At(run[r], p) /\ At(l, p))
  /\ Kept(r, l, charge'[l.at]) /\ Named(l, txs')
  /\ \A q \in Runs \ {r} : Alone(r, l, q, run[q]) /\ Alone(q, run[q], r, l)
  /\ \A q \in Runs \ {r} : run[q].at = p => Kept(q, run[q], c)
  /\ ChargeKept(p, c, txs')
  /\ p < Covered => Balance(r, l, p, w)

LEMMA CallStep ==
  ASSUME TypeOK, PullInv, NEW r \in Runs, NEW l \in Run, NEW p \in Periods, NEW c \in Charge, NEW w,
         StepKeeps(r, l, p, c, w)
  PROVE  PullInv'
<1>0. /\ run' = [run EXCEPT ![r] = l] /\ charge' = [charge EXCEPT ![p] = c] /\ Grows(p, w)
      /\ w = 1 => p < Covered
      /\ faults' \in Nat /\ faults' >= faults
      /\ l = run[r] \/ (At(run[r], p) /\ At(l, p))
      /\ Kept(r, l, charge'[l.at]) /\ Named(l, txs')
      /\ \A q \in Runs \ {r} : Alone(r, l, q, run[q]) /\ Alone(q, run[q], r, l)
      /\ \A q \in Runs \ {r} : run[q].at = p => Kept(q, run[q], c)
      /\ ChargeKept(p, c, txs')
      /\ p < Covered => Balance(r, l, p, w)
  BY DEF StepKeeps
<1>1. /\ \A x \in Runs : x # r => run'[x] = run[x]
      /\ run'[r] = l
      /\ \A q \in Periods : q # p => charge'[q] = charge[q]
      /\ charge'[p] = c
  BY <1>0 DEF TypeOK, PullsOK
<1>2. /\ txs \in Seq(Tx) /\ faults \in Nat
      /\ \A q \in Runs : run[q].step \in Nat /\ run[q].step <= Len(txs) /\ run[q].at \in Periods
      /\ \A q \in Periods : charge[q].step \in Nat /\ charge[q].step <= Len(txs)
  BY BoundsAssumption DEF TypeOK, RowsOK, PullsOK, Sound, Run, Charge
<1>3. /\ w \in {0, 1} /\ DOMAIN txs = 1..Len(txs) /\ Len(txs) \in Nat
      /\ \A i \in 1..Len(txs) : txs'[i] = txs[i]
      /\ w = 1 => /\ txs'[Len(txs) + 1].period = p /\ DOMAIN txs' = 1..(Len(txs) + 1)
      /\ \A i : Reverted(txs', i) <=> Reverted(txs, i)
  BY <1>0, <1>2, Growth
<1>4. ASSUME NEW q \in Runs PROVE Kept(q, run'[q], charge'[run'[q].at]) /\ Named(run'[q], txs')
  <2>1. CASE q = r
    BY <1>0, <1>1, <2>1
  <2>2. CASE q # r
    <3>1. Kept(q, run[q], charge[run[q].at]) /\ Named(run[q], txs)
      BY DEF PullInv
    <3>2. Kept(q, run[q], charge'[run[q].at])
      BY <1>0, <1>1, <1>2, <2>2, <3>1
    <3>3. Named(run[q], txs')
      <4>1. run[q].step > 0 => txs'[run[q].step] = txs[run[q].step]
        BY <1>2, <1>3
      <4> QED
        BY <3>1, <4>1 DEF Named
    <3> QED
      BY <1>1, <2>2, <3>2, <3>3
  <2> QED
    BY <2>1, <2>2
<1>5. ASSUME NEW q \in Runs, NEW s \in Runs PROVE Alone(q, run'[q], s, run'[s])
  <2>1. CASE q = s
    BY <2>1 DEF Alone
  <2>2. CASE q # s /\ q = r
    BY <1>0, <1>1, <2>2
  <2>3. CASE q # s /\ s = r
    BY <1>0, <1>1, <2>3
  <2>4. CASE q # r /\ s # r
    BY <1>1, <2>4 DEF PullInv
  <2> QED
    BY <2>1, <2>2, <2>3, <2>4
<1>6. ASSUME NEW q \in Periods PROVE ChargeKept(q, charge'[q], txs')
  <2>1. CASE q = p
    BY <1>0, <1>1, <2>1
  <2>2. CASE q # p
    <3>1. ChargeKept(q, charge[q], txs)
      BY DEF PullInv
    <3>2. charge[q].step > 0 => txs'[charge[q].step] = txs[charge[q].step]
      BY <1>2, <1>3
    <3> QED
      BY <1>1, <2>2, <3>1, <3>2 DEF ChargeKept
  <2> QED
    BY <2>1, <2>2
<1>7. ASSUME NEW i \in DOMAIN txs' PROVE txs'[i].period < Covered
  <2>1. CASE w = 0
    BY <1>0, <1>3, <1>7, <2>1 DEF PullInv, Grows
  <2>2. CASE w = 1
    BY <1>0, <1>3, <1>7, <2>2 DEF PullInv
  <2> QED
    BY <1>3, <2>1, <2>2
<1>8. ASSUME NEW q \in Periods, q < Covered PROVE Counted(q)'
  <2>1. Counted(q)
    BY <1>8 DEF PullInv
  <2>2. /\ IsFiniteSet(PoisedAt(q)') /\ IsFiniteSet(OverrunsAt(q)')
        /\ Tokens(q) \in Nat /\ Tokens(q)' \in Nat
        /\ Tokens(q)' = Tokens(q) + (IF q = p THEN w ELSE 0)
             - Bit(run[r].at = q /\ Poised(run[r], txs)) + Bit(l.at = q /\ Poised(l, txs'))
             - Bit(run[r].at = q /\ Overruns(run[r])) + Bit(l.at = q /\ Overruns(l))
             - Bit(Free(q)) + Bit(Free(q)')
    BY <1>0, <2>1, Tally DEF TypeOK
  <2> DEFINE u == Bit(run[r].at = q /\ Poised(run[r], txs))
             v == Bit(l.at = q /\ Poised(l, txs'))
             x == Bit(run[r].at = q /\ Overruns(run[r]))
             y == Bit(l.at = q /\ Overruns(l))
             f == Bit(Free(q))
             g == Bit(Free(q)')
             z == IF q = p THEN w ELSE 0
  <2>3. {u, v, x, y, f, g, z} \subseteq {0, 1}
    BY <1>3, BitIs
  <2>4. z + v + y + g <= u + x + f + 2 * (faults' - faults)
    <3>1. CASE q = p
      BY <1>0, <1>8, <3>1 DEF Balance
    <3>2. CASE q # p
      <4>1. Free(q)' <=> Free(q)
        <5>1. charge'[q] = charge[q] /\ charge[q] \in Charge
          BY <1>1, <3>2 DEF TypeOK, PullsOK
        <5>2. Owned(q)' <=> Owned(q)
          <6>1. CASE charge[q].lease = NoRun
            BY <5>1, <6>1 DEF Owned
          <6>2. CASE charge[q].lease \in Runs /\ charge[q].lease # r
            BY <1>1, <5>1, <6>2 DEF Owned
          <6>3. CASE charge[q].lease = r
            BY <1>0, <1>1, <3>2, <5>1, <6>3 DEF Owned, At
          <6> QED
            BY <5>1, <6>1, <6>2, <6>3 DEF Charge
        <5> QED
          BY <1>3, <5>1, <5>2 DEF Free
      <4>2. f = g
        BY <4>1 DEF Bit
      <4>3. \A m : m.pc \notin ChargeStages => ~Poised(m, txs) /\ ~Poised(m, txs') /\ ~Overruns(m)
        BY DEF ChargeStages, HeldStages, Poised, Overruns
      <4>4. u = v /\ x = y
        <5>1. CASE l = run[r]
          <6>1. Poised(l, txs') <=> Poised(l, txs)
            BY <1>3, SamePoised
          <6> QED
            BY <5>1, <6>1 DEF Bit
        <5>2. CASE At(run[r], p) /\ At(l, p)
          BY <1>0, <3>2, <4>3, <5>2 DEF At, Bit
        <5> QED
          BY <1>0, <5>1, <5>2
      <4>5. z = 0
        BY <3>2
      <4> HIDE DEF u, v, x, y, f, g, z
      <4> QED
        BY <1>0, <1>2, <2>3, <4>2, <4>4, <4>5
    <3> QED
      BY <3>1, <3>2
  <2>5. Tokens(q) <= 1 + 2 * faults
    BY <2>1 DEF Counted
  <2> HIDE DEF u, v, x, y, f, g, z
  <2>6. Tokens(q)' = Tokens(q) + z - u + v - x + y - f + g
    BY <2>2 DEF u, v, x, y, f, g, z
  <2>7. Tokens(q)' <= 1 + 2 * faults'
    <3>1. Tokens(q) \in Nat /\ Tokens(q)' \in Nat /\ faults \in Nat
      BY <1>0, <1>2, <2>2
    <3> QED
      BY <1>0, <2>3, <2>4, <2>5, <2>6, <3>1, Sums
  <2> QED
    BY <2>2, <2>7 DEF Counted
<1> QED
  BY <1>4, <1>5, <1>6, <1>7, <1>8 DEF PullInv

(* Rows change, charges, calls and pulls do not.                           *)
LEMMA PullStill ==
  ASSUME TypeOK, PullInv, UNCHANGED <<run, charge, txs>>, faults' \in Nat, faults' >= faults
  PROVE  PullInv'
<1>1. ASSUME NEW p \in Periods, p < Covered PROVE Counted(p)'
  <2>1. Counted(p)
    BY <1>1 DEF PullInv
  <2>2. PoisedAt(p)' = PoisedAt(p) /\ OverrunsAt(p)' = OverrunsAt(p) /\ Tokens(p)' = Tokens(p)
    <3>1. PoisedAt(p)' = PoisedAt(p) /\ OverrunsAt(p)' = OverrunsAt(p)
      BY DEF PoisedAt, OverrunsAt
    <3>2. Free(p)' <=> Free(p)
      BY DEF Free, Owned
    <3>3. Bit(Free(p)') = Bit(Free(p))
      BY <3>2 DEF Bit
    <3> QED
      BY <3>1, <3>3 DEF Tokens
  <2>3. Tokens(p) \in Nat
    <3>1. Cardinality(Live(txs, p)) \in Nat
      BY LiveFinite DEF TypeOK, PullsOK
    <3>2. Cardinality(PoisedAt(p)) \in Nat /\ Cardinality(OverrunsAt(p)) \in Nat
      BY <2>1, FS_CardinalityType DEF Counted
    <3> QED
      BY <3>1, <3>2, BitIs DEF Tokens
  <2>4. faults \in Nat
    BY BoundsAssumption DEF TypeOK, RowsOK
  <2> QED
    BY <2>1, <2>2, <2>3, <2>4 DEF Counted
<1> QED
  BY <1>1 DEF PullInv

(* What a call's step starts from. *)
LEMMA PullFacts ==
  ASSUME TypeOK, PullInv, NEW r \in Runs, NEW p \in Periods, run[r].at = p
  PROVE  /\ run[r] \in Run /\ run[r].step \in Nat /\ run[r].step <= Len(txs) /\ run[r].leased \in BOOLEAN
         /\ charge[p] \in Charge /\ charge[p].step \in Nat /\ charge[p].step <= Len(txs)
         /\ charge = [charge EXCEPT ![p] = charge[p]]
         /\ faults \in Nat /\ Len(txs) \in Nat /\ txs \in Seq(Tx) /\ DOMAIN txs = 1..Len(txs)
         /\ Kept(r, run[r], charge[p]) /\ Named(run[r], txs) /\ ChargeKept(p, charge[p], txs)
         /\ \A q \in Runs \ {r} : Alone(r, run[r], q, run[q]) /\ Alone(q, run[q], r, run[r])
         /\ \A q \in Runs \ {r} : run[q].at = p => Kept(q, run[q], charge[p])
  BY LenProperties, BoundsAssumption DEF TypeOK, RowsOK, PullsOK, PullInv, Sound, Run, Charge

LEMMA FreeKept ==
  ASSUME TypeOK, NEW r \in Runs, NEW l, NEW p \in Periods, run' = [run EXCEPT ![r] = l],
         l.at = run[r].at, l.leased = run[r].leased, charge' = charge,
         \A i : Reverted(txs', i) <=> Reverted(txs, i)
  PROVE  Free(p)' <=> Free(p)
<1>1. /\ \A x \in Runs : x # r => run'[x] = run[x]
      /\ run'[r] = l
      /\ charge[p].lease \in Runs \cup {NoRun}
  BY DEF TypeOK, PullsOK, Charge
<1>2. Owned(p)' <=> Owned(p)
  BY <1>1 DEF Owned
<1> QED
  BY <1>2 DEF Free

(* The call goes on outside the charge. *)
LEMMA Elsewhere ==
  ASSUME TypeOK, PullInv, NEW r \in Runs, NEW l \in Run, run' = [run EXCEPT ![r] = l],
         UNCHANGED <<charge, txs>>, faults' \in Nat, faults' >= faults,
         run[r].pc \notin ChargeStages, l.pc \notin ChargeStages, l.leased = run[r].leased
  PROVE  PullInv'
<1>1. PICK p \in Periods : run[r].at = p
  BY DEF TypeOK, PullsOK, Run
<1>2. /\ charge[p] \in Charge /\ charge = [charge EXCEPT ![p] = charge[p]]
      /\ faults \in Nat
      /\ Kept(r, run[r], charge[p]) /\ ChargeKept(p, charge[p], txs)
      /\ \A q \in Runs \ {r} : run[q].at = p => Kept(q, run[q], charge[p])
  BY <1>1, PullFacts
<1>3. ~run[r].leased /\ ~l.leased
  BY <1>2 DEF Kept
<1>4. At(run[r], p) /\ At(l, p)
  BY <1>1, <1>3 DEF At
<1>5. Grows(p, 0)
  BY DEF Grows
<1>6. Kept(r, l, charge'[l.at]) /\ Named(l, txs')
  BY <1>3 DEF Kept, Named, ChargeStages, HeldStages, SettlesStages
<1>7. \A q \in Runs \ {r} : Alone(r, l, q, run[q]) /\ Alone(q, run[q], r, l)
  BY <1>3 DEF Alone, ChargeStages, HeldStages
<1>8. Balance(r, l, p, 0)
  <2>1. ~Poised(l, txs') /\ ~Overruns(l)
    BY DEF ChargeStages, HeldStages, Poised, Overruns
  <2>2. ~Poised(run[r], txs) /\ ~Overruns(run[r])
    BY DEF ChargeStages, HeldStages, Poised, Overruns
  <2>3. Free(p)' <=> Free(p)
    <3>1. /\ \A x \in Runs : x # r => run'[x] = run[x]
          /\ run'[r] = l
          /\ charge[p].lease \in Runs \cup {NoRun}
      BY <1>2 DEF TypeOK, PullsOK, Charge
    <3>2. Owned(p)' <=> Owned(p)
      BY <1>3, <3>1 DEF Owned
    <3> QED
      BY <3>2 DEF Free
  <2>4. /\ Bit(l.at = p /\ Poised(l, txs')) = 0 /\ Bit(l.at = p /\ Overruns(l)) = 0
        /\ Bit(run[r].at = p /\ Poised(run[r], txs)) = 0 /\ Bit(run[r].at = p /\ Overruns(run[r])) = 0
        /\ Bit(Free(p)') = Bit(Free(p))
    BY <2>1, <2>2, <2>3 DEF Bit
  <2>5. Bit(Free(p)) \in {0, 1}
    BY BitIs
  <2> QED
    BY <1>2, <2>4, <2>5 DEF Balance
<1>9. charge' = [charge EXCEPT ![p] = charge[p]] /\ ChargeKept(p, charge[p], txs')
  BY <1>2
<1>10. StepKeeps(r, l, p, charge[p], 0)
  BY <1>1, <1>2, <1>4, <1>5, <1>6, <1>7, <1>8, <1>9 DEF StepKeeps
<1> QED
  BY <1>2, <1>10, CallStep

(* The call goes on with its charge: it settles a pull, or it comes to the *)
(* next one.                                                               *)
LEMMA Moves ==
  ASSUME TypeOK, PullInv, NEW r \in Runs, NEW l \in Run, run' = [run EXCEPT ![r] = l],
         UNCHANGED <<charge, txs>>, faults' \in Nat, faults' >= faults,
         l.at = run[r].at, l.step = run[r].step, l.leased = run[r].leased,
         \/ l.pc = "receipt" /\ run[r].pc = "list" /\ l.step # 0
         \/ l.pc \in {"allowance", "send", "succeed", "decline"},
         l.pc \in {"allowance", "send"} => run[r].pc \in {"list", "receipt", "allowance"},
         (Poised(l, txs) => Poised(run[r], txs)) \/ faults' > faults
  PROVE  PullInv'
<1>1. PICK p \in Periods : run[r].at = p
  BY DEF TypeOK, PullsOK, Run
<1>2. /\ charge[p] \in Charge /\ charge = [charge EXCEPT ![p] = charge[p]]
      /\ faults \in Nat /\ run[r].step \in Nat
      /\ Kept(r, run[r], charge[p]) /\ Named(run[r], txs) /\ ChargeKept(p, charge[p], txs)
      /\ \A q \in Runs \ {r} : Alone(r, run[r], q, run[q]) /\ Alone(q, run[q], r, run[r])
      /\ \A q \in Runs \ {r} : run[q].at = p => Kept(q, run[q], charge[p])
  BY <1>1, PullFacts
<1>4. At(run[r], p) /\ At(l, p)
  BY <1>1 DEF At
<1>5. Grows(p, 0)
  BY DEF Grows
<1>6. Kept(r, l, charge[p])
  BY <1>2 DEF Kept, ChargeStages, HeldStages, SettlesStages
<1>6a. Named(l, txs')
  BY <1>2 DEF Named, HeldStages
<1>7. \A q \in Runs \ {r} : Alone(r, l, q, run[q]) /\ Alone(q, run[q], r, l)
  BY <1>2 DEF Alone, HeldStages, SettlesStages
<1>8. Balance(r, l, p, 0)
  <2>1. Overruns(l) => Overruns(run[r])
    BY DEF Overruns
  <2>2. Poised(l, txs') => Poised(run[r], txs) \/ faults' > faults
    OBVIOUS
  <2>3. Free(p)' <=> Free(p)
    <3> QED
      BY <1>1, FreeKept
  <2> DEFINE u == Bit(run[r].at = p /\ Poised(run[r], txs))
             v == Bit(l.at = p /\ Poised(l, txs'))
             x == Bit(run[r].at = p /\ Overruns(run[r]))
             y == Bit(l.at = p /\ Overruns(l))
             f == Bit(Free(p))
             g == Bit(Free(p)')
  <2>4. g = f /\ y <= x /\ (v <= u \/ faults' > faults) /\ {u, v, x, y, f, g} \subseteq {0, 1}
    BY <1>1, <2>1, <2>2, <2>3 DEF Bit
  <2>5. 0 + v + y + g <= u + x + f + 2 * (faults' - faults)
    <3> HIDE DEF u, v, x, y, f, g
    <3>1. faults \in Nat
      BY <1>2
    <3> QED
      BY <2>4, <3>1, NoMore
  <2> QED
    BY <2>5 DEF Balance
<1>9. charge' = [charge EXCEPT ![p] = charge[p]] /\ ChargeKept(p, charge[p], txs') /\ Kept(r, l, charge'[l.at])
  BY <1>1, <1>2, <1>6
<1>10. StepKeeps(r, l, p, charge[p], 0)
  BY <1>1, <1>2, <1>4, <1>5, <1>6a, <1>7, <1>8, <1>9 DEF StepKeeps
<1> QED
  BY <1>2, <1>10, CallStep

(* The call ends: it had no charge, it waits for a pull, or a crash.       *)
LEMMA Leaves ==
  ASSUME TypeOK, PullInv, NEW r \in Runs, End(r),
         UNCHANGED <<charge, txs>>, faults' \in Nat, faults' >= faults,
         \/ run[r].pc \notin ChargeStages
         \/ run[r].pc \in {"receipt", "confirm"} /\ ~Reverted(txs, run[r].step)
         \/ faults' > faults
  PROVE  PullInv'
<1> DEFINE l == Rest
<1>1. PICK p \in Periods : run[r].at = p
  BY DEF TypeOK, PullsOK, Run
<1>2. /\ charge[p] \in Charge /\ charge = [charge EXCEPT ![p] = charge[p]]
      /\ faults \in Nat /\ run[r].step \in Nat
      /\ Kept(r, run[r], charge[p]) /\ ChargeKept(p, charge[p], txs)
      /\ \A q \in Runs \ {r} : run[q].at = p => Kept(q, run[q], charge[p])
      /\ charge[p].step \in Nat
  BY <1>1, PullFacts
<1>3. /\ run' = [run EXCEPT ![r] = l] /\ l \in Run
      /\ l.pc = "idle" /\ ~l.leased /\ l.step = 0 /\ l.pc \notin ChargeStages
  BY RestOk DEF End, Become, Rest, ChargeStages, HeldStages
<1> HIDE DEF l
<1>4. At(run[r], p) /\ At(l, p)
  BY <1>1, <1>3 DEF At
<1>5. Grows(p, 0)
  BY DEF Grows
<1>6. Kept(r, l, charge'[l.at]) /\ Named(l, txs')
  BY <1>3 DEF Kept, Named, ChargeStages, HeldStages, SettlesStages
<1>7. \A q \in Runs \ {r} : Alone(r, l, q, run[q]) /\ Alone(q, run[q], r, l)
  BY <1>3 DEF Alone, ChargeStages, HeldStages
<1>8. Balance(r, l, p, 0)
  <2>1. ~Poised(l, txs') /\ ~Overruns(l)
    BY <1>3 DEF Poised, Overruns
  <2>2. Free(p)' => Free(p) \/ Poised(run[r], txs) \/ faults' > faults
    <3>1. /\ \A x \in Runs : x # r => run'[x] = run[x]
          /\ run'[r] = l
          /\ charge[p].lease \in Runs \cup {NoRun}
      BY <1>2, <1>3 DEF TypeOK, PullsOK, Charge
    <3>2. Owned(p) => Owned(p)' \/ (run[r].leased /\ charge[p].lease = r)
      BY <3>1 DEF Owned
    <3>3. ASSUME run[r].leased, charge[p].lease = r, Free(p)', ~(faults' > faults)
          PROVE  Poised(run[r], txs)
      <4>1. run[r].pc \in {"receipt", "confirm"} /\ ~Reverted(txs, run[r].step)
        BY <1>2, <3>3 DEF Kept
      <4>2. charge[p].status = "pending" /\ charge[p].step = run[r].step /\ run[r].step > 0
        BY <1>2, <3>3, <4>1 DEF Kept, SettlesStages
      <4>3. charge[p].step = 0 \/ Reverted(txs, charge[p].step)
        BY <3>3, <4>2, <1>1 DEF Free
      <4> QED
        BY <4>1, <4>2, <4>3
    <3>4. Free(p)' => Free(p) \/ Owned(p)
      BY <1>1 DEF Free
    <3>5. Free(p)' => ~Owned(p)'
      BY DEF Free
    <3> QED
      BY <3>2, <3>3, <3>4, <3>5
  <2> DEFINE u == Bit(run[r].at = p /\ Poised(run[r], txs))
             v == Bit(l.at = p /\ Poised(l, txs'))
             x == Bit(run[r].at = p /\ Overruns(run[r]))
             y == Bit(l.at = p /\ Overruns(l))
             f == Bit(Free(p))
             g == Bit(Free(p)')
  <2>4. v = 0 /\ y = 0 /\ (g <= f + u \/ faults' > faults) /\ {u, v, x, y, f, g} \subseteq {0, 1}
    BY <1>1, <2>1, <2>2 DEF Bit
  <2>5. 0 + v + y + g <= u + x + f + 2 * (faults' - faults)
    <3> HIDE DEF u, v, x, y, f, g
    <3>1. faults \in Nat
      BY <1>2
    <3> QED
      BY <2>4, <3>1, NoMore
  <2> QED
    BY <2>5 DEF Balance
<1>9. charge' = [charge EXCEPT ![p] = charge[p]] /\ ChargeKept(p, charge[p], txs')
  BY <1>2
<1>10. StepKeeps(r, l, p, charge[p], 0)
  BY <1>1, <1>2, <1>3, <1>4, <1>5, <1>6, <1>7, <1>8, <1>9 DEF StepKeeps
<1> QED
  BY <1>2, <1>3, <1>10, CallStep

(* A claim takes over the free token of the charge. *)
LEMMA ClaimKeeps ==
  ASSUME TypeOK, PullInv, NEW r \in Runs, ClaimCharge(r), Claimable(charge[run[r].at])
  PROVE  PullInv'
<1>1. PICK p \in Periods : run[r].at = p
  BY DEF TypeOK, PullsOK, Run
<1>2. /\ run[r] \in Run /\ charge[p] \in Charge /\ charge[p].step \in Nat /\ charge[p].step <= Len(txs)
      /\ faults \in Nat
      /\ Kept(r, run[r], charge[p]) /\ ChargeKept(p, charge[p], txs)
      /\ \A q \in Runs \ {r} : run[q].at = p => Kept(q, run[q], charge[p])
  BY <1>1, PullFacts
<1> DEFINE n == ClaimedStep(charge[p])
           c == [status |-> "pending", step |-> n, lease |-> r]
           l == [run[r] EXCEPT !.step = n, !.leased = TRUE,
                               !.pc = IF p >= Covered THEN "decline" ELSE "list"]
<1>3. /\ run[r].pc = "claim" /\ charge' = [charge EXCEPT ![p] = c] /\ run' = [run EXCEPT ![r] = l]
      /\ txs' = txs /\ faults' = faults
  BY <1>1 DEF ClaimCharge, Become, chain, Claimable
<1>4. /\ n \in Nat /\ (n > 0 => charge[p].status = "pending" /\ charge[p].step = n)
      /\ (charge[p].status = "pending" => n = charge[p].step)
  BY <1>2 DEF ClaimedStep
<1>5. /\ l \in Run /\ l.at = p /\ l.step = n /\ l.leased /\ l.pc \in {"decline", "list"}
      /\ (p < Covered <=> l.pc = "list")
  <2>1. l \in Run
    BY <1>2, <1>4 DEF Run, Stage
  <2>2. p \in Int /\ Covered \in Int
    BY SizesAssumption DEF Periods
  <2> QED
    BY <1>1, <1>2, <2>1, <2>2 DEF Run
<1>6. c \in Charge /\ c.status = "pending" /\ c.step = n /\ c.lease = r
  BY <1>4 DEF Charge, ChargeStatus
<1>7. charge[p].lease = NoRun /\ charge[p].status \in {"none", "failed", "pending"}
  BY <1>1, <1>2 DEF Claimable, ChargeKept, Charge, ChargeStatus
<1> HIDE DEF n, c, l
<1>8. At(run[r], p) /\ At(l, p) /\ Grows(p, 0)
  BY <1>1, <1>3, <1>5 DEF At, Grows
<1>9. Kept(r, l, c)
  BY <1>5, <1>6 DEF Kept, ChargeStages, HeldStages, SettlesStages
<1>10. Named(l, txs') /\ ChargeKept(p, c, txs')
  BY <1>2, <1>3, <1>4, <1>5, <1>6, RunsAssumption DEF Named, ChargeKept
<1>11. ASSUME NEW q \in Runs \ {r}, run[q].at = p PROVE Kept(q, run[q], c)
  <2>1. Kept(q, run[q], charge[p])
    BY <1>2, <1>11
  <2>2. q # NoRun
    BY RunsAssumption
  <2> QED
    BY <1>4, <1>6, <1>7, <2>1, <2>2 DEF Kept
<1>12. ASSUME NEW q \in Runs \ {r} PROVE Alone(r, l, q, run[q]) /\ Alone(q, run[q], r, l)
  <2> SUFFICES ASSUME n > 0, run[q].step = n, run[q].pc \in HeldStages,
                      run[q].pc = "record" \/ (run[q].leased /\ run[q].pc \in SettlesStages)
               PROVE  FALSE
    BY <1>5 DEF Alone, HeldStages, SettlesStages
  <2>1. Kept(q, run[q], charge[run[q].at]) /\ Named(run[q], txs)
    BY DEF PullInv
  <2>2. txs[n].period = run[q].at /\ txs[n].period = p
    BY <1>2, <1>4, <2>1 DEF Named, ChargeKept
  <2>3. Kept(q, run[q], charge[p]) /\ q # NoRun
    BY <2>1, <2>2, RunsAssumption
  <2> QED
    BY <1>4, <1>7, <2>3 DEF Kept
<1>13. p < Covered => Balance(r, l, p, 0)
  <2> SUFFICES ASSUME p < Covered PROVE Balance(r, l, p, 0)
    OBVIOUS
  <2>1. l.pc = "list" /\ ~Overruns(l) /\ (Poised(l, txs') => n = 0 \/ Reverted(txs, n))
    BY <1>3, <1>5 DEF Overruns, Poised
  <2>2. ~Free(p)'
    <3>1. charge'[p] = c /\ run'[r] = l
      BY <1>3 DEF TypeOK, PullsOK
    <3>2. r # NoRun
      BY RunsAssumption
    <3> QED
      BY <1>5, <1>6, <3>1, <3>2 DEF Free, Owned
  <2>3. Poised(l, txs') => Free(p)
    BY <1>4, <1>7, <2>1 DEF Free, Owned
  <2> DEFINE u == Bit(run[r].at = p /\ Poised(run[r], txs))
             v == Bit(l.at = p /\ Poised(l, txs'))
             x == Bit(run[r].at = p /\ Overruns(run[r]))
             y == Bit(l.at = p /\ Overruns(l))
             f == Bit(Free(p))
             g == Bit(Free(p)')
  <2>4. y = 0 /\ g = 0 /\ v <= f /\ {u, v, x, y, f, g} \subseteq {0, 1}
    BY <1>1, <2>1, <2>2, <2>3 DEF Bit
  <2>5. 0 + v + y + g <= u + x + f + 2 * (faults' - faults)
    <3> HIDE DEF u, v, x, y, f, g
    <3> QED
      BY <1>2, <1>3, <2>4
  <2> QED
    BY <2>5 DEF Balance
<1>14. StepKeeps(r, l, p, c, 0)
  <2>1. charge'[l.at] = c /\ faults' \in Nat /\ faults' >= faults
    BY <1>2, <1>3, <1>5 DEF TypeOK, PullsOK
  <2> QED
    BY <1>3, <1>8, <1>9, <1>10, <1>11, <1>12, <1>13, <2>1 DEF StepKeeps
<1> QED
  BY <1>5, <1>6, <1>14, CallStep

(* A broadcast uses up the token of its call. *)
LEMMA BroadcastKeeps ==
  ASSUME TypeOK, PullInv, NEW r \in Runs, run[r].pc = "send", Broadcast(r), NEW l \in Run,
         run' = [run EXCEPT ![r] = l], charge' = charge, faults' \in Nat, faults' >= faults,
         l.at = run[r].at, l.leased = run[r].leased,
         \/ l.pc = "record" /\ l.step = Len(txs) + 1
         \/ l.pc = "decline" /\ faults' > faults
  PROVE  PullInv'
<1>1. PICK p \in Periods : run[r].at = p
  BY DEF TypeOK, PullsOK, Run
<1>2. /\ charge[p] \in Charge /\ charge = [charge EXCEPT ![p] = charge[p]]
      /\ charge[p].step \in Nat /\ charge[p].step <= Len(txs)
      /\ faults \in Nat /\ Len(txs) \in Nat /\ txs \in Seq(Tx) /\ DOMAIN txs = 1..Len(txs)
      /\ Kept(r, run[r], charge[p]) /\ ChargeKept(p, charge[p], txs)
      /\ \A q \in Runs \ {r} : run[q].at = p => Kept(q, run[q], charge[p])
  BY <1>1, PullFacts
<1>3. p < Covered
  BY <1>1, <1>2 DEF Kept
<1>4. Grows(p, 1)
  BY <1>1 DEF Broadcast, Grows
<1>5. /\ \A i \in 1..Len(txs) : txs'[i] = txs[i]
      /\ \A i : Reverted(txs', i) <=> Reverted(txs, i)
      /\ txs'[Len(txs) + 1].period = p
  BY <1>2, <1>4, Growth
<1>6. At(run[r], p) /\ At(l, p)
  BY <1>1 DEF At
<1>7. Kept(r, l, charge'[l.at])
  BY <1>1, <1>2 DEF Kept, ChargeStages, HeldStages, SettlesStages
<1>8. Named(l, txs') /\ ChargeKept(p, charge[p], txs')
  BY <1>1, <1>2, <1>5 DEF Named, ChargeKept, HeldStages
<1>9. ASSUME NEW q \in Runs \ {r} PROVE Alone(r, l, q, run[q]) /\ Alone(q, run[q], r, l)
  <2>1. run[q].step \in Nat /\ run[q].step <= Len(txs)
    BY DEF TypeOK, PullsOK, Sound, Run
  <2> QED
    BY <1>2, <2>1 DEF Alone, HeldStages, SettlesStages
<1>10. Balance(r, l, p, 1)
  <2>1. Poised(run[r], txs)
    BY DEF Poised
  <2>2. Overruns(l) => Overruns(run[r])
    BY DEF Overruns
  <2>3. Poised(l, txs') => faults' > faults
    <3>1. ~Reverted(txs, Len(txs) + 1)
      BY <1>2 DEF Reverted
    <3> QED
      BY <1>5, <3>1 DEF Poised
  <2>4. Free(p)' <=> Free(p)
    BY <1>1, <1>5, FreeKept
  <2> DEFINE u == Bit(run[r].at = p /\ Poised(run[r], txs))
             v == Bit(l.at = p /\ Poised(l, txs'))
             x == Bit(run[r].at = p /\ Overruns(run[r]))
             y == Bit(l.at = p /\ Overruns(l))
             f == Bit(Free(p))
             g == Bit(Free(p)')
  <2>5. u = 1 /\ g = f /\ y <= x /\ (v = 0 \/ faults' > faults) /\ {u, v, x, y, f, g} \subseteq {0, 1}
    BY <1>1, <2>1, <2>2, <2>3, <2>4 DEF Bit
  <2>6. 1 + v + y + g <= u + x + f + 2 * (faults' - faults)
    <3> HIDE DEF u, v, x, y, f, g
    <3>1. faults \in Nat
      BY <1>2
    <3> QED
      BY <2>5, <3>1, NoMore
  <2> QED
    BY <2>6 DEF Balance
<1>11. StepKeeps(r, l, p, charge[p], 1)
  BY <1>2, <1>3, <1>4, <1>6, <1>7, <1>8, <1>9, <1>10 DEF StepKeeps
<1> QED
  BY <1>2, <1>11, CallStep

(* A pull is recorded, over whatever was recorded before. *)
LEMMA RecordKeeps ==
  ASSUME TypeOK, PullInv, NEW r \in Runs, RecordStep(r)
  PROVE  PullInv'
<1>1. PICK p \in Periods : run[r].at = p
  BY DEF TypeOK, PullsOK, Run
<1>2. /\ run[r] \in Run /\ run[r].step \in Nat /\ run[r].leased \in BOOLEAN
      /\ faults \in Nat
      /\ Kept(r, run[r], charge[p]) /\ Named(run[r], txs)
      /\ \A q \in Runs \ {r} : Alone(r, run[r], q, run[q]) /\ Alone(q, run[q], r, run[r])
      /\ \A q \in Runs \ {r} : run[q].at = p => Kept(q, run[q], charge[p])
  BY <1>1, PullFacts
<1> DEFINE n == run[r].step
           c == [status |-> "pending", step |-> n, lease |-> IF run[r].leased THEN r ELSE NoRun]
           l == [run[r] EXCEPT !.pc = "confirm"]
<1>3. /\ run[r].pc = "record" /\ charge' = [charge EXCEPT ![p] = c] /\ run' = [run EXCEPT ![r] = l]
      /\ txs' = txs /\ faults' = faults
  BY <1>1 DEF RecordStep, SaveCharge, Go, Become, chain
<1>4. /\ l \in Run /\ l.at = p /\ l.step = n /\ l.leased = run[r].leased /\ l.pc = "confirm"
  BY <1>1, <1>2 DEF Run, Stage
<1>5. c \in Charge /\ c.status = "pending" /\ c.step = n /\ c.lease = IF run[r].leased THEN r ELSE NoRun
  BY <1>2 DEF Charge, ChargeStatus
<1>6. n > 0 /\ p < Covered /\ txs[n].period = p
  BY <1>1, <1>2, <1>3 DEF Kept, Named, HeldStages
<1> HIDE DEF n, c, l
<1>7. n = run[r].step
  BY DEF n
<1>8. At(run[r], p) /\ At(l, p) /\ Grows(p, 0)
  BY <1>1, <1>3, <1>4 DEF At, Grows
<1>9. Kept(r, l, c)
  BY <1>4, <1>5, <1>6, RunsAssumption DEF Kept, ChargeStages, HeldStages, SettlesStages
<1>10. Named(l, txs') /\ ChargeKept(p, c, txs')
  BY <1>3, <1>4, <1>5, <1>6 DEF Named, ChargeKept
<1>11. ASSUME NEW q \in Runs \ {r}, run[q].at = p PROVE Kept(q, run[q], c)
  <2>1. Kept(q, run[q], charge[p]) /\ Alone(r, run[r], q, run[q]) /\ q # NoRun /\ q # r
    BY <1>2, <1>11, RunsAssumption
  <2>2. run[q].pc \in HeldStages => run[q].step # n
    BY <1>3, <1>6, <1>7, <2>1 DEF Alone
  <2> QED
    BY <1>5, <2>1, <2>2 DEF Kept, HeldStages, SettlesStages
<1>12. ASSUME NEW q \in Runs \ {r} PROVE Alone(r, l, q, run[q]) /\ Alone(q, run[q], r, l)
  <2>1. Alone(r, run[r], q, run[q]) /\ Alone(q, run[q], r, run[r])
    BY <1>2, <1>12
  <2> QED
    BY <1>3, <1>4, <1>7, <2>1 DEF Alone, HeldStages, SettlesStages
<1>13. Balance(r, l, p, 0)
  <2>1. ~Overruns(l) /\ (Poised(l, txs') => ~run[r].leased \/ Reverted(txs, n))
    BY <1>3, <1>4 DEF Overruns, Poised
  <2>2. /\ Overruns(run[r]) <=> ~run[r].leased
        /\ Poised(run[r], txs) <=> Reverted(txs, n)
    BY <1>3, <1>7 DEF Overruns, Poised
  <2>3. Free(p)' => ~run[r].leased /\ Reverted(txs, n)
    <3>1. charge'[p] = c /\ run'[r] = l
      BY <1>3 DEF TypeOK, PullsOK
    <3>2. r # NoRun
      BY RunsAssumption
    <3> QED
      BY <1>3, <1>4, <1>5, <1>6, <3>1, <3>2 DEF Free, Owned
  <2> DEFINE u == Bit(run[r].at = p /\ Poised(run[r], txs))
             v == Bit(l.at = p /\ Poised(l, txs'))
             x == Bit(run[r].at = p /\ Overruns(run[r]))
             y == Bit(l.at = p /\ Overruns(l))
             f == Bit(Free(p))
             g == Bit(Free(p)')
  <2>4. y = 0 /\ v + g <= u + x /\ {u, v, x, y, f, g} \subseteq {0, 1}
    BY <1>1, <2>1, <2>2, <2>3 DEF Bit
  <2>5. 0 + v + y + g <= u + x + f + 2 * (faults' - faults)
    <3> HIDE DEF u, v, x, y, f, g
    <3> QED
      BY <1>2, <1>3, <2>4
  <2> QED
    BY <2>5 DEF Balance
<1>14. StepKeeps(r, l, p, c, 0)
  <2>1. charge'[l.at] = c /\ faults' \in Nat /\ faults' >= faults
    BY <1>2, <1>3, <1>4 DEF TypeOK, PullsOK
  <2> QED
    BY <1>3, <1>8, <1>9, <1>10, <1>11, <1>12, <1>13, <2>1 DEF StepKeeps
<1> QED
  BY <1>4, <1>5, <1>14, CallStep

(* The outcome is saved: a paid charge is not claimed again, and the token *)
(* of a declined one is free again.                                        *)
LEMMA OutcomeKeeps ==
  ASSUME TypeOK, PullInv, NEW r \in Runs, NEW st \in {"succeeded", "failed"}, SaveCharge(r, st),
         st = "failed" => run[r].pc = "decline",
         NEW l \in Run, run' = [run EXCEPT ![r] = l], txs' = txs, faults' = faults,
         run[r].pc \in ChargeStages, l.pc \notin ChargeStages, ~l.leased
  PROVE  PullInv'
<1>1. PICK p \in Periods : run[r].at = p
  BY DEF TypeOK, PullsOK, Run
<1>2. /\ faults \in Nat
      /\ \A q \in Runs \ {r} : run[q].at = p => Kept(q, run[q], charge[p])
  BY <1>1, PullFacts
<1> DEFINE c == [NoCharge EXCEPT !.status = st]
<1>3. charge' = [charge EXCEPT ![p] = c]
  BY <1>1 DEF SaveCharge
<1>4. c \in Charge /\ c.status = st /\ c.step = 0 /\ c.lease = NoRun
  BY DEF NoCharge, Charge, ChargeStatus
<1> HIDE DEF c
<1>5. At(run[r], p) /\ At(l, p) /\ Grows(p, 0)
  BY <1>1 DEF At, Grows
<1>6. Kept(r, l, charge'[l.at]) /\ Named(l, txs') /\ ChargeKept(p, c, txs')
  BY <1>4 DEF Kept, Named, ChargeKept, ChargeStages, HeldStages, SettlesStages
<1>7. ASSUME NEW q \in Runs \ {r}, run[q].at = p PROVE Kept(q, run[q], c)
  <2>1. Kept(q, run[q], charge[p]) /\ q # NoRun
    BY <1>2, <1>7, RunsAssumption
  <2> QED
    BY <1>4, <2>1 DEF Kept
<1>8. \A q \in Runs \ {r} : Alone(r, l, q, run[q]) /\ Alone(q, run[q], r, l)
  BY DEF Alone, ChargeStages, HeldStages
<1>9. Balance(r, l, p, 0)
  <2>1. ~Overruns(l) /\ ~Poised(l, txs')
    BY DEF Overruns, Poised, ChargeStages, HeldStages
  <2>2. Free(p)' => Poised(run[r], txs)
    <3>1. charge'[p] = c
      BY <1>3 DEF TypeOK, PullsOK
    <3> QED
      BY <1>4, <3>1 DEF Free, Poised
  <2> DEFINE u == Bit(run[r].at = p /\ Poised(run[r], txs))
             v == Bit(l.at = p /\ Poised(l, txs'))
             x == Bit(run[r].at = p /\ Overruns(run[r]))
             y == Bit(l.at = p /\ Overruns(l))
             f == Bit(Free(p))
             g == Bit(Free(p)')
  <2>3. y = 0 /\ v = 0 /\ g <= u /\ {u, v, x, y, f, g} \subseteq {0, 1}
    BY <1>1, <2>1, <2>2 DEF Bit
  <2>4. 0 + v + y + g <= u + x + f + 2 * (faults' - faults)
    <3> HIDE DEF u, v, x, y, f, g
    <3> QED
      BY <1>2, <2>3
  <2> QED
    BY <2>4 DEF Balance
<1>10. StepKeeps(r, l, p, c, 0)
  BY <1>2, <1>3, <1>5, <1>6, <1>7, <1>8, <1>9 DEF StepKeeps
<1> QED
  BY <1>4, <1>10, CallStep

(* A lease runs out.  Under a call that works it makes two tokens: of the  *)
(* call, which may record its pull over another's, and of the charge.      *)
LEMMA LeaseKeeps ==
  ASSUME TypeOK, PullInv, NEW p \in Periods, LeaseEnds(p)
  PROVE  PullInv'
<1>1. charge[p] \in Charge /\ charge[p].lease # NoRun
  BY DEF TypeOK, PullsOK, LeaseEnds
<1>2. PICK r \in Runs : r = charge[p].lease
  BY <1>1 DEF Charge
<1> DEFINE works == run[r].leased /\ run[r].at = p
           c == [charge[p] EXCEPT !.lease = NoRun]
           l == IF works THEN [run[r] EXCEPT !.leased = FALSE] ELSE run[r]
<1>3. /\ run[r] \in Run /\ run[r].step \in Nat /\ run[r].at \in Periods
      /\ faults \in Nat
      /\ Kept(r, run[r], charge[run[r].at]) /\ Named(run[r], txs)
      /\ \A q \in Runs \ {r} : Alone(r, run[r], q, run[q]) /\ Alone(q, run[q], r, run[r])
      /\ ChargeKept(p, charge[p], txs)
  BY BoundsAssumption DEF TypeOK, RowsOK, PullsOK, PullInv, Sound, Run
<1>4. /\ run' = [run EXCEPT ![r] = l] /\ charge' = [charge EXCEPT ![p] = c] /\ txs' = txs
  <2>1. CASE works
    BY <1>1, <1>2, <2>1 DEF LeaseEnds, Become, chain, TypeOK, PullsOK
  <2>2. CASE ~works
    <3>1. run' = run
      BY <1>2, <2>2 DEF LeaseEnds
    <3>2. run = [run EXCEPT ![r] = run[r]]
      BY DEF TypeOK, PullsOK
    <3>3. charge' = [charge EXCEPT ![p] = c] /\ txs' = txs
      BY <1>1, <1>2 DEF LeaseEnds, chain, TypeOK, PullsOK
    <3> QED
      BY <2>2, <3>1, <3>2, <3>3
  <2> QED
    BY <2>1, <2>2
<1>5. faults' \in Nat /\ faults' >= faults /\ (works => faults' = faults + 1)
  BY <1>2, <1>3 DEF LeaseEnds, Fault
<1>6. /\ c \in Charge /\ c.status = charge[p].status /\ c.step = charge[p].step /\ c.lease = NoRun
  BY <1>1 DEF Charge
<1>7. /\ l \in Run /\ l.at = run[r].at /\ l.step = run[r].step /\ l.pc = run[r].pc
      /\ works => ~l.leased
      /\ ~works => l = run[r]
  BY <1>3 DEF Run
<1>8. works <=> run[r].leased /\ run[r].at = p
  OBVIOUS
<1> HIDE DEF works, c, l
<1>9. /\ charge'[p] = c /\ \A q \in Periods : q # p => charge'[q] = charge[q]
      /\ run'[r] = l
  BY <1>4 DEF TypeOK, PullsOK
<1>10. (l = run[r] \/ (At(run[r], p) /\ At(l, p))) /\ Grows(p, 0)
  BY <1>4, <1>7, <1>8 DEF At, Grows
<1>11. Kept(r, l, charge'[l.at])
  <2>1. CASE works
    BY <1>3, <1>6, <1>7, <1>8, <1>9, <2>1 DEF Kept
  <2>2. CASE ~works /\ run[r].at = p
    BY <1>3, <1>6, <1>7, <1>8, <1>9, <2>2 DEF Kept
  <2>3. CASE run[r].at # p
    BY <1>3, <1>7, <1>8, <1>9, <2>3
  <2> QED
    BY <2>1, <2>2, <2>3
<1>12. Named(l, txs') /\ ChargeKept(p, c, txs')
  BY <1>3, <1>4, <1>6, <1>7 DEF Named, ChargeKept
<1>13. ASSUME NEW q \in Runs \ {r}, run[q].at = p PROVE Kept(q, run[q], c)
  <2>1. Kept(q, run[q], charge[p]) /\ q # NoRun /\ charge[p].lease # q
    BY <1>2, <1>13, RunsAssumption DEF PullInv
  <2> QED
    BY <1>6, <2>1 DEF Kept
<1>14. ASSUME NEW q \in Runs \ {r} PROVE Alone(r, l, q, run[q]) /\ Alone(q, run[q], r, l)
  <2>1. Alone(r, run[r], q, run[q]) /\ Alone(q, run[q], r, run[r])
    BY <1>3, <1>14
  <2> QED
    BY <1>7, <2>1 DEF Alone
<1>15. Balance(r, l, p, 0)
  <2> DEFINE u == Bit(run[r].at = p /\ Poised(run[r], txs))
             v == Bit(l.at = p /\ Poised(l, txs'))
             x == Bit(run[r].at = p /\ Overruns(run[r]))
             y == Bit(l.at = p /\ Overruns(l))
             f == Bit(Free(p))
             g == Bit(Free(p)')
  <2>0. {u, v, x, y, f, g} \subseteq {0, 1}
    BY BitIs
  <2>1. CASE works
    <3>1. run[r].leased /\ run[r].at = p /\ l.at = p /\ Owned(p)
      BY <1>1, <1>2, <1>7, <1>8, <2>1 DEF Owned
    <3>2. run[r].pc \in ChargeStages /\ (run[r].pc \in SettlesStages => charge[p].step = run[r].step)
      BY <1>2, <1>3, <3>1 DEF Kept
    <3>3. ASSUME run[r].pc \in {"list", "receipt"} PROVE v + y + g <= u + x + f + 2
      <4>1. Free(p)' => Poised(run[r], txs)
        <5>1. charge[p].status = "pending"
          BY <1>1, <1>3 DEF ChargeKept
        <5>2. Free(p)' => charge[p].step = 0 \/ Reverted(txs, charge[p].step)
          BY <1>4, <1>6, <1>9, <5>1 DEF Free
        <5> QED
          BY <3>2, <3>3, <5>2 DEF Poised, SettlesStages
      <4>2. g <= u
        BY <3>1, <4>1 DEF Bit
      <4> HIDE DEF u, v, x, y, f, g
      <4> QED
        BY <2>0, <4>2
    <3>4. ASSUME run[r].pc \in {"allowance", "send"} PROVE v + y + g <= u + x + f + 2
      <4>1. u = 1
        BY <3>1, <3>4 DEF Bit, Poised
      <4> HIDE DEF u, v, x, y, f, g
      <4> QED
        BY <2>0, <4>1
    <3>5. ASSUME run[r].pc = "record" PROVE v + y + g <= u + x + f + 2
      <4>1. v <= u
        BY <1>4, <1>7, <3>1, <3>5 DEF Bit, Poised
      <4> HIDE DEF u, v, x, y, f, g
      <4> QED
        BY <2>0, <4>1
    <3>6. ASSUME run[r].pc \in {"confirm", "succeed", "decline"} PROVE v + y + g <= u + x + f + 2
      <4>1. y = 0
        BY <1>7, <3>6 DEF Bit, Overruns
      <4> HIDE DEF u, v, x, y, f, g
      <4> QED
        BY <2>0, <4>1
    <3> HIDE DEF u, v, x, y, f, g
    <3>7. v + y + g <= u + x + f + 2
      BY <3>2, <3>3, <3>4, <3>5, <3>6 DEF ChargeStages, HeldStages
    <3>8. 0 + v + y + g <= u + x + f + 2 * (faults' - faults)
      BY <1>3, <1>5, <2>0, <2>1, <3>7
    <3> QED
      BY <3>8 DEF Balance, u, v, x, y, f, g
  <2>2. CASE ~works
    <3>1. l = run[r] /\ ~Owned(p) /\ ~Owned(p)'
      BY <1>2, <1>6, <1>7, <1>8, <1>9, <2>2 DEF Owned
    <3>2. Free(p)' <=> Free(p)
      BY <1>4, <1>6, <1>9, <3>1 DEF Free
    <3>3. g = f /\ v = u /\ y = x
      BY <1>4, <3>1, <3>2 DEF Bit
    <3> HIDE DEF u, v, x, y, f, g
    <3>4. 0 + v + y + g <= u + x + f + 2 * (faults' - faults)
      BY <1>3, <1>5, <2>0, <3>3
    <3> QED
      BY <3>4 DEF Balance, u, v, x, y, f, g
  <2> QED
    BY <2>1, <2>2
<1>16. StepKeeps(r, l, p, c, 0)
  BY <1>4, <1>5, <1>10, <1>11, <1>12, <1>13, <1>14, <1>15 DEF StepKeeps
<1> QED
  BY <1>6, <1>7, <1>16, CallStep

(* A pull reverts: its token goes to the one call or charge it decides.    *)
LEMMA RevertKeeps ==
  ASSUME TypeOK, PullInv, NEW i \in DOMAIN txs, txs[i].status = "sent",
         txs' = [txs EXCEPT ![i].status = "reverted"],
         UNCHANGED <<run, charge, faults>>
  PROVE  PullInv'
<1>1. /\ txs \in Seq(Tx) /\ DOMAIN txs = 1..Len(txs) /\ Len(txs) \in Nat /\ txs[i] \in Tx /\ i \in 1..Len(txs)
      /\ faults \in Nat
  BY LenProperties, ElementOfSeq, BoundsAssumption DEF TypeOK, RowsOK, PullsOK
<1>2. PICK p \in Periods : txs[i].period = p
  BY <1>1 DEF Tx
<1>3. /\ DOMAIN txs' = DOMAIN txs
      /\ \A j \in DOMAIN txs : txs'[j].period = txs[j].period
      /\ \A j \in DOMAIN txs : j # i => txs'[j] = txs[j]
      /\ txs'[i].status = "reverted"
  BY <1>1 DEF Tx
<1>4. /\ \A j : Reverted(txs', j) <=> Reverted(txs, j) \/ j = i
      /\ ~Reverted(txs, i)
  BY <1>1, <1>3 DEF Reverted
<1>5. /\ \A q \in Runs : /\ run[q].step \in Nat /\ run[q].step <= Len(txs)
                         /\ Kept(q, run[q], charge[run[q].at]) /\ Named(run[q], txs)
      /\ \A q, s \in Runs : Alone(q, run[q], s, run[s])
      /\ \A q \in Periods : /\ charge[q] \in Charge /\ charge[q].step \in Nat /\ charge[q].step <= Len(txs)
                            /\ ChargeKept(q, charge[q], txs)
  BY DEF TypeOK, PullsOK, PullInv, Sound, Run, Charge
<1>6. \A q \in Runs : Kept(q, run'[q], charge'[run'[q].at]) /\ Named(run'[q], txs')
  <2>1. \A q \in Runs : Named(run[q], txs')
    BY <1>1, <1>3, <1>5 DEF Named
  <2> QED
    BY <1>5, <2>1
<1>7. \A q \in Periods : ChargeKept(q, charge'[q], txs')
  BY <1>1, <1>3, <1>5 DEF ChargeKept
<1>8. \A j \in DOMAIN txs' : txs'[j].period < Covered
  BY <1>3 DEF PullInv
<1> DEFINE Gains(r) == run[r].at = p /\ Poised(run[r], txs') /\ ~Poised(run[r], txs)
<1>9. \A q : OverrunsAt(q)' = OverrunsAt(q)
  BY DEF OverrunsAt
<1>10. ASSUME NEW r \in Runs, ~(Poised(run[r], txs') <=> Poised(run[r], txs))
       PROVE  /\ Gains(r) /\ run[r].step = i
              /\ \/ run[r].pc = "record"
                 \/ run[r].leased /\ run[r].pc \in SettlesStages
  <2>1. Poised(run[r], txs) => Poised(run[r], txs')
    BY <1>4 DEF Poised
  <2>2. Poised(run[r], txs') /\ ~Poised(run[r], txs)
    BY <1>10, <2>1
  <2>3. /\ run[r].step = i
        /\ \/ run[r].pc = "record"
           \/ run[r].leased /\ run[r].pc \in SettlesStages
    BY <1>4, <2>2 DEF Poised, SettlesStages
  <2>4. run[r].at = p
    <3>1. Named(run[r], txs) /\ run[r].pc \in HeldStages
      BY <1>5, <2>3 DEF HeldStages, SettlesStages
    <3> QED
      BY <1>1, <1>2, <2>3, <3>1 DEF Named
  <2> QED
    BY <2>2, <2>3, <2>4
<1>11. ASSUME NEW q \in Periods, ~(Free(q)' <=> Free(q))
       PROVE  q = p /\ Free(q)' /\ ~Free(q) /\ charge[q].step = i /\ charge[q].status = "pending" /\ ~Owned(q)
  <2>1. Owned(q)' <=> Owned(q)
    BY DEF Owned
  <2>2. Free(q) => Free(q)'
    BY <1>4, <2>1 DEF Free
  <2>3. Free(q)' /\ ~Free(q)
    BY <1>11, <2>2
  <2>4. charge[q].step = i /\ charge[q].status = "pending" /\ ~Owned(q)
    BY <1>4, <2>1, <2>3 DEF Free
  <2>5. q = p
    BY <1>1, <1>2, <1>5, <2>4 DEF ChargeKept
  <2> QED
    BY <2>3, <2>4, <2>5
<1> HIDE DEF Gains
<1>12. ASSUME NEW r \in Runs, NEW s \in Runs, Gains(r), Gains(s) PROVE r = s
  <2>1. /\ run[r].step = i /\ run[s].step = i
        /\ run[r].pc = "record" \/ (run[r].leased /\ run[r].pc \in SettlesStages)
        /\ run[s].pc = "record" \/ (run[s].leased /\ run[s].pc \in SettlesStages)
    BY <1>10, <1>12 DEF Gains
  <2>2. Alone(r, run[r], s, run[s]) /\ Alone(s, run[s], r, run[r])
    BY <1>5
  <2> QED
    BY <1>1, <2>1, <2>2 DEF Alone, HeldStages, SettlesStages
<1>13. ASSUME NEW r \in Runs, Gains(r) PROVE Free(p)' <=> Free(p)
  <2> SUFFICES ASSUME ~(Free(p)' <=> Free(p)) PROVE FALSE
    OBVIOUS
  <2>1. charge[p].step = i /\ ~Owned(p)
    BY <1>11
  <2>2. /\ run[r].step = i /\ run[r].at = p
        /\ run[r].pc = "record" \/ (run[r].leased /\ run[r].pc \in SettlesStages)
    BY <1>10, <1>13 DEF Gains
  <2>3. Kept(r, run[r], charge[p]) /\ r # NoRun
    BY <1>5, <2>2, RunsAssumption
  <2>4. charge[p].lease = r /\ run[r].leased
    BY <1>1, <2>1, <2>2, <2>3 DEF Kept
  <2> QED
    BY <2>1, <2>2, <2>3, <2>4 DEF Owned
<1>14. ASSUME NEW q \in Periods, q < Covered PROVE Counted(q)'
  <2>1. Counted(q) /\ IsFiniteSet(PoisedAt(q)) /\ IsFiniteSet(OverrunsAt(q)) /\ Tokens(q) <= 1 + 2 * faults
    BY <1>14 DEF PullInv, Counted
  <2> DEFINE n == Cardinality(Live(txs, q))
             m == Cardinality(Live(txs', q))
             a == Cardinality(PoisedAt(q))
             b == Cardinality(PoisedAt(q)')
             c == Cardinality(OverrunsAt(q))
             f == Bit(Free(q))
             g == Bit(Free(q)')
  <2>2. /\ n \in Nat /\ m \in Nat
        /\ m = n - Bit(q = p)
    <3>1. \A x : x # i => (x \in Live(txs', q) <=> x \in Live(txs, q))
      BY <1>3 DEF Live
    <3>2. i \notin Live(txs', q) /\ (i \in Live(txs, q) <=> q = p)
      BY <1>1, <1>2, <1>3 DEF Live
    <3>3. IsFiniteSet(Live(txs, q))
      BY <1>1, LiveFinite
    <3>4. /\ m = n - Bit(i \in Live(txs, q)) + Bit(i \in Live(txs', q))
          /\ n \in Nat /\ m \in Nat
      BY <3>1, <3>3, Recount
    <3>5. Bit(i \in Live(txs, q)) = Bit(q = p) /\ Bit(i \in Live(txs', q)) = 0 /\ Bit(q = p) \in {0, 1}
      BY <3>2 DEF Bit
    <3> QED
      BY <3>4, <3>5
  <2>3. c \in Nat /\ f \in {0, 1} /\ g \in {0, 1} /\ Bit(q = p) \in {0, 1}
    BY <2>1, BitIs, FS_CardinalityType
  <2>4. /\ IsFiniteSet(PoisedAt(q)') /\ a \in Nat /\ b \in Nat
        /\ (b = a /\ g <= f + Bit(q = p)) \/ (b = a + 1 /\ q = p /\ g = f)
    <3>1. CASE \E r \in Runs : q = p /\ Gains(r)
      <4>1. PICK r \in Runs : q = p /\ Gains(r)
        BY <3>1
      <4>2. \A x : x # r => (x \in PoisedAt(q)' <=> x \in PoisedAt(q))
        BY <1>10, <1>12, <4>1 DEF PoisedAt
      <4>3. r \in PoisedAt(q)' /\ r \notin PoisedAt(q)
        BY <4>1 DEF PoisedAt, Gains
      <4>4. /\ IsFiniteSet(PoisedAt(q)') /\ a \in Nat /\ b \in Nat
            /\ b = a - Bit(r \in PoisedAt(q)) + Bit(r \in PoisedAt(q)')
        BY <2>1, <4>2, Recount
      <4>5. Bit(r \in PoisedAt(q)) = 0 /\ Bit(r \in PoisedAt(q)') = 1
        BY <4>3 DEF Bit
      <4>6. g = f
        BY <1>13, <4>1 DEF Bit
      <4> HIDE DEF a, b, f, g
      <4> QED
        BY <4>1, <4>4, <4>5, <4>6
    <3>2. CASE ~\E r \in Runs : q = p /\ Gains(r)
      <4>1. PoisedAt(q)' = PoisedAt(q)
        BY <1>10, <3>2 DEF PoisedAt, Gains
      <4>2. a \in Nat
        BY <2>1, FS_CardinalityType
      <4>3. g <= f + Bit(q = p)
        BY <1>11 DEF Bit
      <4> QED
        BY <2>1, <4>1, <4>2, <4>3
    <3> QED
      BY <3>1, <3>2
  <2>5. Tokens(q) = n + a + c + f /\ Tokens(q)' = m + b + c + g
    BY <1>9 DEF Tokens
  <2>6. q = p => Bit(q = p) = 1
    BY DEF Bit
  <2> HIDE DEF n, m, a, b, c, f, g
  <2>7. Tokens(q)' <= Tokens(q) /\ Tokens(q) \in Nat /\ Tokens(q)' \in Nat
    BY <2>2, <2>3, <2>4, <2>5, <2>6
  <2>8. Tokens(q)' <= 1 + 2 * faults'
    BY <1>1, <2>1, <2>7
  <2> QED
    BY <1>9, <2>1, <2>4, <2>8 DEF Counted
<1>15. \A q, s \in Runs : Alone(q, run'[q], s, run'[s])
  BY <1>5
<1> QED
  BY <1>6, <1>7, <1>8, <1>14, <1>15 DEF PullInv

(* A pull that is mined keeps its token. *)
LEMMA MinedKeeps ==
  ASSUME TypeOK, PullInv, NEW i \in DOMAIN txs, txs[i].status = "sent",
         txs' = [txs EXCEPT ![i].status = "mined"],
         UNCHANGED <<run, charge, faults>>
  PROVE  PullInv'
<1>1. txs \in Seq(Tx) /\ DOMAIN txs = 1..Len(txs) /\ txs[i] \in Tx
  BY LenProperties, ElementOfSeq DEF TypeOK, PullsOK
<1>2. /\ DOMAIN txs' = DOMAIN txs
      /\ \A j \in DOMAIN txs : txs'[j].period = txs[j].period
      /\ \A j : Reverted(txs', j) <=> Reverted(txs, j)
      /\ \A q : Live(txs', q) = Live(txs, q)
  BY <1>1 DEF Tx, Reverted, Live
<1>3. \A m : Poised(m, txs') <=> Poised(m, txs)
  BY <1>2, SamePoised
<1>4. \A q \in Runs : /\ run[q].step \in Nat /\ run[q].step <= Len(txs) /\ Len(txs) \in Nat
                      /\ Named(run[q], txs)
  BY LenProperties DEF TypeOK, PullsOK, PullInv, Sound, Run
<1>5. \A q \in Periods : /\ charge[q].step \in Nat /\ charge[q].step <= Len(txs)
                         /\ ChargeKept(q, charge[q], txs)
  BY DEF TypeOK, PullsOK, PullInv, Charge
<1>6. \A q \in Runs : Named(run'[q], txs')
  BY <1>1, <1>2, <1>4 DEF Named
<1>7. \A q \in Periods : ChargeKept(q, charge'[q], txs')
  <2>1. Len(txs) \in Nat
    BY LenProperties DEF TypeOK, PullsOK
  <2> QED
    BY <1>1, <1>2, <1>5, <2>1 DEF ChargeKept
<1>8. ASSUME NEW q \in Periods, q < Covered PROVE Counted(q)'
  <2>1. Counted(q)
    BY <1>8 DEF PullInv
  <2>2. PoisedAt(q)' = PoisedAt(q) /\ OverrunsAt(q)' = OverrunsAt(q)
    BY <1>3 DEF PoisedAt, OverrunsAt
  <2>3. Free(q)' <=> Free(q)
    BY <1>2 DEF Free, Owned
  <2>4. Bit(Free(q)') = Bit(Free(q))
    BY <2>3 DEF Bit
  <2>5. Tokens(q)' = Tokens(q)
    BY <1>2, <2>2, <2>4 DEF Tokens
  <2> QED
    BY <2>1, <2>2, <2>5 DEF Counted
<1>9. \A j \in DOMAIN txs' : txs'[j].period < Covered
  BY <1>2 DEF PullInv
<1> QED
  BY <1>6, <1>7, <1>8, <1>9 DEF PullInv

LEMMA PullNext == TypeOK /\ PullInv /\ [Next]_vars => PullInv'
<1> SUFFICES ASSUME TypeOK, PullInv, [Next]_vars PROVE PullInv'
  OBVIOUS
<1> USE DEF edits, chain
<1>0. /\ faults \in Nat /\ TypeOK'
      /\ \A r \in Runs : run[r] \in Run /\ run[r].step \in Nat
      /\ run \in [Runs -> Run] /\ run' \in [Runs -> Run]
  BY TypeNext, BoundsAssumption DEF TypeOK, RowsOK, PullsOK, Run
<1>1. faults' \in Nat /\ faults' >= faults
  <2>1. faults' \in Nat
    BY <1>0, BoundsAssumption DEF TypeOK, RowsOK
  <2>2. faults' = faults \/ faults' = faults + 1
    BY ZenonT(60) DEF Next, Step, vars, Fault, GrantRead, GrantSave, CancelRead, CancelSave, CancelCore, Call,
       Start, WaitForRetry, ClaimCharge, ListCharges, ReadReceipt, ReadAllowance, Send, RecordStep,
       Confirm, SaveSucceeded, SaveFailed, GetDunning, FindActive, StartDunning, FindCampaign,
       RecordAttempt, ReadForPatch, PatchSubscription, HookCore, HookEntitlement, Throw, Crash,
       SendLost, LeaseEnds, Mine, RetryIsDue, Revoke, NextPeriod
  <2> QED
    BY <1>0, <2>1, <2>2
(* A call's new record is its value in run'. *)
<1>2. ASSUME NEW r \in Runs, NEW l, Become(r, l)
      PROVE  run' = [run EXCEPT ![r] = l] /\ l \in Run
  <2>1. run' = [run EXCEPT ![r] = l] /\ run'[r] = l
    BY <1>0, <1>2 DEF Become
  <2> QED
    BY <1>0, <2>1
<1>3. ASSUME NEW r \in Runs, NEW l, Become(r, l), UNCHANGED <<charge, txs>>,
             run[r].pc \notin ChargeStages, l.pc \notin ChargeStages, l.leased = run[r].leased
      PROVE  PullInv'
  BY <1>1, <1>2, <1>3, Elsewhere
<1>4. ASSUME NEW r \in Runs, NEW pc \in Stage, Go(r, pc), UNCHANGED <<charge, txs>>,
             run[r].pc \notin ChargeStages, pc \notin ChargeStages
      PROVE  PullInv'
  <2> DEFINE l == [run[r] EXCEPT !.pc = pc]
  <2>1. Become(r, l)
    BY <1>4 DEF Go
  <2>2. l.pc = pc /\ l.leased = run[r].leased
    BY <1>0 DEF Run
  <2> HIDE DEF l
  <2> QED
    BY <1>3, <1>4, <2>1, <2>2
<1>5. ASSUME NEW r \in Runs, End(r), UNCHANGED <<charge, txs>>, run[r].pc \notin ChargeStages
      PROVE  PullInv'
  BY <1>1, <1>5, Leaves
<1>6. ASSUME NEW r \in Runs, NEW pc \in {"allowance", "send", "succeed", "decline"}, Go(r, pc),
             UNCHANGED <<charge, txs>>,
             pc \in {"allowance", "send"} => run[r].pc \in {"list", "receipt", "allowance"},
             \/ run[r].pc \in {"allowance", "send"}
             \/ run[r].pc \in {"receipt", "confirm"} /\ Reverted(txs, run[r].step)
             \/ pc = "succeed"
             \/ faults' > faults
      PROVE  PullInv'
  <2> DEFINE l == [run[r] EXCEPT !.pc = pc]
  <2>1. Become(r, l)
    BY <1>6 DEF Go
  <2>2. l.pc = pc /\ l.leased = run[r].leased /\ l.at = run[r].at /\ l.step = run[r].step
    BY <1>0 DEF Run
  <2> HIDE DEF l
  <2>3. (Poised(l, txs) => Poised(run[r], txs)) \/ faults' > faults
    BY <1>6, <2>2 DEF Poised
  <2>4. run' = [run EXCEPT ![r] = l] /\ l \in Run
    BY <1>2, <2>1
  <2> QED
    BY <1>1, <1>6, <2>2, <2>3, <2>4, Moves
<1> DEFINE Outside == {"idle", "start", "wait", "claim", "dunning", "begin", "open", "find", "attempt",
                       "patch", "save", "core", "entitle"}
<1>7. \A pc \in Outside : pc \in Stage /\ pc \notin ChargeStages
  BY DEF Stage, ChargeStages, HeldStages
<1>8. \A pc \in {"list", "receipt", "record", "confirm", "allowance", "send", "succeed", "decline"} : pc \in ChargeStages
  BY DEF ChargeStages, HeldStages
<1>a1. CASE GrantRead \/ CancelRead \/ CancelSave \/ CancelCore \/ RetryIsDue \/ Revoke \/ NextPeriod \/ UNCHANGED vars
  <2>1. UNCHANGED <<run, charge, txs>>
    BY <1>a1 DEF GrantRead, CancelRead, CancelSave, CancelCore, RetryIsDue, Revoke, NextPeriod, vars
  <2> QED
    BY <1>1, <2>1, PullStill
<1>a2. ASSUME NEW r \in Runs, GrantSave(r) PROVE PullInv'
  BY <1>4, <1>7, <1>a2 DEF GrantSave
<1>a3. ASSUME NEW r \in Runs, Call(r) PROVE PullInv'
  BY <1>4, <1>7, <1>a3 DEF Call
<1>a4. ASSUME NEW r \in Runs, Start(r) PROVE PullInv'
  <2>1. run[r].pc = "start" /\ UNCHANGED <<charge, txs>>
    BY <1>a4 DEF Start
  <2>2. CASE End(r)
    BY <1>5, <1>7, <2>1, <2>2
  <2>3. CASE ~End(r)
    <3> DEFINE l == [Rest EXCEPT !.at = current, !.seen = sub.paidThrough]
               m == IF sub.cancelAtPeriodEnd THEN [l EXCEPT !.pc = "patch", !.then = "canceled"]
                    ELSE [l EXCEPT !.pc = IF sub.status = "past_due" THEN "wait" ELSE "claim"]
    <3>1. Become(r, m)
      BY <1>a4, <2>3 DEF Start
    <3>2. m.pc \in {"patch", "wait", "claim"} /\ ~m.leased
      BY DEF Rest
    <3>3. ~run[r].leased
      <4>1. Kept(r, run[r], charge[run[r].at])
        BY DEF PullInv
      <4> QED
        BY <1>7, <2>1, <4>1 DEF Kept
    <3>4. m.leased = run[r].leased
      BY <1>0, <3>3 DEF Run, Rest
    <3> HIDE DEF m
    <3> QED
      BY <1>3, <1>7, <2>1, <3>1, <3>2, <3>4
  <2> QED
    BY <2>2, <2>3
<1>a5. ASSUME NEW r \in Runs, WaitForRetry(r) PROVE PullInv'
  BY <1>4, <1>5, <1>7, <1>a5 DEF WaitForRetry
<1>a6. ASSUME NEW r \in Runs, ClaimCharge(r) PROVE PullInv'
  <2>1. CASE Claimable(charge[run[r].at])
    BY <1>a6, <2>1, ClaimKeeps
  <2>2. CASE ~Claimable(charge[run[r].at])
    <3>1. run[r].pc = "claim" /\ UNCHANGED <<charge, txs>>
      BY <1>a6, <2>2 DEF ClaimCharge
    <3>2. CASE End(r)
      BY <1>5, <1>7, <3>1, <3>2
    <3>3. CASE ~End(r)
      <4> DEFINE l == [run[r] EXCEPT !.pc = "patch", !.then = "paid"]
      <4>1. Become(r, l)
        BY <1>a6, <2>2, <3>3 DEF ClaimCharge
      <4>2. l.pc = "patch" /\ l.leased = run[r].leased
        BY <1>0 DEF Run
      <4> HIDE DEF l
      <4> QED
        BY <1>3, <1>7, <3>1, <4>1, <4>2
    <3> QED
      BY <3>2, <3>3
  <2> QED
    BY <2>1, <2>2
<1>a7. ASSUME NEW r \in Runs, ListCharges(r) PROVE PullInv'
  <2> DEFINE n == Cardinality(Succeeded \ {run[r].at})
             l == [run[r] EXCEPT !.prior = n, !.inTry = TRUE,
                                 !.pc = IF run[r].step = 0 THEN "allowance" ELSE "receipt"]
  <2>1. Become(r, l) /\ UNCHANGED <<charge, txs>> /\ run[r].pc = "list"
    BY <1>a7 DEF ListCharges
  <2> HIDE DEF n
  <2>2. /\ l.leased = run[r].leased /\ l.at = run[r].at /\ l.step = run[r].step
        /\ l.pc = IF run[r].step = 0 THEN "allowance" ELSE "receipt"
    BY <1>0 DEF Run
  <2> HIDE DEF l
  <2>3. Poised(l, txs) => Poised(run[r], txs)
    BY <2>1, <2>2 DEF Poised
  <2>4. run' = [run EXCEPT ![r] = l] /\ l \in Run
    BY <1>2, <2>1
  <2> QED
    BY <1>1, <2>1, <2>2, <2>3, <2>4, Moves
(* The pull a call settles is one of those broadcast. *)
<1>9. ASSUME NEW r \in Runs, run[r].pc \in {"receipt", "confirm"}
      PROVE  run[r].step \in DOMAIN txs /\ txs[run[r].step].status \in {"sent", "mined", "reverted"}
  <2>1. run[r].step > 0 /\ run[r].step <= Len(txs)
    BY <1>9 DEF PullInv, Kept, TypeOK, PullsOK, Sound
  <2>2. txs \in Seq(Tx) /\ DOMAIN txs = 1..Len(txs) /\ Len(txs) \in Nat
    BY LenProperties DEF TypeOK, PullsOK
  <2>3. run[r].step \in 1..Len(txs)
    BY <1>0, <2>1, <2>2
  <2>4. txs[run[r].step] \in Tx
    BY <2>2, <2>3, ElementOfSeq
  <2> QED
    BY <2>2, <2>3, <2>4 DEF Tx
<1>a8. ASSUME NEW r \in Runs, ReadReceipt(r) PROVE PullInv'
  <2>1. run[r].pc = "receipt" /\ UNCHANGED <<charge, txs>>
    BY <1>a8 DEF ReadReceipt
  <2>2. CASE txs[run[r].step].status = "sent"
    <3>1. End(r) /\ ~Reverted(txs, run[r].step)
      BY <1>a8, <2>2 DEF ReadReceipt, Reverted
    <3> QED
      BY <1>1, <2>1, <3>1, Leaves
  <2>3. CASE txs[run[r].step].status = "mined"
    <3>1. Go(r, "succeed")
      BY <1>a8, <2>3 DEF ReadReceipt
    <3> QED
      BY <1>6, <2>1, <3>1
  <2>4. CASE txs[run[r].step].status = "reverted"
    <3>1. Go(r, "allowance") /\ Reverted(txs, run[r].step)
      BY <1>9, <1>a8, <2>1, <2>4 DEF ReadReceipt, Reverted
    <3> QED
      BY <1>6, <2>1, <3>1
  <2> QED
    BY <1>9, <2>1, <2>2, <2>3, <2>4
<1>a9. ASSUME NEW r \in Runs, ReadAllowance(r) PROVE PullInv'
  <2> DEFINE pc == IF Reconciled(run[r]) THEN "succeed" ELSE IF allowance < 1 THEN "decline" ELSE "send"
             l == [run[r] EXCEPT !.prior = 0, !.pc = pc]
  <2>1. Become(r, l) /\ UNCHANGED <<charge, txs>> /\ run[r].pc = "allowance"
    BY <1>a9 DEF ReadAllowance
  <2>2. pc \in {"succeed", "decline", "send"}
    OBVIOUS
  <2> HIDE DEF pc
  <2>3. l.leased = run[r].leased /\ l.at = run[r].at /\ l.step = run[r].step /\ l.pc = pc
    BY <1>0 DEF Run
  <2> HIDE DEF l
  <2>4. Poised(run[r], txs)
    BY <2>1 DEF Poised
  <2>5. run' = [run EXCEPT ![r] = l] /\ l \in Run
    BY <1>2, <2>1
  <2> QED
    BY <1>1, <2>1, <2>2, <2>3, <2>4, <2>5, Moves
<1>a10. ASSUME NEW r \in Runs, Send(r) PROVE PullInv'
  <2>1. run[r].pc = "send" /\ charge' = charge
    BY <1>a10 DEF Send
  <2>2. CASE Broadcast(r)
    <3> DEFINE l == [run[r] EXCEPT !.pc = "record", !.step = Len(txs) + 1]
    <3>1. txs' # txs
      <4>1. txs \in Seq(Tx) /\ Len(txs) \in Nat /\ run[r].at \in Periods
        BY <1>0, LenProperties DEF TypeOK, PullsOK, Run
      <4> QED
        BY <2>2, <4>1, BroadcastChanges
    <3>2. Become(r, l)
      BY <1>a10, <3>1 DEF Send
    <3>3. l.leased = run[r].leased /\ l.at = run[r].at /\ l.pc = "record" /\ l.step = Len(txs) + 1
      BY <1>0 DEF Run
    <3> HIDE DEF l
    <3>4. run' = [run EXCEPT ![r] = l] /\ l \in Run
      BY <1>2, <3>2
    <3> QED
      BY <1>1, <2>1, <2>2, <3>3, <3>4, BroadcastKeeps
  <2>3. CASE ~Broadcast(r)
    <3>1. Go(r, "decline") /\ UNCHANGED <<charge, txs>>
      BY <1>a10, <2>3 DEF Send
    <3> QED
      BY <1>6, <2>1, <3>1
  <2> QED
    BY <2>2, <2>3
<1>a11. ASSUME NEW r \in Runs, RecordStep(r) PROVE PullInv'
  BY <1>a11, RecordKeeps
<1>a12. ASSUME NEW r \in Runs, Confirm(r) PROVE PullInv'
  <2>1. run[r].pc = "confirm" /\ UNCHANGED <<charge, txs>>
    BY <1>a12 DEF Confirm
  <2>2. CASE txs[run[r].step].status = "sent"
    <3>1. End(r) /\ ~Reverted(txs, run[r].step)
      BY <1>a12, <2>2 DEF Confirm, Reverted
    <3> QED
      BY <1>1, <2>1, <3>1, Leaves
  <2>3. CASE txs[run[r].step].status = "mined"
    <3>1. Go(r, "succeed")
      BY <1>a12, <2>3 DEF Confirm
    <3> QED
      BY <1>6, <2>1, <3>1
  <2>4. CASE txs[run[r].step].status = "reverted"
    <3>1. Go(r, "decline") /\ Reverted(txs, run[r].step)
      BY <1>9, <1>a12, <2>1, <2>4 DEF Confirm, Reverted
    <3> QED
      BY <1>6, <2>1, <3>1
  <2> QED
    BY <1>9, <2>1, <2>2, <2>3, <2>4
<1>a13. ASSUME NEW r \in Runs, SaveSucceeded(r) PROVE PullInv'
  <2> DEFINE l == [run[r] EXCEPT !.pc = "patch", !.then = "paid", !.step = 0, !.leased = FALSE]
  <2>1. /\ Become(r, l) /\ SaveCharge(r, "succeeded") /\ run[r].pc = "succeed"
        /\ txs' = txs /\ faults' = faults
    BY <1>a13 DEF SaveSucceeded
  <2>2. l.pc = "patch" /\ ~l.leased
    BY <1>0 DEF Run
  <2> HIDE DEF l
  <2>3. run' = [run EXCEPT ![r] = l] /\ l \in Run
    BY <1>2, <2>1
  <2> QED
    BY <1>7, <1>8, <2>1, <2>2, <2>3, OutcomeKeeps
<1>a14. ASSUME NEW r \in Runs, SaveFailed(r) PROVE PullInv'
  <2> DEFINE l == [Rest EXCEPT !.pc = "dunning", !.at = run[r].at, !.then = "declined"]
  <2>1. /\ Become(r, l) /\ SaveCharge(r, "failed") /\ run[r].pc = "decline"
        /\ txs' = txs /\ faults' = faults
    BY <1>a14 DEF SaveFailed
  <2>2. l.pc = "dunning" /\ ~l.leased
    BY DEF Rest
  <2> HIDE DEF l
  <2>3. run' = [run EXCEPT ![r] = l] /\ l \in Run
    BY <1>2, <2>1
  <2> QED
    BY <1>7, <1>8, <2>1, <2>2, <2>3, OutcomeKeeps
<1>a15. ASSUME NEW r \in Runs, GetDunning(r) \/ FindActive(r) \/ StartDunning(r) PROVE PullInv'
  <2>1. UNCHANGED <<charge, txs>> /\ run[r].pc \in {"dunning", "begin", "open"}
    BY <1>a15 DEF GetDunning, FindActive, StartDunning
  <2>2. End(r) \/ Go(r, "find") \/ Go(r, "core") \/ Go(r, "begin") \/ Go(r, "open")
    BY <1>a15 DEF GetDunning, FindActive, StartDunning
  <2> QED
    BY <1>4, <1>5, <1>7, <2>1, <2>2
<1>a16. ASSUME NEW r \in Runs, FindCampaign(r) PROVE PullInv'
  <2>1. run[r].pc = "find" /\ UNCHANGED <<charge, txs>>
    BY <1>a16 DEF FindCampaign
  <2>2. CASE dunning.status = "active"
    <3> DEFINE l == [run[r] EXCEPT !.pc = "attempt", !.dun = dunning]
    <3>1. Become(r, l)
      BY <1>a16, <2>2 DEF FindCampaign
    <3>2. l.pc = "attempt" /\ l.leased = run[r].leased
      BY <1>0 DEF Run
    <3> HIDE DEF l
    <3> QED
      BY <1>3, <1>7, <2>1, <3>1, <3>2
  <2>3. CASE dunning.status # "active"
    <3>1. Go(r, "core") \/ End(r)
      BY <1>a16, <2>3 DEF FindCampaign
    <3> QED
      BY <1>4, <1>5, <1>7, <2>1, <3>1
  <2> QED
    BY <2>2, <2>3
<1>a17. ASSUME NEW r \in Runs, RecordAttempt(r) PROVE PullInv'
  <2> DEFINE d == Attempt(run[r].dun, run[r].then = "paid")
             l == IF run[r].then = "paid" THEN [run[r] EXCEPT !.pc = "core", !.dun = NoDunning]
                  ELSE [run[r] EXCEPT !.pc = "patch", !.dun = NoDunning,
                                      !.then = IF d.status = "exhausted" THEN "suspended" ELSE "past_due"]
  <2>1. run[r].pc = "attempt" /\ UNCHANGED <<charge, txs>> /\ Become(r, l)
    BY <1>a17 DEF RecordAttempt
  <2> HIDE DEF d
  <2>2. l.pc \in {"core", "patch"} /\ l.leased = run[r].leased
    BY <1>0 DEF Run
  <2> HIDE DEF l
  <2> QED
    BY <1>3, <1>7, <2>1, <2>2
<1>a18. ASSUME NEW r \in Runs, ReadForPatch(r) PROVE PullInv'
  <2> DEFINE l == [run[r] EXCEPT !.pc = "save", !.patched = sub]
  <2>1. run[r].pc = "patch" /\ UNCHANGED <<charge, txs>> /\ Become(r, l)
    BY <1>a18 DEF ReadForPatch
  <2>2. l.pc = "save" /\ l.leased = run[r].leased
    BY <1>0 DEF Run
  <2> HIDE DEF l
  <2> QED
    BY <1>3, <1>7, <2>1, <2>2
<1>a19. ASSUME NEW r \in Runs, PatchSubscription(r) PROVE PullInv'
  <2> DEFINE l == [run[r] EXCEPT !.patched = NewSub,
                                 !.pc = IF run[r].then = "paid" THEN "dunning" ELSE "core"]
  <2>1. run[r].pc = "save" /\ UNCHANGED <<charge, txs>> /\ (End(r) \/ Become(r, l))
    BY <1>a19 DEF PatchSubscription
  <2>2. l.pc \in {"dunning", "core"} /\ l.leased = run[r].leased
    BY <1>0 DEF Run
  <2> HIDE DEF l
  <2> QED
    BY <1>3, <1>5, <1>7, <2>1, <2>2
<1>a20. ASSUME NEW r \in Runs, HookCore(r) PROVE PullInv'
  <2> DEFINE l == [run[r] EXCEPT !.pc = "entitle",
                                 !.delivers = access.core \in {"none", "expired"} \/ run[r].at = 0]
  <2>1. run[r].pc = "core" /\ UNCHANGED <<charge, txs>> /\ (End(r) \/ Become(r, l))
    BY <1>a20 DEF HookCore
  <2>2. l.pc = "entitle" /\ l.leased = run[r].leased
    BY <1>0 DEF Run
  <2> HIDE DEF l
  <2> QED
    BY <1>3, <1>5, <1>7, <2>1, <2>2
<1>a21. ASSUME NEW r \in Runs, HookEntitlement(r) PROVE PullInv'
  BY <1>5, <1>7, <1>a21 DEF HookEntitlement
<1>a22. ASSUME NEW r \in Runs, Throw(r) PROVE PullInv'
  <2>1. Go(r, "decline") /\ UNCHANGED <<charge, txs>> /\ faults' > faults
    BY <1>0, <1>a22 DEF Throw, Fault
  <2> QED
    BY <1>6, <2>1
<1>a23. ASSUME NEW r \in Runs, Crash(r) PROVE PullInv'
  <2>1. End(r) /\ UNCHANGED <<charge, txs>> /\ faults' > faults
    BY <1>0, <1>a23 DEF Crash, Fault
  <2> QED
    BY <1>1, <2>1, Leaves
<1>a24. ASSUME NEW r \in Runs, SendLost(r) PROVE PullInv'
  <2> DEFINE l == [run[r] EXCEPT !.pc = "decline"]
  <2>1. Become(r, l) /\ Broadcast(r) /\ run[r].pc = "send" /\ charge' = charge /\ faults' > faults
    BY <1>0, <1>a24 DEF SendLost, Fault, Go
  <2>2. l.pc = "decline" /\ l.leased = run[r].leased /\ l.at = run[r].at
    BY <1>0 DEF Run
  <2> HIDE DEF l
  <2>3. run' = [run EXCEPT ![r] = l] /\ l \in Run
    BY <1>2, <2>1
  <2> QED
    BY <1>1, <2>1, <2>2, <2>3, BroadcastKeeps
<1>a25. ASSUME NEW p \in Periods, LeaseEnds(p) PROVE PullInv'
  BY <1>a25, LeaseKeeps
<1>a26. ASSUME NEW i \in DOMAIN txs, Mine(i) PROVE PullInv'
  <2>1. txs[i].status = "sent" /\ UNCHANGED <<run, charge, faults>>
    BY <1>a26 DEF Mine
  <2>2. txs' = [txs EXCEPT ![i].status = "mined"] \/ txs' = [txs EXCEPT ![i].status = "reverted"]
    BY <1>a26 DEF Mine
  <2> QED
    BY <2>1, <2>2, MinedKeeps, RevertKeeps
<1> QED
  BY <1>a1, <1>a2, <1>a3, <1>a4, <1>a5, <1>a6, <1>a7, <1>a8, <1>a9, <1>a10, <1>a11, <1>a12, <1>a13,
     <1>a14, <1>a15, <1>a16, <1>a17, <1>a18, <1>a19, <1>a20, <1>a21, <1>a22, <1>a23, <1>a24, <1>a25,
     <1>a26 DEF Next, Step

LEMMA PullsCounted == ASSUME TypeOK, PullInv PROVE PulledOnce
<1> SUFFICES ASSUME NEW p \in Periods PROVE Pulls(p) <= 1 + 2 * faults
  BY DEF PulledOnce
<1> DEFINE S == {i \in DOMAIN txs : txs[i].period = p /\ txs[i].status = "mined"}
<1>1. faults \in Nat /\ txs \in Seq(Tx) /\ p \in Int /\ Covered \in Int
  BY BoundsAssumption, SizesAssumption DEF TypeOK, RowsOK, PullsOK, Periods
<1>2. S \subseteq Live(txs, p)
  BY DEF Live
<1>3. IsFiniteSet(Live(txs, p)) /\ Cardinality(Live(txs, p)) \in Nat
  BY <1>1, LiveFinite
<1>4. Cardinality(S) <= Cardinality(Live(txs, p)) /\ Cardinality(S) \in Nat
  BY <1>2, <1>3, FS_Subset, FS_CardinalityType
<1>5. CASE p < Covered
  <2>1. Counted(p)
    BY <1>5 DEF PullInv
  <2>2. Cardinality(PoisedAt(p)) \in Nat /\ Cardinality(OverrunsAt(p)) \in Nat /\ Bit(Free(p)) \in {0, 1}
    BY <2>1, FS_CardinalityType, BitIs DEF Counted
  <2>3. Tokens(p) <= 1 + 2 * faults
    BY <2>1 DEF Counted
  <2> DEFINE a == Cardinality(Live(txs, p))
             b == Cardinality(PoisedAt(p))
             c == Cardinality(OverrunsAt(p))
             f == Bit(Free(p))
  <2>4. a + b + c + f <= 1 + 2 * faults
    BY <2>3 DEF Tokens
  <2> HIDE DEF S, a, b, c, f
  <2>5. Cardinality(S) <= 1 + 2 * faults
    <3>1. a \in Nat /\ b \in Nat /\ c \in Nat /\ f \in {0, 1} /\ Cardinality(S) <= a
      BY <1>3, <1>4, <2>2 DEF a, b, c, f
    <3> QED
      BY <1>1, <1>4, <2>4, <3>1
  <2> QED
    BY <2>5 DEF Pulls, S
<1>6. CASE ~(p < Covered)
  <2>1. S = {}
    BY <1>6 DEF PullInv
  <2> HIDE DEF S
  <2>2. Cardinality(S) = 0
    BY <2>1, FS_EmptySet
  <2> QED
    BY <1>1, <2>2 DEF Pulls, S
<1> QED
  BY <1>5, <1>6

(***************************************************************************)
(* A period is pulled at most once, and twice more for each fault, however *)
(* many calls run together and over however many periods.                  *)
(***************************************************************************)
THEOREM PeriodsPulledOnce == Spec => []PulledOnce
<1>1. Init => PullInv
  BY PullInit
<1>2. TypeOK /\ PullInv /\ [Next]_vars => PullInv'
  BY PullNext
<1>3. TypeOK /\ PullInv => PulledOnce
  BY PullsCounted
<1> QED
  BY <1>1, <1>2, <1>3, BillingTypeCorrect, PTL DEF Spec
-----------------------------------------------------------------------------
(***************************************************************************)
(* PaidIsPulled.  A period counts when it is shown as paid, or a call is   *)
(* about to show it, or a pull of it was mined and it is open: the clock   *)
(* or a call is in it.  Only a pull that is mined, and an allowance read   *)
(* as "already pulled", make a period count.                               *)
(***************************************************************************)
Mined(t) == Cardinality({i \in DOMAIN t : t[i].status = "mined"})
Active(l) == l.pc \notin {"idle", "start"}
Open(p) == p = current \/ \E r \in Runs : Active(run[r]) /\ run[r].at = p
Pulled(p) == \E i \in DOMAIN txs : txs[i].period = p /\ txs[i].status = "mined"
Counts == {p \in Periods : \/ charge[p].status = "succeeded"
                           \/ Open(p) /\ Pulled(p)
                           \/ \E r \in Runs : run[r].pc = "succeed" /\ run[r].at = p}

(* What a call that counted n periods paid before p may rely on when it    *)
(* reads the allowance: before some period lo there are no more than n     *)
(* that count, no call is left there, and the later ones are those that    *)
(* began while a call was under way, each a fault.                         *)
Before(lo) == Counts \cap 0..(lo - 1)
Seen(p, n) ==
  /\ n <= Mined(txs) + faults
  /\ \E lo \in 0..p :
       /\ \A s \in Runs : Active(run[s]) => lo <= run[s].at
       /\ current - lo <= faults
       /\ Cardinality(Before(lo)) <= n

(* Before the grant nothing was pulled and nobody charges.                 *)
Ungranted ==
  /\ txs = << >> /\ ~revoked
  /\ sub.status \in {"pending_grant", "canceled"} /\ cancel.seen.status \in {"pending_grant", "canceled"}
  /\ \A r \in Runs : run[r].pc = "idle"
AllowanceKept ==
  /\ revoked => allowance = 0
  /\ ~revoked /\ grant # "none" => allowance = Covered - Mined(txs)

Backed ==
  \/ Cardinality(Counts) <= Mined(txs) + faults
  \/ revoked /\ Covered - 1 <= Mined(txs) + faults

PaidInv ==
  /\ grant = "none" => Ungranted
  /\ AllowanceKept
  /\ \A r \in Runs : Active(run[r]) => run[r].at <= current /\ current - run[r].at <= faults
  /\ \A i \in DOMAIN txs : txs[i].period <= current
  /\ \A p \in Periods : charge[p].status = "succeeded" => p <= current /\ p < Covered
  /\ \A r \in Runs : run[r].pc = "succeed" => run[r].at < Covered
  /\ \A r \in Runs : run[r].pc \in {"receipt", "allowance"} => Seen(run[r].at, run[r].prior)
  /\ Backed

LEMMA CountsFinite ==
  /\ IsFiniteSet(Counts) /\ Cardinality(Counts) \in Nat
  /\ \A S \in SUBSET Periods : IsFiniteSet(S) /\ Cardinality(S) \in Nat
<1>1. IsFiniteSet(0..MaxPeriod)
  BY SizesAssumption, FS_Interval
<1>2. IsFiniteSet(Periods) /\ Counts \subseteq Periods
  BY <1>1 DEF Periods, Counts
<1>3. ASSUME NEW S \in SUBSET Periods PROVE IsFiniteSet(S) /\ Cardinality(S) \in Nat
  BY <1>2, FS_Subset, FS_CardinalityType
<1> QED
  BY <1>2, <1>3

LEMMA MinedType ==
  ASSUME NEW t \in Seq(Tx)
  PROVE  Mined(t) \in Nat /\ IsFiniteSet({i \in DOMAIN t : t[i].status = "mined"})
<1>1. Len(t) \in Nat /\ DOMAIN t = 1..Len(t)
  BY LenProperties
<1>2. IsFiniteSet(1..Len(t))
  BY <1>1, FS_Interval
<1> QED
  BY <1>1, <1>2, FS_Subset, FS_CardinalityType DEF Mined

(* A broadcast is not a pull yet. *)
LEMMA GrowthPaid ==
  ASSUME txs \in Seq(Tx), NEW p \in Periods, NEW w, Grows(p, w)
  PROVE  /\ Mined(txs') = Mined(txs)
         /\ \A q : Pulled(q)' <=> Pulled(q)
         /\ \A i \in DOMAIN txs' : (i \in DOMAIN txs /\ txs'[i] = txs[i]) \/ (w = 1 /\ txs'[i].period = p)
<1>0. Len(txs) \in Nat /\ DOMAIN txs = 1..Len(txs)
  BY LenProperties
<1>1. CASE txs' = txs
  <2>1. Mined(txs') = Mined(txs)
    BY <1>1 DEF Mined
  <2>2. \A q : Pulled(q)' <=> Pulled(q)
    BY <1>1 DEF Pulled
  <2> QED
    BY <1>1, <2>1, <2>2
<1>2. CASE w = 1 /\ txs' = Append(txs, [period |-> p, status |-> "sent"])
  <2> DEFINE t == [period |-> p, status |-> "sent"]
             n == Len(txs) + 1
  <2>1. t \in Tx /\ t.period = p /\ t.status = "sent"
    BY DEF Tx
  <2>2. txs' = Append(txs, t)
    BY <1>2
  <2> HIDE DEF t
  <2>3. /\ txs' \in Seq(Tx) /\ Len(txs') = n /\ txs'[n] = t
        /\ \A i \in 1..Len(txs) : txs'[i] = txs[i]
    BY <2>1, <2>2, AppendProperties
  <2>4. DOMAIN txs' = 1..n
    BY <2>3, LenProperties
  <2>5. {i \in DOMAIN txs' : txs'[i].status = "mined"} = {i \in DOMAIN txs : txs[i].status = "mined"}
    BY <1>0, <2>1, <2>3, <2>4
  <2>6. \A q : Pulled(q)' <=> Pulled(q)
    BY <1>0, <2>1, <2>3, <2>4 DEF Pulled
  <2>7. \A i \in DOMAIN txs' : (i \in DOMAIN txs /\ txs'[i] = txs[i]) \/ (w = 1 /\ txs'[i].period = p)
    BY <1>0, <1>2, <2>1, <2>3, <2>4
  <2> QED
    BY <2>5, <2>6, <2>7 DEF Mined
<1> QED
  BY <1>1, <1>2 DEF Grows

(* The numbers the count is made of, before and after a step. *)
Numbers ==
  /\ current \in Periods /\ current \in Nat /\ faults \in Nat /\ Mined(txs) \in Nat
  /\ \A r \in Runs : run[r] \in Run /\ run[r].at \in Periods /\ run[r].at \in Nat /\ run[r].prior \in Nat
  /\ Covered \in Nat /\ Covered > 0

LEMMA PaidTypes == ASSUME TypeOK PROVE Numbers
<1>1. txs \in Seq(Tx)
  BY DEF TypeOK, PullsOK
<1>2. Mined(txs) \in Nat
  BY <1>1, MinedType
<1> QED
  BY <1>2, SizesAssumption, BoundsAssumption DEF Numbers, TypeOK, RowsOK, PullsOK, Run, Periods

LEMMA PaidTypesNext == ASSUME TypeOK' PROVE Numbers'
<1>1. txs' \in Seq(Tx)
  BY DEF TypeOK, PullsOK
<1>2. Mined(txs') \in Nat
  BY <1>1, MinedType
<1> QED
  BY <1>2, SizesAssumption, BoundsAssumption DEF Numbers, TypeOK, RowsOK, PullsOK, Run, Periods

LEMMA Steady ==
  ASSUME NEW c \in Nat, NEW f \in Nat, NEW g \in Nat, f <= g
  PROVE  c - c <= g - f /\ c <= c
  OBVIOUS

LEMMA Later ==
  ASSUME NEW lo \in Int, NEW c \in Nat, NEW f \in Nat, NEW d \in Nat, NEW g \in Nat, c - lo <= f, d - c <= g - f
  PROVE  d - lo <= g
  OBVIOUS

LEMMA Raised ==
  ASSUME NEW n \in Nat, NEW a \in Nat, NEW b \in Nat, NEW c \in Nat, NEW d \in Nat, n <= a + b, a <= c, b <= d
  PROVE  n <= c + d
  OBVIOUS

(* What a call has seen stays true while no period opens behind it.        *)
LEMMA SeenKept ==
  ASSUME TypeOK, TypeOK', NEW p \in Periods, NEW n \in Nat, Seen(p, n), p <= current,
         Mined(txs) <= Mined(txs'), faults <= faults', current <= current',
         current' - current <= faults' - faults,
         \A s \in Runs : Active(run'[s]) => Open(run'[s].at),
         \A q \in Counts' : q \in Counts \/ Open(q)
  PROVE  Seen(p, n)'
<1>1. /\ current \in Nat /\ faults \in Nat /\ Mined(txs) \in Nat
      /\ current' \in Nat /\ faults' \in Nat /\ Mined(txs') \in Nat
      /\ p \in Nat
  BY PaidTypes, PaidTypesNext DEF Numbers, Periods
<1>2. PICK lo \in 0..p : /\ \A s \in Runs : Active(run[s]) => lo <= run[s].at
                         /\ current - lo <= faults
                         /\ Cardinality(Before(lo)) <= n
  BY DEF Seen
<1>3. \A q : Open(q) => lo <= q
  BY <1>1, <1>2 DEF Open
<1>4. \A s \in Runs : Active(run'[s]) => lo <= run'[s].at
  BY <1>3
<1>5. Before(lo)' \subseteq Before(lo)
  <2>1. ASSUME NEW q \in Counts', q \in 0..(lo - 1) PROVE q \in Counts
    BY <1>1, <1>2, <1>3, <2>1
  <2> QED
    BY <2>1 DEF Before
<1>6. Cardinality(Before(lo)') <= n
  <2>1. Before(lo) \subseteq Periods
    BY DEF Before, Counts
  <2>2. IsFiniteSet(Before(lo)) /\ Cardinality(Before(lo)) \in Nat
    BY <2>1, CountsFinite
  <2>3. Cardinality(Before(lo)') <= Cardinality(Before(lo)) /\ Cardinality(Before(lo)') \in Nat
    BY <1>5, <2>2, FS_Subset, FS_CardinalityType
  <2> QED
    BY <1>2, <2>2, <2>3
<1>7. n <= Mined(txs') + faults' /\ current' - lo <= faults'
  <2>1. n <= Mined(txs) + faults
    BY DEF Seen
  <2>2. lo \in Int /\ current - lo <= faults
    BY <1>1, <1>2
  <2>3. n <= Mined(txs') + faults'
    BY <1>1, <2>1, Raised
  <2>4. current' - lo <= faults'
    BY <1>1, <2>2, Later
  <2> QED
    BY <2>3, <2>4
<1> QED
  BY <1>2, <1>4, <1>6, <1>7 DEF Seen

(* One period more may count when one pull more is mined.                  *)
LEMMA BackedKept ==
  ASSUME TypeOK, TypeOK', Backed, revoked => revoked', faults <= faults', NEW x,
         \/ Counts' \subseteq Counts /\ Mined(txs) <= Mined(txs')
         \/ Counts' \subseteq Counts \cup {x} /\ Mined(txs) + 1 <= Mined(txs')
  PROVE  Backed'
<1>1. /\ faults \in Nat /\ Mined(txs) \in Nat /\ faults' \in Nat /\ Mined(txs') \in Nat /\ Covered \in Nat
  BY PaidTypes, PaidTypesNext DEF Numbers
<1>2. IsFiniteSet(Counts) /\ Cardinality(Counts) \in Nat
  BY CountsFinite
<1>3. ASSUME Counts' \subseteq Counts, Mined(txs) <= Mined(txs') PROVE Backed'
  <2>1. Cardinality(Counts') <= Cardinality(Counts) /\ Cardinality(Counts') \in Nat
    BY <1>2, <1>3, FS_Subset, FS_CardinalityType
  <2>2. Mined(txs) + faults <= Mined(txs') + faults'
    BY <1>1, <1>3
  <2>3. Mined(txs) + faults \in Nat /\ Mined(txs') + faults' \in Nat /\ Covered - 1 \in Int
    BY <1>1
  <2> QED
    BY <1>2, <2>1, <2>2, <2>3 DEF Backed
<1>4. ASSUME Counts' \subseteq Counts \cup {x}, Mined(txs) + 1 <= Mined(txs') PROVE Backed'
  <2>1. IsFiniteSet(Counts \cup {x}) /\ Cardinality(Counts \cup {x}) <= Cardinality(Counts) + 1
    <3>1. CASE x \in Counts
      <4>1. Counts \cup {x} = Counts
        BY <3>1
      <4>2. Cardinality(Counts) <= Cardinality(Counts) + 1
        BY <1>2
      <4> QED
        BY <1>2, <4>1, <4>2
    <3>2. CASE x \notin Counts
      BY <1>2, <3>2, FS_AddElement
    <3> QED
      BY <3>1, <3>2
  <2>2. Cardinality(Counts \cup {x}) \in Nat
    BY <2>1, FS_CardinalityType
  <2>3. Cardinality(Counts') <= Cardinality(Counts \cup {x}) /\ Cardinality(Counts') \in Nat
    BY <1>4, <2>1, FS_Subset, FS_CardinalityType
  <2>4. Mined(txs) + faults + 1 <= Mined(txs') + faults'
    BY <1>1, <1>4
  <2>5. Mined(txs) + faults \in Nat /\ Mined(txs') + faults' \in Nat /\ Covered - 1 \in Int
    BY <1>1
  <2>6. Cardinality(Counts') <= Cardinality(Counts) + 1
    BY <1>2, <2>1, <2>2, <2>3
  <2> QED
    BY <1>2, <2>3, <2>4, <2>5, <2>6 DEF Backed
<1> QED
  BY <1>3, <1>4

LEMMA PaidInit == Init => PaidInv
<1> SUFFICES ASSUME Init PROVE PaidInv
  OBVIOUS
<1>1. /\ txs = << >> /\ DOMAIN txs = {} /\ faults = 0 /\ grant = "none" /\ ~revoked /\ allowance = 0
      /\ \A r \in Runs : run[r] = Rest
      /\ \A p \in Periods : charge[p] = NoCharge
  BY DEF Init
<1>2. \A r \in Runs : run[r].pc = "idle"
  BY <1>1 DEF Rest
<1>3. Ungranted
  BY <1>1, <1>2 DEF Init, Ungranted, NewSub, NoCancel
<1>4. Counts = {}
  BY <1>1, <1>2 DEF Counts, Pulled, NoCharge
<1>5. Mined(txs) = 0
  <2>1. {i \in DOMAIN txs : txs[i].status = "mined"} = {}
    BY <1>1
  <2> QED
    BY <2>1, FS_EmptySet DEF Mined
<1>6. Backed
  BY <1>1, <1>4, <1>5, FS_EmptySet DEF Backed
<1> QED
  BY <1>1, <1>2, <1>3, <1>6 DEF PaidInv, AllowanceKept, Active, NoCharge

(* What a step of call r needs to keep PaidInv: it moves to l. *)
CallPays(r, l) ==
  /\ run' = [run EXCEPT ![r] = l] /\ UNCHANGED <<current, allowance, revoked>> /\ faults <= faults'
  /\ \E p \in Periods, w \in {0, 1} : Grows(p, w) /\ (w = 1 => p <= current)
  /\ grant' = "none" => Ungranted'
  /\ grant' # "none" => grant # "none"
  /\ Active(l) => l.at = current \/ (Active(run[r]) /\ l.at = run[r].at)
  /\ \A q \in Periods : charge'[q].status = "succeeded" =>
       charge[q].status = "succeeded" \/ (run[r].pc = "succeed" /\ run[r].at = q)
  /\ l.pc = "succeed" => l.at < Covered
  /\ l.pc \in {"receipt", "allowance"} => Seen(l.at, l.prior)

(* The success it comes to is one that counts already. *)
Evident(r, l) ==
  l.pc = "succeed" => Pulled(l.at) \/ (run[r].pc = "succeed" /\ run[r].at = l.at)

LEMMA CallCounts ==
  ASSUME TypeOK, TypeOK', PaidInv, NEW r \in Runs, NEW l \in Run, CallPays(r, l)
  PROVE  /\ \A s \in Runs : s # r => run'[s] = run[s]
         /\ run'[r] = l
         /\ Mined(txs') = Mined(txs)
         /\ \A q : Pulled(q)' <=> Pulled(q)
         /\ \A i \in DOMAIN txs' : txs'[i].period <= current
         /\ \A s \in Runs : Active(run'[s]) => Open(run'[s].at)
         /\ \A q \in Counts' : q \in Counts \/ (l.pc = "succeed" /\ q = l.at /\ ~Evident(r, l))
<1>1. /\ run' = [run EXCEPT ![r] = l] /\ current' = current
      /\ Active(l) => l.at = current \/ (Active(run[r]) /\ l.at = run[r].at)
      /\ \A q \in Periods : charge'[q].status = "succeeded" =>
           charge[q].status = "succeeded" \/ (run[r].pc = "succeed" /\ run[r].at = q)
  BY DEF CallPays
<1>2. PICK p \in Periods, w \in {0, 1} : Grows(p, w) /\ (w = 1 => p <= current)
  BY DEF CallPays
<1>3. /\ Mined(txs') = Mined(txs)
      /\ \A q : Pulled(q)' <=> Pulled(q)
      /\ \A i \in DOMAIN txs' : (i \in DOMAIN txs /\ txs'[i] = txs[i]) \/ (w = 1 /\ txs'[i].period = p)
  BY <1>2, GrowthPaid DEF TypeOK, PullsOK
<1>4. \A i \in DOMAIN txs' : txs'[i].period <= current
  BY <1>2, <1>3 DEF PaidInv
<1>5. (\A s \in Runs : s # r => run'[s] = run[s]) /\ run'[r] = l
  BY <1>1 DEF TypeOK, PullsOK
<1>6. ASSUME NEW s \in Runs, Active(run'[s]) PROVE Open(run'[s].at)
  BY <1>1, <1>5, <1>6 DEF Open
<1>7. ASSUME NEW q, Open(q)' PROVE Open(q)
  BY <1>1, <1>6, <1>7 DEF Open
<1>8. ASSUME NEW q \in Counts' PROVE q \in Counts \/ (l.pc = "succeed" /\ q = l.at /\ ~Evident(r, l))
  <2>0. q \in Periods
    BY DEF Counts
  <2>1. CASE charge'[q].status = "succeeded"
    BY <1>1, <2>0, <2>1 DEF Counts
  <2>2. CASE Open(q)' /\ Pulled(q)'
    BY <1>3, <1>7, <2>0, <2>2 DEF Counts
  <2>3. CASE \E s \in Runs : run'[s].pc = "succeed" /\ run'[s].at = q
    <3>1. PICK s \in Runs : run'[s].pc = "succeed" /\ run'[s].at = q
      BY <2>3
    <3>2. CASE s # r
      BY <1>5, <2>0, <3>1, <3>2 DEF Counts
    <3>3. CASE s = r /\ Evident(r, l)
      <4>1. l.pc = "succeed" /\ l.at = q /\ Open(q)
        BY <1>5, <1>6, <3>1, <3>3 DEF Active
      <4> QED
        BY <2>0, <3>3, <4>1 DEF Counts, Evident
    <3>4. CASE s = r /\ ~Evident(r, l)
      BY <1>5, <3>1, <3>4
    <3> QED
      BY <3>2, <3>3, <3>4
  <2> QED
    BY <2>1, <2>2, <2>3 DEF Counts
<1> QED
  BY <1>3, <1>4, <1>5, <1>6, <1>8

LEMMA PaidStep ==
  ASSUME TypeOK, TypeOK', PaidInv, NEW r \in Runs, NEW l \in Run, CallPays(r, l),
         Evident(r, l) \/ Backed'
  PROVE  PaidInv'
<1>1. /\ run' = [run EXCEPT ![r] = l] /\ current' = current /\ UNCHANGED <<allowance, revoked>> /\ faults <= faults'
      /\ grant' = "none" => Ungranted'
      /\ grant' # "none" => grant # "none"
      /\ Active(l) => l.at = current \/ (Active(run[r]) /\ l.at = run[r].at)
      /\ \A q \in Periods : charge'[q].status = "succeeded" =>
           charge[q].status = "succeeded" \/ (run[r].pc = "succeed" /\ run[r].at = q)
      /\ l.pc = "succeed" => l.at < Covered
      /\ l.pc \in {"receipt", "allowance"} => Seen(l.at, l.prior)
  BY DEF CallPays
<1>2. /\ \A s \in Runs : s # r => run'[s] = run[s]
      /\ run'[r] = l
      /\ Mined(txs') = Mined(txs)
      /\ \A i \in DOMAIN txs' : txs'[i].period <= current
      /\ \A s \in Runs : Active(run'[s]) => Open(run'[s].at)
      /\ \A q \in Counts' : q \in Counts \/ (l.pc = "succeed" /\ q = l.at /\ ~Evident(r, l))
  BY CallCounts
<1>3. /\ Numbers /\ faults' \in Nat
      /\ current \in Nat /\ faults \in Nat /\ Mined(txs) \in Nat
  BY PaidTypes, PaidTypesNext DEF Numbers
<1>4. AllowanceKept'
  BY <1>1, <1>2 DEF PaidInv, AllowanceKept
<1>5. ASSUME NEW s \in Runs, Active(run'[s]) PROVE run'[s].at <= current' /\ current' - run'[s].at <= faults'
  <2>1. \A q \in Runs : Active(run[q]) => run[q].at <= current /\ current - run[q].at <= faults
    BY DEF PaidInv
  <2>2. CASE s # r
    BY <1>1, <1>2, <1>3, <1>5, <2>1, <2>2 DEF Numbers
  <2>3. CASE s = r /\ l.at = current
    BY <1>1, <1>2, <1>3, <2>3 DEF Numbers
  <2>4. CASE s = r /\ Active(run[r]) /\ l.at = run[r].at
    BY <1>1, <1>2, <1>3, <2>1, <2>4 DEF Numbers
  <2> QED
    BY <1>1, <1>2, <1>5, <2>2, <2>3, <2>4
<1>6. ASSUME NEW p \in Periods, charge'[p].status = "succeeded" PROVE p <= current' /\ p < Covered
  BY <1>1, <1>6 DEF PaidInv, Active
<1>7. ASSUME NEW s \in Runs, run'[s].pc = "succeed" PROVE run'[s].at < Covered
  BY <1>1, <1>2, <1>7 DEF PaidInv
<1>8. ASSUME NEW s \in Runs, run'[s].pc \in {"receipt", "allowance"} PROVE Seen(run[s].at, run[s].prior)'
  <2>1. PICK p \in Periods, n \in Nat : p = run'[s].at /\ n = run'[s].prior
    BY DEF TypeOK, PullsOK, Run
  <2>2. Seen(p, n)
    <3>1. CASE s = r
      BY <1>1, <1>2, <1>8, <2>1, <3>1
    <3>2. CASE s # r
      BY <1>2, <1>8, <2>1, <3>2 DEF PaidInv
    <3> QED
      BY <3>1, <3>2
  <2>3. p <= current
    BY <1>1, <1>5, <1>8, <2>1 DEF Active
  <2>4. \A q \in Counts' : q \in Counts \/ Open(q)
    <3>1. l.pc = "succeed" => Open(l.at)
      BY <1>2 DEF Active
    <3> QED
      BY <1>2, <3>1
  <2>5. current' - current <= faults' - faults /\ current <= current' /\ Mined(txs) <= Mined(txs')
    <3>1. current' = current /\ faults <= faults' /\ Mined(txs') = Mined(txs)
      BY <1>1, <1>2
    <3>2. current' - current <= faults' - faults /\ current <= current'
      BY <1>3, <3>1, Steady
    <3>3. Mined(txs) <= Mined(txs')
      BY <1>3, <3>1
    <3> QED
      BY <3>2, <3>3
  <2>6. Seen(p, n)'
    BY <1>1, <1>2, <2>2, <2>3, <2>4, <2>5, SeenKept
  <2> QED
    BY <2>1, <2>6 DEF Seen
<1>9. Backed'
  <2>1. ASSUME Evident(r, l) PROVE Backed'
    <3>1. Counts' \subseteq Counts
      BY <1>2, <2>1
    <3>2. Mined(txs) <= Mined(txs')
      BY <1>2, <1>3 DEF Numbers
    <3>3. Backed /\ (revoked => revoked')
      BY <1>1 DEF PaidInv
    <3> QED
      BY <1>1, <3>1, <3>2, <3>3, BackedKept
  <2> QED
    BY <2>1
<1> QED
  BY <1>1, <1>2, <1>4, <1>5, <1>6, <1>7, <1>8, <1>9 DEF PaidInv

(* A step that moves no call and mines nothing.                            *)
LEMMA PaidRows ==
  ASSUME TypeOK, TypeOK', PaidInv, UNCHANGED <<run, txs, current, faults>>,
         \A p \in Periods : charge'[p].status = charge[p].status,
         revoked => revoked', grant' = "none" => Ungranted', AllowanceKept'
  PROVE  PaidInv'
<1>1. \A q : (Pulled(q)' <=> Pulled(q)) /\ (Open(q)' <=> Open(q))
  BY DEF Pulled, Open
<1>2. Counts' = Counts
  BY <1>1 DEF Counts
<1>3. Numbers
  BY PaidTypes
<1>4. Mined(txs') = Mined(txs)
  OBVIOUS
<1>5. Backed'
  BY <1>2, <1>3, <1>4, BackedKept DEF PaidInv, Numbers
<1>6. ASSUME NEW r \in Runs, run'[r].pc \in {"receipt", "allowance"} PROVE Seen(run[r].at, run[r].prior)'
  <2>1. PICK p \in Periods, n \in Nat : p = run[r].at /\ n = run[r].prior
    BY <1>3 DEF Numbers
  <2>2. Seen(p, n) /\ p <= current
    BY <1>6, <2>1 DEF PaidInv, Active
  <2>3. \A s \in Runs : Active(run'[s]) => Open(run'[s].at)
    BY DEF Open
  <2>4. Mined(txs) <= Mined(txs') /\ faults <= faults' /\ current <= current' /\ current' - current <= faults' - faults
    BY <1>3, <1>4 DEF Numbers
  <2>5. Seen(p, n)'
    BY <1>2, <2>2, <2>3, <2>4, SeenKept
  <2> QED
    BY <2>1, <2>5 DEF Seen
<1> QED
  BY <1>5, <1>6 DEF PaidInv, Active

(* A period begins: nothing was pulled for it.                             *)
LEMMA PaidClock == ASSUME TypeOK, TypeOK', PaidInv, NextPeriod PROVE PaidInv'
<1> USE DEF edits, chain
<1>0. /\ current' = current + 1
      /\ UNCHANGED <<sub, charge, run, grant, cancel, allowance, txs, revoked>>
      /\ faults' = faults \/ faults' = faults + 1
      /\ (\E r \in Runs : run[r].pc # "idle") => faults' = faults + 1
  BY DEF NextPeriod, Fault
<1>1. Numbers
  BY PaidTypes
<1>2. \A q : Pulled(q)' <=> Pulled(q)
  BY <1>0 DEF Pulled
<1>3. ASSUME NEW q \in Counts' PROVE q \in Counts
  <2>1. CASE charge'[q].status = "succeeded" \/ \E r \in Runs : run'[r].pc = "succeed" /\ run'[r].at = q
    BY <1>0, <1>3, <2>1 DEF Counts
  <2>2. CASE Open(q)' /\ Pulled(q)'
    <3>1. Pulled(q)
      BY <1>2, <2>2
    <3>2. q <= current
      BY <3>1 DEF Pulled, PaidInv
    <3>3. q # current'
      BY <1>0, <1>1, <3>2 DEF Numbers
    <3>4. Open(q)
      BY <1>0, <2>2, <3>3 DEF Open
    <3> QED
      BY <1>3, <3>1, <3>4 DEF Counts
  <2> QED
    BY <1>3, <2>1, <2>2 DEF Counts
<1>4. Mined(txs') = Mined(txs)
  BY <1>0
<1>5. ASSUME NEW r \in Runs, Active(run[r])
      PROVE  faults' = faults + 1 /\ run[r].at <= current' /\ current' - run[r].at <= faults'
  <2>1. run[r].at <= current /\ current - run[r].at <= faults
    BY <1>5 DEF PaidInv
  <2>2. faults' = faults + 1
    BY <1>0, <1>5 DEF Active
  <2> QED
    BY <1>0, <1>1, <2>1, <2>2 DEF Numbers
<1>6. Backed'
  <2>1. faults <= faults' /\ Mined(txs) <= Mined(txs')
    BY <1>0, <1>1, <1>4 DEF Numbers
  <2>2. Backed /\ Counts' \subseteq Counts /\ (revoked => revoked')
    BY <1>0, <1>3 DEF PaidInv
  <2> QED
    BY <2>1, <2>2, BackedKept
<1>7. ASSUME NEW r \in Runs, run'[r].pc \in {"receipt", "allowance"} PROVE Seen(run[r].at, run[r].prior)'
  <2>1. PICK p \in Periods, n \in Nat : p = run[r].at /\ n = run[r].prior
    BY <1>1 DEF Numbers
  <2>2. Seen(p, n) /\ p <= current /\ Active(run[r])
    BY <1>0, <1>7, <2>1 DEF PaidInv, Active
  <2>3. \A s \in Runs : Active(run'[s]) => Open(run'[s].at)
    BY <1>0 DEF Open
  <2>4. Mined(txs) <= Mined(txs') /\ faults <= faults' /\ current <= current' /\ current' - current <= faults' - faults
    <3>1. faults' = faults + 1
      BY <1>5, <2>2
    <3> QED
      BY <1>0, <1>1, <1>4, <3>1 DEF Numbers
  <2>5. Seen(p, n)'
    BY <1>3, <2>2, <2>3, <2>4, SeenKept
  <2> QED
    BY <1>0, <2>1, <2>5 DEF Seen
<1>8. ASSUME NEW p \in Int, p <= current PROVE p <= current'
  BY <1>0, <1>1, <1>8 DEF Numbers
<1>9. \A i \in DOMAIN txs : txs[i].period \in Int
  <2>1. ASSUME NEW i \in DOMAIN txs PROVE txs[i].period \in Int
    <3>1. txs \in Seq(Tx) /\ DOMAIN txs = 1..Len(txs)
      BY LenProperties DEF TypeOK, PullsOK
    <3>2. txs[i] \in Tx
      BY <3>1, ElementOfSeq
    <3> QED
      BY <3>2 DEF Tx, Periods
  <2> QED
    BY <2>1
<1>10. (\A i \in DOMAIN txs' : txs'[i].period <= current') /\ (\A p \in Periods : p \in Int)
  BY <1>0, <1>8, <1>9 DEF PaidInv, Periods
<1>11. (grant' = "none" => Ungranted') /\ AllowanceKept'
  BY <1>0, <1>4 DEF PaidInv, Ungranted, AllowanceKept
<1> QED
  BY <1>0, <1>5, <1>6, <1>7, <1>8, <1>10, <1>11 DEF PaidInv, Active

(* The outcome of pull i.                                                  *)
LEMMA MineCounts ==
  ASSUME txs \in Seq(Tx), NEW i \in DOMAIN txs, txs[i].status = "sent", NEW s \in {"mined", "reverted"},
         txs' = [txs EXCEPT ![i].status = s]
  PROVE  /\ Mined(txs') = Mined(txs) + (IF s = "mined" THEN 1 ELSE 0)
         /\ \A q : Pulled(q)' => Pulled(q) \/ (s = "mined" /\ q = txs[i].period)
         /\ DOMAIN txs' = DOMAIN txs /\ \A j \in DOMAIN txs : txs'[j].period = txs[j].period
<1> DEFINE S == {j \in DOMAIN txs : txs[j].status = "mined"}
           T == {j \in DOMAIN txs' : txs'[j].status = "mined"}
<1>1. DOMAIN txs = 1..Len(txs) /\ \A j \in DOMAIN txs : txs[j] \in Tx
  BY LenProperties, ElementOfSeq
<1>2. /\ DOMAIN txs' = DOMAIN txs
      /\ \A j \in DOMAIN txs : j # i => txs'[j] = txs[j]
      /\ txs'[i] = [txs[i] EXCEPT !.status = s]
  BY <1>1
<1>3. txs'[i].period = txs[i].period /\ txs'[i].status = s
  BY <1>1, <1>2 DEF Tx
<1>4. T = IF s = "mined" THEN S \cup {i} ELSE S
  BY <1>2, <1>3
<1>5. IsFiniteSet(S) /\ i \notin S /\ Cardinality(S) \in Nat
  BY MinedType DEF Mined
<1> HIDE DEF S, T
<1>6. Cardinality(T) = Cardinality(S) + (IF s = "mined" THEN 1 ELSE 0)
  <2>1. CASE s = "mined"
    BY <1>4, <1>5, <2>1, FS_AddElement
  <2>2. CASE s # "mined"
    BY <1>4, <1>5, <2>2
  <2> QED
    BY <2>1, <2>2
<1>7. Mined(txs') = Mined(txs) + (IF s = "mined" THEN 1 ELSE 0)
  BY <1>6 DEF Mined, S, T
<1>8. \A q : Pulled(q)' => Pulled(q) \/ (s = "mined" /\ q = txs[i].period)
  BY <1>2, <1>3 DEF Pulled
<1> QED
  BY <1>2, <1>3, <1>7, <1>8

LEMMA PaidMine == ASSUME TypeOK, TypeOK', PaidInv, NEW i \in DOMAIN txs, Mine(i) PROVE PaidInv'
<1> USE DEF edits, chain
<1>0. /\ txs[i].status = "sent"
      /\ UNCHANGED <<current, sub, charge, run, grant, cancel, revoked, faults>>
  BY DEF Mine
<1>1. PICK s \in {"mined", "reverted"} :
        /\ txs' = [txs EXCEPT ![i].status = s]
        /\ s = "mined" => allowance >= 1 /\ allowance' = allowance - 1
        /\ s # "mined" => allowance' = allowance
  BY DEF Mine
<1>2. /\ Mined(txs') = Mined(txs) + (IF s = "mined" THEN 1 ELSE 0)
      /\ \A q : Pulled(q)' => Pulled(q) \/ (s = "mined" /\ q = txs[i].period)
      /\ DOMAIN txs' = DOMAIN txs /\ \A j \in DOMAIN txs : txs'[j].period = txs[j].period
  BY <1>0, <1>1, MineCounts DEF TypeOK, PullsOK
<1>3. Numbers
  BY PaidTypes
<1>4. grant # "none"
  BY DEF PaidInv, Ungranted
<1>5. \A q : Open(q)' => Open(q)
  BY <1>0 DEF Open
<1>6. \A q \in Counts' : q \in Counts \/ (s = "mined" /\ q = txs[i].period /\ Open(q))
  BY <1>0, <1>2, <1>5 DEF Counts
<1>7. Mined(txs) <= Mined(txs') /\ (s = "mined" => Mined(txs) + 1 <= Mined(txs'))
  BY <1>2, <1>3 DEF Numbers
<1>8. Backed'
  <2>1. Backed /\ (revoked => revoked') /\ faults <= faults'
    BY <1>0, <1>3 DEF PaidInv, Numbers
  <2>2. CASE s = "mined"
    <3>1. Counts' \subseteq Counts \cup {txs[i].period}
      BY <1>6
    <3> QED
      BY <1>7, <2>1, <2>2, <3>1, BackedKept
  <2>3. CASE s # "mined"
    <3>1. Counts' \subseteq Counts
      BY <1>6, <2>3
    <3> QED
      BY <1>7, <2>1, <3>1, BackedKept
  <2> QED
    BY <2>2, <2>3
<1>9. AllowanceKept'
  <2>1. revoked => allowance = 0
    BY DEF PaidInv, AllowanceKept
  <2>2. revoked' => allowance' = 0
    BY <1>0, <1>1, <2>1
  <2>3. ~revoked' => allowance' = Covered - Mined(txs')
    <3>1. ~revoked => allowance = Covered - Mined(txs)
      BY <1>4 DEF PaidInv, AllowanceKept
    <3> QED
      BY <1>0, <1>1, <1>2, <1>3, <3>1 DEF Numbers
  <2> QED
    BY <2>2, <2>3 DEF AllowanceKept
<1>10. ASSUME NEW r \in Runs, run'[r].pc \in {"receipt", "allowance"} PROVE Seen(run[r].at, run[r].prior)'
  <2>1. PICK p \in Periods, n \in Nat : p = run[r].at /\ n = run[r].prior
    BY <1>3 DEF Numbers
  <2>2. Seen(p, n) /\ p <= current
    BY <1>0, <1>10, <2>1 DEF PaidInv, Active
  <2>3. \A q \in Runs : Active(run'[q]) => Open(run'[q].at)
    BY <1>0 DEF Open
  <2>4. faults <= faults' /\ current <= current' /\ current' - current <= faults' - faults
    BY <1>0, <1>3 DEF Numbers
  <2>5. Seen(p, n)'
    BY <1>6, <1>7, <2>2, <2>3, <2>4, SeenKept
  <2> QED
    BY <1>0, <2>1, <2>5 DEF Seen
<1>11. \A j \in DOMAIN txs' : txs'[j].period <= current'
  BY <1>0, <1>2 DEF PaidInv
<1> QED
  BY <1>0, <1>4, <1>8, <1>9, <1>10, <1>11 DEF PaidInv, Active

(* The charges a call lists, when it is about to read the allowance.       *)
LEMMA ListSeen ==
  ASSUME TypeOK, PullInv, PaidInv, NEW r \in Runs, run[r].pc = "list"
  PROVE  Seen(run[r].at, Cardinality(Succeeded \ {run[r].at}))
<1>1. PICK p \in Periods : p = run[r].at
  BY PaidTypes DEF Numbers
<1> DEFINE S == Succeeded \ {p}
           lo == IF faults <= current THEN current - faults ELSE 0
<1>2. /\ Numbers /\ p \in Nat /\ current \in Nat /\ faults \in Nat /\ Mined(txs) \in Nat
      /\ Covered \in Nat /\ Covered > 0
  BY PaidTypes DEF Numbers, Periods
<1>3. \A s \in Runs : Active(run[s]) => run[s].at <= current /\ current - run[s].at <= faults
  BY DEF PaidInv
<1>4. p <= current /\ current - p <= faults
  BY <1>1, <1>3 DEF Active
<1>5. lo \in 0..p /\ current - lo <= faults /\ lo <= current
  BY <1>2, <1>4
<1>6. ASSUME NEW s \in Runs, Active(run[s]) PROVE lo <= run[s].at
  <2>1. run[s].at \in Nat
    BY <1>2 DEF Numbers
  <2>2. current - run[s].at <= faults
    BY <1>3, <1>6
  <2> QED
    BY <1>2, <2>1, <2>2
<1>7. p < Covered
  BY <1>1 DEF PullInv, Kept, HeldStages
<1>8. S \subseteq Periods /\ IsFiniteSet(S) /\ Cardinality(S) \in Nat
  BY CountsFinite DEF Succeeded
<1>9. Before(lo) \subseteq S
  <2> SUFFICES ASSUME NEW q \in Counts, q \in 0..(lo - 1) PROVE q \in S
    BY DEF Before
  <2>1. q < lo /\ q # p /\ ~Open(q)
    <3> HIDE DEF lo
    <3>1. q \in Int /\ lo \in Int /\ q < lo
      BY <1>5
    <3>2. q # p /\ q # current
      BY <1>2, <1>5, <3>1
    <3>3. \A s \in Runs : Active(run[s]) => run[s].at # q
      BY <1>2, <1>6, <3>1 DEF Numbers
    <3> QED
      BY <3>1, <3>2, <3>3 DEF Open
  <2>2. \A s \in Runs : run[s].pc = "succeed" => run[s].at # q
    BY <2>1 DEF Open, Active
  <2>3. q \in Periods /\ charge[q].status = "succeeded"
    BY <2>1, <2>2 DEF Counts
  <2> QED
    BY <2>1, <2>3 DEF Succeeded
<1> HIDE DEF lo
<1>10. Cardinality(Before(lo)) <= Cardinality(S)
  BY <1>8, <1>9, FS_Subset
<1>11. Cardinality(S) <= Mined(txs) + faults
  <2>1. CASE Cardinality(Counts) <= Mined(txs) + faults
    <3>1. S \subseteq Counts
      BY DEF Succeeded, Counts
    <3>2. Cardinality(S) <= Cardinality(Counts) /\ Cardinality(Counts) \in Nat
      BY <3>1, CountsFinite, FS_Subset
    <3> HIDE DEF S
    <3> QED
      BY <1>2, <1>8, <2>1, <3>2
  <2>2. CASE Covered - 1 <= Mined(txs) + faults
    <3>1. IsFiniteSet(0..(Covered - 1)) /\ Cardinality(0..(Covered - 1)) = Covered
      <4>1. 0 \in Int /\ Covered - 1 \in Int /\ ~(0 > Covered - 1) /\ (Covered - 1) - 0 + 1 = Covered
        BY <1>2
      <4> QED
        BY <4>1, FS_Interval
    <3>2. p \in 0..(Covered - 1)
      BY <1>2, <1>7
    <3>3. IsFiniteSet((0..(Covered - 1)) \ {p}) /\ Cardinality((0..(Covered - 1)) \ {p}) = Covered - 1
      BY <3>1, <3>2, FS_RemoveElement
    <3>4. S \subseteq (0..(Covered - 1)) \ {p}
      <4>1. ASSUME NEW q \in S PROVE q \in 0..(Covered - 1)
        <5>1. q \in Nat /\ q < Covered
          BY DEF Succeeded, PaidInv, Periods
        <5> QED
          BY <1>2, <5>1
      <4> QED
        BY <4>1
    <3>5. Cardinality(S) <= Covered - 1
      BY <3>3, <3>4, FS_Subset
    <3> HIDE DEF S
    <3> QED
      BY <1>2, <1>8, <2>2, <3>5
  <2> QED
    BY <2>1, <2>2 DEF PaidInv, Backed
<1>12. Seen(p, Cardinality(S))
  BY <1>5, <1>6, <1>10, <1>11 DEF Seen
<1> QED
  BY <1>1, <1>12

(* The count reconciled with the allowance.                                *)
LEMMA Reaches ==
  ASSUME NEW lo \in Nat, NEW c \in Nat, NEW f \in Nat, NEW m \in Nat, NEW n \in Nat, lo <= c,
         c - lo <= f, n + 1 = m, NEW a \in Nat, a <= n,
         NEW t \in Nat, t <= a + (c - lo + 1)
  PROVE  t <= m + f
  OBVIOUS

LEMMA ReconcileBacked ==
  ASSUME TypeOK, TypeOK', PullInv, PaidInv, NEW r \in Runs, NEW l \in Run, CallPays(r, l),
         run[r].pc = "allowance", Reconciled(run[r]), l.at = run[r].at
  PROVE  Backed'
<1>1. PICK p \in Periods, n \in Nat : p = run[r].at /\ n = run[r].prior
  BY PaidTypes DEF Numbers
<1>2. /\ Numbers /\ p \in Nat /\ current \in Nat /\ faults \in Nat /\ Mined(txs) \in Nat
      /\ Covered \in Nat /\ Covered > 0 /\ faults' \in Nat /\ faults <= faults'
  BY PaidTypes, PaidTypesNext DEF Numbers, Periods, CallPays
<1>3. Seen(p, n) /\ p <= current /\ grant # "none"
  BY <1>1 DEF PaidInv, Active, Ungranted
<1>4. /\ Mined(txs') = Mined(txs)
      /\ \A q \in Counts' : q \in Counts \/ q = p
  BY <1>1, CallCounts
<1>5. allowance = Covered - n - 1
  BY <1>1 DEF Reconciled
<1>6. UNCHANGED revoked
  BY DEF CallPays
<1>7. CASE revoked
  <2>1. allowance = 0
    BY <1>7 DEF PaidInv, AllowanceKept
  <2>2. n <= Mined(txs) + faults
    BY <1>3 DEF Seen
  <2>3. Covered - 1 <= Mined(txs') + faults'
    BY <1>2, <1>4, <1>5, <2>1, <2>2
  <2> QED
    BY <1>6, <1>7, <2>3 DEF Backed
<1>8. CASE ~revoked
  <2>1. n + 1 = Mined(txs)
    <3>1. allowance = Covered - Mined(txs)
      BY <1>3, <1>8 DEF PaidInv, AllowanceKept
    <3> QED
      BY <1>2, <1>5, <3>1
  <2>2. PICK lo \in 0..p : /\ \A s \in Runs : Active(run[s]) => lo <= run[s].at
                           /\ current - lo <= faults
                           /\ Cardinality(Before(lo)) <= n
    BY <1>3 DEF Seen
  <2>3. lo \in Nat /\ lo <= current /\ lo <= p
    BY <1>2, <1>3, <2>2
  <2>4. Counts' \subseteq Before(lo) \cup (lo..current)
    <3> SUFFICES ASSUME NEW q \in Counts', q \notin Before(lo) PROVE q \in lo..current
      OBVIOUS
    <3>1. CASE q = p
      BY <1>2, <1>3, <2>3, <3>1
    <3>2. CASE q \in Counts
      <4>1. q \in Nat
        BY DEF Counts, Periods
      <4>2. lo <= q
        BY <2>3, <3>2, <4>1 DEF Before
      <4>3. q <= current
        <5>1. Open(q) => q <= current
          BY <1>2 DEF Open, PaidInv
        <5>2. (\E s \in Runs : run[s].pc = "succeed" /\ run[s].at = q) => Open(q)
          BY DEF Open, Active
        <5>3. charge[q].status = "succeeded" => q <= current
          BY DEF Counts, PaidInv
        <5> QED
          BY <3>2, <5>1, <5>2, <5>3 DEF Counts
      <4> QED
        BY <1>2, <2>3, <4>1, <4>2, <4>3
    <3> QED
      BY <1>4, <3>1, <3>2
  <2> DEFINE B == Before(lo)
             I == lo..current
  <2>5. IsFiniteSet(B) /\ Cardinality(B) \in Nat
    <3>1. B \subseteq Periods
      BY DEF Before, Counts
    <3> QED
      BY <3>1, CountsFinite
  <2>6. IsFiniteSet(I) /\ Cardinality(I) = current - lo + 1
    <3>1. lo \in Int /\ current \in Int /\ ~(lo > current)
      BY <1>2, <2>3
    <3> QED
      BY <3>1, FS_Interval
  <2>7. IsFiniteSet(B \cup I) /\ Cardinality(B \cup I) <= Cardinality(B) + Cardinality(I) /\ Cardinality(B \cup I) \in Nat
    <3> HIDE DEF B, I
    <3>1. /\ IsFiniteSet(B \cup I) /\ Cardinality(I) \in Nat /\ Cardinality(B \cap I) \in Nat /\ Cardinality(B \cup I) \in Nat
          /\ Cardinality(B \cup I) = Cardinality(B) + Cardinality(I) - Cardinality(B \cap I)
      <4>1. IsFiniteSet(B \cap I)
        BY <2>5, FS_Subset
      <4> QED
        BY <2>5, <2>6, <4>1, FS_Union, FS_CardinalityType
    <3> QED
      BY <2>5, <3>1
  <2>8. Cardinality(Counts') <= Cardinality(B \cup I) /\ Cardinality(Counts') \in Nat
    BY <2>4, <2>7, FS_Subset, FS_CardinalityType
  <2>9. Cardinality(B) <= n /\ current - lo <= faults
    BY <2>2
  <2> HIDE DEF B, I
  <2> DEFINE t == Cardinality(Counts')
             b == Cardinality(B)
  <2>10. t \in Nat /\ b \in Nat /\ b <= n /\ t <= b + (current - lo + 1)
    BY <1>2, <2>3, <2>5, <2>6, <2>7, <2>8, <2>9
  <2> HIDE DEF t, b
  <2>11. t <= Mined(txs) + faults
    BY <1>2, <2>1, <2>3, <2>9, <2>10, Reaches
  <2>12. t <= Mined(txs') + faults'
    BY <1>2, <1>4, <2>10, <2>11, Raised
  <2> QED
    BY <2>12 DEF Backed, t
<1> QED
  BY <1>7, <1>8

(* Only a call that is under way is within collect's try.                  *)
TryInv == \A r \in Runs : run[r].inTry => Active(run[r])

LEMMA TryNext == TypeOK /\ TryInv /\ [Next]_vars => TryInv'
<1> SUFFICES ASSUME TypeOK, TryInv, [Next]_vars PROVE TryInv'
  OBVIOUS
<1> USE DEF edits, chain
<1>0. run \in [Runs -> Run] /\ \A r \in Runs : run[r] \in Run
  BY DEF TypeOK, PullsOK
<1>1. ASSUME NEW r \in Runs, NEW l, Become(r, l), l.inTry => Active(l) PROVE TryInv'
  <2>1. run'[r] = l /\ \A s \in Runs : s # r => run'[s] = run[s]
    BY <1>0, <1>1 DEF Become
  <2>2. \A s \in Runs : run'[s].inTry => Active(run'[s])
    BY <1>1, <2>1 DEF TryInv
  <2> QED
    BY <2>2 DEF TryInv, Active
<1>2. ASSUME NEW r \in Runs, NEW pc, Go(r, pc), pc \notin {"idle", "start"} \/ ~run[r].inTry PROVE TryInv'
  <2> DEFINE l == [run[r] EXCEPT !.pc = pc]
  <2>1. Become(r, l) /\ l.pc = pc /\ l.inTry = run[r].inTry
    BY <1>0, <1>2 DEF Go, Run
  <2> HIDE DEF l
  <2> QED
    BY <1>1, <1>2, <2>1 DEF Active
<1>3. ASSUME NEW r \in Runs, End(r) PROVE TryInv'
  BY <1>1, <1>3 DEF End, Rest
<1>4. ASSUME UNCHANGED run PROVE TryInv'
  BY <1>4 DEF TryInv, Active
<1>5. ASSUME NEW r \in Runs, NEW l, Become(r, l), l.pc \notin {"idle", "start"} PROVE TryInv'
  BY <1>1, <1>5 DEF Active
<1>6. ASSUME NEW r \in Runs, GrantSave(r) \/ Call(r) PROVE TryInv'
  <2>1. ~run[r].inTry
    BY <1>6 DEF TryInv, Active, GrantSave, Call
  <2> QED
    BY <1>2, <1>6, <2>1 DEF GrantSave, Call
<1>7. ASSUME NEW r \in Runs, Start(r) PROVE TryInv'
  <2>1. CASE End(r)
    BY <1>3, <2>1
  <2>2. CASE ~End(r)
    <3> DEFINE l == [Rest EXCEPT !.at = current, !.seen = sub.paidThrough]
               m == IF sub.cancelAtPeriodEnd THEN [l EXCEPT !.pc = "patch", !.then = "canceled"]
                    ELSE [l EXCEPT !.pc = IF sub.status = "past_due" THEN "wait" ELSE "claim"]
    <3>1. Become(r, m)
      BY <1>7, <2>2 DEF Start
    <3>2. m.pc \in {"patch", "wait", "claim"}
      BY DEF Rest
    <3> HIDE DEF m
    <3> QED
      BY <1>5, <3>1, <3>2
  <2> QED
    BY <2>1, <2>2
<1>8. ASSUME NEW r \in Runs, ClaimCharge(r) PROVE TryInv'
  <2> DEFINE c == charge[run[r].at]
             m == [run[r] EXCEPT !.step = ClaimedStep(c), !.leased = TRUE,
                                 !.pc = IF run[r].at >= Covered THEN "decline" ELSE "list"]
             l == [run[r] EXCEPT !.pc = "patch", !.then = "paid"]
  <2>1. Become(r, m) \/ Become(r, l) \/ End(r)
    BY <1>8 DEF ClaimCharge
  <2>2. m.pc \in {"decline", "list"} /\ l.pc = "patch"
    BY <1>0 DEF Run
  <2> HIDE DEF m, l
  <2> QED
    BY <1>3, <1>5, <2>1, <2>2
<1>9. ASSUME NEW r \in Runs, ListCharges(r) PROVE TryInv'
  <2> DEFINE n == Cardinality(Succeeded \ {run[r].at})
             l == [run[r] EXCEPT !.prior = n, !.inTry = TRUE,
                                 !.pc = IF run[r].step = 0 THEN "allowance" ELSE "receipt"]
  <2>1. Become(r, l)
    BY <1>9 DEF ListCharges
  <2> HIDE DEF n
  <2>2. l.pc \in {"allowance", "receipt"}
    BY <1>0 DEF Run
  <2> HIDE DEF l
  <2> QED
    BY <1>5, <2>1, <2>2
<1>10. ASSUME NEW r \in Runs, ReadAllowance(r) PROVE TryInv'
  <2> DEFINE pc == IF Reconciled(run[r]) THEN "succeed" ELSE IF allowance < 1 THEN "decline" ELSE "send"
             l == [run[r] EXCEPT !.prior = 0, !.pc = pc]
  <2>1. Become(r, l) /\ pc \in {"succeed", "decline", "send"}
    BY <1>10 DEF ReadAllowance
  <2> HIDE DEF pc
  <2>2. l.pc = pc
    BY <1>0 DEF Run
  <2> HIDE DEF l
  <2> QED
    BY <1>5, <2>1, <2>2
<1>11. ASSUME NEW r \in Runs, Send(r) \/ SaveSucceeded(r) \/ SaveFailed(r) \/ FindCampaign(r)
                              \/ ReadForPatch(r) \/ PatchSubscription(r) \/ HookCore(r)
       PROVE  TryInv'
  <2> DEFINE a == [run[r] EXCEPT !.pc = "record", !.step = Len(txs) + 1]
             b == [run[r] EXCEPT !.pc = "patch", !.then = "paid", !.step = 0, !.leased = FALSE]
             c == [Rest EXCEPT !.pc = "dunning", !.at = run[r].at, !.then = "declined"]
             d == [run[r] EXCEPT !.pc = "attempt", !.dun = dunning]
             e == [run[r] EXCEPT !.pc = "save", !.patched = sub]
             f == [run[r] EXCEPT !.patched = NewSub,
                                 !.pc = IF run[r].then = "paid" THEN "dunning" ELSE "core"]
             g == [run[r] EXCEPT !.pc = "entitle",
                                 !.delivers = access.core \in {"none", "expired"} \/ run[r].at = 0]
  <2>1. \/ Become(r, a) \/ Become(r, b) \/ Become(r, c) \/ Become(r, d) \/ Become(r, e) \/ Become(r, f)
        \/ Become(r, g) \/ Go(r, "decline") \/ Go(r, "core") \/ End(r)
    BY <1>11 DEF Send, SaveSucceeded, SaveFailed, FindCampaign, ReadForPatch, PatchSubscription, HookCore
  <2>2. /\ a.pc = "record" /\ b.pc = "patch" /\ c.pc = "dunning" /\ d.pc = "attempt" /\ e.pc = "save"
        /\ f.pc \in {"dunning", "core"} /\ g.pc = "entitle"
    BY <1>0 DEF Run, Rest
  <2> HIDE DEF a, b, c, d, e, f, g
  <2> QED
    BY <1>2, <1>3, <1>5, <2>1, <2>2
<1>12. ASSUME NEW r \in Runs, RecordAttempt(r) PROVE TryInv'
  <2> DEFINE d == Attempt(run[r].dun, run[r].then = "paid")
             l == IF run[r].then = "paid" THEN [run[r] EXCEPT !.pc = "core", !.dun = NoDunning]
                  ELSE [run[r] EXCEPT !.pc = "patch", !.dun = NoDunning,
                                      !.then = IF d.status = "exhausted" THEN "suspended" ELSE "past_due"]
  <2>1. Become(r, l)
    BY <1>12 DEF RecordAttempt
  <2> HIDE DEF d
  <2>2. l.pc \in {"core", "patch"}
    BY <1>0 DEF Run
  <2> HIDE DEF l
  <2> QED
    BY <1>5, <2>1, <2>2
<1>13. ASSUME NEW r \in Runs, WaitForRetry(r) \/ ReadReceipt(r) \/ RecordStep(r) \/ Confirm(r) \/ GetDunning(r)
                              \/ FindActive(r) \/ StartDunning(r) \/ HookEntitlement(r) \/ Throw(r) \/ Crash(r)
                              \/ SendLost(r)
       PROVE  TryInv'
  <2>1. End(r) \/ \E pc \in {"claim", "succeed", "allowance", "confirm", "decline", "find", "core", "begin", "open"} : Go(r, pc)
    BY <1>13 DEF WaitForRetry, ReadReceipt, RecordStep, Confirm, GetDunning, FindActive, StartDunning,
       HookEntitlement, Throw, Crash, SendLost
  <2> QED
    BY <1>2, <1>3, <2>1
<1>14. ASSUME NEW p \in Periods, LeaseEnds(p) PROVE TryInv'
  <2>1. PICK r \in Runs : charge[p].lease = r
    BY <1>14 DEF LeaseEnds, TypeOK, PullsOK, Charge
  <2> DEFINE l == [run[r] EXCEPT !.leased = FALSE]
  <2>2. Become(r, l) \/ UNCHANGED run
    BY <1>14, <2>1 DEF LeaseEnds
  <2>3. l.inTry = run[r].inTry /\ l.pc = run[r].pc
    BY <1>0 DEF Run
  <2> HIDE DEF l
  <2>4. l.inTry => Active(l)
    BY <2>3 DEF TryInv, Active
  <2> QED
    BY <1>1, <1>4, <2>2, <2>4
<1>15. CASE GrantRead \/ CancelRead \/ CancelSave \/ CancelCore \/ RetryIsDue \/ Revoke \/ NextPeriod
            \/ UNCHANGED vars \/ \E i \in DOMAIN txs : Mine(i)
  BY <1>4, <1>15 DEF GrantRead, CancelRead, CancelSave, CancelCore, RetryIsDue, Revoke, NextPeriod, vars, Mine
<1> QED
  BY <1>6, <1>7, <1>8, <1>9, <1>10, <1>11, <1>12, <1>13, <1>14, <1>15 DEF Next, Step

(* A step of a call that is under way, which broadcasts nothing.           *)
LEMMA PaidOn ==
  ASSUME TypeOK, TypeOK', PaidInv, NEW r \in Runs, NEW l \in Run, run' = [run EXCEPT ![r] = l],
         UNCHANGED <<current, allowance, revoked, txs, grant>>, faults <= faults',
         run[r].pc # "idle",
         Active(l) => l.at = current \/ (Active(run[r]) /\ l.at = run[r].at),
         \A q \in Periods : charge'[q].status = "succeeded" =>
           charge[q].status = "succeeded" \/ (run[r].pc = "succeed" /\ run[r].at = q),
         l.pc = "succeed" => l.at < Covered /\ (Pulled(l.at) \/ (run[r].pc = "succeed" /\ run[r].at = l.at)),
         l.pc \in {"receipt", "allowance"} => Seen(l.at, l.prior)
  PROVE  PaidInv'
<1>1. grant # "none"
  BY DEF PaidInv, Ungranted
<1>2. Grows(0, 0) /\ 0 \in Periods
  BY Zero DEF Grows
<1>3. CallPays(r, l)
  BY <1>1, <1>2 DEF CallPays
<1>4. Evident(r, l)
  BY DEF Evident
<1> QED
  BY <1>3, <1>4, PaidStep

LEMMA PaidNext == TypeOK /\ TryInv /\ PullInv /\ PaidInv /\ [Next]_vars => PaidInv'
<1> SUFFICES ASSUME TypeOK, TryInv, PullInv, PaidInv, [Next]_vars PROVE PaidInv'
  OBVIOUS
<1> USE DEF edits, chain
<1>0. /\ faults \in Nat /\ TypeOK'
      /\ \A r \in Runs : run[r] \in Run /\ run[r].step \in Nat
      /\ run \in [Runs -> Run] /\ run' \in [Runs -> Run]
  BY SMTT(30), TypeNext, BoundsAssumption DEF TypeOK, RowsOK, PullsOK, Run
<1>1. faults' \in Nat /\ faults <= faults'
  <2>1. faults' \in Nat
    BY <1>0, BoundsAssumption DEF TypeOK, RowsOK
  <2>2. faults' = faults \/ faults' = faults + 1
    BY ZenonT(60) DEF Next, Step, vars, Fault, GrantRead, GrantSave, CancelRead, CancelSave, CancelCore, Call,
       Start, WaitForRetry, ClaimCharge, ListCharges, ReadReceipt, ReadAllowance, Send, RecordStep,
       Confirm, SaveSucceeded, SaveFailed, GetDunning, FindActive, StartDunning, FindCampaign,
       RecordAttempt, ReadForPatch, PatchSubscription, HookCore, HookEntitlement, Throw, Crash,
       SendLost, LeaseEnds, Mine, RetryIsDue, Revoke, NextPeriod
  <2> QED
    BY <1>0, <2>1, <2>2
<1>2. ASSUME NEW r \in Runs, NEW l, Become(r, l)
      PROVE  run' = [run EXCEPT ![r] = l] /\ l \in Run
  <2>1. run' = [run EXCEPT ![r] = l] /\ run'[r] = l
    BY <1>0, <1>2 DEF Become
  <2> QED
    BY <1>0, <2>1
<1> DEFINE Still == UNCHANGED <<current, allowance, revoked, txs, grant>>
           Plain(pc) == pc \notin {"succeed", "receipt", "allowance"}
<1>3. ASSUME NEW r \in Runs, NEW l, Become(r, l), Still, run[r].pc # "idle",
             \A q \in Periods : charge'[q].status = "succeeded" =>
               charge[q].status = "succeeded" \/ (run[r].pc = "succeed" /\ run[r].at = q),
             Plain(l.pc), Active(l) => l.at = current \/ (Active(run[r]) /\ l.at = run[r].at)
      PROVE  PaidInv'
  BY <1>0, <1>1, <1>2, <1>3, PaidOn
<1>4. ASSUME NEW r \in Runs, NEW pc, Go(r, pc), Still, UNCHANGED charge,
             Active(run[r]), Plain(pc)
      PROVE  PaidInv'
  <2> DEFINE l == [run[r] EXCEPT !.pc = pc]
  <2>1. Become(r, l) /\ run[r].pc # "idle"
    BY <1>4 DEF Go, Active
  <2>2. l.pc = pc /\ l.at = run[r].at
    BY <1>0 DEF Run
  <2> HIDE DEF l
  <2> QED
    BY <1>3, <1>4, <2>1, <2>2
<1>5. ASSUME NEW r \in Runs, End(r), Still, UNCHANGED charge, run[r].pc # "idle"
      PROVE  PaidInv'
  <2>1. Become(r, Rest)
    BY <1>5 DEF End
  <2>2. Plain(Rest.pc) /\ ~Active(Rest)
    BY DEF Rest, Active
  <2> QED
    BY <1>3, <1>5, <2>1, <2>2
<1>6. ASSUME NEW r \in Runs, NEW l, Become(r, l), Still, UNCHANGED charge,
             Active(run[r]), Plain(l.pc), l.at = run[r].at
      PROVE  PaidInv'
  <2>1. run[r].pc # "idle"
    BY <1>6 DEF Active
  <2> QED
    BY <1>3, <1>6, <2>1
(* The books of a subscription without a grant stay shut.                  *)
<1>a1. CASE GrantRead
  <2>1. txs = << >> /\ ~revoked
    BY <1>a1 DEF GrantRead, PaidInv, Ungranted
  <2>2. Mined(txs) = 0
    <3>1. {i \in DOMAIN txs : txs[i].status = "mined"} = {}
      BY <2>1
    <3> QED
      BY <3>1, FS_EmptySet DEF Mined
  <2>3. AllowanceKept'
    BY <1>a1, <2>1, <2>2, SizesAssumption DEF GrantRead, AllowanceKept
  <2> QED
    BY <1>0, <1>a1, <2>3, PaidRows DEF GrantRead
<1>a2. CASE CancelRead \/ CancelSave \/ CancelCore \/ RetryIsDue \/ UNCHANGED vars
  <2>1. UNCHANGED <<run, charge, txs, current, faults, grant, allowance, revoked>>
    BY <1>a2 DEF CancelRead, CancelSave, CancelCore, RetryIsDue, vars
  <2>2. ASSUME grant = "none" PROVE Ungranted'
    <3>0. Ungranted
      BY <2>2 DEF PaidInv
    <3>1. sub'.status \in {"pending_grant", "canceled"}
      <4>1. CASE CancelSave
        <5>1. cancel.seen \in Sub /\ cancel.seen.status # "active"
          BY <3>0 DEF Ungranted, TypeOK, RowsOK
        <5> QED
          BY <4>1, <5>1 DEF CancelSave, Sub
      <4>2. CASE ~CancelSave
        BY <1>a2, <3>0, <4>2 DEF CancelRead, CancelCore, RetryIsDue, vars, Ungranted
      <4> QED
        BY <4>1, <4>2
    <3>2. cancel'.seen.status \in {"pending_grant", "canceled"}
      <4>1. CASE CancelRead
        BY <3>0, <4>1 DEF CancelRead, Ungranted
      <4>2. CASE CancelSave \/ CancelCore
        <5>1. cancel \in [pc : {"idle", "save", "core"}, now : BOOLEAN, seen : Sub]
          BY DEF TypeOK, RowsOK
        <5>2. cancel'.seen = NewSub
          <6>1. CancelSave => cancel' = [cancel EXCEPT !.pc = "core", !.seen = NewSub]
            BY DEF CancelSave
          <6>2. CancelCore => cancel'.seen = NewSub
            BY DEF CancelCore, NoCancel
          <6> QED
            BY <4>2, <5>1, <6>1, <6>2
        <5> QED
          BY <5>2 DEF NewSub
      <4>3. CASE RetryIsDue \/ UNCHANGED vars
        BY <3>0, <4>3 DEF RetryIsDue, vars, Ungranted
      <4> QED
        BY <1>a2, <4>1, <4>2, <4>3
    <3> QED
      BY <2>1, <3>0, <3>1, <3>2 DEF Ungranted
  <2>3. AllowanceKept'
    BY <2>1 DEF PaidInv, AllowanceKept
  <2> QED
    BY <1>0, <2>1, <2>2, <2>3, PaidRows
<1>a3. CASE Revoke
  BY <1>0, <1>a3, PaidRows DEF Revoke, AllowanceKept
<1>a4. CASE NextPeriod
  BY <1>0, <1>a4, PaidClock
<1>a5. ASSUME NEW i \in DOMAIN txs, Mine(i) PROVE PaidInv'
  BY <1>0, <1>a5, PaidMine
<1>a6. ASSUME NEW r \in Runs, GrantSave(r) \/ Call(r) PROVE PaidInv'
  <2> DEFINE l == [run[r] EXCEPT !.pc = "start"]
  <2>1. Become(r, l) /\ UNCHANGED <<current, allowance, revoked, txs, charge, faults>>
    BY <1>a6 DEF GrantSave, Call, Go
  <2>2. grant # "none" /\ grant' # "none"
    BY <1>a6 DEF GrantSave, Call, PaidInv, Ungranted
  <2>3. l.pc = "start"
    BY <1>0 DEF Run
  <2> HIDE DEF l
  <2>4. Grows(0, 0) /\ 0 \in Periods
    BY <2>1, Zero DEF Grows
  <2>5. run' = [run EXCEPT ![r] = l] /\ l \in Run
    BY <1>2, <2>1
  <2>6. CallPays(r, l) /\ Evident(r, l)
    BY <1>1, <2>1, <2>2, <2>3, <2>4, <2>5 DEF CallPays, Evident, Active
  <2> QED
    BY <1>0, <2>5, <2>6, PaidStep
<1>a7. ASSUME NEW r \in Runs, Start(r) PROVE PaidInv'
  <2>1. run[r].pc = "start" /\ Still /\ UNCHANGED charge
    BY <1>a7 DEF Start
  <2>2. CASE End(r)
    BY <1>5, <2>1, <2>2
  <2>3. CASE ~End(r)
    <3> DEFINE l == [Rest EXCEPT !.at = current, !.seen = sub.paidThrough]
               m == IF sub.cancelAtPeriodEnd THEN [l EXCEPT !.pc = "patch", !.then = "canceled"]
                    ELSE [l EXCEPT !.pc = IF sub.status = "past_due" THEN "wait" ELSE "claim"]
    <3>1. Become(r, m)
      BY <1>a7, <2>3 DEF Start
    <3>2. Plain(m.pc) /\ m.at = current
      BY DEF Rest
    <3> HIDE DEF m
    <3> QED
      BY <1>3, <2>1, <3>1, <3>2
  <2> QED
    BY <2>2, <2>3
<1>a8. ASSUME NEW r \in Runs, WaitForRetry(r) PROVE PaidInv'
  <2>1. run[r].pc = "wait" /\ Still /\ UNCHANGED charge
    BY <1>a8 DEF WaitForRetry
  <2>2. Active(run[r]) /\ (End(r) \/ Go(r, "claim"))
    BY <1>a8, <2>1 DEF WaitForRetry, Active
  <2> QED
    BY <1>4, <1>5, <2>1, <2>2
<1>a9. ASSUME NEW r \in Runs, ClaimCharge(r) PROVE PaidInv'
  <2>1. run[r].pc = "claim" /\ Still /\ Active(run[r])
    BY <1>a9 DEF ClaimCharge, Active
  <2> DEFINE c == charge[run[r].at]
             m == [run[r] EXCEPT !.step = ClaimedStep(c), !.leased = TRUE,
                                 !.pc = IF run[r].at >= Covered THEN "decline" ELSE "list"]
             l == [run[r] EXCEPT !.pc = "patch", !.then = "paid"]
  <2>2. \/ Become(r, m) /\ charge' = [charge EXCEPT ![run[r].at] =
                                        [status |-> "pending", step |-> ClaimedStep(c), lease |-> r]]
        \/ Become(r, l) /\ UNCHANGED charge
        \/ End(r) /\ UNCHANGED charge
    BY <1>a9 DEF ClaimCharge
  <2>3. /\ m.pc \in {"decline", "list"} /\ m.at = run[r].at
        /\ l.pc = "patch" /\ l.at = run[r].at
    BY <1>0 DEF Run
  <2> HIDE DEF m, l
  <2>4. CASE Become(r, l) /\ UNCHANGED charge
    BY <1>6, <2>1, <2>3, <2>4
  <2>5. CASE End(r) /\ UNCHANGED charge
    BY <1>5, <2>1, <2>5
  <2>6. CASE Become(r, m) /\ charge' = [charge EXCEPT ![run[r].at] =
                                          [status |-> "pending", step |-> ClaimedStep(c), lease |-> r]]
    <3>1. \A q \in Periods : charge'[q].status = "succeeded" => charge[q].status = "succeeded"
      BY <2>6 DEF TypeOK, PullsOK
    <3> QED
      BY <1>3, <2>1, <2>3, <2>6, <3>1
  <2> QED
    BY <2>2, <2>4, <2>5, <2>6
<1>a10. ASSUME NEW r \in Runs, ListCharges(r) PROVE PaidInv'
  <2> DEFINE n == Cardinality(Succeeded \ {run[r].at})
             l == [run[r] EXCEPT !.prior = n, !.inTry = TRUE,
                                 !.pc = IF run[r].step = 0 THEN "allowance" ELSE "receipt"]
  <2>1. Become(r, l) /\ Still /\ UNCHANGED charge /\ run[r].pc = "list" /\ Active(run[r])
    BY <1>a10 DEF ListCharges, Active
  <2>2. Seen(run[r].at, n)
    BY <2>1, ListSeen
  <2> HIDE DEF n
  <2>3. l.at = run[r].at /\ l.prior = n /\ l.pc \in {"allowance", "receipt"}
    BY <1>0 DEF Run
  <2> HIDE DEF l
  <2>4. run' = [run EXCEPT ![r] = l] /\ l \in Run
    BY <1>2, <2>1
  <2>5. Seen(l.at, l.prior)
    BY <2>2, <2>3
  <2> QED
    BY <1>0, <1>1, <2>1, <2>3, <2>4, <2>5, PaidOn
(* A pull that is seen mined is one of the period the call is in.          *)
<1>7. ASSUME NEW r \in Runs, run[r].pc \in {"receipt", "confirm"}, txs[run[r].step].status = "mined",
             Go(r, "succeed"), Still, UNCHANGED charge
      PROVE  PaidInv'
  <2> DEFINE l == [run[r] EXCEPT !.pc = "succeed"]
  <2>1. Become(r, l)
    BY <1>7 DEF Go
  <2>2. l.at = run[r].at /\ l.pc = "succeed"
    BY <1>0 DEF Run
  <2> HIDE DEF l
  <2>3. Kept(r, run[r], charge[run[r].at]) /\ Named(run[r], txs)
    BY DEF PullInv
  <2>4. run[r].at < Covered /\ run[r].step > 0 /\ txs[run[r].step].period = run[r].at
    BY <1>7, <2>3 DEF Kept, Named, HeldStages
  <2>5. run[r].step \in DOMAIN txs
    <3>1. txs \in Seq(Tx) /\ DOMAIN txs = 1..Len(txs) /\ Len(txs) \in Nat /\ run[r].step <= Len(txs)
      BY LenProperties DEF TypeOK, PullsOK, Sound
    <3> QED
      BY <1>0, <2>4, <3>1
  <2>6. Pulled(run[r].at)
    BY <1>7, <2>4, <2>5 DEF Pulled
  <2>7. run' = [run EXCEPT ![r] = l] /\ l \in Run
    BY <1>2, <2>1
  <2>8. Active(run[r]) /\ run[r].pc # "idle"
    BY <1>7 DEF Active
  <2>9. Pulled(l.at)
    BY <2>2, <2>6 DEF Pulled
  <2> QED
    BY <1>0, <1>1, <1>7, <2>2, <2>4, <2>7, <2>8, <2>9, PaidOn
<1>a11. ASSUME NEW r \in Runs, ReadReceipt(r) PROVE PaidInv'
  <2>1. run[r].pc = "receipt" /\ Still /\ UNCHANGED charge /\ Active(run[r])
    BY <1>a11 DEF ReadReceipt, Active
  <2>2. CASE txs[run[r].step].status = "sent"
    <3>1. End(r)
      BY <1>a11, <2>2 DEF ReadReceipt
    <3> QED
      BY <1>5, <2>1, <3>1
  <2>3. CASE txs[run[r].step].status = "mined"
    <3>1. Go(r, "succeed")
      BY <1>a11, <2>3 DEF ReadReceipt
    <3> QED
      BY <1>7, <2>1, <2>3, <3>1
  <2>4. CASE txs[run[r].step].status \notin {"sent", "mined"}
    <3> DEFINE l == [run[r] EXCEPT !.pc = "allowance"]
    <3>1. Become(r, l)
      BY <1>a11, <2>4 DEF ReadReceipt, Go
    <3>2. l.at = run[r].at /\ l.prior = run[r].prior /\ l.pc = "allowance"
      BY <1>0 DEF Run
    <3> HIDE DEF l
    <3>3. Seen(run[r].at, run[r].prior)
      BY <2>1 DEF PaidInv
    <3>4. Seen(l.at, l.prior)
      BY <3>2, <3>3
    <3>5. run' = [run EXCEPT ![r] = l] /\ l \in Run
      BY <1>2, <3>1
    <3> QED
      BY <1>0, <1>1, <2>1, <3>2, <3>4, <3>5, PaidOn
  <2> QED
    BY <2>2, <2>3, <2>4
<1>a12. ASSUME NEW r \in Runs, ReadAllowance(r) PROVE PaidInv'
  <2> DEFINE pc == IF Reconciled(run[r]) THEN "succeed" ELSE IF allowance < 1 THEN "decline" ELSE "send"
             l == [run[r] EXCEPT !.prior = 0, !.pc = pc]
  <2>1. Become(r, l) /\ Still /\ UNCHANGED <<charge, faults>> /\ run[r].pc = "allowance" /\ Active(run[r])
    BY <1>a12 DEF ReadAllowance, Active
  <2>2. (pc = "succeed" /\ Reconciled(run[r])) \/ pc \in {"decline", "send"}
    OBVIOUS
  <2> HIDE DEF pc
  <2>3. l.at = run[r].at /\ l.pc = pc
    BY <1>0 DEF Run
  <2> HIDE DEF l
  <2>4. CASE pc \in {"decline", "send"}
    BY <1>6, <2>1, <2>3, <2>4
  <2>5. CASE pc = "succeed" /\ Reconciled(run[r])
    <3>1. run' = [run EXCEPT ![r] = l] /\ l \in Run
      BY <1>2, <2>1
    <3>2. run[r].at < Covered
      <4>1. Kept(r, run[r], charge[run[r].at])
        BY DEF PullInv
      <4> QED
        BY <2>1, <4>1 DEF Kept
    <3>3. Grows(0, 0) /\ 0 \in Periods
      BY <2>1, Zero DEF Grows
    <3>4. grant # "none"
      BY <2>1 DEF PaidInv, Ungranted
    <3>5. CallPays(r, l)
      BY <1>1, <2>1, <2>3, <2>5, <3>1, <3>2, <3>3, <3>4 DEF CallPays
    <3>6. Backed'
      BY <1>0, <2>1, <2>3, <2>5, <3>1, <3>5, ReconcileBacked
    <3> QED
      BY <1>0, <3>1, <3>5, <3>6, PaidStep
  <2> QED
    BY <2>2, <2>4, <2>5
(* A broadcast. *)
<1>8. ASSUME NEW r \in Runs, NEW l, Become(r, l), Broadcast(r), UNCHANGED <<current, charge, grant>>,
             run[r].pc = "send", Plain(l.pc), l.at = run[r].at
      PROVE  PaidInv'
  <2>1. run' = [run EXCEPT ![r] = l] /\ l \in Run
    BY <1>2, <1>8
  <2>2. Active(run[r]) /\ grant # "none"
    BY <1>8 DEF Active, PaidInv, Ungranted
  <2>3. PICK p \in Periods : run[r].at = p
    BY PaidTypes DEF Numbers
  <2>4. Grows(p, 1) /\ p <= current
    BY <1>8, <2>2, <2>3 DEF Broadcast, Grows, PaidInv
  <2>5. CallPays(r, l) /\ Evident(r, l)
    BY <1>1, <1>8, <2>1, <2>2, <2>4 DEF CallPays, Evident, Broadcast
  <2> QED
    BY <1>0, <2>1, <2>5, PaidStep
<1>a13. ASSUME NEW r \in Runs, Send(r) PROVE PaidInv'
  <2>1. run[r].pc = "send" /\ UNCHANGED <<current, charge, grant>> /\ Active(run[r])
    BY <1>a13 DEF Send, Active
  <2> DEFINE l == [run[r] EXCEPT !.pc = "record", !.step = Len(txs) + 1]
  <2>2. (Broadcast(r) /\ Become(r, l)) \/ (Go(r, "decline") /\ UNCHANGED chain)
    BY <1>a13 DEF Send
  <2>3. l.at = run[r].at /\ l.pc = "record"
    BY <1>0 DEF Run
  <2> HIDE DEF l
  <2>4. CASE Broadcast(r) /\ Become(r, l)
    BY <1>8, <2>1, <2>3, <2>4
  <2>5. CASE Go(r, "decline") /\ UNCHANGED chain
    BY <1>4, <2>1, <2>5
  <2> QED
    BY <2>2, <2>4, <2>5
<1>a14. ASSUME NEW r \in Runs, RecordStep(r) PROVE PaidInv'
  <2> DEFINE l == [run[r] EXCEPT !.pc = "confirm"]
  <2>1. run[r].pc = "record" /\ Still /\ Become(r, l) /\ SaveCharge(r, "pending") /\ Active(run[r])
    BY <1>a14 DEF RecordStep, Go, Active
  <2>2. l.at = run[r].at /\ l.pc = "confirm"
    BY <1>0 DEF Run
  <2> HIDE DEF l
  <2>3. \A q \in Periods : charge'[q].status = "succeeded" => charge[q].status = "succeeded"
    BY <2>1 DEF SaveCharge, TypeOK, PullsOK
  <2>4. run[r].pc # "idle"
    BY <2>1
  <2> QED
    BY <1>3, <2>1, <2>2, <2>3, <2>4
<1>a15. ASSUME NEW r \in Runs, Confirm(r) PROVE PaidInv'
  <2>1. run[r].pc = "confirm" /\ Still /\ UNCHANGED charge /\ Active(run[r])
    BY <1>a15 DEF Confirm, Active
  <2>2. CASE txs[run[r].step].status = "sent"
    <3>1. End(r)
      BY <1>a15, <2>2 DEF Confirm
    <3> QED
      BY <1>5, <2>1, <3>1
  <2>3. CASE txs[run[r].step].status = "mined"
    <3>1. Go(r, "succeed")
      BY <1>a15, <2>3 DEF Confirm
    <3> QED
      BY <1>7, <2>1, <2>3, <3>1
  <2>4. CASE txs[run[r].step].status \notin {"sent", "mined"}
    <3>1. Go(r, "decline")
      BY <1>a15, <2>4 DEF Confirm
    <3> QED
      BY <1>4, <2>1, <3>1
  <2> QED
    BY <2>2, <2>3, <2>4
<1>a16. ASSUME NEW r \in Runs, SaveSucceeded(r) PROVE PaidInv'
  <2> DEFINE l == [run[r] EXCEPT !.pc = "patch", !.then = "paid", !.step = 0, !.leased = FALSE]
  <2>1. run[r].pc = "succeed" /\ Still /\ Become(r, l) /\ SaveCharge(r, "succeeded") /\ Active(run[r])
    BY <1>a16 DEF SaveSucceeded, Active
  <2>2. l.at = run[r].at /\ l.pc = "patch"
    BY <1>0 DEF Run
  <2> HIDE DEF l
  <2>3. \A q \in Periods : charge'[q].status = "succeeded" => charge[q].status = "succeeded" \/ run[r].at = q
    BY <2>1 DEF SaveCharge, TypeOK, PullsOK
  <2>4. run[r].pc # "idle"
    BY <2>1
  <2> QED
    BY <1>3, <2>1, <2>2, <2>3, <2>4
<1>a17. ASSUME NEW r \in Runs, SaveFailed(r) PROVE PaidInv'
  <2> DEFINE l == [Rest EXCEPT !.pc = "dunning", !.at = run[r].at, !.then = "declined"]
  <2>1. run[r].pc = "decline" /\ Still /\ Become(r, l) /\ SaveCharge(r, "failed") /\ Active(run[r])
    BY <1>a17 DEF SaveFailed, Active
  <2>2. l.at = run[r].at /\ l.pc = "dunning"
    BY DEF Rest
  <2> HIDE DEF l
  <2>3. \A q \in Periods : charge'[q].status = "succeeded" => charge[q].status = "succeeded"
    BY <2>1 DEF SaveCharge, TypeOK, PullsOK, NoCharge
  <2>4. run[r].pc # "idle"
    BY <2>1
  <2> QED
    BY <1>3, <2>1, <2>2, <2>3, <2>4
<1>a18. ASSUME NEW r \in Runs, GetDunning(r) \/ FindActive(r) \/ StartDunning(r) PROVE PaidInv'
  <2>1. Still /\ UNCHANGED charge /\ run[r].pc \in {"dunning", "begin", "open"}
    BY <1>a18 DEF GetDunning, FindActive, StartDunning
  <2>2. End(r) \/ Go(r, "find") \/ Go(r, "core") \/ Go(r, "begin") \/ Go(r, "open")
    BY <1>a18 DEF GetDunning, FindActive, StartDunning
  <2>3. Active(run[r]) /\ run[r].pc # "idle"
    BY <2>1 DEF Active
  <2> QED
    BY <1>4, <1>5, <2>1, <2>2, <2>3
<1>a19. ASSUME NEW r \in Runs, FindCampaign(r) PROVE PaidInv'
  <2> DEFINE l == [run[r] EXCEPT !.pc = "attempt", !.dun = dunning]
  <2>1. run[r].pc = "find" /\ Still /\ UNCHANGED charge /\ Active(run[r])
    BY <1>a19 DEF FindCampaign, Active
  <2>2. Become(r, l) \/ Go(r, "core") \/ End(r)
    BY <1>a19 DEF FindCampaign
  <2>3. l.at = run[r].at /\ l.pc = "attempt"
    BY <1>0 DEF Run
  <2> HIDE DEF l
  <2> QED
    BY <1>4, <1>5, <1>6, <2>1, <2>2, <2>3
<1>a20. ASSUME NEW r \in Runs, RecordAttempt(r) PROVE PaidInv'
  <2> DEFINE d == Attempt(run[r].dun, run[r].then = "paid")
             l == IF run[r].then = "paid" THEN [run[r] EXCEPT !.pc = "core", !.dun = NoDunning]
                  ELSE [run[r] EXCEPT !.pc = "patch", !.dun = NoDunning,
                                      !.then = IF d.status = "exhausted" THEN "suspended" ELSE "past_due"]
  <2>1. run[r].pc = "attempt" /\ Still /\ UNCHANGED charge /\ Become(r, l) /\ Active(run[r])
    BY <1>a20 DEF RecordAttempt, Active
  <2> HIDE DEF d
  <2>2. l.pc \in {"core", "patch"} /\ l.at = run[r].at
    BY <1>0 DEF Run
  <2> HIDE DEF l
  <2> QED
    BY <1>6, <2>1, <2>2
<1>a21. ASSUME NEW r \in Runs, ReadForPatch(r) PROVE PaidInv'
  <2> DEFINE l == [run[r] EXCEPT !.pc = "save", !.patched = sub]
  <2>1. run[r].pc = "patch" /\ Still /\ UNCHANGED charge /\ Become(r, l) /\ Active(run[r])
    BY <1>a21 DEF ReadForPatch, Active
  <2>2. l.pc = "save" /\ l.at = run[r].at
    BY <1>0 DEF Run
  <2> HIDE DEF l
  <2> QED
    BY <1>6, <2>1, <2>2
<1>a22. ASSUME NEW r \in Runs, PatchSubscription(r) PROVE PaidInv'
  <2> DEFINE l == [run[r] EXCEPT !.patched = NewSub,
                                 !.pc = IF run[r].then = "paid" THEN "dunning" ELSE "core"]
  <2>1. run[r].pc = "save" /\ Still /\ UNCHANGED charge /\ (End(r) \/ Become(r, l)) /\ Active(run[r])
    BY <1>a22 DEF PatchSubscription, Active
  <2>2. l.pc \in {"dunning", "core"} /\ l.at = run[r].at
    BY <1>0 DEF Run
  <2> HIDE DEF l
  <2> QED
    BY <1>5, <1>6, <2>1, <2>2
<1>a23. ASSUME NEW r \in Runs, HookCore(r) PROVE PaidInv'
  <2> DEFINE l == [run[r] EXCEPT !.pc = "entitle",
                                 !.delivers = access.core \in {"none", "expired"} \/ run[r].at = 0]
  <2>1. run[r].pc = "core" /\ Still /\ UNCHANGED charge /\ (End(r) \/ Become(r, l)) /\ Active(run[r])
    BY <1>a23 DEF HookCore, Active
  <2>2. l.pc = "entitle" /\ l.at = run[r].at
    BY <1>0 DEF Run
  <2> HIDE DEF l
  <2> QED
    BY <1>5, <1>6, <2>1, <2>2
<1>a24. ASSUME NEW r \in Runs, HookEntitlement(r) PROVE PaidInv'
  BY <1>5, <1>a24 DEF HookEntitlement
<1>a25. ASSUME NEW r \in Runs, Throw(r) PROVE PaidInv'
  <2>1. Go(r, "decline") /\ Still /\ UNCHANGED charge /\ Active(run[r])
    BY <1>a25 DEF Throw, TryInv
  <2> QED
    BY <1>4, <2>1
<1>a26. ASSUME NEW r \in Runs, Crash(r) PROVE PaidInv'
  BY <1>5, <1>a26 DEF Crash
<1>a27. ASSUME NEW r \in Runs, SendLost(r) PROVE PaidInv'
  <2> DEFINE l == [run[r] EXCEPT !.pc = "decline"]
  <2>1. Become(r, l) /\ Broadcast(r) /\ run[r].pc = "send" /\ UNCHANGED <<current, charge, grant>>
    BY <1>a27 DEF SendLost, Go
  <2>2. l.pc = "decline" /\ l.at = run[r].at
    BY <1>0 DEF Run
  <2> HIDE DEF l
  <2> QED
    BY <1>8, <2>1, <2>2
<1>a28. ASSUME NEW p \in Periods, LeaseEnds(p) PROVE PaidInv'
  <2>1. PICK r \in Runs : charge[p].lease = r
    BY <1>a28 DEF LeaseEnds, TypeOK, PullsOK, Charge
  <2>2. Still /\ UNCHANGED <<sub, cancel>> /\ charge' = [charge EXCEPT ![p].lease = NoRun]
    BY <1>a28 DEF LeaseEnds
  <2>3. \A q \in Periods : charge'[q].status = charge[q].status
    BY <2>2 DEF TypeOK, PullsOK, Charge
  <2>4. CASE run[r].leased /\ run[r].at = p
    <3> DEFINE l == [run[r] EXCEPT !.leased = FALSE]
    <3>1. Become(r, l)
      BY <1>a28, <2>1, <2>4 DEF LeaseEnds
    <3>2. l.at = run[r].at /\ l.pc = run[r].pc /\ l.prior = run[r].prior
      BY <1>0 DEF Run
    <3> HIDE DEF l
    <3>3. run' = [run EXCEPT ![r] = l] /\ l \in Run
      BY <1>2, <3>1
    <3>4. Kept(r, run[r], charge[run[r].at])
      BY DEF PullInv
    <3>5. run[r].pc \in ChargeStages
      BY <2>4, <3>4 DEF Kept
    <3>6. Active(run[r]) /\ run[r].pc # "idle"
      BY <3>5 DEF ChargeStages, HeldStages, Active
    <3>7. l.pc = "succeed" => l.at < Covered /\ run[r].pc = "succeed" /\ run[r].at = l.at
      BY <3>2 DEF PaidInv
    <3>8. l.pc \in {"receipt", "allowance"} => Seen(l.at, l.prior)
      <4>1. run[r].pc \in {"receipt", "allowance"} => Seen(run[r].at, run[r].prior)
        BY DEF PaidInv
      <4> QED
        BY <3>2, <4>1
    <3> QED
      BY <1>0, <1>1, <2>2, <2>3, <3>2, <3>3, <3>6, <3>7, <3>8, PaidOn
  <2>5. CASE ~(run[r].leased /\ run[r].at = p)
    <3>1. UNCHANGED <<run, faults>>
      BY <1>a28, <2>1, <2>5 DEF LeaseEnds
    <3>2. (grant' = "none" => Ungranted') /\ AllowanceKept'
      BY <2>2, <3>1 DEF PaidInv, Ungranted, AllowanceKept
    <3> QED
      BY <1>0, <2>2, <2>3, <3>1, <3>2, PaidRows
  <2> QED
    BY <2>4, <2>5
<1> QED
  BY <1>a1, <1>a2, <1>a3, <1>a4, <1>a5, <1>a6, <1>a7, <1>a8, <1>a9, <1>a10, <1>a11, <1>a12, <1>a13,
     <1>a14, <1>a15, <1>a16, <1>a17, <1>a18, <1>a19, <1>a20, <1>a21, <1>a22, <1>a23, <1>a24, <1>a25,
     <1>a26, <1>a27, <1>a28 DEF Next, Step

LEMMA PaidBacked == ASSUME TypeOK, PaidInv PROVE PaidIsPulled
<1> DEFINE n == Mined(txs) + faults + (IF revoked THEN 1 ELSE 0)
           s == Cardinality(Succeeded)
           c == Cardinality(Counts)
<1>1. faults \in Nat /\ Mined(txs) \in Nat /\ Covered \in Nat /\ Covered > 0
  BY PaidTypes DEF Numbers
<1>2. Succeeded \subseteq Counts /\ IsFiniteSet(Counts) /\ c \in Nat
  BY CountsFinite DEF Succeeded, Counts
<1>3. s <= c /\ s \in Nat
  BY <1>2, FS_Subset, FS_CardinalityType
<1> HIDE DEF c
<1>4. s <= Covered
  <2>1. 0 \in Int /\ Covered - 1 \in Int /\ ~(0 > Covered - 1) /\ (Covered - 1) - 0 + 1 = Covered
    BY <1>1
  <2>2. IsFiniteSet(0..(Covered - 1)) /\ Cardinality(0..(Covered - 1)) = Covered
    BY <2>1, FS_Interval
  <2>3. ASSUME NEW q \in Succeeded PROVE q \in 0..(Covered - 1)
    <3>1. q \in Nat /\ q < Covered
      BY DEF Succeeded, PaidInv, Periods
    <3> QED
      BY <1>1, <3>1
  <2> QED
    BY <2>2, <2>3, FS_Subset
<1> HIDE DEF s
<1>5. (c <= Mined(txs) + faults) \/ (revoked /\ Covered - 1 <= Mined(txs) + faults)
  BY DEF PaidInv, Backed, c
<1>6. s <= n
  BY <1>1, <1>2, <1>3, <1>4, <1>5
<1> QED
  BY <1>6 DEF PaidIsPulled, AllPulls, Mined, s

(***************************************************************************)
(* The periods the books show as paid were pulled, all but one per fault   *)
(* and the one a revoked allowance passes for.                             *)
(***************************************************************************)
THEOREM PaidPeriodsWerePulled == Spec => []PaidIsPulled
<1> DEFINE I == TryInv /\ PullInv /\ PaidInv
<1>1. Init => I
  BY PullInit, PaidInit DEF Init, TryInv, Rest
<1>2. TypeOK /\ I /\ [Next]_vars => I'
  BY TryNext, PullNext, PaidNext
<1>3. TypeOK /\ I => PaidIsPulled
  BY PaidBacked
<1> QED
  BY <1>1, <1>2, <1>3, BillingTypeCorrect, PTL DEF Spec

-----------------------------------------------------------------------------
(***************************************************************************)
(* KeepsPromise.  Without a fault a call that works on a charge holds its  *)
(* lease, so the charge is not paid, and what is booked, served or held in *)
(* a copy is a period marked paid.                                         *)
(***************************************************************************)
Marked == Succeeded \cup {-1}
CallExact(r, l) ==
  /\ l.pc \in ChargeStages => l.leased /\ charge[l.at].lease = r
  /\ l.then = "paid" => l.at \in Succeeded
  /\ l.seen \in Marked /\ l.patched.paidThrough \in Marked
BooksExact ==
  /\ \A p \in Periods : charge[p].lease # NoRun => charge[p].status = "pending"
  /\ sub.paidThrough \in Marked /\ cancel.seen.paidThrough \in Marked /\ access.through \in Marked
Exact == BooksExact /\ \A r \in Runs : CallExact(r, run[r])
ExactInv == Len(txs) <= MaxPulls /\ (faults = 0 => Exact)

(* A step of call r, which touches no charge but one that is its own or    *)
(* nobody's, and takes no mark back.                                       *)
LEMMA ExactStep ==
  ASSUME TypeOK, Exact, NEW r \in Runs, NEW l, run' = [run EXCEPT ![r] = l],
         \A p \in Periods : charge'[p] = charge[p] \/ charge[p].lease \in {r, NoRun},
         Succeeded \subseteq Succeeded', BooksExact', CallExact(r, l)'
  PROVE  Exact'
<1> SUFFICES ASSUME NEW q \in Runs PROVE CallExact(q, run[q])'
  BY DEF Exact
<1>1. run'[r] = l /\ (q # r => run'[q] = run[q])
  BY DEF TypeOK, PullsOK
<1>2. CASE q = r
  BY <1>1, <1>2 DEF CallExact
<1>3. CASE q # r
  <2>1. CallExact(q, run[q]) /\ run[q].at \in Periods
    BY DEF Exact, TypeOK, PullsOK, Run
  <2>2. Marked \subseteq Marked'
    BY DEF Marked
  <2>3. run[q].pc \in ChargeStages => charge'[run[q].at].lease = q
    BY <1>3, <2>1, RunsAssumption DEF CallExact
  <2> QED
    BY <1>1, <1>3, <2>1, <2>2, <2>3 DEF CallExact
<1> QED
  BY <1>2, <1>3

(* A call moves on, and no charge is saved.                                *)
LEMMA ExactMove ==
  ASSUME TypeOK, Exact, NEW r \in Runs, NEW l, run' = [run EXCEPT ![r] = l],
         UNCHANGED charge, BooksExact',
         l.pc \in ChargeStages => run[r].pc \in ChargeStages /\ l.at = run[r].at /\ l.leased = run[r].leased,
         l.then = "paid" => (run[r].then = "paid" /\ l.at = run[r].at) \/ l.at \in Succeeded,
         l.seen \in Marked, l.patched.paidThrough \in Marked
  PROVE  Exact'
<1>1. Succeeded' = Succeeded /\ Marked' = Marked
  BY DEF Succeeded, Marked
<1>2. CallExact(r, run[r])
  BY DEF Exact
<1>3. CallExact(r, l)'
  BY <1>1, <1>2 DEF CallExact
<1> QED
  BY <1>1, <1>3, ExactStep

LEMMA ExactRests ==
  ASSUME Exact, UNCHANGED <<charge, run>>, BooksExact' PROVE Exact'
BY DEF Exact, CallExact, Marked, Succeeded

LEMMA ExactEnd ==
  ASSUME TypeOK, Exact, NEW r \in Runs, End(r), UNCHANGED charge, BooksExact' PROVE Exact'
<1>1. /\ Rest.pc \notin ChargeStages /\ Rest.then = "none" /\ Rest.seen \in Marked
      /\ Rest.patched.paidThrough \in Marked
  BY DEF Rest, NewSub, Marked, ChargeStages, HeldStages
<1> QED
  BY <1>1, ExactMove DEF End, Become

LEMMA ExactGo ==
  ASSUME TypeOK, Exact, NEW r \in Runs, NEW pc, Go(r, pc), UNCHANGED charge, BooksExact',
         pc \in ChargeStages => run[r].pc \in ChargeStages
  PROVE  Exact'
<1> DEFINE l == [run[r] EXCEPT !.pc = pc]
<1>1. /\ l.pc = pc /\ l.at = run[r].at /\ l.leased = run[r].leased /\ l.then = run[r].then
      /\ l.seen = run[r].seen /\ l.patched = run[r].patched
  BY DEF TypeOK, PullsOK, Run
<1>2. run' = [run EXCEPT ![r] = l]
  BY DEF Go, Become
<1>3. CallExact(r, run[r])
  BY DEF Exact
<1> HIDE DEF l
<1> QED
  BY <1>1, <1>2, <1>3, ExactMove DEF CallExact

LEMMA BooksRest ==
  ASSUME Exact, UNCHANGED charge, sub'.paidThrough \in Marked, cancel'.seen.paidThrough \in Marked,
         access'.through \in Marked
  PROVE  BooksExact'
BY DEF Exact, BooksExact, Marked, Succeeded

(* A call saves the charge it works on. *)
LEMMA ExactSave ==
  ASSUME TypeOK, Exact, NEW r \in Runs, NEW l, NEW c, run' = [run EXCEPT ![r] = l],
         charge' = [charge EXCEPT ![run[r].at] = c], UNCHANGED <<sub, cancel, access>>,
         charge[run[r].at].status # "succeeded", charge[run[r].at].lease \in {r, NoRun},
         c.lease # NoRun => c.status = "pending",
         l.at = run[r].at, l.pc \in ChargeStages => l.leased /\ c.lease = r,
         l.then = "paid" => c.status = "succeeded",
         l.seen \in Marked, l.patched.paidThrough \in Marked
  PROVE  Exact'
<1>1. run[r].at \in Periods /\ charge \in [Periods -> Charge]
  BY DEF TypeOK, PullsOK, Run
<1>2. charge'[run[r].at] = c /\ \A p \in Periods : p # run[r].at => charge'[p] = charge[p]
  BY <1>1
<1>3. Succeeded \subseteq Succeeded'
  BY <1>2 DEF Succeeded
<1>4. Marked \subseteq Marked'
  BY <1>3 DEF Marked
<1>5. BooksExact'
  BY <1>2, <1>4 DEF Exact, BooksExact
<1>6. l.then = "paid" => l.at \in Succeeded'
  BY <1>1, <1>2 DEF Succeeded
<1>7. CallExact(r, l)'
  BY <1>2, <1>4, <1>6 DEF CallExact
<1> QED
  BY <1>2, <1>3, <1>5, <1>7, ExactStep

LEMMA ExactClaim ==
  ASSUME TypeOK, Exact, NEW r \in Runs, ClaimCharge(r) PROVE Exact'
<1> USE DEF edits
<1> DEFINE l == run[r]
           c == charge[l.at]
           d == [status |-> "pending", step |-> ClaimedStep(c), lease |-> r]
           m == [l EXCEPT !.step = ClaimedStep(c), !.leased = TRUE,
                          !.pc = IF l.at >= Covered THEN "decline" ELSE "list"]
           n == [l EXCEPT !.pc = "patch", !.then = "paid"]
<1>1. l \in Run /\ l.at \in Periods /\ l.pc = "claim" /\ CallExact(r, l) /\ r # NoRun /\ c \in Charge
  BY RunsAssumption DEF TypeOK, PullsOK, Run, Exact, ClaimCharge
<1>2. UNCHANGED <<sub, cancel, access>>
  BY DEF ClaimCharge
<1>3. BooksExact
  BY DEF Exact
<1>4. CASE Claimable(c) /\ charge' = [charge EXCEPT ![l.at] = d] /\ Become(r, m)
  <2>1. c.status # "succeeded" /\ c.lease = NoRun
    BY <1>1, <1>3, <1>4 DEF Claimable, BooksExact, Charge, ChargeStatus
  <2>2. m.at = l.at /\ m.leased /\ m.then = l.then /\ m.seen = l.seen /\ m.patched = l.patched
    BY <1>1 DEF Run
  <2>3. l.then # "paid"
    BY <1>1, <2>1 DEF CallExact, Succeeded
  <2>4. run' = [run EXCEPT ![r] = m] /\ d.lease = r /\ d.status = "pending"
    BY <1>4 DEF Become
  <2> HIDE DEF d, m
  <2>5. l.seen \in Marked /\ l.patched.paidThrough \in Marked
    BY <1>1 DEF CallExact
  <2> QED
    BY <1>2, <1>4, <2>1, <2>2, <2>3, <2>4, <2>5, ExactSave
<1>5. CASE c.status = "succeeded" /\ Become(r, n) /\ UNCHANGED charge
  <2>1. n.pc = "patch" /\ n.at = l.at /\ n.seen = l.seen /\ n.patched = l.patched
    BY <1>1 DEF Run
  <2>2. n.pc \notin ChargeStages
    BY <2>1 DEF ChargeStages, HeldStages
  <2>3. n.at \in Succeeded
    BY <1>1, <1>5, <2>1 DEF Succeeded
  <2>4. BooksExact'
    BY <1>2, <1>3, <1>5, BooksRest DEF BooksExact
  <2>5. run' = [run EXCEPT ![r] = n]
    BY <1>5 DEF Become
  <2> HIDE DEF n
  <2> QED
    BY <1>1, <1>5, <2>1, <2>2, <2>3, <2>4, <2>5, ExactMove DEF CallExact
<1>6. CASE End(r) /\ UNCHANGED charge
  <2>1. BooksExact'
    BY <1>2, <1>3, <1>6, BooksRest DEF BooksExact
  <2> QED
    BY <1>6, <2>1, ExactEnd
<1> QED
  BY <1>4, <1>5, <1>6 DEF ClaimCharge

(* What a call saves, it saves under its lease. *)
LEMMA ExactSaves ==
  ASSUME TypeOK, Exact, NEW r \in Runs, RecordStep(r) \/ SaveSucceeded(r) \/ SaveFailed(r)
  PROVE  Exact' /\ charge[run[r].at].status = "pending"
<1> USE DEF edits
<1> DEFINE l == run[r]
           c == charge[l.at]
           kept == [status |-> "pending", step |-> l.step, lease |-> IF l.leased THEN r ELSE NoRun]
           a == [l EXCEPT !.pc = "confirm"]
           b == [l EXCEPT !.pc = "patch", !.then = "paid", !.step = 0, !.leased = FALSE]
           d == [Rest EXCEPT !.pc = "dunning", !.at = l.at, !.then = "declined"]
<1>1. l \in Run /\ l.at \in Periods /\ CallExact(r, l) /\ r # NoRun
  BY RunsAssumption DEF TypeOK, PullsOK, Run, Exact
<1>2. UNCHANGED <<sub, cancel, access>>
  BY DEF RecordStep, SaveSucceeded, SaveFailed
<1>3. l.pc \in ChargeStages
  BY DEF RecordStep, SaveSucceeded, SaveFailed, ChargeStages, HeldStages
<1>4. l.leased /\ c.lease = r /\ c.status = "pending"
  BY <1>1, <1>3 DEF CallExact, Exact, BooksExact
<1>5. l.then # "paid" /\ l.seen \in Marked /\ l.patched.paidThrough \in Marked
  BY <1>1, <1>4 DEF CallExact, Succeeded
<1>6. CASE RecordStep(r)
  <2>1. charge' = [charge EXCEPT ![l.at] = kept] /\ run' = [run EXCEPT ![r] = a]
    BY <1>6 DEF RecordStep, SaveCharge, Go, Become
  <2>2. a.at = l.at /\ a.leased = l.leased /\ a.then = l.then /\ a.seen = l.seen /\ a.patched = l.patched
    BY <1>1 DEF Run
  <2>3. kept.lease = r /\ kept.status = "pending"
    BY <1>4
  <2> HIDE DEF kept, a
  <2> QED
    BY <1>2, <1>4, <1>5, <2>1, <2>2, <2>3, ExactSave
<1>7. CASE SaveSucceeded(r)
  <2> DEFINE e == [NoCharge EXCEPT !.status = "succeeded"]
  <2>1. charge' = [charge EXCEPT ![l.at] = e] /\ run' = [run EXCEPT ![r] = b]
    BY <1>7 DEF SaveSucceeded, SaveCharge, Become
  <2>2. b.at = l.at /\ b.pc = "patch" /\ b.seen = l.seen /\ b.patched = l.patched
    BY <1>1 DEF Run
  <2>3. e.lease = NoRun /\ e.status = "succeeded" /\ b.pc \notin ChargeStages
    BY <2>2 DEF NoCharge, ChargeStages, HeldStages
  <2> HIDE DEF e, b
  <2> QED
    BY <1>2, <1>4, <1>5, <2>1, <2>2, <2>3, ExactSave
<1>8. CASE SaveFailed(r)
  <2> DEFINE e == [NoCharge EXCEPT !.status = "failed"]
  <2>1. charge' = [charge EXCEPT ![l.at] = e] /\ run' = [run EXCEPT ![r] = d]
    BY <1>8 DEF SaveFailed, SaveCharge, Become
  <2>2. d.at = l.at /\ d.pc = "dunning" /\ d.then = "declined" /\ d.seen = -1 /\ d.patched.paidThrough = -1
    BY DEF Rest, NewSub
  <2>3. e.lease = NoRun /\ d.pc \notin ChargeStages /\ -1 \in Marked
    BY <2>2 DEF NoCharge, ChargeStages, HeldStages, Marked
  <2> HIDE DEF e, d
  <2> QED
    BY <1>2, <1>4, <2>1, <2>2, <2>3, ExactSave
<1> QED
  BY <1>4, <1>6, <1>7, <1>8

(* A period booked is one the call has found paid, or was booked before. *)
LEMMA ExactPatch ==
  ASSUME TypeOK, Exact, NEW r \in Runs, PatchSubscription(r) PROVE Exact'
<1> USE DEF edits
<1> DEFINE l == run[r]
           m == [l EXCEPT !.patched = NewSub, !.pc = IF l.then = "paid" THEN "dunning" ELSE "core"]
<1>1. l \in Run /\ CallExact(r, l) /\ l.patched \in Sub /\ l.pc = "save"
  BY DEF TypeOK, PullsOK, Run, Exact, PatchSubscription
<1>2. MaxOf(l.seen, l.at) \in {l.seen, l.at}
  BY DEF MaxOf
<1>3. sub' = Merged(l.patched, l) /\ UNCHANGED <<charge, cancel, access>>
  BY DEF PatchSubscription
<1>4. sub'.paidThrough \in Marked
  <2>1. sub'.paidThrough = IF l.then = "paid" THEN MaxOf(l.seen, l.at) ELSE l.patched.paidThrough
    BY <1>1, <1>3 DEF Merged, Sub
  <2> QED
    BY <1>1, <1>2, <2>1 DEF CallExact, Marked
<1>5. BooksExact'
  BY <1>3, <1>4, BooksRest DEF Exact, BooksExact
<1>6. CASE End(r)
  BY <1>3, <1>5, <1>6, ExactEnd
<1>7. CASE Become(r, m)
  <2>1. /\ m.pc \in {"dunning", "core"} /\ m.at = l.at /\ m.then = l.then
        /\ m.seen = l.seen /\ m.patched.paidThrough = -1
    BY <1>1 DEF Run, NewSub
  <2>2. m.pc \notin ChargeStages /\ -1 \in Marked
    BY <2>1 DEF ChargeStages, HeldStages, Marked
  <2>3. run' = [run EXCEPT ![r] = m]
    BY <1>7 DEF Become
  <2> HIDE DEF m
  <2> QED
    BY <1>1, <1>3, <1>5, <2>1, <2>2, <2>3, ExactMove DEF CallExact
<1> QED
  BY <1>6, <1>7 DEF PatchSubscription

LEMMA ExactStart ==
  ASSUME TypeOK, Exact, NEW r \in Runs, Start(r) PROVE Exact'
<1> USE DEF edits
<1> DEFINE l == [Rest EXCEPT !.at = current, !.seen = sub.paidThrough]
           m == IF sub.cancelAtPeriodEnd THEN [l EXCEPT !.pc = "patch", !.then = "canceled"]
                ELSE [l EXCEPT !.pc = IF sub.status = "past_due" THEN "wait" ELSE "claim"]
<1>1. UNCHANGED <<charge, sub, cancel, access>> /\ (End(r) \/ Become(r, m))
  BY DEF Start
<1>2. BooksExact'
  BY <1>1, BooksRest DEF Exact, BooksExact
<1>3. /\ m.pc \in {"patch", "wait", "claim"} /\ m.then # "paid" /\ m.seen = sub.paidThrough
      /\ m.patched.paidThrough = -1
  BY DEF Rest, NewSub
<1>4. m.pc \notin ChargeStages /\ -1 \in Marked /\ sub.paidThrough \in Marked
  BY <1>3 DEF ChargeStages, HeldStages, Marked, Exact, BooksExact
<1>5. CASE Become(r, m)
  <2> HIDE DEF m
  <2> QED
    BY <1>1, <1>2, <1>3, <1>4, <1>5, ExactMove DEF Become
<1> QED
  BY <1>1, <1>2, <1>5, ExactEnd

(* The steps that change a call and nothing it is about.                   *)
LEMMA ExactCall ==
  ASSUME TypeOK, Exact, NEW r \in Runs,
         \/ GrantSave(r) \/ Call(r) \/ WaitForRetry(r) \/ ListCharges(r) \/ ReadReceipt(r) \/ ReadAllowance(r)
         \/ Send(r) \/ Confirm(r) \/ GetDunning(r) \/ FindActive(r) \/ StartDunning(r)
         \/ FindCampaign(r) \/ RecordAttempt(r) \/ ReadForPatch(r) \/ HookCore(r) \/ HookEntitlement(r)
  PROVE  Exact'
<1> USE DEF edits
<1>0. /\ run[r] \in Run /\ CallExact(r, run[r]) /\ BooksExact /\ -1 \in Marked
      /\ access \in Access /\ run[r].patched \in Sub
  BY DEF TypeOK, RowsOK, PullsOK, Run, Exact, Marked
<1>1. UNCHANGED charge /\ cancel' = cancel
  BY DEF GrantSave, Call, WaitForRetry, ListCharges, ReadReceipt, ReadAllowance, Send, Confirm, GetDunning,
     FindActive, StartDunning, FindCampaign, RecordAttempt, ReadForPatch, HookCore, HookEntitlement
<1>2. sub'.paidThrough \in {sub.paidThrough, -1}
  BY DEF GrantSave, Call, WaitForRetry, ListCharges, ReadReceipt, ReadAllowance, Send, Confirm, GetDunning,
     FindActive, StartDunning, FindCampaign, RecordAttempt, ReadForPatch, HookCore, HookEntitlement, NewSub
<1>3. access'.through = access.through \/ (run[r].then = "paid" /\ access'.through = run[r].at)
  BY <1>0 DEF GrantSave, Call, WaitForRetry, ListCharges, ReadReceipt, ReadAllowance, Send, Confirm, GetDunning,
     FindActive, StartDunning, FindCampaign, RecordAttempt, ReadForPatch, HookCore, HookEntitlement, Access
<1>4. BooksExact'
  BY <1>0, <1>1, <1>2, <1>3, BooksRest DEF BooksExact, CallExact, Marked
<1>5. ASSUME NEW l, run' = [run EXCEPT ![r] = l], l.at = run[r].at, l.then = run[r].then \/ l.then # "paid",
             l.pc \in ChargeStages => run[r].pc \in ChargeStages /\ l.leased = run[r].leased,
             l.seen = run[r].seen, l.patched = run[r].patched \/ l.patched = sub
      PROVE  Exact'
  BY <1>0, <1>1, <1>4, <1>5, ExactMove DEF CallExact, BooksExact
<1>6. CASE GrantSave(r) \/ Call(r) \/ WaitForRetry(r) \/ ReadReceipt(r) \/ Confirm(r) \/ GetDunning(r)
           \/ FindActive(r) \/ StartDunning(r) \/ HookEntitlement(r)
  <2>1. \/ End(r) \/ \E pc \in {"start", "claim", "find", "core", "begin", "open"} : Go(r, pc)
        \/ run[r].pc \in {"receipt", "confirm"} /\ \E pc \in {"succeed", "allowance", "decline"} : Go(r, pc)
    BY <1>6 DEF GrantSave, Call, WaitForRetry, ReadReceipt, Confirm, GetDunning, FindActive, StartDunning,
       HookEntitlement
  <2>2. {"start", "claim", "find", "core", "begin", "open"} \cap ChargeStages = {}
    BY DEF ChargeStages, HeldStages
  <2>3. {"receipt", "confirm"} \subseteq ChargeStages
    BY DEF ChargeStages, HeldStages
  <2> QED
    BY <1>1, <1>4, <2>1, <2>2, <2>3, ExactEnd, ExactGo
<1>7. CASE ListCharges(r) \/ ReadAllowance(r) \/ Send(r)
  <2> DEFINE n == Cardinality(Succeeded \ {run[r].at})
             a == [run[r] EXCEPT !.prior = n, !.inTry = TRUE,
                                 !.pc = IF run[r].step = 0 THEN "allowance" ELSE "receipt"]
             pc == IF Reconciled(run[r]) THEN "succeed" ELSE IF allowance < 1 THEN "decline" ELSE "send"
             b == [run[r] EXCEPT !.prior = 0, !.pc = pc]
             c == [run[r] EXCEPT !.pc = "record", !.step = Len(txs) + 1]
             d == [run[r] EXCEPT !.pc = "decline"]
  <2>1. run[r].pc \in ChargeStages
    BY <1>7 DEF ListCharges, ReadAllowance, Send, ChargeStages, HeldStages
  <2>2. \E l \in {a, b, c, d} : run' = [run EXCEPT ![r] = l]
    BY <1>7 DEF ListCharges, ReadAllowance, Send, Become, Go
  <2> HIDE DEF n, pc
  <2>3. \A l \in {a, b, c, d} : /\ l.at = run[r].at /\ l.then = run[r].then /\ l.leased = run[r].leased
                                /\ l.seen = run[r].seen /\ l.patched = run[r].patched
    BY <1>0 DEF Run
  <2> HIDE DEF a, b, c, d
  <2> QED
    BY <1>5, <2>1, <2>2, <2>3
<1>8. CASE FindCampaign(r) \/ RecordAttempt(r) \/ ReadForPatch(r) \/ HookCore(r)
  <2> DEFINE d == Attempt(run[r].dun, run[r].then = "paid")
             a == [run[r] EXCEPT !.pc = "attempt", !.dun = dunning]
             b == IF run[r].then = "paid" THEN [run[r] EXCEPT !.pc = "core", !.dun = NoDunning]
                  ELSE [run[r] EXCEPT !.pc = "patch", !.dun = NoDunning,
                                      !.then = IF d.status = "exhausted" THEN "suspended" ELSE "past_due"]
             c == [run[r] EXCEPT !.pc = "save", !.patched = sub]
             e == [run[r] EXCEPT !.pc = "entitle",
                                 !.delivers = access.core \in {"none", "expired"} \/ run[r].at = 0]
             f == [run[r] EXCEPT !.pc = "core"]
  <2>1. End(r) \/ \E l \in {a, b, c, e, f} : run' = [run EXCEPT ![r] = l]
    BY <1>8 DEF FindCampaign, RecordAttempt, ReadForPatch, HookCore, Become, Go
  <2> HIDE DEF d
  <2> DEFINE Ahead(l) ==
          /\ l.at = run[r].at /\ (l.then = run[r].then \/ l.then # "paid") /\ l.seen = run[r].seen
          /\ l.patched = run[r].patched \/ l.patched = sub
          /\ l.pc \in {"attempt", "core", "patch", "save", "entitle"}
  <2>4. Ahead(a) /\ Ahead(f)
    BY <1>0 DEF Run
  <2>5. Ahead(c)
    BY <1>0 DEF Run
  <2>6. Ahead(e)
    BY <1>0 DEF Run
  <2>7. Ahead(b)
    <3>1. CASE run[r].then = "paid"
      BY <1>0, <3>1 DEF Run
    <3>2. CASE run[r].then # "paid"
      <4> DEFINE u == IF d.status = "exhausted" THEN "suspended" ELSE "past_due"
      <4>1. u # "paid"
        OBVIOUS
      <4> HIDE DEF u
      <4> QED
        BY <1>0, <3>2, <4>1 DEF Run, u
    <3> QED
      BY <3>1, <3>2
  <2>2. \A l \in {a, b, c, e, f} : Ahead(l)
    <3> HIDE DEF a, b, c, e, f, Ahead
    <3> QED
      BY <2>4, <2>5, <2>6, <2>7
  <2>3. {"attempt", "core", "patch", "save", "entitle"} \cap ChargeStages = {}
    BY DEF ChargeStages, HeldStages
  <2> HIDE DEF a, b, c, e, f
  <2> QED
    BY <1>1, <1>4, <1>5, <2>1, <2>2, <2>3, ExactEnd
<1> QED
  BY <1>6, <1>7, <1>8

(* A lease that ends without a fault is that of a call that has left.      *)
LEMMA ExactLease ==
  ASSUME TypeOK, Exact, NEW p \in Periods, LeaseEnds(p), faults' = faults PROVE Exact'
<1> USE DEF edits
<1> DEFINE q == charge[p].lease
<1>1. faults \in Nat /\ faults # faults + 1 /\ charge \in [Periods -> Charge]
  BY BoundsAssumption DEF TypeOK, RowsOK, PullsOK
<1>2. q \in Runs
  BY <1>1 DEF LeaseEnds, Charge
<1>3. ~(run[q].leased /\ run[q].at = p) /\ UNCHANGED <<run, sub, cancel, access>>
  BY <1>1 DEF LeaseEnds, Fault
<1>4. charge' = [charge EXCEPT ![p].lease = NoRun]
  BY DEF LeaseEnds
<1>5. /\ \A x \in Periods : charge'[x].status = charge[x].status
      /\ \A x \in Periods : charge'[x].lease = IF x = p THEN NoRun ELSE charge[x].lease
  BY <1>1, <1>4 DEF Charge
<1>6. Succeeded' = Succeeded /\ Marked' = Marked
  BY <1>5 DEF Succeeded, Marked
<1>7. BooksExact'
  BY <1>3, <1>5, <1>6 DEF Exact, BooksExact
<1>8. ASSUME NEW s \in Runs PROVE CallExact(s, run[s])'
  <2>1. CallExact(s, run[s]) /\ run[s].at \in Periods
    BY DEF Exact, TypeOK, PullsOK, Run
  <2>2. run[s].pc \in ChargeStages => run[s].at # p
    BY <1>2, <1>3, <2>1 DEF CallExact
  <2> QED
    BY <1>3, <1>5, <1>6, <2>1, <2>2 DEF CallExact
<1> QED
  BY <1>7, <1>8 DEF Exact

LEMMA ExactNext ==
  ASSUME TypeOK, Exact, [Next]_vars, faults' = faults PROVE Exact'
<1> USE DEF edits, chain
<1>0. BooksExact /\ -1 \in Marked /\ faults \in Nat /\ faults # faults + 1
  BY BoundsAssumption DEF Exact, Marked, TypeOK, RowsOK
<1>1. CASE GrantRead \/ CancelRead \/ CancelSave \/ CancelCore \/ RetryIsDue \/ Revoke \/ NextPeriod
            \/ UNCHANGED vars \/ \E i \in DOMAIN txs : Mine(i)
  <2>1. UNCHANGED <<charge, run>>
    BY <1>1 DEF GrantRead, CancelRead, CancelSave, CancelCore, RetryIsDue, Revoke, NextPeriod, vars, Mine
  <2>2. sub'.paidThrough \in {sub.paidThrough, cancel.seen.paidThrough}
    <3>1. cancel.seen \in Sub
      BY DEF TypeOK, RowsOK
    <3>2. CASE CancelSave
      BY <3>1, <3>2 DEF CancelSave, Sub
    <3> QED
      BY <1>1, <3>2 DEF GrantRead, CancelRead, CancelCore, RetryIsDue, Revoke, NextPeriod, vars, Mine
  <2>3. cancel'.seen.paidThrough \in {sub.paidThrough, cancel.seen.paidThrough, -1}
    <3>1. cancel \in [pc : {"idle", "save", "core"}, now : BOOLEAN, seen : Sub]
      BY DEF TypeOK, RowsOK
    <3>2. CASE CancelRead
      BY <3>1, <3>2 DEF CancelRead
    <3>3. CASE CancelSave
      BY <3>1, <3>3 DEF CancelSave, NewSub
    <3>4. CASE CancelCore
      BY <3>1, <3>4 DEF CancelCore, NoCancel, NewSub
    <3> QED
      BY <1>1, <3>2, <3>3, <3>4 DEF GrantRead, RetryIsDue, Revoke, NextPeriod, vars, Mine
  <2>4. access'.through = access.through
    <3>1. access \in Access
      BY DEF TypeOK, RowsOK
    <3>2. CASE CancelCore
      BY <3>1, <3>2 DEF CancelCore, Access
    <3> QED
      BY <1>1, <3>2 DEF GrantRead, CancelRead, CancelSave, RetryIsDue, Revoke, NextPeriod, vars, Mine
  <2>5. BooksExact'
    BY <1>0, <2>1, <2>2, <2>3, <2>4, BooksRest DEF BooksExact
  <2> QED
    BY <2>1, <2>5, ExactRests
<1>2. ASSUME NEW r \in Runs, Throw(r) \/ Crash(r) \/ SendLost(r) PROVE FALSE
  BY <1>0, <1>2 DEF Throw, Crash, SendLost, Fault
<1>3. ASSUME NEW r \in Runs, GrantSave(r) \/ Call(r) \/ Step(r) PROVE Exact'
  BY <1>3, ExactCall, ExactStart, ExactClaim, ExactSaves, ExactPatch DEF Step
<1>4. ASSUME NEW p \in Periods, LeaseEnds(p) PROVE Exact'
  BY <1>4, ExactLease
<1> QED
  BY <1>1, <1>2, <1>3, <1>4 DEF Next

(* The transfers of the promise are the pulls that were mined.             *)
MinedOf(t) == {j \in DOMAIN t : t[j].status = "mined"}
DrawnOf(t) == {<<i, t[i].period>> : i \in MinedOf(t)}
promised == <<DrawnOf(txs), Succeeded, sub.paidThrough, access.through, faults, revoked>>

LEMMA Numbered ==
  ASSUME NEW t, NEW S, IsFiniteSet(S)
  PROVE  /\ IsFiniteSet({<<i, t[i].period>> : i \in S})
         /\ Cardinality({<<i, t[i].period>> : i \in S}) = Cardinality(S)
<1> DEFINE T == {<<i, t[i].period>> : i \in S}
           f == [i \in S |-> <<i, t[i].period>>]
<1>1. \A i \in S : f[i] = <<i, t[i].period>> /\ f[i][1] = i
  OBVIOUS
<1>2. \A i \in S : f[i] \in T
  BY <1>1
<1>3. f \in [S -> T]
  <2> HIDE DEF T
  <2> QED
    BY <1>2
<1>4. \A x \in T : \E i \in S : f[i] = x
  BY <1>1
<1> HIDE DEF T, f
<1>5. \A a, b \in S : f[a] = f[b] => a = b
  BY <1>1
<1>6. f \in Bijection(S, T)
  BY <1>3, <1>4, <1>5 DEF Bijection, Injection, Surjection, IsInjective
<1>7. ExistsBijection(S, T)
  BY <1>6 DEF ExistsBijection
<1> QED
  BY <1>7, FS_Bijection DEF T

LEMMA DrawnCounted ==
  ASSUME NEW t \in Seq(Tx)
  PROVE  /\ IsFiniteSet(DrawnOf(t)) /\ Cardinality(DrawnOf(t)) = Cardinality(MinedOf(t))
         /\ \A p : Cardinality({x \in DrawnOf(t) : x[2] = p}) =
                   Cardinality({i \in DOMAIN t : t[i].period = p /\ t[i].status = "mined"})
<1>1. IsFiniteSet(MinedOf(t))
  BY MinedType DEF MinedOf
<1>2. ASSUME NEW p
      PROVE  Cardinality({x \in DrawnOf(t) : x[2] = p}) =
             Cardinality({i \in DOMAIN t : t[i].period = p /\ t[i].status = "mined"})
  <2> DEFINE S == {i \in DOMAIN t : t[i].period = p /\ t[i].status = "mined"}
  <2>1. S \subseteq MinedOf(t) /\ \A i : i \in S <=> i \in MinedOf(t) /\ t[i].period = p
    BY DEF MinedOf
  <2>2. IsFiniteSet(S)
    BY <1>1, <2>1, FS_Subset
  <2> HIDE DEF S
  <2>3. \A i : <<i, t[i].period>>[2] = t[i].period
    OBVIOUS
  <2>4. {x \in DrawnOf(t) : x[2] = p} = {<<i, t[i].period>> : i \in S}
    BY <2>1, <2>3 DEF DrawnOf
  <2>5. Cardinality({<<i, t[i].period>> : i \in S}) = Cardinality(S)
    BY <2>2, Numbered
  <2> QED
    BY <2>4, <2>5 DEF S
<1>3. /\ IsFiniteSet({<<i, t[i].period>> : i \in MinedOf(t)})
      /\ Cardinality({<<i, t[i].period>> : i \in MinedOf(t)}) = Cardinality(MinedOf(t))
  BY <1>1, Numbered
<1> QED
  BY <1>2, <1>3 DEF DrawnOf

(* What does not change which pulls are mined moves no money.              *)
LEMMA SameDrawn ==
  ASSUME NEW t, NEW u, MinedOf(u) = MinedOf(t), \A i \in MinedOf(t) : u[i].period = t[i].period
  PROVE  DrawnOf(u) = DrawnOf(t)
BY DEF DrawnOf

(* The promise counts as this module does.                                 *)
LEMMA SameCount == \A S : Promise!Cardinality(S) = Cardinality(S)
BY DEF Promise!Cardinality, Cardinality

LEMMA BroadcastDraws ==
  ASSUME TypeOK, NEW r \in Runs, Broadcast(r)
  PROVE  DrawnOf(txs)' = DrawnOf(txs) /\ Len(txs') <= MaxPulls
<1> DEFINE x == [period |-> run[r].at, status |-> "sent"]
           n == Len(txs) + 1
<1>1. /\ txs \in Seq(Tx) /\ Len(txs) \in Nat /\ DOMAIN txs = 1..Len(txs)
      /\ MaxPulls \in Nat /\ Len(txs) < MaxPulls
  BY LenProperties, BoundsAssumption DEF TypeOK, PullsOK, Broadcast
<1>2. x \in Tx /\ x.status = "sent"
  BY DEF Tx, TypeOK, PullsOK, Run
<1>3. txs' = Append(txs, x)
  BY DEF Broadcast
<1> HIDE DEF x
<1>4. txs' \in Seq(Tx) /\ Len(txs') = n /\ txs'[n] = x /\ \A i \in 1..Len(txs) : txs'[i] = txs[i]
  BY <1>1, <1>2, <1>3, AppendProperties
<1>5. DOMAIN txs' = 1..n
  BY <1>4, LenProperties
<1>6. \A i : i \in 1..n <=> i \in 1..Len(txs) \/ i = n
  BY <1>1
<1>7. MinedOf(txs') = MinedOf(txs) /\ MinedOf(txs) \subseteq 1..Len(txs)
  BY <1>1, <1>2, <1>4, <1>5, <1>6 DEF MinedOf
<1>8. DrawnOf(txs') = DrawnOf(txs)
  BY <1>4, <1>7, SameDrawn
<1> QED
  BY <1>1, <1>4, <1>8

(* A pull that is mined is one the promise has room for.                   *)
LEMMA MinePromised ==
  ASSUME TypeOK, TypeOK', Len(txs) <= MaxPulls, PulledOnce', NEW i \in DOMAIN txs, Mine(i)
  PROVE  [Promise!Next]_promised /\ Len(txs') <= MaxPulls
<1>0. PICK p : p = txs[i].period
  OBVIOUS
<1>1. /\ txs \in Seq(Tx) /\ txs' \in Seq(Tx) /\ Len(txs) \in Nat /\ DOMAIN txs = 1..Len(txs)
      /\ MaxPulls \in Nat /\ faults \in Nat
  BY LenProperties, BoundsAssumption DEF TypeOK, RowsOK, PullsOK
<1>2. txs[i] \in Tx /\ p \in Periods
  <2>1. txs[i] \in Tx
    BY <1>1, ElementOfSeq
  <2> QED
    BY <1>0, <2>1 DEF Tx
<1>3. UNCHANGED <<charge, sub, access, faults, revoked>> /\ txs[i].status = "sent"
  BY DEF Mine
<1>4. PICK s \in {"mined", "reverted"} : txs' = [txs EXCEPT ![i] = [txs[i] EXCEPT !.status = s]]
  BY DEF Mine
<1> DEFINE x == [txs[i] EXCEPT !.status = s]
<1>5. x.status = s /\ x.period = p
  BY <1>0, <1>2 DEF Tx
<1> HIDE DEF x
<1>6. /\ DOMAIN txs' = DOMAIN txs /\ Len(txs') = Len(txs) /\ txs'[i] = x
      /\ \A j \in DOMAIN txs : j # i => txs'[j] = txs[j]
  BY <1>1, <1>4 DEF x
<1>7. Succeeded' = Succeeded
  BY <1>3 DEF Succeeded
<1>8. CASE s = "reverted"
  <2>1. MinedOf(txs') = MinedOf(txs) /\ i \notin MinedOf(txs) /\ MinedOf(txs) \subseteq DOMAIN txs
    BY <1>3, <1>5, <1>6, <1>8 DEF MinedOf
  <2>2. DrawnOf(txs') = DrawnOf(txs)
    BY <1>6, <2>1, SameDrawn
  <2> QED
    BY <1>1, <1>3, <1>6, <1>7, <2>2 DEF promised
<1>9. CASE s = "mined"
  <2>1. MinedOf(txs') = MinedOf(txs) \cup {i} /\ i \notin MinedOf(txs) /\ MinedOf(txs) \subseteq DOMAIN txs
    BY <1>3, <1>5, <1>6, <1>9 DEF MinedOf
  <2>2. DrawnOf(txs') = DrawnOf(txs) \cup {<<i, p>>}
    BY <1>5, <1>6, <2>1 DEF DrawnOf
  <2>3. \A q \in Periods : <<i, q>> \notin DrawnOf(txs)
    BY <2>1 DEF DrawnOf
  <2> DEFINE A == {y \in DrawnOf(txs) : y[2] = p}
             B == {y \in DrawnOf(txs') : y[2] = p}
  <2>4. B = A \cup {<<i, p>>} /\ <<i, p>> \notin A
    BY <1>2, <2>2, <2>3
  <2>5. Cardinality(B) = Pulls(p)'
    BY <1>1, DrawnCounted DEF Pulls
  <2>6. IsFiniteSet(A)
    BY <1>1, DrawnCounted, FS_Subset
  <2>7. Pulls(p)' <= 1 + 2 * faults
    BY <1>2, <1>3 DEF PulledOnce
  <2> HIDE DEF A, B
  <2>8. Cardinality(B) = Cardinality(A) + 1 /\ Cardinality(A) \in Nat
    BY <2>4, <2>6, FS_AddElement, FS_CardinalityType
  <2>9. Cardinality(A) <= 2 * faults
    BY <1>1, <2>5, <2>7, <2>8
  <2>10. Promise!Pull(i, p)
    BY <1>3, <1>7, <2>2, <2>3, <2>9, SameCount DEF Promise!Pull, Promise!PullsOf, A, DrawnOf, MinedOf
  <2>11. i \in 1..MaxPulls
    BY <1>1
  <2> QED
    BY <1>1, <1>2, <1>6, <2>10, <2>11 DEF Promise!Next
<1> QED
  BY <1>8, <1>9

(* What the promise sees, before and after a step. *)
SeesMoney == DrawnOf(txs)' = DrawnOf(txs) /\ UNCHANGED revoked
SeesBooks == sub'.paidThrough = sub.paidThrough /\ access'.through = access.through

LEMMA PromiseRests ==
  ASSUME SeesMoney, SeesBooks, Succeeded' = Succeeded, faults' \in {faults, faults + 1}
  PROVE  [Promise!Next]_promised
<1>1. CASE faults' = faults
  BY <1>1 DEF SeesMoney, SeesBooks, promised
<1>2. CASE faults' = faults + 1
  <2>1. Promise!Slip
    BY <1>2 DEF SeesMoney, SeesBooks, DrawnOf, MinedOf, Promise!Slip
  <2> QED
    BY <2>1 DEF Promise!Next
<1> QED
  BY <1>1, <1>2

(* A call, the clock or the buyer moves on; or something fails.            *)
LEMMA PromiseStill ==
  ASSUME TypeOK,
         \/ GrantRead \/ CancelRead \/ CancelCore \/ RetryIsDue \/ NextPeriod \/ UNCHANGED vars
         \/ \E r \in Runs :
              \/ Call(r) \/ Start(r) \/ WaitForRetry(r) \/ ListCharges(r) \/ ReadReceipt(r) \/ ReadAllowance(r)
              \/ Confirm(r) \/ GetDunning(r) \/ FindActive(r) \/ StartDunning(r) \/ FindCampaign(r)
              \/ RecordAttempt(r) \/ ReadForPatch(r) \/ HookCore(r) \/ Throw(r) \/ Crash(r)
  PROVE  [Promise!Next]_promised
<1> USE DEF edits, chain
<1>1. UNCHANGED <<txs, charge, revoked, sub>>
  BY DEF GrantRead, CancelRead, CancelCore, RetryIsDue, NextPeriod, vars, Call, Start, WaitForRetry, ListCharges,
     ReadReceipt, ReadAllowance, Confirm, GetDunning, FindActive, StartDunning, FindCampaign, RecordAttempt,
     ReadForPatch, HookCore, Throw, Crash
<1>2. access'.through = access.through
  <2>1. access \in Access
    BY DEF TypeOK, RowsOK
  <2>2. CASE CancelCore \/ \E r \in Runs : HookCore(r)
    BY <2>1, <2>2 DEF CancelCore, HookCore, Access
  <2> QED
    BY <2>2 DEF GrantRead, CancelRead, RetryIsDue, NextPeriod, vars, Call, Start, WaitForRetry, ListCharges,
       ReadReceipt, ReadAllowance, Confirm, GetDunning, FindActive, StartDunning, FindCampaign, RecordAttempt,
       ReadForPatch, Throw, Crash
<1>3. faults' \in {faults, faults + 1}
  BY DEF GrantRead, CancelRead, CancelCore, RetryIsDue, NextPeriod, vars, Call, Start, WaitForRetry, ListCharges,
     ReadReceipt, ReadAllowance, Confirm, GetDunning, FindActive, StartDunning, FindCampaign, RecordAttempt,
     ReadForPatch, HookCore, Throw, Crash, Fault
<1>4. SeesMoney /\ SeesBooks /\ Succeeded' = Succeeded
  BY <1>1, <1>2 DEF SeesMoney, SeesBooks, DrawnOf, MinedOf, Succeeded
<1> QED
  BY <1>3, <1>4, PromiseRests

LEMMA PromiseSends ==
  ASSUME TypeOK, NEW r \in Runs, Send(r) \/ SendLost(r) PROVE [Promise!Next]_promised
<1>1. SeesMoney
  <2>1. CASE Broadcast(r)
    BY <2>1, BroadcastDraws DEF SeesMoney, Broadcast
  <2>2. CASE UNCHANGED chain
    BY <2>2 DEF SeesMoney, chain, DrawnOf, MinedOf
  <2> QED
    BY <2>1, <2>2 DEF Send, SendLost
<1>2. SeesBooks /\ Succeeded' = Succeeded /\ faults' \in {faults, faults + 1}
  BY DEF SeesBooks, Succeeded, Send, SendLost, Fault
<1> QED
  BY <1>1, <1>2, PromiseRests

(* A claim and the end of a lease leave paid what is paid.                 *)
LEMMA PromiseClaims ==
  ASSUME TypeOK, (\E r \in Runs : ClaimCharge(r)) \/ \E p \in Periods : LeaseEnds(p)
  PROVE  [Promise!Next]_promised
<1>0. UNCHANGED <<txs, revoked, sub, access>> /\ faults' \in {faults, faults + 1}
  BY DEF ClaimCharge, LeaseEnds, Fault, chain
<1>1. SeesMoney /\ SeesBooks
  BY <1>0 DEF SeesMoney, SeesBooks, DrawnOf, MinedOf
<1>2. charge \in [Periods -> Charge] /\ \A r \in Runs : run[r].at \in Periods
  BY DEF TypeOK, PullsOK, Run
<1>3. ASSUME NEW p \in Periods, LeaseEnds(p) PROVE [Promise!Next]_promised
  <2>1. charge' = [charge EXCEPT ![p].lease = NoRun]
    BY <1>3 DEF LeaseEnds
  <2>2. \A q \in Periods : charge'[q].status = charge[q].status
    BY <1>2, <2>1 DEF Charge
  <2> QED
    BY <1>0, <1>1, <2>2, PromiseRests DEF Succeeded
<1>4. ASSUME NEW r \in Runs, ClaimCharge(r) PROVE [Promise!Next]_promised
  <2>1. \/ UNCHANGED charge
        \/ /\ charge[run[r].at].status # "succeeded"
           /\ charge' = [charge EXCEPT ![run[r].at] =
                           [status |-> "pending", step |-> ClaimedStep(charge[run[r].at]), lease |-> r]]
    BY <1>4 DEF ClaimCharge, Claimable
  <2>2. \A q \in Periods : charge'[q].status = "succeeded" <=> charge[q].status = "succeeded"
    BY <1>2, <2>1
  <2> QED
    BY <1>0, <1>1, <2>2, PromiseRests DEF Succeeded
<1> QED
  BY <1>3, <1>4

(* What is booked, and what access runs to, is marked paid. *)
LEMMA PromiseBooks ==
  ASSUME TypeOK, TypeOK', ExactInv', CancelSave \/ \E r \in Runs : GrantSave(r) \/ PatchSubscription(r)
  PROVE  [Promise!Next]_promised
<1>1. /\ SeesMoney /\ Succeeded' = Succeeded /\ access' = access /\ faults' = faults
  BY DEF SeesMoney, DrawnOf, MinedOf, Succeeded, GrantSave, CancelSave, PatchSubscription, chain
<1>2. sub'.paidThrough \in Reached /\ faults \in Nat
  BY BoundsAssumption DEF TypeOK, RowsOK, Sub
<1>3. sub'.paidThrough = -1 \/ Promise!IsPaid(sub'.paidThrough)
  BY <1>1, <1>2 DEF ExactInv, Exact, BooksExact, Marked, Promise!IsPaid
<1>4. Promise!Book(sub'.paidThrough)
  BY <1>1, <1>3 DEF Promise!Book, SeesMoney, DrawnOf, MinedOf
<1>5. sub'.paidThrough \in Periods \cup {-1}
  BY <1>2, SizesAssumption DEF Reached, Periods
<1> QED
  BY <1>4, <1>5 DEF Promise!Next

LEMMA PromiseExtends ==
  ASSUME TypeOK, ExactInv, NEW r \in Runs, HookEntitlement(r) PROVE [Promise!Next]_promised
<1>1. /\ SeesMoney /\ Succeeded' = Succeeded /\ sub' = sub /\ faults' = faults
      /\ access \in Access /\ run[r].at \in Periods /\ faults \in Nat
  BY BoundsAssumption
  DEF SeesMoney, DrawnOf, MinedOf, Succeeded, HookEntitlement, chain, TypeOK, RowsOK, PullsOK, Run
<1>2. access'.through = access.through \/ (run[r].then = "paid" /\ access'.through = run[r].at)
  BY <1>1 DEF HookEntitlement, Access
<1>3. CASE access'.through = access.through
  BY <1>1, <1>3, PromiseRests DEF SeesBooks
<1>4. CASE run[r].then = "paid" /\ access'.through = run[r].at
  <2>1. Promise!IsPaid(run[r].at)
    BY <1>1, <1>4 DEF ExactInv, Exact, CallExact, Promise!IsPaid
  <2>2. Promise!Extend(run[r].at)
    BY <1>1, <1>4, <2>1 DEF Promise!Extend, SeesMoney, DrawnOf, MinedOf
  <2> QED
    BY <1>1, <2>2 DEF Promise!Next
<1> QED
  BY <1>2, <1>3, <1>4

(* A mark is taken back after a fault alone, and made where the pulls that *)
(* were mined leave room for it.                                           *)
LEMMA PromiseSaves ==
  ASSUME TypeOK, TypeOK', ExactInv, PaidIsPulled', NEW r \in Runs,
         RecordStep(r) \/ SaveSucceeded(r) \/ SaveFailed(r)
  PROVE  [Promise!Next]_promised
<1>1. PICK p : p = run[r].at
  OBVIOUS
<1>2. /\ SeesMoney /\ SeesBooks /\ faults' = faults /\ revoked' = revoked /\ txs' = txs
      /\ charge \in [Periods -> Charge] /\ p \in Periods /\ faults \in Nat /\ txs \in Seq(Tx)
  BY SMTT(30), <1>1, BoundsAssumption DEF SeesMoney, SeesBooks, DrawnOf, MinedOf, RecordStep, SaveSucceeded, SaveFailed, chain,
     TypeOK, RowsOK, PullsOK, Run
<1>3. CASE RecordStep(r) \/ SaveFailed(r)
  <2>1. PICK c : charge' = [charge EXCEPT ![p] = c] /\ c.status # "succeeded"
    BY <1>1, <1>3 DEF RecordStep, SaveFailed, SaveCharge, NoCharge
  <2>2. Succeeded' = Succeeded \ {p}
    BY <1>2, <2>1 DEF Succeeded
  <2>3. CASE faults = 0
    <3>1. charge[p].status = "pending"
      BY <1>1, <1>3, <2>3, ExactSaves DEF ExactInv
    <3> QED
      BY <1>2, <2>2, <3>1, PromiseRests DEF Succeeded
  <2>4. CASE faults > 0
    <3>1. Promise!Reopen(p)
      BY <1>2, <2>2, <2>4 DEF Promise!Reopen, SeesMoney, SeesBooks, DrawnOf, MinedOf
    <3> QED
      BY <1>2, <3>1 DEF Promise!Next
  <2> QED
    BY <1>2, <2>3, <2>4
<1>4. CASE SaveSucceeded(r)
  <2> DEFINE c == [NoCharge EXCEPT !.status = "succeeded"]
  <2>1. charge' = [charge EXCEPT ![p] = c]
    BY <1>1, <1>4 DEF SaveSucceeded, SaveCharge
  <2>2. Succeeded' = Succeeded \cup {p}
    BY <1>2, <2>1 DEF Succeeded, NoCharge
  <2>3. CASE p \in Succeeded
    BY <1>2, <2>2, <2>3, PromiseRests
  <2>4. CASE p \notin Succeeded
    <3>1. IsFiniteSet(Succeeded)
      BY SucceededFinite
    <3>2. Cardinality(Succeeded') = Cardinality(Succeeded) + 1 /\ Cardinality(Succeeded) \in Nat
      BY <2>2, <2>4, <3>1, FS_AddElement, FS_CardinalityType
    <3>3. Cardinality(DrawnOf(txs)) = AllPulls' /\ AllPulls' \in Nat
      BY <1>2, DrawnCounted, MinedType DEF AllPulls, MinedOf, Mined
    <3>4. Cardinality(Succeeded') <= AllPulls' + Promise!Excused
      BY <1>2, <3>3 DEF PaidIsPulled, Promise!Excused
    <3>5. Promise!Excused \in Nat
      BY <1>2 DEF Promise!Excused
    <3>6. Cardinality(Succeeded) < Cardinality(DrawnOf(txs)) + Promise!Excused
      BY <3>2, <3>3, <3>4, <3>5
    <3>7. Promise!MarkPaid(p)
      BY <1>2, <2>2, <2>4, <3>6, SameCount DEF Promise!MarkPaid, SeesMoney, SeesBooks, DrawnOf, MinedOf
    <3> QED
      BY <1>2, <3>7 DEF Promise!Next
  <2> QED
    BY <2>3, <2>4
<1> QED
  BY <1>3, <1>4

LEMMA LengthKept ==
  ASSUME TypeOK, Len(txs) <= MaxPulls, [Next]_vars PROVE Len(txs') <= MaxPulls
<1>1. ASSUME NEW r \in Runs, Send(r) \/ SendLost(r) PROVE Len(txs') <= MaxPulls
  <2>1. CASE Broadcast(r)
    BY <2>1, BroadcastDraws
  <2> QED
    BY <1>1, <2>1 DEF Send, SendLost, chain
<1>2. ASSUME NEW i \in DOMAIN txs, Mine(i) PROVE Len(txs') <= MaxPulls
  <2>1. PICK x : txs' = [txs EXCEPT ![i] = x]
    BY <1>2 DEF Mine
  <2>2. txs \in Seq(Tx)
    BY DEF TypeOK, PullsOK
  <2> QED
    BY <2>1, <2>2
<1>3. CASE txs' = txs
  BY <1>3
<1> QED
  BY ZenonT(60), <1>1, <1>2, <1>3 DEF Next, Step, vars, edits, chain, GrantRead, GrantSave, CancelRead, CancelSave, CancelCore,
     Call, Start, WaitForRetry, ClaimCharge, ListCharges, ReadReceipt, ReadAllowance, RecordStep, Confirm,
     SaveSucceeded, SaveFailed, GetDunning, FindActive, StartDunning, FindCampaign, RecordAttempt, ReadForPatch,
     PatchSubscription, HookCore, HookEntitlement, Throw, Crash, LeaseEnds, RetryIsDue, Revoke, NextPeriod

LEMMA FaultsGrow ==
  ASSUME TypeOK, [Next]_vars PROVE faults' \in {faults, faults + 1}
BY ZenonT(60) DEF Next, Step, vars, edits, chain, Fault, GrantRead, GrantSave, CancelRead, CancelSave, CancelCore,
   Call, Start, WaitForRetry, ClaimCharge, ListCharges, ReadReceipt, ReadAllowance, Send, RecordStep, Confirm,
   SaveSucceeded, SaveFailed, GetDunning, FindActive, StartDunning, FindCampaign, RecordAttempt, ReadForPatch,
   PatchSubscription, HookCore, HookEntitlement, Throw, Crash, SendLost, LeaseEnds, Mine, RetryIsDue, Revoke, NextPeriod

LEMMA ExactInit == Init => ExactInv
<1> SUFFICES ASSUME Init PROVE Len(txs) <= MaxPulls /\ Exact
  BY DEF ExactInv
<1>1. Len(txs) <= MaxPulls
  BY BoundsAssumption DEF Init
<1>2. BooksExact
  BY DEF Init, BooksExact, Marked, NewSub, NoCharge, NoAccess, NoCancel
<1>3. \A r \in Runs : CallExact(r, run[r])
  BY DEF Init, CallExact, Marked, Rest, NewSub, ChargeStages, HeldStages
<1> QED
  BY <1>1, <1>2, <1>3 DEF Exact

LEMMA ExactInvNext == TypeOK /\ ExactInv /\ [Next]_vars => ExactInv'
<1> SUFFICES ASSUME TypeOK, ExactInv, [Next]_vars PROVE ExactInv'
  OBVIOUS
<1>1. Len(txs') <= MaxPulls
  BY LengthKept DEF ExactInv
<1>2. faults \in Nat /\ faults' \in {faults, faults + 1}
  BY FaultsGrow, BoundsAssumption DEF TypeOK, RowsOK
<1>3. ASSUME faults' = 0 PROVE Exact'
  <2>1. faults' = faults /\ faults = 0
    BY <1>2, <1>3
  <2> QED
    BY <2>1, ExactNext DEF ExactInv
<1> QED
  BY <1>1, <1>3 DEF ExactInv

LEMMA PromiseStep ==
  ASSUME TypeOK, TypeOK', ExactInv, ExactInv', PulledOnce', PaidIsPulled', [Next]_vars
  PROVE  [Promise!Next]_promised
<1>1. CASE GrantRead \/ CancelRead \/ CancelCore \/ RetryIsDue \/ NextPeriod \/ UNCHANGED vars
  BY <1>1, PromiseStill
<1>2. CASE CancelSave
  BY <1>2, PromiseBooks
<1>3. CASE Revoke
  <2>1. Promise!Revoke
    BY <1>3 DEF Revoke, Promise!Revoke, Succeeded, DrawnOf, MinedOf
  <2> QED
    BY <2>1 DEF Promise!Next
<1>4. ASSUME NEW r \in Runs, GrantSave(r) \/ Call(r) \/ Step(r) \/ Throw(r) \/ Crash(r) \/ SendLost(r)
      PROVE  [Promise!Next]_promised
  BY <1>4, PromiseStill, PromiseSends, PromiseClaims, PromiseBooks, PromiseExtends, PromiseSaves DEF Step
<1>5. ASSUME NEW p \in Periods, LeaseEnds(p) PROVE [Promise!Next]_promised
  BY <1>5, PromiseClaims
<1>6. ASSUME NEW i \in DOMAIN txs, Mine(i) PROVE [Promise!Next]_promised
  BY <1>6, MinePromised DEF ExactInv
<1> QED
  BY <1>1, <1>2, <1>3, <1>4, <1>5, <1>6 DEF Next

(***************************************************************************)
(* The engine implements PeriodCharge: each transfer is one the promise    *)
(* allows, a period is marked paid within what was pulled and stays so     *)
(* unless something failed, and what is booked or served is marked paid.   *)
(***************************************************************************)
THEOREM BillingKeepsPromise == Spec => KeepsPromise
<1>1. Init => Promise!Init
  BY DEF Init, Promise!Init, Succeeded, NoCharge, NewSub, NoAccess
<1>2. TypeOK /\ TypeOK' /\ ExactInv /\ ExactInv' /\ PulledOnce' /\ PaidIsPulled' /\ [Next]_vars
      => [Promise!Next]_promised
  BY PromiseStep
<1> QED
  BY <1>1, <1>2, ExactInit, ExactInvNext, BillingTypeCorrect, PeriodsPulledOnce, PaidPeriodsWerePulled,
     PTL DEF Spec, KeepsPromise, Promise!Spec, promised, DrawnOf, MinedOf
===============================================================================
