-------------------------- MODULE SettlementProofs --------------------------
(***************************************************************************)
(* Proofs about Settlement for every value of its constants: any number of *)
(* sessions, hashes, processes and requests, any use of the merchant API,  *)
(* any number of crashes.  Money first, and the status flow.               *)
(***************************************************************************)
EXTENDS Settlement, TLAPS

-----------------------------------------------------------------------------
(* How an actor's record changes. *)

LEMMA IdleType == Idle \in Local
  BY NamesAssumption
  DEF Local, Idle, NoRow, OpenDoc, Row, Doc, Stages, PaymentStatus, SessionStatus

(* Handing control on replaces one actor's record and no other. *)
LEMMA BecomeFacts ==
  ASSUME TypeOK, NEW a \in Actors, NEW l \in Local, Become(a, l)
  PROVE  /\ act' \in [Actors -> Local]
         /\ act'[a] = l
         /\ \A b \in Actors \ {a} : act'[b] = act[b]
  BY DEF TypeOK, Become

LEMMA GoToFacts ==
  ASSUME TypeOK, NEW a \in Actors, NEW stage \in Stages, GoTo(a, stage)
  PROVE  /\ act' \in [Actors -> Local]
         /\ act'[a].pc = stage
         /\ act'[a].s = act[a].s /\ act'[a].tx = act[a].tx /\ act'[a].pay = act[a].pay
         /\ act'[a].row = act[a].row /\ act'[a].doc = act[a].doc
         /\ \A b \in Actors \ {a} : act'[b] = act[b]
<1>1. act[a] \in Local
  BY DEF TypeOK
<1>2. [act[a] EXCEPT !.pc = stage] \in Local
  BY <1>1 DEF Local
<1>3. act' = [act EXCEPT ![a] = [act[a] EXCEPT !.pc = stage]]
  BY DEF GoTo, Become
<1>. QED
  BY <1>1, <1>2, <1>3 DEF TypeOK, Local

LEMMA FinishFacts ==
  ASSUME TypeOK, NEW a \in Actors, Finish(a)
  PROVE  /\ act' \in [Actors -> Local]
         /\ \A b \in Actors \ {a} : act'[b] = act[b]
         /\ ActorInv(a)'
<1>1. act' \in [Actors -> Local] /\ act'[a] = Idle /\ \A b \in Actors \ {a} : act'[b] = act[b]
  BY BecomeFacts, IdleType DEF Finish
<1>. QED
  BY <1>1 DEF ActorInv, RowAgrees, HoldsRow, HasHash, VerifiedIsFinal, FulfilsSettled,
              CompletedCopyIsPaid, Idle, OpenDoc, RowStages, VerifiedStages, FulfilStages

-----------------------------------------------------------------------------
(***************************************************************************)
(* What no step undoes: a stored row stays and keeps its session, a hash   *)
(* keeps the payments it settled, a final transfer stays final.            *)
(***************************************************************************)
Grow ==
  /\ \A p \in PayIds : payment[p].status # "none" =>
       payment'[p].status # "none" /\ payment'[p].session = payment[p].session
  /\ \A tx \in TxHashes : settledBy[tx] \subseteq settledBy'[tx]
  /\ \A tx \in TxHashes : chain[tx] = "final" => chain'[tx] = "final"

LEMMA SettledStored ==
  ASSUME NothingBeforeMoney, NEW p \in PayIds, Settled(p)
  PROVE  payment[p].status # "none"
  BY DEF NothingBeforeMoney, Settled, Stored

(* What an actor knows outlives the steps of the others. *)
LEMMA ActorKeeps ==
  ASSUME TypeOK, NothingBeforeMoney, Grow, NEW b \in Actors, act'[b] = act[b], ActorInv(b)
  PROVE  ActorInv(b)'
<1>1. \A p \in PayIds : Settled(p) => Settled(p)' /\ payment'[p].session = payment[p].session
  BY SettledStored DEF Grow, Settled
<1>2. RowAgrees(b)'
  BY DEF Grow, ActorInv, RowAgrees, HoldsRow, Agrees, Stored
<1>3. HasHash(b)' /\ VerifiedIsFinal(b)'
  BY DEF Grow, ActorInv, HasHash, VerifiedIsFinal, VerifiedStages, Settles, Meets
<1>4. FulfilsSettled(b)'
  BY <1>1 DEF ActorInv, FulfilsSettled
<1>5. CompletedCopyIsPaid(b)'
  BY <1>1 DEF ActorInv, CompletedCopyIsPaid, Paid
<1>. QED
  BY <1>2, <1>3, <1>4, <1>5 DEF ActorInv

(* The step of one actor, as the step lemmas below see it. *)
Moves(a) ==
  /\ act' \in [Actors -> Local]
  /\ \A b \in Actors \ {a} : act'[b] = act[b]
  /\ ActorInv(a)'

LEMMA OneActor ==
  ASSUME MoneyInv, Grow, NEW a \in Actors, Moves(a)
  PROVE  (\A b \in Actors : ActorInv(b))'
<1>. SUFFICES ASSUME NEW b \in Actors PROVE ActorInv(b)'
  OBVIOUS
<1>1. CASE b = a
  BY <1>1 DEF Moves
<1>2. CASE b # a
  BY <1>2, ActorKeeps DEF Moves, MoneyInv
<1>. QED
  BY <1>1, <1>2

LEMMA NoGrowth ==
  ASSUME UNCHANGED <<chain, payment, settledBy>>
  PROVE  Grow
  BY DEF Grow

(* A step that reads, decides or waits (it may add a customer row). *)
LEMMA ReadStep ==
  ASSUME MoneyInv, NEW a \in Actors, Moves(a), customers' \subseteq Sessions \cup {Direct},
         UNCHANGED <<chain, payment, session, settledBy, events, ledger, extra, redemptions, queue, faults>>
  PROVE  MoneyInv'
<1>1. TypeOK'
  BY DEF MoneyInv, TypeOK, Moves
<1>2. (\A b \in Actors : ActorInv(b))'
  BY NoGrowth, OneActor
<1>3. QueueAgrees' /\ ConfirmedIsSettled' /\ CompletedIsPaid'
  BY DEF MoneyInv, QueueAgrees, Agrees, Stored, ConfirmedIsSettled, Settled, CompletedIsPaid
<1>4. NothingBeforeMoney'
  BY DEF MoneyInv, NothingBeforeMoney, Settled, Settles, Stored, Granted
<1>. QED
  BY <1>1, <1>2, <1>3, <1>4 DEF MoneyInv

(***************************************************************************)
(* The one way a row is written: over a fresh row, or over a row the copy  *)
(* agrees with; as "confirmed" only with a final transfer for its session. *)
(***************************************************************************)
Justified(p, row) ==
  /\ row.status # "none"
  /\ Stored(p) => row.session = payment[p].session
  /\ row.status = "confirmed" => row.tx \in TxHashes /\ Settles(row.tx, row.session)

LEMMA RowWritten ==
  ASSUME MoneyInv, UNCHANGED chain,
         NEW p \in PayIds, NEW row \in Row, Justified(p, row), SavePayment(p, row)
  PROVE  /\ payment' \in [PayIds -> Row] /\ settledBy' \in [TxHashes -> SUBSET PayIds]
         /\ Grow
         /\ ConfirmedIsSettled'
         /\ (\A tx \in TxHashes : \A q \in settledBy[tx] :
               Stored(q) /\ Settles(tx, payment[q].session))'
<1>1. payment' \in [PayIds -> Row] /\ settledBy' \in [TxHashes -> SUBSET PayIds]
  BY DEF MoneyInv, TypeOK, SavePayment, Justified
<1>2. /\ payment'[p] = row
      /\ \A q \in PayIds \ {p} : payment'[q] = payment[q]
      /\ \A tx \in TxHashes : settledBy[tx] \subseteq settledBy'[tx]
      /\ \A tx \in TxHashes : \A q \in settledBy'[tx] :
           q \in settledBy[tx] \/ (q = p /\ tx = row.tx /\ row.status = "confirmed")
      /\ row.status = "confirmed" => p \in settledBy'[row.tx]
  BY DEF MoneyInv, TypeOK, SavePayment, Justified
<1>3. Grow
  BY <1>2 DEF Grow, Justified, Stored
<1>4. ConfirmedIsSettled'
  BY <1>2 DEF MoneyInv, ConfirmedIsSettled, Settled, Justified
<1>5. ASSUME NEW tx \in TxHashes, NEW q \in settledBy'[tx]
      PROVE  payment'[q].status # "none" /\ Settles(tx, payment'[q].session)
  <2>1. q \in PayIds
    BY <1>1
  <2>2. CASE q \in settledBy[tx]
    BY <1>3, <2>1, <2>2 DEF MoneyInv, NothingBeforeMoney, Grow, Stored
  <2>3. CASE q = p /\ tx = row.tx /\ row.status = "confirmed"
    BY <1>2, <2>3 DEF Justified
  <2>. QED
    BY <1>2, <2>2, <2>3
<1>. QED
  BY <1>1, <1>3, <1>4, <1>5 DEF Stored, Settles, Meets

LEMMA PaymentStep ==
  ASSUME MoneyInv, NEW a \in Actors, Moves(a), customers' \subseteq Sessions \cup {Direct},
         NEW p \in PayIds, NEW row \in Row, Justified(p, row), SavePayment(p, row),
         UNCHANGED <<chain, session, events, ledger, extra, redemptions, queue, faults>>
  PROVE  MoneyInv'
<1>1. TypeOK' /\ Grow
  BY RowWritten DEF MoneyInv, TypeOK, Moves
<1>2. (\A b \in Actors : ActorInv(b))'
  BY <1>1, OneActor
<1>3. \A q \in PayIds : Settled(q) => Settled(q)' /\ payment'[q].session = payment[q].session
  BY <1>1, SettledStored DEF Grow, Settled, MoneyInv
<1>4. QueueAgrees'
  BY <1>1 DEF MoneyInv, QueueAgrees, Agrees, Stored, Grow
<1>5. NothingBeforeMoney'
  BY <1>3, RowWritten DEF MoneyInv, NothingBeforeMoney, Granted
<1>6. CompletedIsPaid'
  BY <1>3 DEF MoneyInv, CompletedIsPaid
<1>. QED
  BY <1>1, <1>2, <1>4, <1>5, <1>6, RowWritten DEF MoneyInv

(* A session document is written. *)
LEMMA SessionStep ==
  ASSUME MoneyInv, NEW a \in Actors, Moves(a),
         NEW s \in Sessions \cup {Direct}, NEW doc \in Doc, SaveSession(s, doc),
         doc.status = "completed" => Paid(s),
         UNCHANGED <<chain, payment, customers, settledBy, events, ledger, extra, redemptions, queue, faults>>
  PROVE  MoneyInv'
<1>1. TypeOK'
  BY DEF MoneyInv, TypeOK, Moves, SaveSession
<1>2. (\A b \in Actors : ActorInv(b))'
  BY NoGrowth, OneActor
<1>3. QueueAgrees' /\ ConfirmedIsSettled'
  BY DEF MoneyInv, QueueAgrees, Agrees, Stored, ConfirmedIsSettled, Settled
<1>4. NothingBeforeMoney'
  BY DEF MoneyInv, NothingBeforeMoney, Settled, Settles, Stored, Granted
<1>5. CompletedIsPaid'
  BY DEF MoneyInv, TypeOK, CompletedIsPaid, SaveSession, Paid, Settled
<1>. QED
  BY <1>1, <1>2, <1>3, <1>4, <1>5 DEF MoneyInv

(* An effect: an event, an entitlement, a counted redemption. *)
LEMMA EffectStep ==
  ASSUME MoneyInv, NEW a \in Actors, Moves(a),
         events' \subseteq PayIds, ledger' \subseteq PayIds,
         extra' \in [PayIds -> Nat], redemptions' \in [Sessions -> Nat],
         \A p \in PayIds : Granted(p)' \/ p \in events' =>
            Granted(p) \/ p \in events \/ Settled(p),
         UNCHANGED <<chain, payment, session, customers, settledBy, queue, faults>>
  PROVE  MoneyInv'
<1>1. TypeOK'
  BY DEF MoneyInv, TypeOK, Moves
<1>2. (\A b \in Actors : ActorInv(b))'
  BY NoGrowth, OneActor
<1>3. QueueAgrees' /\ ConfirmedIsSettled' /\ CompletedIsPaid'
  BY DEF MoneyInv, QueueAgrees, Agrees, Stored, ConfirmedIsSettled, Settled, CompletedIsPaid
<1>4. NothingBeforeMoney'
  BY DEF MoneyInv, NothingBeforeMoney, Settled, Settles, Stored, Granted
<1>. QED
  BY <1>1, <1>2, <1>3, <1>4 DEF MoneyInv

-----------------------------------------------------------------------------
(* The steps of a checkout flight. *)

(* An actor that ends its run, or only moves on, knows what it knew. *)
LEMMA FinishMoves ==
  ASSUME MoneyInv, NEW a \in Actors, Finish(a)
  PROVE  Moves(a)
  BY FinishFacts DEF MoneyInv, Moves

LEMMA FlightIsActor == \A f \in Flights : f \in Actors
  BY DEF Actors

LEMMA GoToMoves ==
  ASSUME MoneyInv, Grow, NEW a \in Actors, NEW stage \in Stages, GoTo(a, stage),
         act[a].tx \in TxHashes,
         stage \in RowStages \/ (stage = "verify" /\ act[a].pay # NoPay)
           => HoldsRow(a) /\ act[a].pc # "apiStatus",
         stage \in VerifiedStages => Settles(act[a].tx, act[a].s),
         stage \in FulfilStages =>
           /\ act[a].pay \in PayIds /\ \E tx \in TxHashes : act[a].pay \in settledBy'[tx]
           /\ act[a].s = payment'[act[a].pay].session
  PROVE  Moves(a)
<1>1. /\ act' \in [Actors -> Local]
      /\ act'[a].pc = stage
      /\ act'[a].s = act[a].s /\ act'[a].tx = act[a].tx /\ act'[a].pay = act[a].pay
      /\ act'[a].row = act[a].row /\ act'[a].doc = act[a].doc
      /\ \A b \in Actors \ {a} : act'[b] = act[b]
  BY GoToFacts DEF MoneyInv
<1>2. \A p \in PayIds : Settled(p) => Settled(p)' /\ payment'[p].session = payment[p].session
  BY SettledStored DEF Grow, Settled, MoneyInv
<1>3. RowAgrees(a)'
  BY <1>1 DEF MoneyInv, ActorInv, RowAgrees, HoldsRow, Agrees, Stored, Grow
<1>4. HasHash(a)' /\ VerifiedIsFinal(a)'
  BY <1>1 DEF HasHash, VerifiedIsFinal, Settles, Meets, Grow
<1>5. FulfilsSettled(a)'
  BY <1>1 DEF FulfilsSettled, Settled
<1>6. CompletedCopyIsPaid(a)'
  BY <1>1, <1>2 DEF MoneyInv, ActorInv, CompletedCopyIsPaid, Paid
<1>. QED
  BY <1>1, <1>3, <1>4, <1>5, <1>6 DEF Moves, ActorInv

(* The whole record is replaced: what the new one must satisfy. *)
LEMMA BecomeMoves ==
  ASSUME MoneyInv, Grow, NEW a \in Actors, NEW l \in Local, Become(a, l),
         l.pc \in RowStages \/ (l.pc = "verify" /\ l.pay # NoPay)
           => /\ l.pay \in PayIds /\ payment'[l.pay].status # "none" /\ l.row.status # "none"
              /\ l.row.session = payment'[l.pay].session
              /\ l.pc # "apiStatus" => l.s = l.row.session,
         l.pc \notin {"idle", "apiStatus", "edit"} => l.tx \in TxHashes,
         l.pc \in VerifiedStages => Settles(l.tx, l.s),
         l.pc \in FulfilStages =>
           /\ l.pay \in PayIds /\ \E tx \in TxHashes : l.pay \in settledBy'[tx]
           /\ l.s = payment'[l.pay].session,
         l.doc.status = "completed" => Paid(l.s)
  PROVE  Moves(a)
<1>1. act' \in [Actors -> Local] /\ act'[a] = l /\ \A b \in Actors \ {a} : act'[b] = act[b]
  BY BecomeFacts DEF MoneyInv
<1>2. \A p \in PayIds : Settled(p) => Settled(p)' /\ payment'[p].session = payment[p].session
  BY SettledStored DEF Grow, Settled, MoneyInv
<1>3. RowAgrees(a)'
  BY <1>1 DEF RowAgrees, HoldsRow, Agrees, Stored, Grow
<1>4. HasHash(a)' /\ VerifiedIsFinal(a)'
  BY <1>1 DEF HasHash, VerifiedIsFinal, VerifiedStages, Settles, Meets, Grow
<1>5. FulfilsSettled(a)'
  BY <1>1 DEF FulfilsSettled, Settled
<1>6. CompletedCopyIsPaid(a)'
  BY <1>1, <1>2 DEF CompletedCopyIsPaid, Paid
<1>. QED
  BY <1>1, <1>3, <1>4, <1>5, <1>6 DEF Moves, ActorInv

LEMMA ConfirmStep ==
  ASSUME MoneyInv, NEW p \in Procs, NEW s \in Sessions, NEW tx \in TxHashes, Confirm(p, s, tx)
  PROVE  MoneyInv'
<1>. DEFINE f == <<p, s>>
            l == [Idle EXCEPT !.s = s, !.tx = tx, !.doc = session[s],
                  !.pc = IF session[s].status = "completed" THEN "existing" ELSE "lookup"]
<1>1. f \in Actors /\ session[s] \in Doc
  BY DEF Actors, Flights, MoneyInv, TypeOK
<1>2. l \in Local
  BY <1>1, IdleType DEF Local, Stages
<1>3. Become(f, l) /\ Grow
  BY NoGrowth DEF Confirm, store
<1>4. l.pc \in {"existing", "lookup"} /\ l.doc = session[s] /\ l.s = s /\ l.tx = tx
  BY IdleType DEF Local
<1>5. l.doc.status = "completed" => Paid(s)
  BY <1>4 DEF MoneyInv, CompletedIsPaid, Paid
<1>6. Moves(f)
  BY <1>1, <1>2, <1>3, <1>4, <1>5, BecomeMoves DEF RowStages, VerifiedStages, FulfilStages
<1>. QED
  BY <1>1, <1>6, ReadStep DEF Confirm, store, MoneyInv, TypeOK

LEMMA FindExistingStep ==
  ASSUME MoneyInv, NEW f \in Flights, FindExisting(f)
  PROVE  MoneyInv'
<1>1. f \in Actors /\ Grow /\ act[f].tx \in TxHashes
  BY FlightIsActor, NoGrowth DEF FindExisting, store, MoneyInv, ActorInv, HasHash, At
<1>2. Moves(f)
  BY <1>1, FinishMoves, GoToMoves
  DEF FindExisting, RowStages, VerifiedStages, FulfilStages, Stages
<1>. QED
  BY <1>1, <1>2, ReadStep DEF FindExisting, store, MoneyInv, TypeOK

LEMMA FindPriorStep ==
  ASSUME MoneyInv, NEW f \in Flights, FindPrior(f)
  PROVE  MoneyInv'
<1>. DEFINE l == act[f]
<1>1. /\ f \in Actors /\ Grow /\ l \in Local /\ ActorInv(f)
      /\ l.tx \in TxHashes /\ payment' = payment /\ settledBy' = settledBy
  BY FlightIsActor, NoGrowth DEF FindPrior, store, MoneyInv, TypeOK, ActorInv, HasHash, At
<1>2. ASSUME Become(f, [l EXCEPT !.pay = NoPay, !.pc = "verify"])
      PROVE  Moves(f)
  <2>. DEFINE n == [l EXCEPT !.pay = NoPay, !.pc = "verify"]
  <2>1. n \in Local /\ n.pc = "verify" /\ n.pay = NoPay /\ n.tx = l.tx /\ n.s = l.s /\ n.doc = l.doc
    BY <1>1 DEF Local, Stages
  <2>2. n.doc.status = "completed" => Paid(n.s)
    BY <1>1, <2>1 DEF ActorInv, CompletedCopyIsPaid
  <2>3. Become(f, n)
    BY <1>2
  <2>. HIDE DEF n
  <2>. QED
    BY <1>1, <2>1, <2>2, <2>3, BecomeMoves DEF RowStages, VerifiedStages, FulfilStages
<1>3. ASSUME NEW p \in Owners(l.tx), payment[p].session = l.s,
             NEW st, st = IF payment[p].status = "confirmed" THEN "complete" ELSE "verify",
             Become(f, [l EXCEPT !.pay = p, !.row = payment[p], !.pc = st])
      PROVE  Moves(f)
  <2>. DEFINE n == [l EXCEPT !.pay = p, !.row = payment[p], !.pc = st]
  <2>1. p \in PayIds /\ payment[p] \in Row /\ payment[p].status # "none"
    BY DEF Owners, Stored, MoneyInv, TypeOK
  <2>2. st \in {"complete", "verify"} /\ st \in Stages
    BY <1>3 DEF Stages
  <2>3. /\ n \in Local /\ n.pay = p /\ n.row = payment[p]
        /\ n.tx = l.tx /\ n.s = l.s /\ n.doc = l.doc /\ n.pc = st
    BY <1>1, <2>1, <2>2 DEF Local
  <2>4. n.doc.status = "completed" => Paid(n.s)
    BY <1>1, <2>3 DEF ActorInv, CompletedCopyIsPaid
  <2>5. st = "complete" => \E tx \in TxHashes : p \in settledBy'[tx]
    BY <1>1, <1>3, <2>1 DEF MoneyInv, ConfirmedIsSettled, Settled
  <2>. QED
    BY <1>1, <1>3, <2>1, <2>2, <2>3, <2>4, <2>5, BecomeMoves DEF RowStages, VerifiedStages, FulfilStages
<1>4. Moves(f)
  <2>1. CASE \E p \in Owners(l.tx) :
          /\ payment[p].session = l.s
          /\ Become(f, [l EXCEPT !.pay = p, !.row = payment[p],
               !.pc = IF payment[p].status = "confirmed" THEN "complete" ELSE "verify"])
    BY <1>3, <2>1
  <2>2. CASE Finish(f)
    BY <1>1, <2>2, FinishMoves
  <2>3. CASE l.doc.status = "open" /\ Become(f, [l EXCEPT !.pay = NoPay, !.pc = "verify"])
    BY <1>2, <2>3
  <2>. QED
    BY <2>1, <2>2, <2>3 DEF FindPrior
<1>. QED
  BY <1>1, <1>4, ReadStep DEF FindPrior, store, MoneyInv, TypeOK

LEMMA VerifyStep ==
  ASSUME MoneyInv, NEW f \in Flights, Verify(f)
  PROVE  MoneyInv'
<1>1. /\ f \in Actors /\ Grow /\ ActorInv(f) /\ act[f].tx \in TxHashes
      /\ act[f].pay # NoPay => HoldsRow(f)
      /\ act[f].pc = "verify"
  BY FlightIsActor, NoGrowth DEF Verify, store, MoneyInv, ActorInv, HasHash, HoldsRow, At
<1>2. Moves(f)
  BY <1>1, FinishMoves, GoToMoves DEF Verify, RowStages, VerifiedStages, FulfilStages, Stages
<1>. QED
  BY <1>1, <1>2, ReadStep DEF Verify, store, MoneyInv, TypeOK

LEMMA EnsureCustomerStep ==
  ASSUME MoneyInv, NEW f \in Flights, EnsureCustomer(f)
  PROVE  MoneyInv'
<1>1. /\ f \in Actors /\ Grow /\ ActorInv(f) /\ act[f].s \in Sessions \cup {Direct}
      /\ act[f].tx \in TxHashes /\ act[f].pc \in {"claim", "claimOnly"}
  BY FlightIsActor, NoGrowth DEF EnsureCustomer, MoneyInv, TypeOK, Local, ActorInv, HasHash
<1>2. Moves(f)
  <2>1. CASE act[f].pc = "claim"
    <3>1. GoTo(f, "insert") /\ Settles(act[f].tx, act[f].s)
      BY <1>1, <2>1 DEF EnsureCustomer, At, ActorInv, VerifiedIsFinal, VerifiedStages
    <3>. QED
      BY <1>1, <3>1, GoToMoves DEF RowStages, VerifiedStages, FulfilStages, Stages
  <2>2. CASE act[f].pc = "claimOnly"
    BY <1>1, <2>2, GoToMoves
    DEF EnsureCustomer, At, RowStages, VerifiedStages, FulfilStages, Stages
  <2>. QED
    BY <1>1, <2>1, <2>2
<1>. QED
  BY <1>1, <1>2, ReadStep DEF EnsureCustomer, MoneyInv, TypeOK

(* Saving a justified row over one that held nothing, or that agreed. *)
LEMMA ClaimTxStep ==
  ASSUME MoneyInv, NEW f \in Flights, ClaimTx(f)
  PROVE  MoneyInv'
<1>. DEFINE l == act[f]
            row == PendingRow(l.s, l.tx)
<1>1. f \in Actors /\ l \in Local /\ ActorInv(f) /\ l.tx \in TxHashes /\ l.pc \in {"insert", "insertOnly"}
  BY FlightIsActor DEF ClaimTx, MoneyInv, TypeOK, ActorInv, HasHash
<1>2. row \in Row /\ row.status = "pending" /\ row.session = l.s
  BY <1>1 DEF Local, Row, PendingRow, PaymentStatus
<1>3. customers' \subseteq Sessions \cup {Direct}
  BY <1>1 DEF ClaimTx, Local, MoneyInv, TypeOK
<1>4. CASE Finish(f) /\ KeepPayments
  BY <1>1, <1>3, <1>4, FinishMoves, ReadStep DEF ClaimTx, KeepPayments
<1>5. ASSUME NEW p \in PayIds, Fresh(p), SavePayment(p, row),
             IF l.pc = "insert" THEN Become(f, [l EXCEPT !.pay = p, !.row = row, !.pc = "save"]) ELSE Finish(f)
      PROVE  MoneyInv'
  <2>1. Justified(p, row)
    BY <1>2, <1>5 DEF Justified, Fresh, Stored
  <2>2. Grow /\ payment'[p] = row
    BY <1>2, <1>5, <2>1, RowWritten DEF ClaimTx, SavePayment, MoneyInv, TypeOK
  <2>3. CASE l.pc = "insert"
    <3>. DEFINE n == [l EXCEPT !.pay = p, !.row = row, !.pc = "save"]
    <3>1. /\ n \in Local /\ n.pay = p /\ n.row = row
          /\ n.tx = l.tx /\ n.s = l.s /\ n.doc = l.doc /\ n.pc = "save"
      BY <1>1, <1>2 DEF Local, Stages
    <3>2. n.doc.status = "completed" => Paid(n.s)
      BY <1>1, <3>1 DEF ActorInv, CompletedCopyIsPaid
    <3>3. Settles(n.tx, n.s)
      BY <1>1, <2>3, <3>1 DEF ActorInv, VerifiedIsFinal, VerifiedStages
    <3>4. Become(f, n)
      BY <1>5, <2>3
    <3>. HIDE DEF n
    <3>5. Moves(f)
      BY <1>1, <1>2, <2>2, <3>1, <3>2, <3>3, <3>4, BecomeMoves DEF RowStages, VerifiedStages, FulfilStages
    <3>. QED
      BY <1>1, <1>2, <1>3, <1>5, <2>1, <3>5, PaymentStep DEF ClaimTx
  <2>4. CASE l.pc # "insert"
    BY <1>1, <1>2, <1>3, <1>5, <2>1, <2>4, FinishMoves, PaymentStep DEF ClaimTx
  <2>. QED
    BY <2>3, <2>4
<1>. QED
  BY <1>4, <1>5 DEF ClaimTx

(* A verified copy is saved as confirmed, and its holder goes on to fulfil. *)
LEMMA ConfirmRow ==
  ASSUME MoneyInv, NEW a \in Actors, act[a].pc \in {"save", "wkSave", "apiSave"},
         SavePayment(act[a].pay, ConfirmPayment(act[a].row, act[a].tx)),
         NEW stage \in FulfilStages, GoTo(a, stage),
         UNCHANGED <<chain, session, customers, events, ledger, extra, redemptions, queue, faults>>
  PROVE  MoneyInv'
<1>. DEFINE l == act[a]
            row == ConfirmPayment(l.row, l.tx)
<1>1. /\ l \in Local /\ ActorInv(a) /\ l.tx \in TxHashes /\ stage \in Stages
      /\ Settles(l.tx, l.s) /\ Agrees(l.pay, l.row) /\ l.s = l.row.session
  BY DEF MoneyInv, TypeOK, ActorInv, HasHash, VerifiedIsFinal, VerifiedStages, RowAgrees,
         HoldsRow, RowStages, FulfilStages, Stages
<1>2. /\ row \in Row /\ row.status = "confirmed" /\ row.tx = l.tx
      /\ row.session = l.s
  BY <1>1 DEF Local, Row, ConfirmPayment, PaymentStatus
<1>3. l.pay \in PayIds /\ Justified(l.pay, row)
  BY <1>1, <1>2 DEF Justified, Agrees
<1>4. Grow /\ payment'[l.pay] = row /\ l.pay \in settledBy'[l.tx]
  BY <1>1, <1>2, <1>3, RowWritten DEF SavePayment, MoneyInv, TypeOK
<1>. HIDE DEF row
<1>5. Moves(a)
  BY <1>1, <1>2, <1>3, <1>4, GoToMoves DEF RowStages, VerifiedStages, FulfilStages
<1>. QED
  BY <1>2, <1>3, <1>5, PaymentStep DEF row, MoneyInv, TypeOK

(* What an actor that fulfils knows, and that it may go on fulfilling. *)
LEMMA Fulfils ==
  ASSUME MoneyInv, NEW a \in Actors, act[a].pc \in FulfilStages
  PROVE  /\ act[a] \in Local /\ act[a].tx \in TxHashes
         /\ act[a].pay \in PayIds /\ Settled(act[a].pay)
         /\ act[a].s = payment[act[a].pay].session /\ Paid(act[a].s)
  BY DEF MoneyInv, TypeOK, ActorInv, HasHash, FulfilsSettled, FulfilStages, Paid

LEMMA FulfilOn ==
  ASSUME MoneyInv, NEW a \in Actors, act[a].pc \in FulfilStages,
         UNCHANGED <<chain, payment, settledBy>>,
         NEW stage \in FulfilStages, GoTo(a, stage)
  PROVE  Moves(a)
<1>1. stage \in Stages /\ Grow /\ \E tx \in TxHashes : act[a].pay \in settledBy'[tx]
  BY Fulfils, NoGrowth DEF FulfilStages, Stages, Settled
<1>. QED
  BY <1>1, Fulfils, GoToMoves DEF FulfilStages, RowStages, VerifiedStages

(* The same with a new copy of the session document. *)
LEMMA FulfilWith ==
  ASSUME MoneyInv, NEW a \in Actors, act[a].pc \in FulfilStages,
         UNCHANGED <<chain, payment, settledBy>>,
         NEW stage \in FulfilStages, NEW doc \in Doc,
         Become(a, [act[a] EXCEPT !.doc = doc, !.pc = stage])
  PROVE  Moves(a)
<1>. DEFINE n == [act[a] EXCEPT !.doc = doc, !.pc = stage]
<1>1. stage \in Stages /\ Grow /\ \E tx \in TxHashes : act[a].pay \in settledBy'[tx]
  BY Fulfils, NoGrowth DEF FulfilStages, Stages, Settled
<1>2. /\ n \in Local /\ n.pay = act[a].pay /\ n.tx = act[a].tx
      /\ n.s = act[a].s /\ n.doc = doc /\ n.pc = stage
  BY <1>1, Fulfils DEF Local
<1>3. Become(a, n)
  OBVIOUS
<1>. HIDE DEF n
<1>. QED
  BY <1>1, <1>2, <1>3, Fulfils, BecomeMoves DEF FulfilStages, RowStages, VerifiedStages

(* An event is written for the payment the actor fulfils. *)
LEMMA EventStep ==
  ASSUME MoneyInv, NEW a \in Actors, act[a].pc \in FulfilStages, Moves(a),
         events' = events \cup {act[a].pay},
         UNCHANGED <<chain, payment, session, customers, settledBy, ledger, extra, redemptions, queue, faults>>
  PROVE  MoneyInv'
<1>1. /\ events' \subseteq PayIds
      /\ \A p \in PayIds : Granted(p)' \/ p \in events' =>
           Granted(p) \/ p \in events \/ Settled(p)
  BY Fulfils DEF MoneyInv, TypeOK, Granted
<1>. QED
  BY <1>1, EffectStep DEF MoneyInv, TypeOK

(* An entitlement with a random id is written for it. *)
LEMMA ExtraStep ==
  ASSUME MoneyInv, NEW a \in Actors, act[a].pc \in FulfilStages, Moves(a),
         extra' = [extra EXCEPT ![act[a].pay] = @ + 1],
         UNCHANGED <<chain, payment, session, customers, settledBy, events, ledger, redemptions, queue, faults>>
  PROVE  MoneyInv'
<1>1. /\ extra' \in [PayIds -> Nat]
      /\ \A p \in PayIds : Granted(p)' \/ p \in events' =>
           Granted(p) \/ p \in events \/ Settled(p)
  BY Fulfils DEF MoneyInv, TypeOK, Granted
<1>. QED
  BY <1>1, EffectStep DEF MoneyInv, TypeOK

LEMMA RedemptionStep ==
  ASSUME MoneyInv, NEW a \in Actors, Moves(a), NEW s \in Sessions \cup {Direct},
         redemptions' = [redemptions EXCEPT ![s] = @ + 1],
         UNCHANGED <<chain, payment, session, customers, settledBy, events, ledger, extra, queue, faults>>
  PROVE  MoneyInv'
<1>1. redemptions' \in [Sessions -> Nat]
  <2>1. redemptions \in [Sessions -> Nat]
    BY DEF MoneyInv, TypeOK
  <2>2. ASSUME NEW x \in Sessions PROVE redemptions'[x] \in Nat
    BY <2>1
  <2>3. redemptions' = [x \in Sessions |-> redemptions'[x]]
    BY <2>1
  <2>. QED
    BY <2>2, <2>3
<1>2. \A p \in PayIds : Granted(p)' \/ p \in events' => Granted(p) \/ p \in events \/ Settled(p)
  BY DEF Granted
<1>. QED
  BY <1>1, <1>2, EffectStep DEF MoneyInv, TypeOK

LEMMA SaveConfirmedStep ==
  ASSUME MoneyInv, NEW f \in Flights, SaveConfirmed(f)
  PROVE  MoneyInv'
<1>1. f \in Actors /\ act[f].pc = "save"
  BY FlightIsActor DEF SaveConfirmed, At
<1>2. CASE Finish(f) /\ KeepPayments
  BY <1>1, <1>2, FinishMoves, ReadStep DEF SaveConfirmed, KeepPayments, MoneyInv, TypeOK
<1>3. CASE SavePayment(act[f].pay, ConfirmPayment(act[f].row, act[f].tx)) /\ GoTo(f, "complete")
  BY <1>1, <1>3, ConfirmRow DEF SaveConfirmed, FulfilStages
<1>. QED
  BY <1>2, <1>3 DEF SaveConfirmed

LEMMA SaveCompletedStep ==
  ASSUME MoneyInv, NEW f \in Flights, SaveCompleted(f)
  PROVE  MoneyInv'
<1>. DEFINE l == act[f]
            done == CompleteSession(l.doc)
<1>1. f \in Actors /\ l.pc \in FulfilStages
  BY FlightIsActor DEF SaveCompleted, At, FulfilStages
<1>2. done \in Doc
  BY <1>1, Fulfils DEF Local, Doc, CompleteSession, SessionStatus
<1>3. PICK stage \in FulfilStages : Become(f, [l EXCEPT !.doc = done, !.pc = stage])
  BY DEF SaveCompleted, FulfilStages
<1>. HIDE DEF done
<1>4. Moves(f)
  BY <1>1, <1>2, <1>3, FulfilWith DEF SaveCompleted
<1>5. l.s \in Sessions \cup {Direct} /\ SaveSession(l.s, done)
  BY <1>1, Fulfils DEF SaveCompleted, done, Local
<1>. QED
  BY <1>1, <1>2, <1>4, <1>5, Fulfils, SessionStep DEF SaveCompleted

LEMMA CountRedemptionStep ==
  ASSUME MoneyInv, NEW f \in Flights, CountRedemption(f)
  PROVE  MoneyInv'
<1>1. f \in Actors /\ act[f].pc \in FulfilStages /\ "redeemed" \in FulfilStages
  BY FlightIsActor DEF CountRedemption, At, FulfilStages
<1>2. Moves(f)
  BY <1>1, FulfilOn DEF CountRedemption
<1>3. act[f].s \in Sessions \cup {Direct}
  BY <1>1, Fulfils DEF Local
<1>. QED
  BY <1>1, <1>2, <1>3, RedemptionStep DEF CountRedemption

LEMMA SaveRedeemedStep ==
  ASSUME MoneyInv, NEW f \in Flights, SaveRedeemed(f)
  PROVE  MoneyInv'
<1>. DEFINE doc == [act[f].doc EXCEPT !.redeemed = TRUE]
<1>1. f \in Actors /\ act[f].pc \in FulfilStages /\ "emit" \in FulfilStages
  BY FlightIsActor DEF SaveRedeemed, At, FulfilStages
<1>2. Moves(f)
  BY <1>1, FulfilOn DEF SaveRedeemed
<1>3. act[f].s \in Sessions \cup {Direct} /\ doc \in Doc
  <2>1. act[f].s \in Sessions \cup {Direct} /\ act[f].doc \in Doc
    BY <1>1, Fulfils DEF Local
  <2>. QED
    BY <2>1 DEF Doc
<1>4. SaveSession(act[f].s, doc)
  BY DEF SaveRedeemed
<1>. HIDE DEF doc
<1>. QED
  BY <1>1, <1>2, <1>3, <1>4, Fulfils, SessionStep DEF SaveRedeemed

LEMMA EmitStep ==
  ASSUME MoneyInv, NEW f \in Flights, Emit(f)
  PROVE  MoneyInv'
<1>1. f \in Actors /\ act[f].pc \in FulfilStages /\ "ledger" \in FulfilStages
  BY FlightIsActor DEF Emit, At, FulfilStages
<1>2. Moves(f)
  BY <1>1, FulfilOn DEF Emit
<1>. QED
  BY <1>1, <1>2, EventStep DEF Emit

LEMMA FindLedgerStep ==
  ASSUME MoneyInv, NEW f \in Flights, FindLedger(f)
  PROVE  MoneyInv'
<1>1. f \in Actors /\ act[f].pc \in FulfilStages /\ "grant" \in FulfilStages
  BY FlightIsActor DEF FindLedger, At, FulfilStages
<1>2. Moves(f)
  BY <1>1, FulfilOn, FinishMoves DEF FindLedger, store
<1>. QED
  BY <1>1, <1>2, ReadStep DEF FindLedger, store, MoneyInv, TypeOK

LEMMA GrantStep ==
  ASSUME MoneyInv, NEW f \in Flights, Grant(f)
  PROVE  MoneyInv'
<1>1. f \in Actors /\ act[f].pc \in FulfilStages /\ Moves(f)
  BY FlightIsActor, FinishMoves DEF Grant, At, FulfilStages
<1>2. /\ ledger' \subseteq PayIds
      /\ \A p \in PayIds : Granted(p)' \/ p \in events' =>
           Granted(p) \/ p \in events \/ Settled(p)
  BY <1>1, Fulfils DEF Grant, MoneyInv, TypeOK, Granted
<1>. QED
  BY <1>1, <1>2, EffectStep DEF Grant, MoneyInv, TypeOK

LEMMA FlightStepKeeps ==
  ASSUME MoneyInv, NEW f \in Flights, FlightStep(f)
  PROVE  MoneyInv'
  BY FindExistingStep, FindPriorStep, VerifyStep, EnsureCustomerStep, ClaimTxStep,
     SaveConfirmedStep, SaveCompletedStep, CountRedemptionStep, SaveRedeemedStep, EmitStep, FindLedgerStep,
     GrantStep
  DEF FlightStep

-----------------------------------------------------------------------------
(* The steps of the worker. *)

LEMMA WorkerIsActor == Worker \in Actors
  BY DEF Actors

(* The worker's queue: what it holds was read from stored rows. *)
LEMMA StartTickStep ==
  ASSUME MoneyInv, StartTick
  PROVE  MoneyInv'
<1>1. \A p \in PayIds : payment[p] \in Row
  BY DEF MoneyInv, TypeOK
<1>2. ASSUME NEW item \in queue'
      PROVE  /\ item \in PayIds \X Row
             /\ Agrees(item[1], item[2]) /\ item[2].tx \in TxHashes
  <2>1. PICK p \in PendingPayments : item = <<p, payment[p]>>
    BY DEF StartTick
  <2>2. p \in PayIds /\ payment[p].status = "pending" /\ payment[p].tx # NoTx
    BY DEF PendingPayments
  <2>. QED
    BY <1>1, <2>1, <2>2 DEF Agrees, Stored, Row
<1>3. TypeOK'
  BY <1>2 DEF StartTick, store, MoneyInv, TypeOK
<1>4. QueueAgrees'
  BY <1>2 DEF StartTick, store, QueueAgrees, Agrees, Stored
<1>5. (\A b \in Actors : ActorInv(b))'
  <2>1. Grow
    BY NoGrowth DEF StartTick, store
  <2>. QED
    BY <2>1, ActorKeeps DEF StartTick, MoneyInv
<1>6. NothingBeforeMoney' /\ ConfirmedIsSettled' /\ CompletedIsPaid'
  BY DEF StartTick, store, MoneyInv, NothingBeforeMoney, Settled, Settles, Stored, Granted,
         ConfirmedIsSettled, CompletedIsPaid
<1>. QED
  BY <1>3, <1>4, <1>5, <1>6 DEF MoneyInv

LEMMA TakePaymentStep ==
  ASSUME MoneyInv, TakePayment
  PROVE  MoneyInv'
<1>1. PICK item \in queue :
        /\ queue' = queue \ {item}
        /\ \/ item[2].session \in Sessions
              /\ Become(Worker, [pc |-> "wkVerify", op |-> "none", pay |-> item[1],
                   row |-> item[2], s |-> item[2].session, tx |-> item[2].tx,
                   doc |-> session[item[2].session]])
           \/ UNCHANGED act
  BY DEF TakePayment
<1>2. item \in PayIds \X Row /\ Agrees(item[1], item[2]) /\ item[2].tx \in TxHashes
  BY DEF MoneyInv, TypeOK, QueueAgrees
<1>3. Grow /\ payment' = payment /\ session' = session /\ settledBy' = settledBy
  BY NoGrowth DEF TakePayment, store
<1>4. (\A b \in Actors : ActorInv(b))' /\ act' \in [Actors -> Local]
  <2>1. CASE item[2].session \in Sessions
             /\ Become(Worker, [pc |-> "wkVerify", op |-> "none", pay |-> item[1],
                   row |-> item[2], s |-> item[2].session, tx |-> item[2].tx,
                   doc |-> session[item[2].session]])
    <3>. DEFINE n == [pc |-> "wkVerify", op |-> "none", pay |-> item[1],
                   row |-> item[2], s |-> item[2].session, tx |-> item[2].tx,
                   doc |-> session[item[2].session]]
    <3>1. n \in Local
      BY <1>2, <2>1 DEF Local, Stages, MoneyInv, TypeOK
    <3>2. /\ n.pc = "wkVerify" /\ n.pay = item[1] /\ n.row = item[2]
          /\ n.s = item[2].session /\ n.tx = item[2].tx /\ n.doc = session[n.s]
      OBVIOUS
    <3>3. n.doc.status = "completed" => Paid(n.s)
      BY <2>1, <3>2 DEF MoneyInv, CompletedIsPaid, Paid
    <3>4. Become(Worker, n)
      BY <2>1
    <3>. HIDE DEF n
    <3>5. Moves(Worker)
      BY <1>2, <1>3, <3>1, <3>2, <3>3, <3>4, BecomeMoves, WorkerIsActor
      DEF Agrees, Stored, RowStages, VerifiedStages, FulfilStages
    <3>. QED
      BY <1>3, <3>5, OneActor, WorkerIsActor DEF Moves
  <2>2. CASE UNCHANGED act
    BY <1>3, <2>2, ActorKeeps DEF MoneyInv, TypeOK
  <2>. QED
    BY <1>1, <2>1, <2>2
<1>5. TypeOK'
  BY <1>1, <1>4 DEF TakePayment, store, MoneyInv, TypeOK
<1>6. QueueAgrees'
  BY <1>1, <1>3 DEF MoneyInv, QueueAgrees, Agrees, Stored
<1>7. NothingBeforeMoney' /\ ConfirmedIsSettled' /\ CompletedIsPaid'
  BY DEF TakePayment, store, MoneyInv, NothingBeforeMoney, Settled, Settles, Stored, Granted,
         ConfirmedIsSettled, CompletedIsPaid
<1>. QED
  BY <1>4, <1>5, <1>6, <1>7 DEF MoneyInv

LEMMA WorkerVerifyStep ==
  ASSUME MoneyInv, WorkerVerify
  PROVE  MoneyInv'
<1>1. /\ Worker \in Actors /\ Grow /\ act[Worker].tx \in TxHashes
      /\ act[Worker].pc = "wkVerify"
  BY WorkerIsActor, NoGrowth DEF WorkerVerify, store, MoneyInv, ActorInv, HasHash, At
<1>2. Moves(Worker)
  BY <1>1, FinishMoves, GoToMoves
  DEF WorkerVerify, RowStages, VerifiedStages, FulfilStages, Stages, HoldsRow
<1>. QED
  BY <1>1, <1>2, ReadStep DEF WorkerVerify, store, MoneyInv, TypeOK

LEMMA WorkerSaveStep ==
  ASSUME MoneyInv, WorkerSave
  PROVE  MoneyInv'
<1>1. Worker \in Actors /\ act[Worker].pc = "wkSave"
  BY WorkerIsActor DEF WorkerSave, At
<1>2. CASE Finish(Worker) /\ KeepPayments
  BY <1>1, <1>2, FinishMoves, ReadStep DEF WorkerSave, KeepPayments, MoneyInv, TypeOK
<1>3. CASE /\ SavePayment(act[Worker].pay, ConfirmPayment(act[Worker].row, act[Worker].tx))
           /\ GoTo(Worker, "wkEmit")
  BY <1>1, <1>3, ConfirmRow DEF WorkerSave, FulfilStages
<1>. QED
  BY <1>2, <1>3 DEF WorkerSave

LEMMA WorkerEmitStep ==
  ASSUME MoneyInv, WorkerEmit
  PROVE  MoneyInv'
<1>1. Worker \in Actors /\ act[Worker].pc \in FulfilStages /\ "wkComplete" \in FulfilStages
  BY WorkerIsActor DEF WorkerEmit, At, FulfilStages
<1>2. Moves(Worker)
  BY <1>1, FulfilOn DEF WorkerEmit
<1>. QED
  BY <1>1, <1>2, EventStep DEF WorkerEmit

LEMMA WorkerCompleteStep ==
  ASSUME MoneyInv, WorkerComplete
  PROVE  MoneyInv'
<1>. DEFINE l == act[Worker]
            done == CompleteSession(l.doc)
<1>1. Worker \in Actors /\ l.pc \in FulfilStages /\ "wkScan" \in FulfilStages
  BY WorkerIsActor DEF WorkerComplete, At, FulfilStages
<1>2. Moves(Worker)
  BY <1>1, FulfilOn DEF WorkerComplete
<1>3. done \in Doc /\ l.s \in Sessions \cup {Direct} /\ Paid(l.s)
  BY <1>1, Fulfils DEF Local, Doc, CompleteSession, SessionStatus
<1>. HIDE DEF done
<1>4. CASE SaveSession(l.s, done)
  BY <1>1, <1>2, <1>3, <1>4, SessionStep DEF WorkerComplete
<1>5. CASE UNCHANGED session
  BY <1>1, <1>2, <1>5, ReadStep DEF WorkerComplete, MoneyInv, TypeOK
<1>. QED
  BY <1>4, <1>5 DEF WorkerComplete, done

LEMMA ScanEntitlementsStep ==
  ASSUME MoneyInv, ScanEntitlements
  PROVE  MoneyInv'
<1>1. Worker \in Actors /\ act[Worker].pc \in FulfilStages /\ "wkGrant" \in FulfilStages
  BY WorkerIsActor DEF ScanEntitlements, At, FulfilStages
<1>2. Moves(Worker)
  BY <1>1, FulfilOn, FinishMoves DEF ScanEntitlements, store
<1>. QED
  BY <1>1, <1>2, ReadStep DEF ScanEntitlements, store, MoneyInv, TypeOK

LEMMA WorkerGrantStep ==
  ASSUME MoneyInv, WorkerGrant
  PROVE  MoneyInv'
<1>1. Worker \in Actors /\ act[Worker].pc \in FulfilStages /\ Moves(Worker)
  BY WorkerIsActor, FinishMoves DEF WorkerGrant, At, FulfilStages
<1>. QED
  BY <1>1, ExtraStep DEF WorkerGrant

LEMMA WorkerStepKeeps ==
  ASSUME MoneyInv, WorkerStep
  PROVE  MoneyInv'
  BY StartTickStep, TakePaymentStep, WorkerVerifyStep, WorkerSaveStep, WorkerEmitStep,
     WorkerCompleteStep, ScanEntitlementsStep, WorkerGrantStep
  DEF WorkerStep

-----------------------------------------------------------------------------
(* The steps of the merchant API and of what shares its record shape. *)

LEMMA ReqIsActor == \A r \in Reqs : r \in Actors
  BY DEF Actors

(* Record holds nothing across an await: its actors are where they were. *)
LEMMA RecordStep ==
  ASSUME MoneyInv, NEW r \in Reqs, NEW s \in Sessions, NEW tx \in TxHashes \cup {NoTx},
         Record(r, s, tx)
  PROVE  MoneyInv'
<1>1. PICK p \in PayIds : Fresh(p) /\ SavePayment(p, PendingRow(s, tx))
  BY DEF Record
<1>2. PendingRow(s, tx) \in Row /\ PendingRow(s, tx).status = "pending"
  BY DEF PendingRow, Row, PaymentStatus
<1>3. Justified(p, PendingRow(s, tx))
  BY <1>1, <1>2 DEF Justified, Fresh, Stored
<1>4. Grow
  BY <1>1, <1>2, <1>3, RowWritten DEF Record
<1>5. Moves(r)
  BY <1>4, ActorKeeps, ReqIsActor DEF Record, Moves, MoneyInv, TypeOK
<1>. QED
  BY <1>1, <1>2, <1>3, <1>5, ReqIsActor, PaymentStep DEF Record, MoneyInv, TypeOK

LEMMA ApiConfirmStep ==
  ASSUME MoneyInv, NEW r \in Reqs, NEW p \in PayIds, NEW tx \in TxHashes, ApiConfirm(r, p, tx)
  PROVE  MoneyInv'
<1>. DEFINE n == [Idle EXCEPT !.pc = "apiSession", !.op = "confirm", !.pay = p,
                  !.row = payment[p], !.s = payment[p].session, !.tx = tx]
<1>1. payment[p] \in Row /\ payment[p].status # "none" /\ Grow /\ payment' = payment
  BY NoGrowth DEF ApiConfirm, store, Stored, MoneyInv, TypeOK
<1>2. /\ n \in Local /\ n.pc = "apiSession" /\ n.pay = p /\ n.row = payment[p]
      /\ n.s = payment[p].session /\ n.tx = tx /\ n.doc = Idle.doc
  BY <1>1, IdleType DEF Local, Stages, AllOps, Row
<1>3. n.doc.status = "open"
  BY <1>2 DEF Idle, OpenDoc
<1>4. Become(r, n)
  BY DEF ApiConfirm
<1>. HIDE DEF n
<1>5. Moves(r)
  BY <1>1, <1>2, <1>3, <1>4, BecomeMoves, ReqIsActor DEF RowStages, VerifiedStages, FulfilStages
<1>. QED
  BY <1>5, ReqIsActor, ReadStep DEF ApiConfirm, store, MoneyInv, TypeOK

LEMMA ApiReadSessionStep ==
  ASSUME MoneyInv, NEW r \in Reqs, ApiReadSession(r)
  PROVE  MoneyInv'
<1>. DEFINE l == act[r]
<1>1. /\ r \in Actors /\ l \in Local /\ ActorInv(r) /\ Grow /\ payment' = payment
      /\ l.pc = "apiSession" /\ l.tx \in TxHashes
      /\ Agrees(l.pay, l.row) /\ l.s = l.row.session
  BY ReqIsActor, NoGrowth DEF ApiReadSession, store, At, MoneyInv, TypeOK, ActorInv, HasHash,
     RowAgrees, HoldsRow, RowStages
<1>2. ASSUME l.s \in Sessions, Become(r, [l EXCEPT !.doc = session[l.s], !.pc = "apiUnused"])
      PROVE  Moves(r)
  <2>. DEFINE n == [l EXCEPT !.doc = session[l.s], !.pc = "apiUnused"]
  <2>1. /\ n \in Local /\ n.pc = "apiUnused" /\ n.pay = l.pay /\ n.row = l.row
        /\ n.s = l.s /\ n.tx = l.tx /\ n.doc = session[l.s]
    BY <1>1, <1>2 DEF Local, Stages, MoneyInv, TypeOK
  <2>2. n.doc.status = "completed" => Paid(n.s)
    BY <1>2, <2>1 DEF MoneyInv, CompletedIsPaid, Paid
  <2>3. Become(r, n)
    BY <1>2
  <2>. HIDE DEF n
  <2>. QED
    BY <1>1, <2>1, <2>2, <2>3, BecomeMoves DEF Agrees, Stored, RowStages, VerifiedStages, FulfilStages
<1>4. Moves(r)
  BY <1>1, <1>2, FinishMoves DEF ApiReadSession
<1>. QED
  BY <1>1, <1>4, ReadStep DEF ApiReadSession, store, MoneyInv, TypeOK

LEMMA ApiUnusedStep ==
  ASSUME MoneyInv, NEW r \in Reqs, ApiUnused(r)
  PROVE  MoneyInv'
<1>1. r \in Actors /\ Grow /\ act[r].tx \in TxHashes /\ act[r].pc = "apiUnused"
  BY ReqIsActor, NoGrowth DEF ApiUnused, store, MoneyInv, ActorInv, HasHash, At
<1>2. Moves(r)
  BY <1>1, FinishMoves, GoToMoves
  DEF ApiUnused, RowStages, VerifiedStages, FulfilStages, Stages, HoldsRow
<1>. QED
  BY <1>1, <1>2, ReadStep DEF ApiUnused, store, MoneyInv, TypeOK

LEMMA ApiVerifyStep ==
  ASSUME MoneyInv, NEW r \in Reqs, ApiVerify(r)
  PROVE  MoneyInv'
<1>1. r \in Actors /\ Grow /\ act[r].tx \in TxHashes /\ act[r].pc = "apiVerify"
  BY ReqIsActor, NoGrowth DEF ApiVerify, store, MoneyInv, ActorInv, HasHash, At
<1>2. Moves(r)
  BY <1>1, FinishMoves, GoToMoves
  DEF ApiVerify, RowStages, VerifiedStages, FulfilStages, Stages, HoldsRow
<1>. QED
  BY <1>1, <1>2, ReadStep DEF ApiVerify, store, MoneyInv, TypeOK

LEMMA ApiSaveStep ==
  ASSUME MoneyInv, NEW r \in Reqs, ApiSave(r)
  PROVE  MoneyInv'
<1>1. r \in Actors /\ act[r].pc = "apiSave"
  BY ReqIsActor DEF ApiSave, At
<1>2. CASE Finish(r) /\ KeepPayments
  BY <1>1, <1>2, FinishMoves, ReadStep DEF ApiSave, KeepPayments, MoneyInv, TypeOK
<1>3. CASE /\ SavePayment(act[r].pay, ConfirmPayment(act[r].row, act[r].tx))
           /\ \E stage \in {"apiGrant", "apiRedeem", "apiComplete"} : GoTo(r, stage)
  BY <1>1, <1>3, ConfirmRow DEF ApiSave, FulfilStages
<1>. QED
  BY <1>2, <1>3 DEF ApiSave

LEMMA ApiRedeemStep ==
  ASSUME MoneyInv, NEW r \in Reqs, ApiRedeem(r)
  PROVE  MoneyInv'
<1>. DEFINE doc == [act[r].doc EXCEPT !.redeemed = TRUE]
<1>1. r \in Actors /\ act[r].pc \in FulfilStages /\ "apiComplete" \in FulfilStages
  BY ReqIsActor DEF ApiRedeem, At, FulfilStages
<1>2. act[r] \in Local /\ act[r].s \in Sessions \cup {Direct} /\ act[r].doc \in Doc
  BY <1>1, Fulfils DEF Local
<1>3. doc \in Doc
  BY <1>2 DEF Doc
<1>4. [act[r] EXCEPT !.doc.redeemed = TRUE, !.pc = "apiComplete"]
        = [act[r] EXCEPT !.doc = doc, !.pc = "apiComplete"]
  BY <1>2 DEF Local
<1>5. Become(r, [act[r] EXCEPT !.doc = doc, !.pc = "apiComplete"])
  BY <1>4 DEF ApiRedeem
<1>. HIDE DEF doc
<1>6. Moves(r)
  BY <1>1, <1>3, <1>5, FulfilWith DEF ApiRedeem
<1>. QED
  BY <1>1, <1>2, <1>6, RedemptionStep DEF ApiRedeem

LEMMA ApiCompleteStep ==
  ASSUME MoneyInv, NEW r \in Reqs, ApiComplete(r)
  PROVE  MoneyInv'
<1>. DEFINE done == CompleteSession(act[r].doc)
<1>1. r \in Actors /\ act[r].pc \in FulfilStages /\ "apiGrant" \in FulfilStages
  BY ReqIsActor DEF ApiComplete, At, FulfilStages
<1>2. Moves(r)
  BY <1>1, FulfilOn DEF ApiComplete
<1>3. done \in Doc /\ act[r].s \in Sessions \cup {Direct} /\ SaveSession(act[r].s, done)
  BY <1>1, Fulfils DEF ApiComplete, Local, Doc, CompleteSession, SessionStatus
<1>. HIDE DEF done
<1>. QED
  BY <1>1, <1>2, <1>3, Fulfils, SessionStep DEF ApiComplete

LEMMA ApiGrantStep ==
  ASSUME MoneyInv, NEW r \in Reqs, ApiGrant(r)
  PROVE  MoneyInv'
<1>1. r \in Actors /\ act[r].pc \in FulfilStages /\ "apiEmit" \in FulfilStages
  BY ReqIsActor DEF ApiGrant, At, FulfilStages
<1>2. Moves(r)
  BY <1>1, FulfilOn DEF ApiGrant
<1>. QED
  BY <1>1, <1>2, ExtraStep DEF ApiGrant

LEMMA ApiEmitStep ==
  ASSUME MoneyInv, NEW r \in Reqs, ApiEmit(r) \/ NoticeEmit(r)
  PROVE  MoneyInv'
<1>1. r \in Actors /\ act[r].pc \in FulfilStages /\ Moves(r)
  BY ReqIsActor, FinishMoves DEF ApiEmit, NoticeEmit, At, FulfilStages
<1>. QED
  BY <1>1, EventStep DEF ApiEmit, NoticeEmit

LEMMA ApiReadPaymentStep ==
  ASSUME MoneyInv, NEW r \in Reqs, NEW p \in PayIds, NEW op \in AllOps, ApiReadPayment(r, p, op)
  PROVE  MoneyInv'
<1>. DEFINE n == [Idle EXCEPT !.pc = "apiStatus", !.op = op, !.pay = p, !.row = payment[p]]
<1>1. payment[p] \in Row /\ payment[p].status # "none" /\ Grow /\ payment' = payment
  BY NoGrowth DEF ApiReadPayment, store, Stored, MoneyInv, TypeOK
<1>2. n \in Local /\ n.pc = "apiStatus" /\ n.pay = p /\ n.row = payment[p] /\ n.doc = Idle.doc
  BY <1>1, IdleType DEF Local, Stages
<1>3. n.doc.status = "open"
  BY <1>2 DEF Idle, OpenDoc
<1>4. Become(r, n)
  BY DEF ApiReadPayment
<1>. HIDE DEF n
<1>5. Moves(r)
  BY <1>1, <1>2, <1>3, <1>4, BecomeMoves, ReqIsActor DEF VerifiedStages, FulfilStages
<1>. QED
  BY <1>5, ReqIsActor, ReadStep DEF ApiReadPayment, store, MoneyInv, TypeOK

LEMMA ApiSaveStatusStep ==
  ASSUME MoneyInv, NEW r \in Reqs, ApiSaveStatus(r)
  PROVE  MoneyInv'
<1>. DEFINE l == act[r]
            row == IF l.op = "fail" THEN FailPayment(l.row) ELSE RefundPayment(l.row)
<1>1. r \in Actors /\ l \in Local /\ Agrees(l.pay, l.row) /\ Moves(r)
  BY ReqIsActor, FinishMoves
  DEF ApiSaveStatus, At, MoneyInv, TypeOK, ActorInv, RowAgrees, HoldsRow, RowStages
<1>2. row \in Row /\ row.status \in {"failed", "refunded"} /\ row.session = l.row.session
  BY <1>1 DEF Local, Row, FailPayment, RefundPayment, PaymentStatus
<1>3. l.pay \in PayIds /\ Justified(l.pay, row)
  BY <1>1, <1>2 DEF Justified, Agrees
<1>. HIDE DEF row
<1>4. CASE SavePayment(l.pay, row)
  BY <1>1, <1>2, <1>3, <1>4, PaymentStep DEF ApiSaveStatus, MoneyInv, TypeOK
<1>5. CASE KeepPayments
  BY <1>1, <1>5, ReadStep DEF ApiSaveStatus, KeepPayments, MoneyInv, TypeOK
<1>. QED
  BY <1>4, <1>5 DEF ApiSaveStatus, row

LEMMA NoticeStep ==
  ASSUME MoneyInv, NEW r \in Reqs, NEW s \in Sessions \cup {Direct}, NEW tx \in TxHashes,
         Notice(r, s, tx)
  PROVE  MoneyInv'
<1>. DEFINE op == IF s = Direct THEN "observe" ELSE "fill"
            n == [Idle EXCEPT !.pc = "seenVerify", !.s = s, !.tx = tx, !.op = op]
<1>1. op \in AllOps /\ Grow
  BY NoGrowth DEF Notice, store, AllOps
<1>2. Become(r, n)
  BY DEF Notice
<1>. HIDE DEF op
<1>3. n \in Local /\ n.pc = "seenVerify" /\ n.tx = tx /\ n.doc = Idle.doc
  BY <1>1, IdleType DEF Local, Stages
<1>4. n.doc.status = "open"
  BY <1>3 DEF Idle, OpenDoc
<1>. HIDE DEF n
<1>5. Moves(r)
  BY <1>1, <1>2, <1>3, <1>4, BecomeMoves, ReqIsActor DEF RowStages, VerifiedStages, FulfilStages
<1>. QED
  BY <1>5, ReqIsActor, ReadStep DEF Notice, store, MoneyInv, TypeOK

LEMMA NoticeVerifyStep ==
  ASSUME MoneyInv, NEW r \in Reqs, NoticeVerify(r)
  PROVE  MoneyInv'
<1>1. r \in Actors /\ Grow /\ act[r].tx \in TxHashes
  BY ReqIsActor, NoGrowth DEF NoticeVerify, store, MoneyInv, ActorInv, HasHash, At
<1>2. Moves(r)
  BY <1>1, FinishMoves, GoToMoves
  DEF NoticeVerify, RowStages, VerifiedStages, FulfilStages, Stages
<1>. QED
  BY <1>1, <1>2, ReadStep DEF NoticeVerify, store, MoneyInv, TypeOK

LEMMA NoticeSaveStep ==
  ASSUME MoneyInv, NEW r \in Reqs, NoticeSave(r)
  PROVE  MoneyInv'
<1>. DEFINE l == act[r]
            row == ConfirmPayment(PendingRow(l.s, l.tx), l.tx)
<1>1. /\ r \in Actors /\ l \in Local /\ ActorInv(r) /\ l.tx \in TxHashes
      /\ l.pc = "seenSave" /\ Settles(l.tx, l.s)
  BY ReqIsActor
  DEF NoticeSave, At, MoneyInv, TypeOK, ActorInv, HasHash, VerifiedIsFinal, VerifiedStages
<1>2. row \in Row /\ row.status = "confirmed" /\ row.session = l.s /\ row.tx = l.tx
  BY <1>1 DEF Local, Row, PendingRow, ConfirmPayment, PaymentStatus
<1>. HIDE DEF row
<1>3. CASE Finish(r) /\ KeepPayments
  BY <1>1, <1>3, FinishMoves, ReadStep DEF NoticeSave, KeepPayments, MoneyInv, TypeOK
<1>4. ASSUME NEW p \in PayIds, Fresh(p), SavePayment(p, row),
             Become(r, [l EXCEPT !.pay = p, !.pc = "seenEmit"])
      PROVE  MoneyInv'
  <2>. DEFINE n == [l EXCEPT !.pay = p, !.pc = "seenEmit"]
  <2>1. Justified(p, row)
    BY <1>1, <1>2, <1>4 DEF Justified, Fresh, Stored
  <2>2. Grow /\ payment'[p] = row /\ p \in settledBy'[l.tx]
    BY <1>1, <1>2, <1>4, <2>1, RowWritten DEF NoticeSave, SavePayment, MoneyInv, TypeOK
  <2>3. /\ n \in Local /\ n.pc = "seenEmit" /\ n.pay = p /\ n.tx = l.tx
        /\ n.s = l.s /\ n.doc = l.doc
    BY <1>1 DEF Local, Stages
  <2>4. n.doc.status = "completed" => Paid(n.s)
    BY <1>1, <2>3 DEF ActorInv, CompletedCopyIsPaid
  <2>5. Become(r, n)
    BY <1>4
  <2>. HIDE DEF n
  <2>6. Moves(r)
    BY <1>1, <1>2, <2>2, <2>3, <2>4, <2>5, BecomeMoves DEF RowStages, VerifiedStages, FulfilStages
  <2>. QED
    BY <1>1, <1>2, <1>4, <2>1, <2>6, PaymentStep DEF NoticeSave, MoneyInv, TypeOK
<1>. QED
  BY <1>3, <1>4 DEF NoticeSave, row

LEMMA EditReadStep ==
  ASSUME MoneyInv, NEW r \in Reqs, NEW s \in Sessions, NEW op \in AllOps, EditRead(r, s, op)
  PROVE  MoneyInv'
<1>. DEFINE n == [Idle EXCEPT !.pc = "edit", !.op = op, !.s = s, !.doc = session[s]]
<1>1. session[s] \in Doc /\ Grow
  BY NoGrowth DEF EditRead, store, MoneyInv, TypeOK
<1>2. n \in Local /\ n.pc = "edit" /\ n.s = s /\ n.doc = session[s]
  BY <1>1, IdleType DEF Local, Stages
<1>3. n.doc.status = "completed" => Paid(n.s)
  BY <1>2 DEF MoneyInv, CompletedIsPaid, Paid
<1>4. Become(r, n)
  BY DEF EditRead
<1>. HIDE DEF n
<1>5. Moves(r)
  BY <1>1, <1>2, <1>3, <1>4, BecomeMoves, ReqIsActor DEF RowStages, VerifiedStages, FulfilStages
<1>. QED
  BY <1>5, ReqIsActor, ReadStep DEF EditRead, store, MoneyInv, TypeOK

(* No writer of a session makes a copy completed that was not. *)
LEMMA EditSaveStep ==
  ASSUME MoneyInv, NEW r \in Reqs, EditSave(r)
  PROVE  MoneyInv'
<1>. DEFINE l == act[r]
            doc == Edited(l.op, l.doc)
<1>1. r \in Actors /\ l \in Local /\ ActorInv(r) /\ Moves(r)
  BY ReqIsActor, FinishMoves DEF EditSave, MoneyInv, TypeOK, ActorInv
<1>2. doc \in Doc /\ (doc.status = "completed" => l.doc.status = "completed")
  <2>1. l.doc \in Doc
    BY <1>1 DEF Local
  <2>. QED
    BY <2>1 DEF Edited, CancelSession, ExpireSession, Doc, SessionStatus
<1>3. SaveSession(l.s, doc)
  BY DEF EditSave
<1>. HIDE DEF doc
<1>. QED
  BY <1>1, <1>2, <1>3, SessionStep DEF EditSave, Local, ActorInv, CompletedCopyIsPaid

LEMMA ReqStepKeeps ==
  ASSUME MoneyInv, NEW r \in Reqs, ReqStart(r) \/ ReqStep(r)
  PROVE  MoneyInv'
<1>1. CASE ReqStart(r)
  <2>1. ASSUME NEW s \in Sessions, NEW tx \in TxHashes \cup {NoTx}, Record(r, s, tx)
        PROVE  MoneyInv'
    BY <2>1, RecordStep
  <2>2. ASSUME NEW p \in PayIds, NEW tx \in TxHashes, ApiConfirm(r, p, tx)
        PROVE  MoneyInv'
    BY <2>2, ApiConfirmStep
  <2>3. ASSUME NEW p \in PayIds, NEW op \in AllOps, ApiReadPayment(r, p, op)
        PROVE  MoneyInv'
    BY <2>3, ApiReadPaymentStep
  <2>4. ASSUME NEW s \in Sessions \cup {Direct}, NEW tx \in TxHashes, Notice(r, s, tx)
        PROVE  MoneyInv'
    BY <2>4, NoticeStep
  <2>5. ASSUME NEW s \in Sessions, NEW op \in AllOps, EditRead(r, s, op)
        PROVE  MoneyInv'
    BY <2>5, EditReadStep
  <2>. QED
    BY <1>1, <2>1, <2>2, <2>3, <2>4, <2>5 DEF ReqStart
<1>2. CASE ReqStep(r)
  BY <1>2, ApiReadSessionStep, ApiUnusedStep, ApiVerifyStep, ApiSaveStep, ApiRedeemStep, ApiCompleteStep,
     ApiGrantStep, ApiEmitStep, ApiSaveStatusStep, NoticeVerifyStep, NoticeSaveStep, EditSaveStep
  DEF ReqStep
<1>. QED
  BY <1>1, <1>2

-----------------------------------------------------------------------------
(* The network moves, or a process dies. *)

LEMMA ChainStepKeeps ==
  ASSUME MoneyInv, NEW tx \in TxHashes, ChainStep(tx)
  PROVE  MoneyInv'
<1>1. /\ chain' \in [TxHashes -> {"unseen", "seen", "final", "late"}]
      /\ \A t \in TxHashes : chain[t] = "final" => chain'[t] = "final"
  BY DEF ChainStep, MoneyInv, TypeOK
<1>2. Grow
  BY <1>1 DEF Grow, ChainStep, store
<1>3. TypeOK'
  BY <1>1 DEF ChainStep, store, MoneyInv, TypeOK
<1>4. (\A b \in Actors : ActorInv(b))'
  BY <1>2, ActorKeeps DEF ChainStep, MoneyInv
<1>5. QueueAgrees' /\ ConfirmedIsSettled' /\ CompletedIsPaid'
  BY DEF ChainStep, store, MoneyInv, QueueAgrees, Agrees, Stored, ConfirmedIsSettled, Settled,
         CompletedIsPaid
<1>6. NothingBeforeMoney'
  BY <1>1 DEF ChainStep, store, MoneyInv, TypeOK, NothingBeforeMoney, Settled, Settles, Meets,
              Stored, Granted
<1>. QED
  BY <1>3, <1>4, <1>5, <1>6 DEF MoneyInv

LEMMA IdleActor ==
  ASSUME NEW a \in Actors, act'[a] = Idle
  PROVE  ActorInv(a)'
  BY DEF ActorInv, RowAgrees, HoldsRow, HasHash, VerifiedIsFinal, FulfilsSettled,
         CompletedCopyIsPaid, Idle, OpenDoc, RowStages, VerifiedStages, FulfilStages

LEMMA CrashStep ==
  ASSUME MoneyInv, NEW dying, Crash(dying)
  PROVE  MoneyInv'
<1>1. Grow /\ queue' \subseteq queue
  BY NoGrowth DEF Crash, store
<1>2. act' = [a \in Actors |-> IF a \in dying THEN Idle ELSE act[a]]
  BY DEF Crash
<1>3. act' \in [Actors -> Local]
  BY <1>2, IdleType DEF MoneyInv, TypeOK
<1>4. (\A b \in Actors : ActorInv(b))'
  <2>. SUFFICES ASSUME NEW b \in Actors PROVE ActorInv(b)'
    OBVIOUS
  <2>1. act'[b] = Idle \/ act'[b] = act[b]
    BY <1>2
  <2>. QED
    BY <1>1, <2>1, IdleActor, ActorKeeps DEF MoneyInv
<1>5. TypeOK'
  BY <1>1, <1>3 DEF Crash, store, MoneyInv, TypeOK
<1>6. QueueAgrees' /\ ConfirmedIsSettled' /\ CompletedIsPaid' /\ NothingBeforeMoney'
  BY <1>1 DEF Crash, store, MoneyInv, QueueAgrees, Agrees, Stored, ConfirmedIsSettled, Settled,
         CompletedIsPaid, NothingBeforeMoney, Settles, Granted
<1>. QED
  BY <1>4, <1>5, <1>6 DEF MoneyInv

-----------------------------------------------------------------------------
(* The invariant and what follows from it. *)

LEMMA MoneyInvInit ==
  ASSUME Init
  PROVE  MoneyInv
<1>1. TypeOK
  BY IdleType, SessionKindsAssumption
  DEF Init, TypeOK, NoRow, OpenDoc, Row, Doc, PaymentStatus, SessionStatus
<1>2. \A a \in Actors : ActorInv(a)
  BY DEF Init, ActorInv, RowAgrees, HoldsRow, HasHash, VerifiedIsFinal, FulfilsSettled,
         CompletedCopyIsPaid, Idle, OpenDoc, RowStages, VerifiedStages, FulfilStages
<1>3. QueueAgrees /\ ConfirmedIsSettled /\ CompletedIsPaid
  BY DEF Init, QueueAgrees, ConfirmedIsSettled, CompletedIsPaid, NoRow, OpenDoc
<1>4. NothingBeforeMoney
  BY DEF Init, NothingBeforeMoney, Granted
<1>. QED
  BY <1>1, <1>2, <1>3, <1>4 DEF MoneyInv

LEMMA MoneyInvNext ==
  ASSUME MoneyInv, [Next]_vars
  PROVE  MoneyInv'
<1>1. ASSUME NEW tx \in TxHashes, ChainStep(tx) PROVE MoneyInv'
  BY <1>1, ChainStepKeeps
<1>2. ASSUME NEW p \in Procs, NEW s \in Sessions, NEW tx \in TxHashes, Confirm(p, s, tx)
      PROVE MoneyInv'
  BY <1>2, ConfirmStep
<1>3. ASSUME NEW f \in Flights, FlightStep(f) PROVE MoneyInv'
  BY <1>3, FlightStepKeeps
<1>4. CASE WorkerStep
  BY <1>4, WorkerStepKeeps
<1>5. ASSUME NEW r \in Reqs, ReqStart(r) \/ ReqStep(r) PROVE MoneyInv'
  BY <1>5, ReqStepKeeps
<1>6. ASSUME NEW dying \in Processes, Crash(dying) PROVE MoneyInv'
  BY <1>6, CrashStep
<1>7. CASE UNCHANGED vars
  BY <1>7 DEF vars, store, MoneyInv, TypeOK, ActorInv, RowAgrees, HoldsRow, Agrees, Stored,
       HasHash, VerifiedIsFinal, Settles, Meets, FulfilsSettled, Settled, CompletedCopyIsPaid, Paid,
       QueueAgrees, ConfirmedIsSettled, NothingBeforeMoney, Granted, CompletedIsPaid
<1>. QED
  BY <1>1, <1>2, <1>3, <1>4, <1>5, <1>6, <1>7 DEF Next

(***************************************************************************)
(* The inductive invariant: what copies, verified stages and fulfilling    *)
(* stages hold, in every reachable state of every instance.                *)
(***************************************************************************)
THEOREM MoneyInvariant == Spec => []MoneyInv
<1>1. Init => MoneyInv
  BY MoneyInvInit
<1>2. MoneyInv /\ [Next]_vars => MoneyInv'
  BY MoneyInvNext
<1>. QED
  BY <1>1, <1>2, PTL DEF Spec

(* Every variable keeps its type. *)
THEOREM TypeCorrect == Spec => []TypeOK
<1>1. MoneyInv => TypeOK
  BY DEF MoneyInv
<1>. QED
  BY <1>1, MoneyInvariant, PTL

(***************************************************************************)
(* Whatever is bought, retried, crashed or done by a merchant: no          *)
(* entitlement and no payment.confirmed event without a final transfer     *)
(* that meets the terms of the payment's session.                          *)
(***************************************************************************)
THEOREM MoneyFirst == Spec => []NothingBeforeMoney
<1>1. MoneyInv => NothingBeforeMoney
  BY DEF MoneyInv
<1>. QED
  BY <1>1, MoneyInvariant, PTL

(* ... and no completed session without a settled payment of its own. *)
THEOREM CompletionIsPaid == Spec => []CompletedIsPaid
<1>1. MoneyInv => CompletedIsPaid
  BY DEF MoneyInv
<1>. QED
  BY <1>1, MoneyInvariant, PTL

-----------------------------------------------------------------------------
(***************************************************************************)
(* The status flow.  The one stage that saves without checking the copy it *)
(* holds checked it when it read it.                                       *)
(***************************************************************************)
Checked(l) ==
  l.pc = "apiStatus" =>
    \/ l.op = "fail" /\ CanFail(l.row)
    \/ l.op = "refund" /\ CanRefund(l.row)
ChecksHold == \A a \in Actors : Checked(act[a])

StatusMoves ==
  \A p \in PayIds : Stored(p) /\ payment'[p].status # payment[p].status =>
    \/ <<payment[p].status, payment'[p].status>> \in LegalPaymentSteps
    \/ HeldStale(p)

LEMMA CheckedBecome ==
  ASSUME TypeOK, ChecksHold, NEW a \in Actors, NEW l, Become(a, l), Checked(l)
  PROVE  ChecksHold'
  BY DEF TypeOK, ChecksHold, Become

LEMMA CheckedGoTo ==
  ASSUME TypeOK, ChecksHold, NEW a \in Actors, NEW stage \in Stages \ {"apiStatus"}, GoTo(a, stage)
  PROVE  ChecksHold'
<1>1. act'[a].pc = stage /\ \A b \in Actors \ {a} : act'[b] = act[b]
  BY GoToFacts
<1>. QED
  BY <1>1 DEF ChecksHold, Checked

LEMMA CheckedFinish ==
  ASSUME TypeOK, ChecksHold, NEW a \in Actors, Finish(a)
  PROVE  ChecksHold'
<1>1. Checked(Idle)
  BY DEF Checked, Idle
<1>. QED
  BY <1>1, CheckedBecome DEF Finish

(* A step that writes no payment. *)
LEMMA NoStatusMoves ==
  ASSUME payment' = payment
  PROVE  StatusMoves
  BY DEF StatusMoves

(* An insert changes the status of no stored row. *)
LEMMA InsertMoves ==
  ASSUME TypeOK, NEW p, Fresh(p), NEW row, SavePayment(p, row)
  PROVE  StatusMoves
  BY DEF TypeOK, Fresh, SavePayment, StatusMoves, Stored

(* A copy that is still what is stored makes a legal step. *)
LEMMA CopyMoves ==
  ASSUME TypeOK, NEW a \in Actors, act[a].pc \in {"save", "wkSave", "apiSave", "apiStatus"},
         NEW row, SavePayment(act[a].pay, row),
         act[a].row.status = row.status \/ <<act[a].row.status, row.status>> \in LegalPaymentSteps
  PROVE  StatusMoves
  BY DEF TypeOK, SavePayment, StatusMoves, HeldStale

LEMMA ConfirmMoves ==
  ASSUME TypeOK, NEW a \in Actors, act[a].pc \in {"save", "wkSave", "apiSave"},
         CanConfirm(act[a].row, act[a].tx),
         SavePayment(act[a].pay, ConfirmPayment(act[a].row, act[a].tx))
  PROVE  StatusMoves
<1>1. act[a].row \in Row
  BY DEF TypeOK, Local
<1>2. /\ ConfirmPayment(act[a].row, act[a].tx).status = "confirmed"
      /\ act[a].row.status = "confirmed" \/ <<act[a].row.status, "confirmed">> \in LegalPaymentSteps
  BY <1>1 DEF Row, ConfirmPayment, CanConfirm, LegalPaymentSteps
<1>. QED
  BY <1>2, CopyMoves

LEMMA StatusSaveMoves ==
  ASSUME TypeOK, ChecksHold, NEW r \in Actors, ApiSaveStatus(r)
  PROVE  StatusMoves
<1>. DEFINE l == act[r]
            row == IF l.op = "fail" THEN FailPayment(l.row) ELSE RefundPayment(l.row)
<1>1. l.pc = "apiStatus" /\ l.row \in Row /\ Checked(l)
  BY DEF ApiSaveStatus, At, TypeOK, Local, ChecksHold
<1>2. l.row.status = row.status \/ <<l.row.status, row.status>> \in LegalPaymentSteps
  BY <1>1 DEF Checked, CanFail, CanRefund, FailPayment, RefundPayment, LegalPaymentSteps, Row
<1>3. SavePayment(l.pay, row) \/ payment' = payment
  BY DEF ApiSaveStatus, KeepPayments
<1>. HIDE DEF row
<1>. QED
  BY <1>1, <1>2, <1>3, CopyMoves, NoStatusMoves

LEMMA FlightFlow ==
  ASSUME TypeOK, ChecksHold, NEW f \in Flights, FlightStep(f)
  PROVE  ChecksHold' /\ StatusMoves
<1>. DEFINE l == act[f]
<1>1. f \in Actors /\ l \in Local
  BY FlightIsActor DEF TypeOK
<1>2. CASE FindExisting(f) \/ Verify(f) \/ EnsureCustomer(f) \/ CountRedemption(f)
             \/ SaveRedeemed(f) \/ Emit(f) \/ FindLedger(f) \/ Grant(f)
  <2>1. Finish(f) \/ \E stage \in Stages \ {"apiStatus"} : GoTo(f, stage)
    BY <1>2 DEF FindExisting, Verify, EnsureCustomer, CountRedemption, SaveRedeemed, Emit,
              FindLedger, Grant, Stages
  <2>2. payment' = payment
    BY <1>2 DEF FindExisting, Verify, EnsureCustomer, CountRedemption, SaveRedeemed, Emit,
              FindLedger, Grant, store
  <2>. QED
    BY <1>1, <2>1, <2>2, CheckedGoTo, CheckedFinish, NoStatusMoves
<1>3. CASE FindPrior(f)
  <2>1. ASSUME NEW pay, NEW row, NEW stage \in {"complete", "verify"},
               Become(f, [l EXCEPT !.pay = pay, !.row = row, !.pc = stage])
        PROVE  ChecksHold'
    <3>1. Checked([l EXCEPT !.pay = pay, !.row = row, !.pc = stage])
      BY <1>1 DEF Checked, Local
    <3>. QED
      BY <1>1, <2>1, <3>1, CheckedBecome
  <2>2. Checked([l EXCEPT !.pay = NoPay, !.pc = "verify"])
    BY <1>1 DEF Checked, Local
  <2>3. \/ Finish(f)
        \/ Become(f, [l EXCEPT !.pay = NoPay, !.pc = "verify"])
        \/ \E p \in Owners(l.tx), stage \in {"complete", "verify"} :
             Become(f, [l EXCEPT !.pay = p, !.row = payment[p], !.pc = stage])
    BY <1>3 DEF FindPrior
  <2>4. ChecksHold'
    BY <1>1, <2>1, <2>2, <2>3, CheckedBecome, CheckedFinish
  <2>. QED
    BY <1>3, <2>4, NoStatusMoves DEF FindPrior, store
<1>4. CASE ClaimTx(f)
  <2>. DEFINE row == PendingRow(l.s, l.tx)
  <2>1. ASSUME NEW p \in PayIds PROVE Checked([l EXCEPT !.pay = p, !.row = row, !.pc = "save"])
    BY <1>1 DEF Checked, Local
  <2>2. Finish(f) \/ \E p \in PayIds : Become(f, [l EXCEPT !.pay = p, !.row = row, !.pc = "save"])
    BY <1>4 DEF ClaimTx
  <2>3. (\E p \in PayIds : Fresh(p) /\ SavePayment(p, row)) \/ payment' = payment
    BY <1>4 DEF ClaimTx, KeepPayments
  <2>. HIDE DEF row
  <2>. QED
    BY <1>1, <2>1, <2>2, <2>3, CheckedBecome, CheckedFinish, InsertMoves, NoStatusMoves
<1>5. CASE SaveConfirmed(f)
  <2>1. Finish(f) \/ GoTo(f, "complete")
    BY <1>5 DEF SaveConfirmed
  <2>2. StatusMoves
    BY <1>1, <1>5, ConfirmMoves, NoStatusMoves DEF SaveConfirmed, At, KeepPayments
  <2>. QED
    BY <1>1, <2>1, <2>2, CheckedGoTo, CheckedFinish DEF Stages
<1>6. CASE SaveCompleted(f)
  <2>. DEFINE done == CompleteSession(l.doc)
  <2>1. PICK stage \in {"redeem", "emit"} : Become(f, [l EXCEPT !.doc = done, !.pc = stage])
    BY <1>6 DEF SaveCompleted
  <2>. HIDE DEF done
  <2>2. Checked([l EXCEPT !.doc = done, !.pc = stage])
    BY <1>1 DEF Checked, Local
  <2>. QED
    BY <1>1, <1>6, <2>1, <2>2, CheckedBecome, NoStatusMoves DEF SaveCompleted
<1>. QED
  BY <1>2, <1>3, <1>4, <1>5, <1>6 DEF FlightStep

LEMMA WorkerFlow ==
  ASSUME TypeOK, ChecksHold, WorkerStep
  PROVE  ChecksHold' /\ StatusMoves
<1>1. CASE StartTick
  BY <1>1, NoStatusMoves DEF StartTick, store, ChecksHold
<1>2. CASE TakePayment
  <2>1. PICK item \in queue :
          \/ Become(Worker, [pc |-> "wkVerify", op |-> "none", pay |-> item[1],
                             row |-> item[2], s |-> item[2].session, tx |-> item[2].tx,
                             doc |-> session[item[2].session]])
          \/ UNCHANGED act
    BY <1>2 DEF TakePayment
  <2>. DEFINE n == [pc |-> "wkVerify", op |-> "none", pay |-> item[1],
                    row |-> item[2], s |-> item[2].session, tx |-> item[2].tx,
                    doc |-> session[item[2].session]]
  <2>2. Checked(n) /\ (Become(Worker, n) \/ UNCHANGED act)
    BY <2>1 DEF Checked
  <2>. HIDE DEF n
  <2>3. ChecksHold'
    BY <2>2, WorkerIsActor, CheckedBecome DEF ChecksHold
  <2>. QED
    BY <1>2, <2>3, NoStatusMoves DEF TakePayment, store
<1>3. CASE WorkerVerify \/ WorkerEmit \/ WorkerComplete \/ ScanEntitlements \/ WorkerGrant
  <2>1. Finish(Worker) \/ \E stage \in Stages \ {"apiStatus"} : GoTo(Worker, stage)
    BY <1>3 DEF WorkerVerify, WorkerEmit, WorkerComplete, ScanEntitlements, WorkerGrant, Stages
  <2>2. payment' = payment
    BY <1>3 DEF WorkerVerify, WorkerEmit, WorkerComplete, ScanEntitlements, WorkerGrant, store
  <2>. QED
    BY <2>1, <2>2, WorkerIsActor, CheckedGoTo, CheckedFinish, NoStatusMoves
<1>4. CASE WorkerSave
  <2>1. Finish(Worker) \/ GoTo(Worker, "wkEmit")
    BY <1>4 DEF WorkerSave
  <2>2. StatusMoves
    BY <1>4, WorkerIsActor, ConfirmMoves, NoStatusMoves DEF WorkerSave, At, KeepPayments
  <2>. QED
    BY <2>1, <2>2, WorkerIsActor, CheckedGoTo, CheckedFinish DEF Stages
<1>. QED
  BY <1>1, <1>2, <1>3, <1>4 DEF WorkerStep

LEMMA ReqStartFlow ==
  ASSUME TypeOK, ChecksHold, NEW r \in Reqs, ReqStart(r)
  PROVE  ChecksHold' /\ StatusMoves
<1>1. r \in Actors
  BY ReqIsActor
<1>2. ASSUME NEW s, NEW tx, Record(r, s, tx)
      PROVE  ChecksHold' /\ StatusMoves
  BY <1>2, InsertMoves DEF Record, ChecksHold
<1>3. ASSUME NEW p, NEW op, ApiReadPayment(r, p, op)
      PROVE  ChecksHold' /\ StatusMoves
  <2>. DEFINE n == [Idle EXCEPT !.pc = "apiStatus", !.op = op, !.pay = p, !.row = payment[p]]
  <2>1. n.op = op /\ n.row = payment[p]
    BY DEF Idle
  <2>2. Checked(n) /\ Become(r, n)
    BY <1>3, <2>1 DEF ApiReadPayment, Checked
  <2>. HIDE DEF n
  <2>. QED
    BY <1>1, <1>3, <2>2, CheckedBecome, NoStatusMoves DEF ApiReadPayment, store
<1>4. ASSUME NEW p, NEW tx, ApiConfirm(r, p, tx)
      PROVE  ChecksHold' /\ StatusMoves
  <2>. DEFINE n == [Idle EXCEPT !.pc = "apiSession", !.op = "confirm", !.pay = p,
                    !.row = payment[p], !.s = payment[p].session, !.tx = tx]
  <2>1. Checked(n) /\ Become(r, n)
    BY <1>4 DEF ApiConfirm, Checked, Idle
  <2>. HIDE DEF n
  <2>. QED
    BY <1>1, <1>4, <2>1, CheckedBecome, NoStatusMoves DEF ApiConfirm, store
<1>5. ASSUME NEW s, NEW tx, Notice(r, s, tx)
      PROVE  ChecksHold' /\ StatusMoves
  <2>. DEFINE n == [Idle EXCEPT !.pc = "seenVerify", !.s = s, !.tx = tx,
                    !.op = IF s = Direct THEN "observe" ELSE "fill"]
  <2>1. Checked(n) /\ Become(r, n)
    BY <1>5 DEF Notice, Checked, Idle
  <2>. HIDE DEF n
  <2>. QED
    BY <1>1, <1>5, <2>1, CheckedBecome, NoStatusMoves DEF Notice, store
<1>6. ASSUME NEW s, NEW op, EditRead(r, s, op)
      PROVE  ChecksHold' /\ StatusMoves
  <2>. DEFINE n == [Idle EXCEPT !.pc = "edit", !.op = op, !.s = s, !.doc = session[s]]
  <2>1. Checked(n) /\ Become(r, n)
    BY <1>6 DEF EditRead, Checked, Idle
  <2>. HIDE DEF n
  <2>. QED
    BY <1>1, <1>6, <2>1, CheckedBecome, NoStatusMoves DEF EditRead, store
<1>. QED
  BY <1>2, <1>3, <1>4, <1>5, <1>6 DEF ReqStart

LEMMA ReqFlow ==
  ASSUME TypeOK, ChecksHold, NEW r \in Reqs, ReqStep(r)
  PROVE  ChecksHold' /\ StatusMoves
<1>. DEFINE l == act[r]
<1>1. r \in Actors /\ l \in Local
  BY ReqIsActor DEF TypeOK
<1>2. CASE ApiUnused(r) \/ ApiVerify(r) \/ ApiComplete(r) \/ ApiGrant(r) \/ ApiEmit(r) \/ NoticeVerify(r)
             \/ NoticeEmit(r) \/ EditSave(r)
  <2>1. Finish(r) \/ \E stage \in Stages \ {"apiStatus"} : GoTo(r, stage)
    BY <1>2 DEF ApiUnused, ApiVerify, ApiComplete, ApiGrant, ApiEmit, NoticeVerify, NoticeEmit,
              EditSave, Stages
  <2>2. payment' = payment
    BY <1>2 DEF ApiUnused, ApiVerify, ApiComplete, ApiGrant, ApiEmit, NoticeVerify, NoticeEmit,
              EditSave, store
  <2>. QED
    BY <1>1, <2>1, <2>2, CheckedGoTo, CheckedFinish, NoStatusMoves
<1>3. CASE ApiReadSession(r)
  <2>1. ASSUME NEW doc PROVE Checked([l EXCEPT !.doc = doc, !.pc = "apiUnused"])
    BY <1>1 DEF Checked, Local
  <2>2. Finish(r) \/ \E doc \in Doc : Become(r, [l EXCEPT !.doc = doc, !.pc = "apiUnused"])
    BY <1>3 DEF ApiReadSession, TypeOK
  <2>3. ChecksHold'
    BY <1>1, <2>1, <2>2, CheckedBecome, CheckedFinish
  <2>. QED
    BY <1>3, <2>3, NoStatusMoves DEF ApiReadSession, store
<1>4. CASE ApiSave(r)
  <2>1. Finish(r) \/ \E stage \in Stages \ {"apiStatus"} : GoTo(r, stage)
    BY <1>4 DEF ApiSave, Stages
  <2>2. StatusMoves
    BY <1>1, <1>4, ConfirmMoves, NoStatusMoves DEF ApiSave, At, KeepPayments
  <2>. QED
    BY <1>1, <2>1, <2>2, CheckedGoTo, CheckedFinish
<1>5. CASE ApiRedeem(r)
  <2>1. Checked([l EXCEPT !.doc.redeemed = TRUE, !.pc = "apiComplete"])
    BY <1>1 DEF Checked, Local
  <2>. QED
    BY <1>1, <1>5, <2>1, CheckedBecome, NoStatusMoves DEF ApiRedeem
<1>6. CASE ApiSaveStatus(r)
  BY <1>1, <1>6, StatusSaveMoves, CheckedFinish DEF ApiSaveStatus
<1>7. CASE NoticeSave(r)
  <2>. DEFINE row == ConfirmPayment(PendingRow(l.s, l.tx), l.tx)
  <2>1. ASSUME NEW p PROVE Checked([l EXCEPT !.pay = p, !.pc = "seenEmit"])
    BY <1>1 DEF Checked, Local
  <2>2. Finish(r) \/ \E p \in PayIds : Become(r, [l EXCEPT !.pay = p, !.pc = "seenEmit"])
    BY <1>7 DEF NoticeSave
  <2>3. (\E p \in PayIds : Fresh(p) /\ SavePayment(p, row)) \/ payment' = payment
    BY <1>7 DEF NoticeSave, KeepPayments
  <2>. HIDE DEF row
  <2>. QED
    BY <1>1, <2>1, <2>2, <2>3, CheckedBecome, CheckedFinish, InsertMoves, NoStatusMoves
<1>. QED
  BY <1>2, <1>3, <1>4, <1>5, <1>6, <1>7 DEF ReqStep

LEMMA StepFlow ==
  ASSUME TypeOK, ChecksHold, [Next]_vars
  PROVE  ChecksHold' /\ StatusMoves
<1>1. ASSUME NEW tx \in TxHashes, ChainStep(tx) PROVE ChecksHold' /\ StatusMoves
  BY <1>1, NoStatusMoves DEF ChainStep, store, ChecksHold
<1>2. ASSUME NEW p \in Procs, NEW s \in Sessions, NEW tx \in TxHashes, Confirm(p, s, tx)
      PROVE  ChecksHold' /\ StatusMoves
  <2>. DEFINE f == <<p, s>>
              n == [Idle EXCEPT !.s = s, !.tx = tx, !.doc = session[s],
                    !.pc = IF session[s].status = "completed" THEN "existing" ELSE "lookup"]
  <2>1. f \in Actors
    BY DEF Actors, Flights
  <2>2. Checked(n) /\ Become(f, n)
    BY <1>2 DEF Confirm, Checked, Idle
  <2>. HIDE DEF n
  <2>. QED
    BY <1>2, <2>1, <2>2, CheckedBecome, NoStatusMoves DEF Confirm, store
<1>3. ASSUME NEW f \in Flights, FlightStep(f) PROVE ChecksHold' /\ StatusMoves
  BY <1>3, FlightFlow
<1>4. CASE WorkerStep
  BY <1>4, WorkerFlow
<1>5. ASSUME NEW r \in Reqs, ReqStart(r) \/ ReqStep(r) PROVE ChecksHold' /\ StatusMoves
  BY <1>5, ReqStartFlow, ReqFlow
<1>6. ASSUME NEW dying \in Processes, Crash(dying) PROVE ChecksHold' /\ StatusMoves
  <2>1. \A a \in Actors : act'[a] = Idle \/ act'[a] = act[a]
    BY <1>6 DEF Crash
  <2>2. ChecksHold'
    BY <2>1 DEF ChecksHold, Checked, Idle
  <2>. QED
    BY <1>6, <2>2, NoStatusMoves DEF Crash, store
<1>7. CASE UNCHANGED vars
  BY <1>7, NoStatusMoves DEF vars, store, ChecksHold
<1>. QED
  BY <1>1, <1>2, <1>3, <1>4, <1>5, <1>6, <1>7 DEF Next

(***************************************************************************)
(* Whatever the confirms, the worker and the merchant do to one row, a     *)
(* status leaves the flow of payment-lifecycle.ts only when a copy that is *)
(* no longer what is stored is saved over it.                              *)
(***************************************************************************)
THEOREM StatusFlow == Spec => StatusFollowsFlow
<1>1. Init => ChecksHold
  BY DEF Init, ChecksHold, Checked, Idle
<1>2. TypeOK /\ ChecksHold /\ [Next]_vars => ChecksHold'
  BY StepFlow
<1>3. TypeOK /\ ChecksHold /\ [Next]_vars => [StatusMoves]_vars
  BY StepFlow
<1>. QED
  BY <1>1, <1>2, <1>3, TypeCorrect, PTL DEF Spec, StatusFollowsFlow, StatusMoves

=============================================================================
