------------------------ MODULE SettlementHashProofs ------------------------
(***************************************************************************)
(* What holds where nobody calls POST /payments/:id/confirm with a hash of *)
(* his own: one transfer settles one payment, and with that the promise of *)
(* PaidAccess, and a promo redemption is counted once.  That route         *)
(* replaces the hash of a stored row, which frees the old hash in the      *)
(* unique index; every other writer saves the hash the row already has.    *)
(* It also counts a redemption before it closes the session, where the     *)
(* checkout closes the session first.                                      *)
(***************************************************************************)
EXTENDS SettlementProofs

(* What happens to table payments: nothing, or one row is saved, with its  *)
(* own hash over a stored row, with one the index accepts over a fresh one. *)
Writes(p, row) ==
  /\ SavePayment(p, row)
  /\ row.status # "none"
  /\ Stored(p) => row.tx = payment[p].tx
  /\ Fresh(p) => IndexAllows(p, row.tx)
  /\ row.status = "confirmed" => row.tx \in TxHashes
Written ==
  \/ UNCHANGED <<payment, settledBy>>
  \/ \E p \in PayIds, row \in Row : Writes(p, row)

HashKept ==
  \A p \in PayIds : payment[p].status # "none" =>
    payment'[p].status # "none" /\ payment'[p].tx = payment[p].tx

LEMMA WrittenKeeps ==
  ASSUME TypeOK, NothingBeforeMoney, IndexHolds, SettledKeepsHash, Written
  PROVE  HashKept /\ IndexHolds' /\ SettledKeepsHash'
<1>1. CASE UNCHANGED <<payment, settledBy>>
  BY <1>1 DEF HashKept, IndexHolds, SettledKeepsHash, Stored
<1>2. ASSUME NEW p \in PayIds, NEW row \in Row, Writes(p, row)
      PROVE  HashKept /\ IndexHolds' /\ SettledKeepsHash'
  <2>1. /\ payment'[p] = row
        /\ \A q \in PayIds \ {p} : payment'[q] = payment[q]
        /\ \A tx \in TxHashes : \A q \in settledBy'[tx] :
             q \in settledBy[tx] \/ (q = p /\ tx = row.tx)
    BY <1>2 DEF TypeOK, Writes, SavePayment
  <2>2. HashKept
    BY <1>2, <2>1 DEF HashKept, Writes, Stored
  <2>3. IndexHolds'
    <3>1. ASSUME NEW q \in PayIds \ {p}, payment[q].status # "none", row.tx # NoTx
          PROVE  payment[q].tx # row.tx
      BY <1>2, <3>1 DEF IndexHolds, Writes, Stored, Fresh, IndexAllows, Owners
    <3>. QED
      BY <2>1, <3>1 DEF IndexHolds, Stored
  <2>4. SettledKeepsHash'
    <3>. SUFFICES ASSUME NEW tx \in TxHashes, NEW q \in settledBy'[tx]
                  PROVE  payment'[q].tx = tx
      BY DEF SettledKeepsHash
    <3>1. CASE q \in settledBy[tx]
      BY <2>2, <3>1 DEF TypeOK, SettledKeepsHash, NothingBeforeMoney, Stored, HashKept
    <3>2. CASE q = p /\ tx = row.tx
      BY <2>1, <3>2
    <3>. QED
      BY <2>1, <3>1, <3>2
  <2>. QED
    BY <2>2, <2>3, <2>4
<1>. QED
  BY <1>1, <1>2 DEF Written

(* The step of one actor, as far as hashes are concerned. *)
HashMoves(a) ==
  /\ \A b \in Actors \ {a} : act'[b] = act[b]
  /\ HashAgrees(a)' /\ NoApiConfirm(a)'

QueueHashes == \A item \in queue : item[2].tx = payment[item[1]].tx

LEMMA CopyKeepsHash ==
  ASSUME HashKept, NEW b \in Actors, act'[b] = act[b],
         RowAgrees(b), HashAgrees(b), NoApiConfirm(b)
  PROVE  HashAgrees(b)' /\ NoApiConfirm(b)'
  BY DEF HashKept, RowAgrees, HoldsRow, Agrees, Stored, HashAgrees, NoApiConfirm

LEMMA HashStep ==
  ASSUME MoneyInv, TxInv, NEW a \in Actors, HashMoves(a), Written, queue' \subseteq queue
  PROVE  TxInv'
<1>1. HashKept /\ IndexHolds' /\ SettledKeepsHash'
  BY WrittenKeeps DEF MoneyInv, TxInv
<1>2. (\A b \in Actors : HashAgrees(b) /\ NoApiConfirm(b))'
  <2>. SUFFICES ASSUME NEW b \in Actors PROVE HashAgrees(b)' /\ NoApiConfirm(b)'
    OBVIOUS
  <2>1. CASE b = a
    BY <2>1 DEF HashMoves
  <2>2. CASE b # a
    BY <1>1, <2>2, CopyKeepsHash DEF HashMoves, MoneyInv, ActorInv, TxInv
  <2>. QED
    BY <2>1, <2>2
<1>3. \A item \in queue' : item[2].tx = payment'[item[1]].tx
  BY <1>1 DEF HashKept, MoneyInv, QueueAgrees, Agrees, Stored, TxInv
<1>. QED
  BY <1>1, <1>2, <1>3 DEF TxInv

(* Stages in which an actor holds no row. *)
Rowless == FulfilStages \cup {"existing", "lookup", "claim", "claimOnly", "insert",
                              "insertOnly", "seenVerify",
                              "seenSave", "edit"}

LEMMA RowlessMoves ==
  ASSUME MoneyInv, NEW a \in Actors, Finish(a) \/ \E stage \in Rowless : GoTo(a, stage)
  PROVE  HashMoves(a)
<1>1. CASE Finish(a)
  <2>1. act'[a] = Idle /\ \A b \in Actors \ {a} : act'[b] = act[b]
    BY <1>1, BecomeFacts, IdleType DEF Finish, MoneyInv
  <2>. QED
    BY <2>1 DEF HashMoves, HashAgrees, NoApiConfirm, HoldsRow, Idle, RowStages
<1>2. ASSUME NEW stage \in Rowless, GoTo(a, stage)
      PROVE  HashMoves(a)
  <2>1. stage \in Stages
    BY DEF Rowless, FulfilStages, Stages
  <2>2. act'[a].pc = stage /\ \A b \in Actors \ {a} : act'[b] = act[b]
    BY <1>2, <2>1, GoToFacts DEF MoneyInv
  <2>. QED
    BY <2>2 DEF HashMoves, HashAgrees, NoApiConfirm, HoldsRow, Rowless, FulfilStages, RowStages
<1>. QED
  BY <1>1, <1>2

LEMMA NewRecordMoves ==
  ASSUME MoneyInv, NEW a \in Actors, NEW n \in Local, Become(a, n),
         n.pc \notin {"apiSession", "apiUnused", "apiVerify", "apiSave"},
         n.pc \in RowStages \/ (n.pc = "verify" /\ n.pay # NoPay)
           => /\ n.row.tx = payment'[n.pay].tx
              /\ n.pc # "apiStatus" => n.tx = n.row.tx
  PROVE  HashMoves(a)
<1>1. act'[a] = n /\ \A b \in Actors \ {a} : act'[b] = act[b]
  BY BecomeFacts DEF MoneyInv
<1>. QED
  BY <1>1 DEF HashMoves, HashAgrees, NoApiConfirm, HoldsRow

(* The holder of a row goes on holding it. *)
LEMMA HolderMoves ==
  ASSUME MoneyInv, TxInv, NEW a \in Actors, HoldsRow(a), act[a].pc # "apiStatus",
         NEW stage \in {"save", "wkSave"}, GoTo(a, stage), UNCHANGED payment
  PROVE  HashMoves(a)
<1>1. /\ act'[a].pc = stage /\ act'[a].tx = act[a].tx /\ act'[a].pay = act[a].pay
      /\ act'[a].row = act[a].row /\ \A b \in Actors \ {a} : act'[b] = act[b]
  BY GoToFacts DEF MoneyInv, Stages
<1>. QED
  BY <1>1 DEF TxInv, HashMoves, HashAgrees, NoApiConfirm, HoldsRow, RowStages

(* A held copy is saved, confirmed with the hash the row has. *)
LEMMA ConfirmWrites ==
  ASSUME MoneyInv, TxInv, NEW a \in Actors, act[a].pc \in {"save", "wkSave"},
         SavePayment(act[a].pay, ConfirmPayment(act[a].row, act[a].tx))
  PROVE  Written
<1>. DEFINE l == act[a]
            row == ConfirmPayment(l.row, l.tx)
<1>1. /\ l \in Local /\ l.tx \in TxHashes /\ l.pay \in PayIds /\ Stored(l.pay)
      /\ l.tx = payment[l.pay].tx
  BY DEF MoneyInv, TypeOK, ActorInv, HasHash, RowAgrees, HoldsRow, RowStages, Agrees, TxInv, HashAgrees
<1>2. row \in Row /\ row.status = "confirmed" /\ row.tx = l.tx
  BY <1>1 DEF Local, Row, ConfirmPayment, PaymentStatus
<1>3. Writes(l.pay, row)
  BY <1>1, <1>2 DEF Writes, Stored, Fresh
<1>. QED
  BY <1>1, <1>2, <1>3 DEF Written

-----------------------------------------------------------------------------
(* The checkout flight. *)

LEMMA ConfirmHash ==
  ASSUME MoneyInv, TxInv, NEW p \in Procs, NEW s \in Sessions, NEW tx \in TxHashes,
         Confirm(p, s, tx)
  PROVE  TxInv'
<1>. DEFINE f == <<p, s>>
            n == [Idle EXCEPT !.s = s, !.tx = tx, !.doc = session[s],
                  !.pc = IF session[s].status = "completed" THEN "existing" ELSE "lookup"]
<1>1. f \in Actors /\ session[s] \in Doc
  BY DEF Actors, Flights, MoneyInv, TypeOK
<1>2. n \in Local /\ n.pc \in {"existing", "lookup"}
  BY <1>1, IdleType DEF Local, Stages
<1>3. Become(f, n)
  BY DEF Confirm
<1>. HIDE DEF n
<1>4. HashMoves(f)
  BY <1>1, <1>2, <1>3, NewRecordMoves DEF RowStages
<1>. QED
  BY <1>1, <1>4, HashStep DEF Confirm, store, Written

LEMMA FindPriorHash ==
  ASSUME MoneyInv, TxInv, NEW f \in Flights, FindPrior(f)
  PROVE  TxInv'
<1>. DEFINE l == act[f]
<1>1. f \in Actors /\ l \in Local /\ payment' = payment
  BY FlightIsActor DEF FindPrior, store, MoneyInv, TypeOK
<1>2. ASSUME Become(f, [l EXCEPT !.pay = NoPay, !.pc = "verify"])
      PROVE  HashMoves(f)
  <2>. DEFINE n == [l EXCEPT !.pay = NoPay, !.pc = "verify"]
  <2>1. n \in Local /\ n.pc = "verify" /\ n.pay = NoPay /\ Become(f, n)
    BY <1>1, <1>2 DEF Local, Stages
  <2>. HIDE DEF n
  <2>. QED
    BY <1>1, <2>1, NewRecordMoves DEF RowStages
<1>3. ASSUME NEW p \in Owners(l.tx), NEW st \in {"complete", "verify"},
             Become(f, [l EXCEPT !.pay = p, !.row = payment[p], !.pc = st])
      PROVE  HashMoves(f)
  <2>. DEFINE n == [l EXCEPT !.pay = p, !.row = payment[p], !.pc = st]
  <2>1. p \in PayIds /\ payment[p] \in Row /\ payment[p].tx = l.tx
    BY DEF Owners, MoneyInv, TypeOK
  <2>2. /\ n \in Local /\ n.pc = st /\ n.pay = p /\ n.row = payment[p] /\ n.tx = l.tx
        /\ Become(f, n)
    BY <1>1, <1>3, <2>1 DEF Local, Stages
  <2>. HIDE DEF n
  <2>. QED
    BY <1>1, <2>1, <2>2, NewRecordMoves DEF RowStages
<1>4. HashMoves(f)
  <2>1. \A p \in PayIds :
          (IF payment[p].status = "confirmed" THEN "complete" ELSE "verify") \in {"complete", "verify"}
    OBVIOUS
  <2>2. CASE \E p \in Owners(l.tx) :
               Become(f, [l EXCEPT !.pay = p, !.row = payment[p],
                 !.pc = IF payment[p].status = "confirmed" THEN "complete" ELSE "verify"])
    BY <1>3, <2>1, <2>2 DEF Owners
  <2>3. CASE Finish(f)
    BY <1>1, <2>3, RowlessMoves
  <2>4. CASE Become(f, [l EXCEPT !.pay = NoPay, !.pc = "verify"])
    BY <1>2, <2>4
  <2>. QED
    BY <2>2, <2>3, <2>4 DEF FindPrior
<1>. QED
  BY <1>1, <1>4, HashStep DEF FindPrior, store, Written

LEMMA VerifyHash ==
  ASSUME MoneyInv, TxInv, NEW f \in Flights, Verify(f)
  PROVE  TxInv'
<1>1. f \in Actors /\ act[f].pc = "verify" /\ (act[f].pay # NoPay => HoldsRow(f)) /\ payment' = payment
  BY FlightIsActor DEF Verify, store, At, HoldsRow
<1>2. CASE act[f].pay # NoPay /\ GoTo(f, "save")
  BY <1>1, <1>2, HolderMoves, HashStep DEF Verify, store, Written
<1>3. CASE Finish(f) \/ GoTo(f, "claim") \/ GoTo(f, "claimOnly")
  BY <1>1, <1>3, RowlessMoves, HashStep DEF Verify, store, Written, Rowless
<1>. QED
  BY <1>2, <1>3 DEF Verify

(* Inserting a pending row: over a fresh one, with a hash the index accepts. *)
LEMMA InsertWrites ==
  ASSUME MoneyInv, NEW p \in PayIds, Fresh(p), NEW row \in Row,
         row.status # "none", row.status = "confirmed" => row.tx \in TxHashes,
         IndexAllows(p, row.tx), SavePayment(p, row)
  PROVE  Written
<1>1. Writes(p, row)
  BY DEF Writes, Fresh, Stored
<1>. QED
  BY <1>1 DEF Written

LEMMA ClaimTxHash ==
  ASSUME MoneyInv, TxInv, NEW f \in Flights, ClaimTx(f)
  PROVE  TxInv'
<1>. DEFINE l == act[f]
            row == PendingRow(l.s, l.tx)
<1>1. f \in Actors /\ l \in Local
  BY FlightIsActor DEF MoneyInv, TypeOK
<1>2. row \in Row /\ row.status = "pending" /\ row.tx = l.tx
  BY <1>1 DEF Local, Row, PendingRow, PaymentStatus
<1>. HIDE DEF row
<1>3. CASE Finish(f) /\ KeepPayments
  BY <1>1, <1>3, RowlessMoves, HashStep DEF ClaimTx, Written, KeepPayments
<1>4. ASSUME NEW p \in PayIds, Fresh(p), IndexAllows(p, l.tx), SavePayment(p, row),
             IF l.pc = "insert" THEN Become(f, [l EXCEPT !.pay = p, !.row = row, !.pc = "save"]) ELSE Finish(f)
      PROVE  TxInv'
  <2>1. Written /\ payment'[p] = row
    BY <1>2, <1>4, InsertWrites DEF SavePayment, MoneyInv, TypeOK
  <2>2. CASE Finish(f)
    BY <1>1, <2>1, <2>2, RowlessMoves, HashStep DEF ClaimTx
  <2>3. CASE Become(f, [l EXCEPT !.pay = p, !.row = row, !.pc = "save"])
    <3>. DEFINE n == [l EXCEPT !.pay = p, !.row = row, !.pc = "save"]
    <3>1. n \in Local /\ n.pc = "save" /\ n.pay = p /\ n.row = row /\ n.tx = l.tx /\ Become(f, n)
      BY <1>1, <1>2, <2>3 DEF Local, Stages
    <3>. HIDE DEF n
    <3>2. HashMoves(f)
      BY <1>1, <1>2, <2>1, <3>1, NewRecordMoves
    <3>. QED
      BY <1>1, <2>1, <3>2, HashStep DEF ClaimTx
  <2>. QED
    BY <1>4, <2>2, <2>3
<1>. QED
  BY <1>3, <1>4 DEF ClaimTx, row

LEMMA SaveConfirmedHash ==
  ASSUME MoneyInv, TxInv, NEW f \in Flights, SaveConfirmed(f)
  PROVE  TxInv'
<1>1. f \in Actors /\ act[f].pc = "save" /\ HashMoves(f)
  BY FlightIsActor, RowlessMoves DEF SaveConfirmed, At, Rowless, FulfilStages
<1>2. Written
  BY <1>1, ConfirmWrites DEF SaveConfirmed, KeepPayments, Written
<1>. QED
  BY <1>1, <1>2, HashStep DEF SaveConfirmed

(* The stages after the payment is saved touch no payment. *)
LEMMA SaveCompletedHash ==
  ASSUME MoneyInv, TxInv, NEW f \in Flights, SaveCompleted(f)
  PROVE  TxInv'
<1>. DEFINE l == act[f]
            done == CompleteSession(l.doc)
<1>1. f \in Actors /\ l \in Local /\ done \in Doc
  BY FlightIsActor DEF MoneyInv, TypeOK, Local, Doc, CompleteSession, SessionStatus
<1>2. PICK stage \in {"redeem", "emit"} : Become(f, [l EXCEPT !.doc = done, !.pc = stage])
  BY DEF SaveCompleted
<1>. DEFINE n == [l EXCEPT !.doc = done, !.pc = stage]
<1>. HIDE DEF done
<1>3. n \in Local /\ n.pc = stage /\ Become(f, n)
  BY <1>1, <1>2 DEF Local, Stages
<1>. HIDE DEF n
<1>4. HashMoves(f)
  BY <1>1, <1>3, NewRecordMoves DEF RowStages
<1>. QED
  BY <1>1, <1>4, HashStep DEF SaveCompleted, Written

LEMMA FlightTailHash ==
  ASSUME MoneyInv, TxInv, NEW f \in Flights,
         FindExisting(f) \/ EnsureCustomer(f) \/ CountRedemption(f) \/ SaveRedeemed(f) \/ Emit(f)
           \/ FindLedger(f) \/ Grant(f)
  PROVE  TxInv'
<1>1. Finish(f) \/ \E stage \in Rowless : GoTo(f, stage)
  BY DEF FindExisting, EnsureCustomer, CountRedemption, SaveRedeemed, Emit, FindLedger, Grant,
     Rowless, FulfilStages
<1>2. Written /\ queue' \subseteq queue
  BY DEF FindExisting, EnsureCustomer, CountRedemption, SaveRedeemed, Emit, FindLedger, Grant,
     Written, store
<1>. QED
  BY <1>1, <1>2, FlightIsActor, RowlessMoves, HashStep

LEMMA FlightStepHash ==
  ASSUME MoneyInv, TxInv, NEW f \in Flights, FlightStep(f)
  PROVE  TxInv'
  BY FindPriorHash, VerifyHash, ClaimTxHash, SaveConfirmedHash, SaveCompletedHash, FlightTailHash
  DEF FlightStep

-----------------------------------------------------------------------------
(* The worker. *)

LEMMA StartTickHash ==
  ASSUME MoneyInv, TxInv, StartTick
  PROVE  TxInv'
<1>1. \A item \in queue' : item[2].tx = payment'[item[1]].tx
  BY DEF StartTick, store
<1>2. (\A a \in Actors : HashAgrees(a) /\ NoApiConfirm(a))'
  BY DEF StartTick, store, TxInv, HashAgrees, NoApiConfirm, HoldsRow
<1>. QED
  BY <1>1, <1>2 DEF StartTick, store, TxInv, IndexHolds, SettledKeepsHash, Stored

LEMMA TakePaymentHash ==
  ASSUME MoneyInv, TxInv, TakePayment
  PROVE  TxInv'
<1>1. PICK item \in queue :
        /\ queue' = queue \ {item}
        /\ \/ item[2].session \in Sessions
              /\ Become(Worker, [pc |-> "wkVerify", op |-> "none", pay |-> item[1],
                   row |-> item[2], s |-> item[2].session, tx |-> item[2].tx,
                   doc |-> session[item[2].session]])
           \/ UNCHANGED act
  BY DEF TakePayment
<1>2. /\ item \in PayIds \X Row /\ item[2].tx \in TxHashes
      /\ item[2].tx = payment[item[1]].tx /\ payment' = payment
  BY DEF MoneyInv, TypeOK, QueueAgrees, TxInv, TakePayment, store
<1>3. HashMoves(Worker)
  <2>1. CASE item[2].session \in Sessions
             /\ Become(Worker, [pc |-> "wkVerify", op |-> "none", pay |-> item[1],
                   row |-> item[2], s |-> item[2].session, tx |-> item[2].tx,
                   doc |-> session[item[2].session]])
    <3>. DEFINE n == [pc |-> "wkVerify", op |-> "none", pay |-> item[1],
                   row |-> item[2], s |-> item[2].session, tx |-> item[2].tx,
                   doc |-> session[item[2].session]]
    <3>1. n \in Local
      BY <1>2, <2>1 DEF Local, Stages, MoneyInv, TypeOK
    <3>2. /\ n.pc = "wkVerify" /\ n.pay = item[1] /\ n.row = item[2] /\ n.tx = item[2].tx
          /\ Become(Worker, n)
      BY <2>1
    <3>. HIDE DEF n
    <3>. QED
      BY <1>2, <3>1, <3>2, NewRecordMoves, WorkerIsActor
  <2>2. CASE UNCHANGED act
    BY <1>2, <2>2, WorkerIsActor DEF HashMoves, TxInv, HashAgrees, NoApiConfirm, HoldsRow
  <2>. QED
    BY <1>1, <2>1, <2>2
<1>. QED
  BY <1>1, <1>3, WorkerIsActor, HashStep DEF TakePayment, store, Written

LEMMA WorkerSaveHash ==
  ASSUME MoneyInv, TxInv, WorkerSave
  PROVE  TxInv'
<1>1. Worker \in Actors /\ act[Worker].pc = "wkSave" /\ HashMoves(Worker)
  BY WorkerIsActor, RowlessMoves DEF WorkerSave, At, Rowless, FulfilStages
<1>2. Written
  BY <1>1, ConfirmWrites DEF WorkerSave, KeepPayments, Written
<1>. QED
  BY <1>1, <1>2, HashStep DEF WorkerSave

LEMMA WorkerVerifyHash ==
  ASSUME MoneyInv, TxInv, WorkerVerify
  PROVE  TxInv'
<1>1. /\ Worker \in Actors /\ HoldsRow(Worker) /\ act[Worker].pc = "wkVerify"
      /\ Written /\ queue' \subseteq queue /\ payment' = payment
  BY WorkerIsActor DEF WorkerVerify, At, HoldsRow, RowStages, Written, store
<1>2. HashMoves(Worker)
  BY <1>1, HolderMoves, RowlessMoves DEF WorkerVerify
<1>. QED
  BY <1>1, <1>2, HashStep

LEMMA WorkerTailHash ==
  ASSUME MoneyInv, TxInv, WorkerEmit \/ WorkerComplete \/ ScanEntitlements \/ WorkerGrant
  PROVE  TxInv'
<1>1. Finish(Worker) \/ \E stage \in Rowless : GoTo(Worker, stage)
  BY DEF WorkerEmit, WorkerComplete, ScanEntitlements, WorkerGrant, Rowless, FulfilStages
<1>2. Written /\ queue' \subseteq queue
  BY DEF WorkerEmit, WorkerComplete, ScanEntitlements, WorkerGrant, Written, store
<1>. QED
  BY <1>1, <1>2, WorkerIsActor, RowlessMoves, HashStep

LEMMA WorkerStepHash ==
  ASSUME MoneyInv, TxInv, WorkerStep
  PROVE  TxInv'
  BY StartTickHash, TakePaymentHash, WorkerVerifyHash, WorkerSaveHash, WorkerTailHash
  DEF WorkerStep

-----------------------------------------------------------------------------
(* The API and route-watch. *)

LEMMA RecordHash ==
  ASSUME MoneyInv, TxInv, NEW r \in Reqs, NEW s \in Sessions, NEW tx \in TxHashes \cup {NoTx},
         Record(r, s, tx)
  PROVE  TxInv'
<1>1. PICK p \in PayIds : Fresh(p) /\ SavePayment(p, PendingRow(s, tx))
  BY DEF Record
<1>2. PendingRow(s, tx) \in Row /\ PendingRow(s, tx).status = "pending" /\ PendingRow(s, tx).tx = tx
  BY DEF PendingRow, Row, PaymentStatus
<1>3. Written /\ IndexAllows(p, tx)
  BY <1>1, <1>2, InsertWrites DEF Record, IndexAllows
<1>4. HashKept
  BY <1>3, WrittenKeeps DEF MoneyInv, TxInv
<1>5. HashMoves(r)
  BY <1>4, CopyKeepsHash, ReqIsActor DEF Record, HashMoves, MoneyInv, ActorInv, TxInv
<1>. QED
  BY <1>3, <1>5, ReqIsActor, HashStep DEF Record

LEMMA ApiReadPaymentHash ==
  ASSUME MoneyInv, TxInv, NEW r \in Reqs, NEW p \in PayIds, NEW op \in AllOps,
         ApiReadPayment(r, p, op)
  PROVE  TxInv'
<1>. DEFINE n == [Idle EXCEPT !.pc = "apiStatus", !.op = op, !.pay = p, !.row = payment[p]]
<1>1. payment[p] \in Row /\ payment' = payment
  BY DEF ApiReadPayment, store, MoneyInv, TypeOK
<1>2. n \in Local /\ n.pc = "apiStatus" /\ n.pay = p /\ n.row = payment[p] /\ Become(r, n)
  BY <1>1, IdleType DEF ApiReadPayment, Local, Stages
<1>. HIDE DEF n
<1>3. HashMoves(r)
  BY <1>1, <1>2, ReqIsActor, NewRecordMoves
<1>. QED
  BY <1>3, ReqIsActor, HashStep DEF ApiReadPayment, store, Written

LEMMA ApiSaveStatusHash ==
  ASSUME MoneyInv, TxInv, NEW r \in Reqs, ApiSaveStatus(r)
  PROVE  TxInv'
<1>. DEFINE l == act[r]
            row == IF l.op = "fail" THEN FailPayment(l.row) ELSE RefundPayment(l.row)
<1>1. /\ r \in Actors /\ l \in Local /\ l.pay \in PayIds /\ Stored(l.pay)
      /\ l.row.tx = payment[l.pay].tx /\ HashMoves(r)
  BY ReqIsActor, RowlessMoves
  DEF ApiSaveStatus, At, MoneyInv, TypeOK, ActorInv, RowAgrees, Agrees, HoldsRow, RowStages,
      TxInv, HashAgrees
<1>2. row \in Row /\ row.status \in {"failed", "refunded"} /\ row.tx = l.row.tx
  BY <1>1 DEF Local, Row, FailPayment, RefundPayment, PaymentStatus
<1>. HIDE DEF row
<1>3. CASE SavePayment(l.pay, row)
  <2>1. Writes(l.pay, row)
    BY <1>1, <1>2, <1>3 DEF Writes, Stored, Fresh
  <2>. QED
    BY <1>1, <1>2, <2>1, HashStep DEF ApiSaveStatus, Written
<1>4. CASE KeepPayments
  BY <1>1, <1>4, HashStep DEF ApiSaveStatus, KeepPayments, Written
<1>. QED
  BY <1>3, <1>4 DEF ApiSaveStatus, row

LEMMA NoticeHash ==
  ASSUME MoneyInv, TxInv, NEW r \in Reqs, NEW s \in Sessions \cup {Direct}, NEW tx \in TxHashes,
         Notice(r, s, tx)
  PROVE  TxInv'
<1>. DEFINE op == IF s = Direct THEN "observe" ELSE "fill"
            n == [Idle EXCEPT !.pc = "seenVerify", !.s = s, !.tx = tx, !.op = op]
<1>1. op \in AllOps
  BY DEF AllOps
<1>2. Become(r, n)
  BY DEF Notice
<1>. HIDE DEF op
<1>3. n \in Local /\ n.pc = "seenVerify"
  BY <1>1, IdleType DEF Local, Stages
<1>. HIDE DEF n
<1>4. HashMoves(r)
  BY <1>2, <1>3, ReqIsActor, NewRecordMoves DEF RowStages
<1>. QED
  BY <1>4, ReqIsActor, HashStep DEF Notice, store, Written

LEMMA NoticeSaveHash ==
  ASSUME MoneyInv, TxInv, NEW r \in Reqs, NoticeSave(r)
  PROVE  TxInv'
<1>. DEFINE l == act[r]
            row == ConfirmPayment(PendingRow(l.s, l.tx), l.tx)
<1>1. r \in Actors /\ l \in Local /\ l.tx \in TxHashes
  BY ReqIsActor DEF NoticeSave, At, MoneyInv, TypeOK, ActorInv, HasHash
<1>2. row \in Row /\ row.status = "confirmed" /\ row.tx = l.tx
  BY <1>1 DEF Local, Row, PendingRow, ConfirmPayment, PaymentStatus
<1>. HIDE DEF row
<1>3. CASE Finish(r) /\ KeepPayments
  BY <1>1, <1>3, RowlessMoves, HashStep DEF NoticeSave, KeepPayments, Written
<1>4. ASSUME NEW p \in PayIds, Fresh(p), IndexAllows(p, l.tx), SavePayment(p, row),
             Become(r, [l EXCEPT !.pay = p, !.pc = "seenEmit"])
      PROVE  TxInv'
  <2>. DEFINE n == [l EXCEPT !.pay = p, !.pc = "seenEmit"]
  <2>1. Written
    BY <1>1, <1>2, <1>4, InsertWrites
  <2>2. n \in Local /\ n.pc = "seenEmit" /\ Become(r, n)
    BY <1>1, <1>4 DEF Local, Stages
  <2>. HIDE DEF n
  <2>3. HashMoves(r)
    BY <1>1, <2>2, NewRecordMoves DEF RowStages
  <2>. QED
    BY <1>1, <2>1, <2>3, HashStep DEF NoticeSave
<1>. QED
  BY <1>3, <1>4 DEF NoticeSave, row

LEMMA EditReadHash ==
  ASSUME MoneyInv, TxInv, NEW r \in Reqs, NEW s \in Sessions, NEW op \in AllOps, EditRead(r, s, op)
  PROVE  TxInv'
<1>. DEFINE n == [Idle EXCEPT !.pc = "edit", !.op = op, !.s = s, !.doc = session[s]]
<1>1. session[s] \in Doc
  BY DEF MoneyInv, TypeOK
<1>2. n \in Local /\ n.pc = "edit" /\ Become(r, n)
  BY <1>1, IdleType DEF EditRead, Local, Stages
<1>. HIDE DEF n
<1>3. HashMoves(r)
  BY <1>2, ReqIsActor, NewRecordMoves DEF RowStages
<1>. QED
  BY <1>3, ReqIsActor, HashStep DEF EditRead, store, Written

(* Steps that touch no payment, and the confirm route, which never starts. *)
LEMMA ReqTailHash ==
  ASSUME MoneyInv, TxInv, NEW r \in Reqs,
         \/ ApiReadSession(r) \/ ApiUnused(r) \/ ApiVerify(r) \/ ApiSave(r) \/ ApiRedeem(r)
         \/ ApiComplete(r) \/ ApiGrant(r) \/ ApiEmit(r) \/ NoticeVerify(r) \/ NoticeEmit(r) \/ EditSave(r)
  PROVE  TxInv'
<1>1. act[r].pc \notin {"apiSession", "apiUnused", "apiVerify", "apiSave"}
  BY ReqIsActor DEF TxInv, NoApiConfirm
<1>2. CASE ApiRedeem(r)
  <2>. DEFINE n == [act[r] EXCEPT !.doc.redeemed = TRUE, !.pc = "apiComplete"]
  <2>1. act[r] \in Local /\ act[r].doc \in Doc
    BY ReqIsActor DEF MoneyInv, TypeOK, Local
  <2>2. [act[r].doc EXCEPT !.redeemed = TRUE] \in Doc
    BY <2>1 DEF Doc
  <2>3. n = [act[r] EXCEPT !.doc = [act[r].doc EXCEPT !.redeemed = TRUE], !.pc = "apiComplete"]
    BY <2>1 DEF Local
  <2>4. n \in Local /\ n.pc = "apiComplete" /\ Become(r, n)
    BY <1>2, <2>1, <2>2, <2>3 DEF ApiRedeem, Local, Stages
  <2>. HIDE DEF n
  <2>5. HashMoves(r)
    BY <2>4, ReqIsActor, NewRecordMoves DEF RowStages
  <2>. QED
    BY <1>2, <2>5, ReqIsActor, HashStep DEF ApiRedeem, Written
<1>3. CASE ApiComplete(r) \/ ApiGrant(r) \/ ApiEmit(r) \/ NoticeVerify(r) \/ NoticeEmit(r) \/ EditSave(r)
  <2>1. Finish(r) \/ \E stage \in Rowless : GoTo(r, stage)
    BY <1>3 DEF ApiComplete, ApiGrant, ApiEmit, NoticeVerify, NoticeEmit, EditSave, Rowless, FulfilStages
  <2>2. Written /\ queue' \subseteq queue
    BY <1>3 DEF ApiComplete, ApiGrant, ApiEmit, NoticeVerify, NoticeEmit, EditSave, Written, store
  <2>. QED
    BY <2>1, <2>2, ReqIsActor, RowlessMoves, HashStep
<1>. QED
  BY <1>1, <1>2, <1>3 DEF ApiReadSession, ApiUnused, ApiVerify, ApiSave, At

LEMMA ReqHash ==
  ASSUME MoneyInv, TxInv, "confirm" \notin Ops, NEW r \in Reqs, ReqStart(r) \/ ReqStep(r)
  PROVE  TxInv'
<1>1. CASE ReqStart(r)
  <2>1. ASSUME NEW s \in Sessions, NEW tx \in TxHashes \cup {NoTx}, Record(r, s, tx)
        PROVE  TxInv'
    BY <2>1, RecordHash
  <2>2. ASSUME NEW p \in PayIds, NEW tx \in TxHashes, ApiConfirm(r, p, tx)
        PROVE  FALSE
    BY <2>2 DEF ApiConfirm, Accepts
  <2>3. ASSUME NEW p \in PayIds, NEW op \in AllOps, ApiReadPayment(r, p, op)
        PROVE  TxInv'
    BY <2>3, ApiReadPaymentHash
  <2>4. ASSUME NEW s \in Sessions \cup {Direct}, NEW tx \in TxHashes, Notice(r, s, tx)
        PROVE  TxInv'
    BY <2>4, NoticeHash
  <2>5. ASSUME NEW s \in Sessions, NEW op \in AllOps, EditRead(r, s, op)
        PROVE  TxInv'
    BY <2>5, EditReadHash
  <2>. QED
    BY <1>1, <2>1, <2>2, <2>3, <2>4, <2>5 DEF ReqStart
<1>2. CASE ReqStep(r)
  BY <1>2, ReqTailHash, ApiSaveStatusHash, NoticeSaveHash DEF ReqStep
<1>. QED
  BY <1>1, <1>2

LEMMA CrashHash ==
  ASSUME MoneyInv, TxInv, NEW dying, Crash(dying)
  PROVE  TxInv'
<1>1. payment' = payment /\ settledBy' = settledBy /\ queue' \subseteq queue
  BY DEF Crash, store
<1>2. (\A a \in Actors : HashAgrees(a) /\ NoApiConfirm(a))'
  <2>. SUFFICES ASSUME NEW b \in Actors PROVE HashAgrees(b)' /\ NoApiConfirm(b)'
    OBVIOUS
  <2>1. act'[b] = Idle \/ act'[b] = act[b]
    BY DEF Crash
  <2>. QED
    BY <1>1, <2>1 DEF TxInv, HashAgrees, NoApiConfirm, HoldsRow, Idle, RowStages
<1>. QED
  BY <1>1, <1>2 DEF TxInv, IndexHolds, SettledKeepsHash, Stored

-----------------------------------------------------------------------------
LEMMA TxInvNext ==
  ASSUME MoneyInv, TxInv, "confirm" \notin Ops, [Next]_vars
  PROVE  TxInv'
<1>1. ASSUME NEW tx \in TxHashes, ChainStep(tx) PROVE TxInv'
  BY <1>1 DEF ChainStep, store, TxInv, IndexHolds, SettledKeepsHash, Stored, HashAgrees,
              NoApiConfirm, HoldsRow
<1>2. ASSUME NEW p \in Procs, NEW s \in Sessions, NEW tx \in TxHashes, Confirm(p, s, tx)
      PROVE TxInv'
  BY <1>2, ConfirmHash
<1>3. ASSUME NEW f \in Flights, FlightStep(f) PROVE TxInv'
  BY <1>3, FlightStepHash
<1>4. CASE WorkerStep
  BY <1>4, WorkerStepHash
<1>5. ASSUME NEW r \in Reqs, ReqStart(r) \/ ReqStep(r) PROVE TxInv'
  BY <1>5, ReqHash
<1>6. ASSUME NEW dying \in Processes, Crash(dying) PROVE TxInv'
  BY <1>6, CrashHash
<1>7. CASE UNCHANGED vars
  BY <1>7 DEF vars, store, TxInv, IndexHolds, SettledKeepsHash, Stored, HashAgrees,
              NoApiConfirm, HoldsRow
<1>. QED
  BY <1>1, <1>2, <1>3, <1>4, <1>5, <1>6, <1>7 DEF Next

LEMMA TxInvInit ==
  ASSUME Init
  PROVE  TxInv
  BY DEF Init, TxInv, IndexHolds, Stored, NoRow, HashAgrees, NoApiConfirm, HoldsRow, RowStages,
         Idle, SettledKeepsHash

(* The unique index keeps what it settled, because stored hashes never change. *)
LEMMA OneHashOneRow ==
  ASSUME MoneyInv, TxInv
  PROVE  TxSettlesOnePayment
<1>. SUFFICES ASSUME NEW tx \in TxHashes, NEW p \in settledBy[tx], NEW q \in settledBy[tx]
              PROVE  p = q
  BY DEF TxSettlesOnePayment
<1>1. p \in PayIds /\ q \in PayIds /\ Stored(p) /\ Stored(q)
  BY DEF MoneyInv, TypeOK, NothingBeforeMoney
<1>2. payment[p].tx = tx /\ payment[q].tx = tx
  BY DEF TxInv, SettledKeepsHash
<1>. QED
  BY <1>1, <1>2, NamesAssumption DEF TxInv, IndexHolds

(***************************************************************************)
(* The inductive invariant behind the next theorem: no copy and no queued  *)
(* row disagrees with the stored row on its hash, the unique index holds,  *)
(* and a settled row keeps the hash that settled it.                       *)
(***************************************************************************)
THEOREM HashesStayPut ==
  ASSUME "confirm" \notin Ops
  PROVE  Spec => [](MoneyInv /\ TxInv)
<1>1. Init => MoneyInv /\ TxInv
  BY MoneyInvInit, TxInvInit
<1>2. MoneyInv /\ TxInv /\ [Next]_vars => MoneyInv' /\ TxInv'
  BY MoneyInvNext, TxInvNext
<1>. QED
  BY <1>1, <1>2, PTL DEF Spec

(***************************************************************************)
(* A transaction hash settles at most one payment, over the whole history  *)
(* and through any race, crash, failure or refund, in every deployment     *)
(* whose merchants do not confirm payments with hashes of their own.       *)
(***************************************************************************)
THEOREM OneTransferOnePayment ==
  ASSUME "confirm" \notin Ops
  PROVE  Spec => []TxSettlesOnePayment
<1>1. MoneyInv /\ TxInv => TxSettlesOnePayment
  BY OneHashOneRow
<1>. QED
  BY <1>1, HashesStayPut, PTL

-----------------------------------------------------------------------------
(***************************************************************************)
(* The promise of PaidAccess.  A step leaves what it promises alone,       *)
(* settles a payment, or serves the payment its actor fulfils.             *)
(***************************************************************************)
Served == {p \in PayIds : Granted(p) \/ p \in events}

NoService == UNCHANGED <<events, ledger, extra>>
Settling == UNCHANGED settledBy \/ \E p, tx : settledBy' = [settledBy EXCEPT ![tx] = @ \cup {p}]
Serving ==
  \E a \in Actors :
    /\ act[a].pc \in FulfilStages
    /\ \/ events' = events \cup {act[a].pay} /\ UNCHANGED <<ledger, extra>>
       \/ ledger' = ledger \cup {act[a].pay} /\ UNCHANGED <<events, extra>>
       \/ extra' = [extra EXCEPT ![act[a].pay] = @ + 1] /\ UNCHANGED <<events, ledger>>
Advances == (Settling /\ NoService) \/ (UNCHANGED settledBy /\ Serving)

LEMMA StillAdvances ==
  ASSUME UNCHANGED settledBy, NoService
  PROVE  Advances
BY DEF Advances, Settling

LEMMA ServeAdvances ==
  ASSUME UNCHANGED settledBy, Serving
  PROVE  Advances
BY DEF Advances

LEMMA KeepAdvances ==
  ASSUME KeepPayments, NoService
  PROVE  Advances
BY DEF Advances, Settling, KeepPayments

LEMMA SaveAdvances ==
  ASSUME NEW p, NEW row, SavePayment(p, row), NoService
  PROVE  Advances
<1>1. CASE row.status = "confirmed"
  <2>1. settledBy' = [settledBy EXCEPT ![row.tx] = @ \cup {p}]
    BY <1>1 DEF SavePayment
  <2>. QED
    BY <2>1 DEF Advances, Settling
<1>2. CASE row.status # "confirmed"
  BY <1>2, StillAdvances DEF SavePayment
<1>. QED
  BY <1>1, <1>2

LEMMA FlightAdvances ==
  ASSUME NEW f \in Flights, FlightStep(f)
  PROVE  Advances
<1>1. CASE Emit(f) \/ Grant(f)
  <2>1. UNCHANGED settledBy
    BY <1>1 DEF Emit, Grant
  <2>2. Serving
    BY <1>1, FlightIsActor DEF Emit, Grant, At, Serving, FulfilStages
  <2>. QED
    BY <2>1, <2>2, ServeAdvances
<1>2. CASE ClaimTx(f)
  <2>1. NoService
    BY <1>2 DEF ClaimTx, NoService
  <2>2. KeepPayments \/ \E p \in PayIds : SavePayment(p, PendingRow(act[f].s, act[f].tx))
    BY <1>2, Zenon DEF ClaimTx
  <2>. QED
    BY <2>1, <2>2, KeepAdvances, SaveAdvances
<1>3. CASE SaveConfirmed(f)
  <2>1. NoService
    BY <1>3 DEF SaveConfirmed, NoService
  <2>2. KeepPayments \/ SavePayment(act[f].pay, ConfirmPayment(act[f].row, act[f].tx))
    BY <1>3, Zenon DEF SaveConfirmed
  <2>. QED
    BY <2>1, <2>2, KeepAdvances, SaveAdvances
<1>4. CASE \/ FindExisting(f) \/ FindPrior(f) \/ Verify(f) \/ EnsureCustomer(f) \/ SaveCompleted(f)
           \/ CountRedemption(f) \/ SaveRedeemed(f) \/ FindLedger(f)
  <2>1. UNCHANGED settledBy /\ NoService
    BY <1>4 DEF FindExisting, FindPrior, Verify, EnsureCustomer, SaveCompleted, CountRedemption, SaveRedeemed,
                FindLedger, store, NoService
  <2>. QED
    BY <2>1, StillAdvances
<1>. QED
  BY <1>1, <1>2, <1>3, <1>4 DEF FlightStep

LEMMA WorkerAdvances ==
  ASSUME WorkerStep
  PROVE  Advances
<1>1. CASE WorkerEmit \/ WorkerGrant
  <2>1. UNCHANGED settledBy
    BY <1>1 DEF WorkerEmit, WorkerGrant
  <2>2. Serving
    BY <1>1, WorkerIsActor DEF WorkerEmit, WorkerGrant, At, Serving, FulfilStages
  <2>. QED
    BY <2>1, <2>2, ServeAdvances
<1>2. CASE WorkerSave
  <2>1. NoService
    BY <1>2 DEF WorkerSave, NoService
  <2>2. KeepPayments \/ SavePayment(act[Worker].pay, ConfirmPayment(act[Worker].row, act[Worker].tx))
    BY <1>2, Zenon DEF WorkerSave
  <2>. QED
    BY <2>1, <2>2, KeepAdvances, SaveAdvances
<1>3. CASE StartTick \/ TakePayment \/ WorkerVerify \/ WorkerComplete \/ ScanEntitlements
  <2>1. UNCHANGED settledBy /\ NoService
    BY <1>3 DEF StartTick, TakePayment, WorkerVerify, WorkerComplete, ScanEntitlements,
                store, NoService
  <2>. QED
    BY <2>1, StillAdvances
<1>. QED
  BY <1>1, <1>2, <1>3 DEF WorkerStep

LEMMA ReqSaveAdvances ==
  ASSUME NEW r \in Reqs,
         \/ \E s \in Sessions, tx \in TxHashes \cup {NoTx} : Record(r, s, tx)
         \/ ApiSave(r) \/ ApiSaveStatus(r) \/ NoticeSave(r)
  PROVE  Advances
<1>1. NoService
  BY DEF Record, ApiSave, ApiSaveStatus, NoticeSave, NoService
<1>2. ASSUME NEW s \in Sessions, NEW tx \in TxHashes \cup {NoTx}, Record(r, s, tx)
      PROVE  \E p \in PayIds : SavePayment(p, PendingRow(s, tx))
  BY <1>2, Zenon DEF Record
<1>3. ApiSave(r) => KeepPayments \/ SavePayment(act[r].pay, ConfirmPayment(act[r].row, act[r].tx))
  BY Zenon DEF ApiSave
<1>4. ApiSaveStatus(r) =>
        \/ KeepPayments
        \/ SavePayment(act[r].pay, IF act[r].op = "fail" THEN FailPayment(act[r].row)
                                                        ELSE RefundPayment(act[r].row))
  BY Zenon DEF ApiSaveStatus
<1>5. NoticeSave(r) =>
        \/ KeepPayments
        \/ \E p \in PayIds :
             SavePayment(p, ConfirmPayment(PendingRow(act[r].s, act[r].tx), act[r].tx))
  BY Zenon DEF NoticeSave
<1>. QED
  BY <1>1, <1>2, <1>3, <1>4, <1>5, KeepAdvances, SaveAdvances, Zenon

LEMMA ReqAdvances ==
  ASSUME NEW r \in Reqs, ReqStart(r) \/ ReqStep(r)
  PROVE  Advances
<1>1. CASE ApiGrant(r) \/ ApiEmit(r) \/ NoticeEmit(r)
  <2>1. UNCHANGED settledBy
    BY <1>1 DEF ApiGrant, ApiEmit, NoticeEmit
  <2>2. Serving
    BY <1>1, ReqIsActor DEF ApiGrant, ApiEmit, NoticeEmit, At, Serving, FulfilStages
  <2>. QED
    BY <2>1, <2>2, ServeAdvances
<1>2. CASE \/ \E s \in Sessions, tx \in TxHashes \cup {NoTx} : Record(r, s, tx)
           \/ ApiSave(r) \/ ApiSaveStatus(r) \/ NoticeSave(r)
  BY <1>2, ReqSaveAdvances
<1>3. CASE \/ \E p \in PayIds, tx \in TxHashes : ApiConfirm(r, p, tx)
           \/ \E p \in PayIds, op \in AllOps : ApiReadPayment(r, p, op)
           \/ \E s \in Sessions \cup {Direct}, tx \in TxHashes : Notice(r, s, tx)
           \/ \E s \in Sessions, op \in AllOps : EditRead(r, s, op)
  <2>1. UNCHANGED settledBy /\ NoService
    BY <1>3 DEF ApiConfirm, ApiReadPayment, Notice, EditRead, store, NoService
  <2>. QED
    BY <2>1, StillAdvances
<1>4. CASE \/ ApiReadSession(r) \/ ApiUnused(r) \/ ApiVerify(r) \/ ApiRedeem(r) \/ ApiComplete(r)
           \/ NoticeVerify(r) \/ EditSave(r)
  <2>1. UNCHANGED settledBy /\ NoService
    BY <1>4 DEF ApiReadSession, ApiUnused, ApiVerify, ApiRedeem, ApiComplete, NoticeVerify, EditSave,
                store, NoService
  <2>. QED
    BY <2>1, StillAdvances
<1>. QED
  BY <1>1, <1>2, <1>3, <1>4 DEF ReqStart, ReqStep

LEMMA StepAdvances ==
  ASSUME [Next]_vars
  PROVE  Advances
<1>1. CASE \/ \E tx \in TxHashes : ChainStep(tx)
           \/ \E p \in Procs, s \in Sessions, tx \in TxHashes : Confirm(p, s, tx)
           \/ \E dying \in Processes : Crash(dying)
           \/ UNCHANGED vars
  <2>1. UNCHANGED settledBy /\ NoService
    BY <1>1 DEF ChainStep, Confirm, Crash, vars, store, NoService
  <2>. QED
    BY <2>1, StillAdvances
<1>. QED
  BY <1>1, FlightAdvances, WorkerAdvances, ReqAdvances DEF Next

(* To settle is a step of the promise because a hash settles one payment   *)
(* in the state after it.                                                  *)
LEMMA SettlingPromised ==
  ASSUME TypeOK, TypeOK', TxSettlesOnePayment', Settling, NoService
  PROVE  [Promise!Next]_<<settledBy, Served>>
<1>1. Served' = Served
  BY DEF NoService, Served, Granted
<1>2. ASSUME NEW p, NEW tx, settledBy' = [settledBy EXCEPT ![tx] = @ \cup {p}], settledBy' # settledBy
      PROVE  Promise!Next
  <2>1. tx \in TxHashes /\ settledBy'[tx] = settledBy[tx] \cup {p} /\ p \notin settledBy[tx]
    BY <1>2 DEF TypeOK
  <2>2. p \in PayIds
    BY <2>1 DEF TypeOK
  <2>3. settledBy[tx] = {}
    BY <2>1 DEF TxSettlesOnePayment
  <2>4. settledBy' = [settledBy EXCEPT ![tx] = {p}]
    BY <1>2, <2>3
  <2>. QED
    BY <1>1, <2>1, <2>2, <2>3, <2>4 DEF Promise!Next, Promise!Settle, Served
<1>. QED
  BY <1>1, <1>2 DEF Settling

LEMMA ServingPromised ==
  ASSUME MoneyInv, UNCHANGED settledBy, Serving
  PROVE  [Promise!Next]_<<settledBy, Served>>
<1>1. PICK a \in Actors :
        /\ act[a].pc \in FulfilStages
        /\ \/ events' = events \cup {act[a].pay} /\ UNCHANGED <<ledger, extra>>
           \/ ledger' = ledger \cup {act[a].pay} /\ UNCHANGED <<events, extra>>
           \/ extra' = [extra EXCEPT ![act[a].pay] = @ + 1] /\ UNCHANGED <<events, ledger>>
  BY DEF Serving
<1>2. act[a].pay \in PayIds /\ \E tx \in TxHashes : act[a].pay \in settledBy[tx]
  BY <1>1 DEF MoneyInv, ActorInv, FulfilsSettled, Settled
<1>3. extra \in [PayIds -> Nat]
  BY DEF MoneyInv, TypeOK
<1>4. Served' = Served \cup {act[a].pay}
  BY <1>1, <1>2, <1>3 DEF Served, Granted
<1>. QED
  BY <1>2, <1>4 DEF Promise!Next, Promise!Serve, Served

(***************************************************************************)
(* Settlement implements PaidAccess where nobody confirms with a hash of   *)
(* his own: through stale copies, races and crashes, a transfer settles    *)
(* one payment and stays with it, and access and events come after money   *)
(* and are never taken back.                                               *)
(***************************************************************************)
THEOREM PromiseKept ==
  ASSUME "confirm" \notin Ops
  PROVE  Spec => KeepsPromise
<1>1. Init => MoneyInv /\ TxInv
  BY MoneyInvInit, TxInvInit
<1>2. MoneyInv /\ TxInv /\ [Next]_vars => MoneyInv' /\ TxInv'
  BY MoneyInvNext, TxInvNext
<1>3. Init => Promise!Init
  BY DEF Init, Promise!Init, Granted
<1>4. MoneyInv /\ TxInv /\ MoneyInv' /\ TxInv' /\ [Next]_vars => [Promise!Next]_<<settledBy, Served>>
  <2>. SUFFICES ASSUME MoneyInv, TxInv, MoneyInv', TxInv', [Next]_vars
                PROVE  [Promise!Next]_<<settledBy, Served>>
    OBVIOUS
  <2>1. TypeOK /\ TypeOK'
    BY DEF MoneyInv
  <2>2. TxSettlesOnePayment'
    BY OneHashOneRow, PTL
  <2>. QED
    BY <2>1, <2>2, StepAdvances, SettlingPromised, ServingPromised DEF Advances
<1>. QED
  BY <1>1, <1>2, <1>3, <1>4, PTL DEF Spec, KeepsPromise, Promise!Spec, Served

-----------------------------------------------------------------------------
(***************************************************************************)
(* One redemption.  Where one checkout process runs, the API's confirm is  *)
(* not in use and nobody saves an open copy of a session document, an open *)
(* session has no redemption on record, nothing opens a session again, and *)
(* the one flight on a session counts after it has closed it.              *)
(***************************************************************************)
OpeningStages == {"verify", "claim", "claimOnly", "insert", "insertOnly", "save", "complete"}
ClosedStages == {"redeem", "redeemed"}
ApiConfirmStages == {"apiSession", "apiUnused", "apiVerify", "apiSave", "apiRedeem", "apiComplete"}
Watched == {"existing", "lookup", "edit"} \cup OpeningStages \cup ClosedStages \cup ApiConfirmStages

ClosingOps == {"cancel", "expire", "markExpired"}

Counts(a, l) ==
  /\ l.pc \in {"existing", "lookup"} \cup OpeningStages \cup ClosedStages
       => a \in Flights /\ l.s = a[2]
  /\ l.pc \in OpeningStages \cup {"redeem"} \/ (l.pc = "lookup" /\ l.doc.status = "open")
       => redemptions[l.s] = 0
  /\ l.pc \in ClosedStages => session[l.s].status # "open"
  /\ l.pc \in ClosedStages \cup {"existing"} => l.doc.status # "open"
  /\ l.pc \notin ApiConfirmStages
  /\ l.pc = "edit" => l.op \in ClosingOps

CountInv ==
  /\ \A a \in Actors : Counts(a, act[a])
  /\ \A s \in Sessions : /\ redemptions[s] <= 1
                         /\ session[s].status = "open" => redemptions[s] = 0

(* What a step that counts nothing may do: no session is opened again. *)
NoneOpened == \A s \in Sessions : session'[s].status = "open" => session[s].status = "open"

LEMMA UncountedStep ==
  ASSUME TypeOK, TypeOK', CountInv, NEW a \in Actors, \A b \in Actors \ {a} : act'[b] = act[b],
         Counts(a, act[a])', redemptions' = redemptions, NoneOpened
  PROVE  CountInv'
<1>1. ASSUME NEW b \in Actors PROVE Counts(b, act[b])'
  <2>1. CASE b = a
    BY <2>1
  <2>2. CASE b # a
    <3>1. Counts(b, act[b]) /\ act'[b] = act[b]
      BY <2>2 DEF CountInv
    <3>2. act[b].pc \in ClosedStages => act[b].s \in Sessions
      BY <3>1 DEF Counts, Flights
    <3>. QED
      BY <3>1, <3>2 DEF Counts, NoneOpened
  <2>. QED
    BY <2>1, <2>2
<1>. QED
  BY <1>1 DEF CountInv, NoneOpened

(* Which records hold nothing to watch. *)
LEMMA UnwatchedCounts ==
  ASSUME NEW a, NEW l, l.pc \notin Watched
  PROVE  Counts(a, l)
  BY DEF Counts, Watched, OpeningStages, ClosedStages, ApiConfirmStages

LEMMA UnwatchedStep ==
  ASSUME TypeOK, TypeOK', CountInv, NEW a \in Actors,
         Finish(a) \/ (\E stage \in Stages \ Watched : GoTo(a, stage))
           \/ (\E l \in Local : l.pc \notin Watched /\ Become(a, l)),
         redemptions' = redemptions, NoneOpened
  PROVE  CountInv'
<1>1. act'[a].pc \notin Watched /\ \A b \in Actors \ {a} : act'[b] = act[b]
  <2>1. CASE Finish(a)
    <3>1. act'[a] = Idle /\ \A b \in Actors \ {a} : act'[b] = act[b]
      BY <2>1, IdleType, BecomeFacts DEF Finish
    <3>. QED
      BY <3>1 DEF Idle, Watched, OpeningStages, ClosedStages, ApiConfirmStages
  <2>2. CASE \E stage \in Stages \ Watched : GoTo(a, stage)
    BY <2>2, GoToFacts
  <2>3. CASE \E l \in Local : l.pc \notin Watched /\ Become(a, l)
    BY <2>3, BecomeFacts
  <2>. QED
    BY <2>1, <2>2, <2>3
<1>2. Counts(a, act[a])'
  BY <1>1 DEF Counts, Watched, OpeningStages, ClosedStages, ApiConfirmStages
<1>. QED
  BY <1>1, <1>2, UncountedStep

(* A watched record, in a step that changes neither table. *)
LEMMA WatchedStep ==
  ASSUME TypeOK, TypeOK', CountInv, NEW a \in Actors, NEW l \in Local, Become(a, l), Counts(a, l),
         UNCHANGED <<redemptions, session>>
  PROVE  CountInv'
<1>1. act'[a] = l /\ \A b \in Actors \ {a} : act'[b] = act[b]
  BY BecomeFacts
<1>2. Counts(a, act[a])'
  BY <1>1 DEF Counts
<1>. QED
  BY <1>1, <1>2, UncountedStep DEF NoneOpened

-----------------------------------------------------------------------------
LEMMA ConfirmCounts ==
  ASSUME TypeOK, TypeOK', CountInv, NEW p \in Procs, NEW s \in Sessions, NEW tx \in TxHashes,
         Confirm(p, s, tx)
  PROVE  CountInv'
<1>. DEFINE f == <<p, s>>
            n == [Idle EXCEPT !.s = s, !.tx = tx, !.doc = session[s],
                  !.pc = IF session[s].status = "completed" THEN "existing" ELSE "lookup"]
<1>1. f \in Actors /\ f \in Flights /\ f[2] = s /\ session[s] \in Doc
  BY DEF Actors, Flights, TypeOK
<1>2. n \in Local /\ n.pc \in {"existing", "lookup"} /\ n.s = s /\ n.doc = session[s]
  BY <1>1, IdleType DEF Local, Stages
<1>3. (n.pc = "existing" => n.doc.status # "open") /\ Become(f, n)
  BY <1>2 DEF Confirm, Idle
<1>. HIDE DEF n
<1>4. Counts(f, n)
  BY <1>1, <1>2, <1>3 DEF Counts, OpeningStages, ClosedStages, ApiConfirmStages, CountInv
<1>. QED
  BY <1>1, <1>2, <1>3, <1>4, WatchedStep DEF Confirm, store

(* A flight moves on to a stage where as much is known of its session. *)
LEMMA FlightGoesOn ==
  ASSUME TypeOK, TypeOK', CountInv, NEW f \in Flights, NEW l \in Local, Become(f, l),
         l.s = act[f].s, UNCHANGED <<redemptions, session>>,
         \/ /\ act[f].pc = "existing" /\ l.pc = "lookup" /\ l.doc = act[f].doc
         \/ /\ act[f].pc \in OpeningStages \/ (act[f].pc = "lookup" /\ act[f].doc.status = "open")
            /\ l.pc \in OpeningStages
  PROVE  CountInv'
<1>1. f \in Actors /\ Counts(f, act[f])
  BY FlightIsActor DEF CountInv
<1>2. Counts(f, l)
  BY <1>1 DEF Counts, OpeningStages, ClosedStages, ApiConfirmStages
<1>. QED
  BY <1>1, <1>2, WatchedStep

LEMMA GoToIs ==
  ASSUME TypeOK, NEW a \in Actors, NEW stage \in Stages, GoTo(a, stage)
  PROVE  \E l \in Local : /\ Become(a, l) /\ l.pc = stage /\ l.s = act[a].s /\ l.doc = act[a].doc
<1>1. act[a] \in Local
  BY DEF TypeOK
<1>. DEFINE l == [act[a] EXCEPT !.pc = stage]
<1>2. l \in Local /\ l.pc = stage /\ l.s = act[a].s /\ l.doc = act[a].doc
  BY <1>1 DEF Local
<1>3. Become(a, l)
  BY DEF GoTo
<1>. QED
  BY <1>2, <1>3

LEMMA FindPriorCounts ==
  ASSUME TypeOK, TypeOK', CountInv, NEW f \in Flights, FindPrior(f)
  PROVE  CountInv'
<1>. DEFINE l == act[f]
<1>1. f \in Actors /\ l \in Local /\ l.pc = "lookup" /\ UNCHANGED <<redemptions, session>>
  BY FlightIsActor DEF TypeOK, FindPrior, At, store
<1>2. CASE Finish(f)
  BY <1>1, <1>2, UnwatchedStep DEF NoneOpened
<1>3. CASE l.doc.status = "open" /\ Become(f, [l EXCEPT !.pay = NoPay, !.pc = "verify"])
  <2>. DEFINE n == [l EXCEPT !.pay = NoPay, !.pc = "verify"]
  <2>1. n \in Local /\ n.pc = "verify" /\ n.s = l.s /\ Become(f, n)
    BY <1>1, <1>3 DEF Local, Stages
  <2>. HIDE DEF n
  <2>. QED
    BY <1>1, <1>3, <2>1, FlightGoesOn DEF OpeningStages
<1>4. ASSUME l.doc.status = "open", NEW p \in Owners(l.tx), NEW st \in {"complete", "verify"},
             Become(f, [l EXCEPT !.pay = p, !.row = payment[p], !.pc = st])
      PROVE  CountInv'
  <2>. DEFINE n == [l EXCEPT !.pay = p, !.row = payment[p], !.pc = st]
  <2>1. p \in PayIds /\ payment[p] \in Row
    BY DEF Owners, TypeOK
  <2>2. n \in Local /\ n.pc = st /\ n.s = l.s /\ Become(f, n)
    BY <1>1, <1>4, <2>1 DEF Local, Stages
  <2>. HIDE DEF n
  <2>. QED
    BY <1>1, <1>4, <2>2, FlightGoesOn DEF OpeningStages
<1>5. \/ Finish(f)
      \/ l.doc.status = "open" /\ Become(f, [l EXCEPT !.pay = NoPay, !.pc = "verify"])
      \/ /\ l.doc.status = "open"
         /\ \E p \in Owners(l.tx), st \in {"complete", "verify"} :
              Become(f, [l EXCEPT !.pay = p, !.row = payment[p], !.pc = st])
  BY DEF FindPrior
<1>. QED
  BY <1>2, <1>3, <1>4, <1>5

LEMMA ClaimTxCounts ==
  ASSUME TypeOK, TypeOK', CountInv, NEW f \in Flights, ClaimTx(f)
  PROVE  CountInv'
<1>. DEFINE l == act[f]
            row == PendingRow(l.s, l.tx)
<1>1. f \in Actors /\ l \in Local /\ l.pc \in {"insert", "insertOnly"} /\ UNCHANGED <<redemptions, session>>
  BY FlightIsActor DEF TypeOK, ClaimTx
<1>2. row \in Row
  BY <1>1 DEF Local, Row, PendingRow, PaymentStatus
<1>3. Finish(f) \/ \E p \in PayIds : Become(f, [l EXCEPT !.pay = p, !.row = row, !.pc = "save"])
  BY DEF ClaimTx
<1>. HIDE DEF row
<1>4. CASE Finish(f)
  BY <1>1, <1>4, UnwatchedStep DEF NoneOpened
<1>5. ASSUME NEW p \in PayIds, Become(f, [l EXCEPT !.pay = p, !.row = row, !.pc = "save"])
      PROVE  CountInv'
  <2>. DEFINE n == [l EXCEPT !.pay = p, !.row = row, !.pc = "save"]
  <2>1. n \in Local /\ n.pc = "save" /\ n.s = l.s /\ Become(f, n)
    BY <1>1, <1>2, <1>5 DEF Local, Stages
  <2>. HIDE DEF n
  <2>. QED
    BY <1>1, <2>1, FlightGoesOn DEF OpeningStages
<1>. QED
  BY <1>3, <1>4, <1>5

(* The session is closed before its redemption is counted. *)
LEMMA SaveCompletedCounts ==
  ASSUME TypeOK, TypeOK', CountInv, NEW f \in Flights, SaveCompleted(f)
  PROVE  CountInv'
<1>. DEFINE l == act[f]
            done == CompleteSession(l.doc)
<1>1. f \in Actors /\ l \in Local /\ done \in Doc /\ done.status = "completed" /\ l.pc = "complete"
  BY FlightIsActor DEF TypeOK, Local, Doc, CompleteSession, SessionStatus, SaveCompleted, At
<1>2. PICK stage \in {"redeem", "emit"} : Become(f, [l EXCEPT !.doc = done, !.pc = stage])
  BY DEF SaveCompleted
<1>3. session' = [session EXCEPT ![l.s] = done] /\ redemptions' = redemptions
  BY DEF SaveCompleted, SaveSession
<1>. DEFINE n == [l EXCEPT !.doc = done, !.pc = stage]
<1>. HIDE DEF done
<1>4. n \in Local /\ n.pc = stage /\ n.s = l.s /\ n.doc = done /\ Become(f, n)
  BY <1>1, <1>2 DEF Local, Stages
<1>. HIDE DEF n
<1>5. act'[f] = n /\ \A b \in Actors \ {f} : act'[b] = act[b]
  BY <1>1, <1>4, BecomeFacts
<1>6. NoneOpened
  BY <1>1, <1>3 DEF NoneOpened, TypeOK
<1>7. l.s = f[2] /\ redemptions[l.s] = 0 /\ l.s \in Sessions
  BY <1>1 DEF CountInv, Counts, OpeningStages, Flights
<1>8. Counts(f, act[f])'
  BY <1>1, <1>3, <1>4, <1>5, <1>7
  DEF Counts, OpeningStages, ClosedStages, ApiConfirmStages, TypeOK
<1>. QED
  BY <1>1, <1>3, <1>5, <1>6, <1>8, UncountedStep

(* Nobody else is at work on the session that is counted. *)
LEMMA RedemptionCounts ==
  ASSUME TypeOK, TypeOK', CountInv, \A p, q \in Procs : p = q, NEW f \in Flights, CountRedemption(f)
  PROVE  CountInv'
<1>. DEFINE l == act[f]
<1>1. f \in Actors /\ Counts(f, l) /\ l.pc = "redeem"
  BY FlightIsActor DEF CountInv, CountRedemption, At
<1>2. l.s = f[2] /\ redemptions[l.s] = 0 /\ l.s \in Sessions /\ session[l.s].status # "open"
      /\ l.doc.status # "open"
  BY <1>1 DEF Counts, ClosedStages, Flights
<1>3. redemptions' = [redemptions EXCEPT ![l.s] = 1] /\ session' = session
  BY <1>2 DEF CountRedemption
<1>4. /\ act'[f].pc = "redeemed" /\ act'[f].s = l.s /\ act'[f].doc = l.doc
      /\ \A b \in Actors \ {f} : act'[b] = act[b]
  BY <1>1, GoToFacts DEF CountRedemption, Stages
<1>5. Counts(f, act[f])'
  BY <1>2, <1>3, <1>4 DEF Counts, OpeningStages, ClosedStages, ApiConfirmStages
<1>6. ASSUME NEW b \in Actors, b # f PROVE Counts(b, act[b])'
  <2>1. Counts(b, act[b]) /\ act'[b] = act[b]
    BY <1>4, <1>6 DEF CountInv
  <2>2. act[b].pc \in {"existing", "lookup"} \cup OpeningStages \cup ClosedStages => act[b].s # l.s
    <3>. SUFFICES ASSUME act[b].pc \in {"existing", "lookup"} \cup OpeningStages \cup ClosedStages,
                         act[b].s = l.s
                  PROVE  FALSE
      OBVIOUS
    <3>1. b \in Procs \X Sessions /\ f \in Procs \X Sessions /\ b[2] = f[2]
      BY <1>2, <2>1 DEF Counts, Flights
    <3>2. b[1] = f[1]
      BY <3>1
    <3>. QED
      BY <1>6, <3>1, <3>2
  <2>3. act[b].pc \in OpeningStages \cup {"redeem"} \/ (act[b].pc = "lookup" /\ act[b].doc.status = "open")
          => redemptions'[act[b].s] = 0
    <3>. SUFFICES ASSUME act[b].pc \in OpeningStages \cup {"redeem"}
                           \/ (act[b].pc = "lookup" /\ act[b].doc.status = "open")
                  PROVE  redemptions'[act[b].s] = 0
      OBVIOUS
    <3>1. act[b].s # l.s /\ redemptions[act[b].s] = 0 /\ act[b].s \in Sessions
      BY <2>1, <2>2 DEF Counts, ClosedStages, Flights
    <3>. QED
      BY <1>3, <3>1 DEF TypeOK
  <2>. QED
    BY <1>3, <2>1, <2>3 DEF Counts
<1>7. \A s \in Sessions : redemptions'[s] <= 1 /\ (session'[s].status = "open" => redemptions'[s] = 0)
  BY <1>2, <1>3 DEF CountInv, TypeOK
<1>. QED
  BY <1>5, <1>6, <1>7 DEF CountInv

LEMMA SaveRedeemedCounts ==
  ASSUME TypeOK, TypeOK', CountInv, NEW f \in Flights, SaveRedeemed(f)
  PROVE  CountInv'
<1>1. f \in Actors /\ act[f] \in Local /\ act[f].pc = "redeemed" /\ act[f].doc.status # "open"
  BY FlightIsActor DEF TypeOK, SaveRedeemed, At, CountInv, Counts, ClosedStages
<1>2. [act[f].doc EXCEPT !.redeemed = TRUE].status # "open"
  BY <1>1 DEF Local, Doc
<1>3. NoneOpened
  BY <1>2 DEF NoneOpened, SaveRedeemed, SaveSession, TypeOK
<1>. QED
  BY <1>1, <1>3, UnwatchedStep
  DEF SaveRedeemed, Watched, OpeningStages, ClosedStages, ApiConfirmStages, Stages

LEMMA FlightCounts ==
  ASSUME TypeOK, TypeOK', CountInv, \A p, q \in Procs : p = q, NEW f \in Flights, FlightStep(f)
  PROVE  CountInv'
<1>. DEFINE l == act[f]
<1>1. f \in Actors
  BY FlightIsActor
<1>2. CASE FindExisting(f)
  <2>1. Finish(f) \/ GoTo(f, "lookup")
    BY <1>2 DEF FindExisting
  <2>2. l.pc = "existing" /\ UNCHANGED <<redemptions, session>>
    BY <1>2 DEF FindExisting, At, store
  <2>3. CASE GoTo(f, "lookup")
    <3>1. PICK n \in Local : Become(f, n) /\ n.pc = "lookup" /\ n.s = l.s /\ n.doc = l.doc
      BY <1>1, <2>3, GoToIs DEF Stages
    <3>. QED
      BY <2>2, <3>1, FlightGoesOn
  <2>. QED
    BY <1>1, <2>1, <2>2, <2>3, UnwatchedStep DEF NoneOpened
<1>3. CASE Verify(f)
  <2>1. Finish(f) \/ \E stage \in {"claim", "claimOnly", "save"} : GoTo(f, stage)
    BY <1>3 DEF Verify
  <2>2. l.pc = "verify" /\ UNCHANGED <<redemptions, session>>
    BY <1>3 DEF Verify, At, store
  <2>3. ASSUME NEW stage \in {"claim", "claimOnly", "save"}, GoTo(f, stage)
        PROVE  CountInv'
    <3>1. PICK n \in Local : Become(f, n) /\ n.pc = stage /\ n.s = l.s
      BY <1>1, <2>3, GoToIs DEF Stages
    <3>. QED
      BY <2>2, <3>1, FlightGoesOn DEF OpeningStages
  <2>. QED
    BY <1>1, <2>1, <2>2, <2>3, UnwatchedStep DEF NoneOpened
<1>4. CASE SaveConfirmed(f)
  <2>1. Finish(f) \/ GoTo(f, "complete")
    BY <1>4 DEF SaveConfirmed
  <2>2. l.pc = "save" /\ UNCHANGED <<redemptions, session>>
    BY <1>4 DEF SaveConfirmed, At
  <2>3. CASE GoTo(f, "complete")
    <3>1. PICK n \in Local : Become(f, n) /\ n.pc = "complete" /\ n.s = l.s
      BY <1>1, <2>3, GoToIs DEF Stages
    <3>. QED
      BY <2>2, <3>1, FlightGoesOn DEF OpeningStages
  <2>. QED
    BY <1>1, <2>1, <2>2, <2>3, UnwatchedStep DEF NoneOpened
<1>5. CASE Emit(f) \/ FindLedger(f) \/ Grant(f)
  <2>1. Finish(f) \/ \E stage \in {"ledger", "grant"} : GoTo(f, stage)
    BY <1>5 DEF Emit, FindLedger, Grant
  <2>2. UNCHANGED <<redemptions, session>>
    BY <1>5 DEF Emit, FindLedger, Grant, store
  <2>. QED
    BY <1>1, <2>1, <2>2, UnwatchedStep
    DEF NoneOpened, Watched, OpeningStages, ClosedStages, ApiConfirmStages, Stages
<1>6. CASE EnsureCustomer(f)
  <2>1. PICK stage \in {"insert", "insertOnly"} : GoTo(f, stage)
    BY <1>6 DEF EnsureCustomer
  <2>2. l.pc \in {"claim", "claimOnly"} /\ UNCHANGED <<redemptions, session>>
    BY <1>6 DEF EnsureCustomer
  <2>3. PICK n \in Local : Become(f, n) /\ n.pc = stage /\ n.s = l.s
    BY <1>1, <2>1, GoToIs DEF Stages
  <2>. QED
    BY <2>2, <2>3, FlightGoesOn DEF OpeningStages
<1>. QED
  BY <1>2, <1>3, <1>4, <1>5, <1>6, FindPriorCounts, ClaimTxCounts, SaveCompletedCounts, RedemptionCounts,
     SaveRedeemedCounts
  DEF FlightStep

(* The worker closes sessions and opens none. *)
LEMMA WorkerCounts ==
  ASSUME TypeOK, TypeOK', CountInv, WorkerStep
  PROVE  CountInv'
<1>1. CASE StartTick
  BY <1>1 DEF StartTick, store, CountInv, Counts
<1>2. CASE TakePayment
  <2>1. PICK item \in queue :
          \/ Become(Worker, [pc |-> "wkVerify", op |-> "none", pay |-> item[1],
                             row |-> item[2], s |-> item[2].session, tx |-> item[2].tx,
                             doc |-> session[item[2].session]])
             /\ item[2].session \in Sessions
          \/ UNCHANGED act
    BY <1>2 DEF TakePayment
  <2>. DEFINE n == [pc |-> "wkVerify", op |-> "none", pay |-> item[1],
                    row |-> item[2], s |-> item[2].session, tx |-> item[2].tx,
                    doc |-> session[item[2].session]]
  <2>2. CASE UNCHANGED act
    BY <1>2, <2>2 DEF TakePayment, store, CountInv, Counts
  <2>3. CASE item[2].session \in Sessions /\ Become(Worker, n)
    <3>1. item \in PayIds \X Row
      BY DEF TypeOK
    <3>2. n \in Local /\ n.pc \notin Watched
      BY <2>3, <3>1
      DEF Local, Row, Stages, TypeOK, AllOps, Watched, OpeningStages, ClosedStages, ApiConfirmStages
    <3>. HIDE DEF n
    <3>. QED
      BY <1>2, <2>3, <3>2, WorkerIsActor, UnwatchedStep DEF TakePayment, store, NoneOpened
  <2>. QED
    BY <2>1, <2>2, <2>3
<1>3. CASE WorkerVerify \/ WorkerSave \/ WorkerEmit \/ WorkerComplete \/ ScanEntitlements \/ WorkerGrant
  <2>1. Finish(Worker) \/ \E stage \in {"wkSave", "wkEmit", "wkComplete", "wkScan", "wkGrant"} :
                            GoTo(Worker, stage)
    BY <1>3 DEF WorkerVerify, WorkerSave, WorkerEmit, WorkerComplete, ScanEntitlements, WorkerGrant
  <2>2. redemptions' = redemptions
    BY <1>3 DEF WorkerVerify, WorkerSave, WorkerEmit, WorkerComplete, ScanEntitlements, WorkerGrant, store
  <2>3. NoneOpened
    <3>1. CASE WorkerComplete
      <4>1. act[Worker].doc \in Doc
        BY WorkerIsActor DEF TypeOK, Local
      <4>2. CompleteSession(act[Worker].doc).status = "completed"
        BY <4>1 DEF CompleteSession, Doc
      <4>. QED
        BY <3>1, <4>2 DEF WorkerComplete, SaveSession, NoneOpened, TypeOK
    <3>2. CASE ~WorkerComplete
      BY <1>3, <3>2 DEF WorkerVerify, WorkerSave, WorkerEmit, ScanEntitlements, WorkerGrant, store, NoneOpened
    <3>. QED
      BY <3>1, <3>2
  <2>. QED
    BY <2>1, <2>2, <2>3, WorkerIsActor, UnwatchedStep
    DEF Watched, OpeningStages, ClosedStages, ApiConfirmStages, Stages
<1>. QED
  BY <1>1, <1>2, <1>3 DEF WorkerStep

(* The merchant and the background jobs, without the API's confirm. *)
LEMMA ReqStartCounts ==
  ASSUME TypeOK, TypeOK', CountInv, Ops \cap {"confirm", "collect", "fields"} = {},
         NEW r \in Reqs, ReqStart(r)
  PROVE  CountInv'
<1>1. r \in Actors
  BY ReqIsActor
<1>2. ASSUME NEW s, NEW tx, Record(r, s, tx)
      PROVE  CountInv'
  BY <1>2 DEF Record, CountInv, Counts
<1>3. ASSUME NEW p \in PayIds, NEW op, ApiReadPayment(r, p, op)
      PROVE  CountInv'
  <2>. DEFINE n == [Idle EXCEPT !.pc = "apiStatus", !.op = op, !.pay = p, !.row = payment[p]]
  <2>1. n \in Local /\ n.pc \notin Watched
    BY <1>3, IdleType DEF ApiReadPayment, Local, TypeOK, Stages, AllOps,
       Watched, OpeningStages, ClosedStages, ApiConfirmStages
  <2>2. Become(r, n)
    BY <1>3 DEF ApiReadPayment
  <2>. HIDE DEF n
  <2>. QED
    BY <1>1, <1>3, <2>1, <2>2, UnwatchedStep DEF ApiReadPayment, store, NoneOpened
<1>4. ASSUME NEW p, NEW tx, ApiConfirm(r, p, tx)
      PROVE  CountInv'
  BY <1>4 DEF ApiConfirm, Accepts
<1>5. ASSUME NEW s \in Sessions \cup {Direct}, NEW tx \in TxHashes, Notice(r, s, tx)
      PROVE  CountInv'
  <2>. DEFINE op == IF s = Direct THEN "observe" ELSE "fill"
  <2>. DEFINE n == [Idle EXCEPT !.pc = "seenVerify", !.s = s, !.tx = tx, !.op = op]
  <2>1. op \in AllOps \cup {"none"} /\ "seenVerify" \in Stages
    BY DEF AllOps, Stages
  <2>2. Become(r, n)
    BY <1>5 DEF Notice
  <2>. HIDE DEF op
  <2>3. n \in Local
    BY <2>1, IdleType DEF Local
  <2>4. n.pc = "seenVerify"
    BY IdleType DEF Local
  <2>. HIDE DEF n
  <2>5. n.pc \notin Watched
    BY <2>4 DEF Watched, OpeningStages, ClosedStages, ApiConfirmStages
  <2>. QED
    BY <1>1, <1>5, <2>2, <2>3, <2>5, UnwatchedStep DEF Notice, store, NoneOpened
<1>6. ASSUME NEW s \in Sessions, NEW op, EditRead(r, s, op)
      PROVE  CountInv'
  <2>. DEFINE n == [Idle EXCEPT !.pc = "edit", !.op = op, !.s = s, !.doc = session[s]]
  <2>1. op \in ClosingOps
    BY <1>6 DEF EditRead, Accepts, ClosingOps
  <2>2. n \in Local /\ n.pc = "edit" /\ n.op = op
    BY <2>1, IdleType DEF Local, TypeOK, Stages, AllOps, ClosingOps
  <2>3. Become(r, n)
    BY <1>6 DEF EditRead
  <2>. HIDE DEF n
  <2>4. Counts(r, n)
    BY <2>1, <2>2 DEF Counts, OpeningStages, ClosedStages, ApiConfirmStages
  <2>. QED
    BY <1>1, <1>6, <2>2, <2>3, <2>4, WatchedStep DEF EditRead, store
<1>. QED
  BY <1>2, <1>3, <1>4, <1>5, <1>6 DEF ReqStart

LEMMA ReqCounts ==
  ASSUME TypeOK, TypeOK', CountInv, NEW r \in Reqs, ReqStep(r)
  PROVE  CountInv'
<1>. DEFINE l == act[r]
<1>1. r \in Actors /\ l \in Local /\ Counts(r, l)
  BY ReqIsActor DEF TypeOK, CountInv
<1>2. CASE ApiReadSession(r) \/ ApiUnused(r) \/ ApiVerify(r) \/ ApiSave(r) \/ ApiRedeem(r) \/ ApiComplete(r)
  BY <1>1, <1>2 DEF ApiReadSession, ApiUnused, ApiVerify, ApiSave, ApiRedeem, ApiComplete, At, Counts, ApiConfirmStages
<1>3. CASE ApiGrant(r) \/ ApiEmit(r) \/ ApiSaveStatus(r) \/ NoticeVerify(r) \/ NoticeEmit(r)
  <2>1. Finish(r) \/ \E stage \in {"apiEmit", "seenSave"} : GoTo(r, stage)
    BY <1>3 DEF ApiGrant, ApiEmit, ApiSaveStatus, NoticeVerify, NoticeEmit
  <2>2. UNCHANGED <<redemptions, session>>
    BY <1>3 DEF ApiGrant, ApiEmit, ApiSaveStatus, NoticeVerify, NoticeEmit, store
  <2>. QED
    BY <1>1, <2>1, <2>2, UnwatchedStep
    DEF NoneOpened, Watched, OpeningStages, ClosedStages, ApiConfirmStages, Stages
<1>4. CASE NoticeSave(r)
  <2>1. Finish(r) \/ \E p \in PayIds : Become(r, [l EXCEPT !.pay = p, !.pc = "seenEmit"])
    BY <1>4 DEF NoticeSave
  <2>2. UNCHANGED <<redemptions, session>>
    BY <1>4 DEF NoticeSave
  <2>3. CASE Finish(r)
    BY <1>1, <2>2, <2>3, UnwatchedStep DEF NoneOpened
  <2>4. ASSUME NEW p \in PayIds, Become(r, [l EXCEPT !.pay = p, !.pc = "seenEmit"])
        PROVE  CountInv'
    <3>. DEFINE n == [l EXCEPT !.pay = p, !.pc = "seenEmit"]
    <3>1. n \in Local /\ n.pc = "seenEmit" /\ Become(r, n)
      BY <1>1, <2>4 DEF Local, Stages
    <3>. HIDE DEF n
    <3>2. n.pc \notin Watched
      BY <3>1 DEF Watched, OpeningStages, ClosedStages, ApiConfirmStages
    <3>. QED
      BY <1>1, <2>2, <3>1, <3>2, UnwatchedStep DEF NoneOpened
  <2>. QED
    BY <2>1, <2>3, <2>4
<1>5. CASE EditSave(r)
  <2>1. l.op \in ClosingOps /\ l.doc \in Doc
    BY <1>1, <1>5 DEF EditSave, At, Counts, Local
  <2>2. Edited(l.op, l.doc).status # "open"
    BY <2>1 DEF Edited, ClosingOps, CancelSession, ExpireSession, Doc
  <2>3. NoneOpened
    BY <1>5, <2>2 DEF EditSave, SaveSession, NoneOpened, TypeOK
  <2>. QED
    BY <1>1, <1>5, <2>3, UnwatchedStep DEF EditSave
<1>. QED
  BY <1>2, <1>3, <1>4, <1>5 DEF ReqStep

LEMMA StepCounts ==
  ASSUME TypeOK, TypeOK', CountInv, [Next]_vars, \A p, q \in Procs : p = q,
         Ops \cap {"confirm", "collect", "fields"} = {}
  PROVE  CountInv'
<1>1. ASSUME NEW tx \in TxHashes, ChainStep(tx) PROVE CountInv'
  BY <1>1 DEF ChainStep, store, CountInv, Counts
<1>2. ASSUME NEW p \in Procs, NEW s \in Sessions, NEW tx \in TxHashes, Confirm(p, s, tx)
      PROVE CountInv'
  BY <1>2, ConfirmCounts
<1>3. ASSUME NEW f \in Flights, FlightStep(f) PROVE CountInv'
  BY <1>3, FlightCounts
<1>4. CASE WorkerStep
  BY <1>4, WorkerCounts
<1>5. ASSUME NEW r \in Reqs, ReqStart(r) \/ ReqStep(r) PROVE CountInv'
  BY <1>5, ReqStartCounts, ReqCounts
<1>6. ASSUME NEW dying \in Processes, Crash(dying) PROVE CountInv'
  <2>1. Idle.pc \notin Watched
    BY DEF Idle, Watched, OpeningStages, ClosedStages, ApiConfirmStages
  <2>2. ASSUME NEW b \in Actors PROVE Counts(b, act[b])'
    <3>1. CASE act'[b] = Idle
      BY <2>1, <3>1 DEF Counts, Watched, OpeningStages, ClosedStages, ApiConfirmStages
    <3>2. CASE act'[b] = act[b]
      BY <1>6, <3>2 DEF Crash, store, CountInv, Counts
    <3>. QED
      BY <1>6, <3>1, <3>2 DEF Crash
  <2>. QED
    BY <1>6, <2>2 DEF Crash, store, CountInv
<1>7. CASE UNCHANGED vars
  BY <1>7 DEF vars, store, CountInv, Counts
<1>. QED
  BY <1>1, <1>2, <1>3, <1>4, <1>5, <1>6, <1>7 DEF Next

(***************************************************************************)
(* A promo redemption is counted once, whatever the worker, the merchant   *)
(* and crashes do, where there is one checkout process, no API confirm and *)
(* no writer that saves an open copy of a session.  (Without any one of    *)
(* the three a redemption is counted twice with no crash at all.)          *)
(***************************************************************************)
THEOREM RedemptionsCountOnce ==
  ASSUME \A p, q \in Procs : p = q,
         Ops \cap {"confirm", "collect", "fields"} = {}
  PROVE  Spec => []RedeemedOnce
<1>1. Init => CountInv
  BY DEF Init, CountInv, Counts, Idle, OpenDoc, OpeningStages, ClosedStages, ApiConfirmStages
<1>2. TypeOK /\ TypeOK' /\ CountInv /\ [Next]_vars => CountInv'
  BY StepCounts
<1>3. CountInv => RedeemedOnce
  BY DEF CountInv, RedeemedOnce
<1>. QED
  BY <1>1, <1>2, <1>3, TypeCorrect, PTL DEF Spec

=============================================================================
