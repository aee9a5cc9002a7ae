----------------------------- MODULE Settlement -----------------------------
(***************************************************************************)
(* How a stablecoin transfer becomes access.                               *)
(*                                                                         *)
(* Three programs share one Postgres database without transactions: the    *)
(* checkout app (confirmOnce, one flight per process and session), the     *)
(* worker (payment-confirm, route-watch) and the merchant API (record,     *)
(* confirm, fail, refund, observe, and the session routes).  Each is an    *)
(* async function that reads documents, awaits something slow (an RPC, the *)
(* database), and saves whole documents computed from the copies it read.  *)
(* An action below is the code between two awaits; the copies an actor     *)
(* holds across awaits are in act, and may be stale when they are saved.   *)
(*                                                                         *)
(* Data is abstracted to what the properties tell apart: a payment row is  *)
(* its session, its transaction hash and its status, a session document is *)
(* its status and whether its promo redemption was counted.                *)
(***************************************************************************)
EXTENDS Integers, FiniteSets, Lifecycle

CONSTANTS
  Sessions,        \* checkout sessions
  TxHashes,        \* transaction hashes on the networks of the sessions
  PayIds,          \* identifiers of payment rows
  Procs,           \* checkout app processes
  Reqs,            \* concurrent API requests and route-watch runs
  Worker,          \* the payment-confirm job of the one worker process
  Ops,             \* the merchant and background operations in use
  Pays,            \* Pays[tx]: the sessions whose terms the transfer tx meets
  Discounted,      \* the sessions bought with a promo code
  Known,           \* the sessions created for a customer on record
  Covered,         \* the hashes on networks the worker has a verifier for
  Direct,          \* the session of a payment observed without a checkout
  NoTx, NoPay,     \* no transaction hash, no payment
  MaxFaults,       \* bound: crashes of a process
  MaxGrants,       \* bound: API confirms of one payment
  MaxRedemptions   \* bound: counted redemptions after which no confirm starts

AllOps == {"record", "confirm", "fail", "refund", "observe", "fill",
           "collect", "cancel", "expire", "fields", "markExpired"}

ASSUME OpsAssumption == Ops \subseteq AllOps
ASSUME PaysAssumption == Pays \in [TxHashes -> SUBSET Sessions]
ASSUME CoveredAssumption == Covered \subseteq TxHashes
ASSUME SessionKindsAssumption == Discounted \subseteq Sessions /\ Known \subseteq Sessions
ASSUME NamesAssumption ==
  /\ NoTx \notin TxHashes
  /\ NoPay \notin PayIds
  /\ Direct \notin Sessions
ASSUME BoundsAssumption ==
  MaxFaults \in Nat /\ MaxGrants \in Nat /\ MaxRedemptions \in Nat

VARIABLES
  chain,        \* what the networks show of a transaction
  payment,      \* table payments
  session,      \* table checkout_sessions
  customers,    \* the sessions whose customer row exists (table customers)
  settledBy,    \* history: the payments ever saved as confirmed by a hash
  events,       \* webhook_events rows for payment.confirmed, by payment
  ledger,       \* entitlement rows whose id is derived from the payment
  extra,        \* number of entitlement rows with a random id, by payment
  redemptions,  \* coupon_redemptions rows written for a session
  act,          \* what every running handler or job holds across its awaits
  queue,        \* the payments the worker's tick has yet to process
  faults        \* crashes so far

store == <<payment, session, customers, settledBy, events, ledger, extra, redemptions>>
vars == <<chain, store, act, queue, faults>>

Flights == Procs \X Sessions
Actors == Flights \cup {Worker} \cup Reqs

Row == [session : Sessions \cup {Direct},
        tx      : TxHashes \cup {NoTx},
        status  : PaymentStatus \cup {"none"}]
NoRow == [session |-> Direct, tx |-> NoTx, status |-> "none"]

Doc == [status : SessionStatus, redeemed : BOOLEAN]
OpenDoc == [status |-> "open", redeemed |-> FALSE]

Stages == {"idle",
           "existing", "lookup", "verify", "claim", "claimOnly", "insert", "insertOnly",
           "save", "complete", "redeem", "redeemed", "emit", "ledger", "grant",
           "wkVerify", "wkSave", "wkEmit", "wkComplete", "wkScan", "wkGrant",
           "apiSession", "apiUnused", "apiVerify", "apiSave", "apiRedeem",
           "apiComplete", "apiGrant", "apiEmit", "apiStatus",
           "seenVerify", "seenSave", "seenEmit", "edit"}

Local == [pc  : Stages,
          op  : AllOps \cup {"none"},
          s   : Sessions \cup {Direct},
          tx  : TxHashes \cup {NoTx},
          pay : PayIds \cup {NoPay},
          row : Row,
          doc : Doc]
Idle == [pc |-> "idle", op |-> "none", s |-> Direct, tx |-> NoTx,
         pay |-> NoPay, row |-> NoRow, doc |-> OpenDoc]

Init ==
  /\ chain = [tx \in TxHashes |-> "unseen"]
  /\ payment = [p \in PayIds |-> NoRow]
  /\ session = [s \in Sessions |-> OpenDoc]
  /\ customers = Known
  /\ settledBy = [tx \in TxHashes |-> {}]
  /\ events = {}
  /\ ledger = {}
  /\ extra = [p \in PayIds |-> 0]
  /\ redemptions = [s \in Sessions |-> 0]
  /\ act = [a \in Actors |-> Idle]
  /\ queue = {}
  /\ faults = 0

-----------------------------------------------------------------------------
(***************************************************************************)
(* The networks (external).  A transfer is seen before it is deep enough;  *)
(* a Zcash transfer may also arrive after its quote expired ("late") and   *)
(* then never verifies by itself.                                          *)
(***************************************************************************)
ChainStep(tx) ==
  /\ \/ chain[tx] = "unseen" /\ chain' = [chain EXCEPT ![tx] = "seen"]
     \/ chain[tx] = "seen" /\ \E c \in {"final", "late"} : chain' = [chain EXCEPT ![tx] = c]
  /\ UNCHANGED <<store, act, queue, faults>>

Meets(tx, s) == s = Direct \/ s \in Pays[tx]

(* Verification answers ok. *)
Settles(tx, s) == chain[tx] = "final" /\ Meets(tx, s)

(* Verification answers claimable or late: it pays s but does not settle it. *)
Claimable(tx, s) == chain[tx] \in {"seen", "late"} /\ Meets(tx, s)

-----------------------------------------------------------------------------
(* The database: upserts of whole documents, and the unique tx_hash index. *)

Fresh(p) == payment[p].status = "none"
Stored(p) == payment[p].status # "none"
Owners(tx) == {p \in PayIds : Stored(p) /\ payment[p].tx = tx}

(* Mutant: the index on tx_hash is not unique. *)
IndexMissing(p, tx) == p \in PayIds

(* The partial unique index accepts tx on row p. *)
IndexAllows(p, tx) == tx = NoTx \/ Owners(tx) \subseteq {p}

(* The foreign keys of a payment row: its session and its customer exist. *)
KeysExist(s) == s \in Sessions /\ s \in customers

SavePayment(p, row) ==
  /\ payment' = [payment EXCEPT ![p] = row]
  /\ settledBy' = IF row.status = "confirmed"
                    THEN [settledBy EXCEPT ![row.tx] = @ \cup {p}]
                    ELSE settledBy

SaveSession(s, doc) == session' = [session EXCEPT ![s] = doc]

(* Mutant: the payment row takes the status of its session. *)
PendingRowAsOpen(s, tx) == [session |-> s, tx |-> tx, status |-> "open"]

PendingRow(s, tx) == [session |-> s, tx |-> tx, status |-> "pending"]

(* Grants and events are rows: written once under a derived id, or counted. *)
Granted(p) == p \in ledger \/ extra[p] > 0

Become(a, l) == act' = [act EXCEPT ![a] = l]
GoTo(a, stage) == Become(a, [act[a] EXCEPT !.pc = stage])
Finish(a) == Become(a, Idle)

At(a, stage) == act[a].pc = stage
KeepPayments == UNCHANGED <<payment, settledBy>>

-----------------------------------------------------------------------------
(***************************************************************************)
(* Checkout app: confirmOnce(session, txHash).  The in-flight map admits   *)
(* one run per process and session, so a flight is <<process, session>>.   *)
(* Every store call and the verification is an await.                      *)
(***************************************************************************)
Confirm(p, s, tx) ==
  LET f == <<p, s>> IN
  /\ At(f, "idle")
  /\ redemptions[s] <= MaxRedemptions
  /\ Become(f, [Idle EXCEPT !.s = s, !.tx = tx, !.doc = session[s],
                 !.pc = IF session[s].status = "completed" THEN "existing" ELSE "lookup"])
  /\ UNCHANGED <<chain, store, queue, faults>>

(* A completed session with a confirmed payment: nothing left to do. *)
FindExisting(f) ==
  /\ At(f, "existing")
  /\ IF \E p \in PayIds : payment[p].session = act[f].s /\ payment[p].status = "confirmed"
       THEN Finish(f)
       ELSE GoTo(f, "lookup")
  /\ UNCHANGED <<chain, store, queue, faults>>

(* Replay guard, then the two ways to go on with an open session. *)
FindPrior(f) ==
  LET l == act[f]
      isOpen == l.doc.status = "open" IN
  /\ At(f, "lookup")
  /\ \/ isOpen /\ Owners(l.tx) = {} /\ Become(f, [l EXCEPT !.pay = NoPay, !.pc = "verify"])
     \/ \E p \in Owners(l.tx) :
          /\ isOpen
          /\ payment[p].session = l.s
          /\ Become(f, [l EXCEPT !.pay = p, !.row = payment[p],
               !.pc = IF payment[p].status = "confirmed" THEN "complete" ELSE "verify"])
     \/ /\ ~isOpen \/ \E p \in Owners(l.tx) : payment[p].session # l.s
        /\ Finish(f)
  /\ UNCHANGED <<chain, store, queue, faults>>

(* Mutant: a payment already on record is taken for a confirmed one. *)
VerifySkippingSave(f) ==
  LET l == act[f] IN
  /\ At(f, "verify")
  /\ \/ Settles(l.tx, l.s) /\ GoTo(f, IF l.pay = NoPay THEN "claim" ELSE "complete")
     \/ Claimable(l.tx, l.s) /\ l.pay = NoPay /\ GoTo(f, "claimOnly")
     \/ Finish(f)
  /\ UNCHANGED <<chain, store, queue, faults>>

(* An RPC that is down, or a transfer that does not match, ends the run. *)
Verify(f) ==
  LET l == act[f] IN
  /\ At(f, "verify")
  /\ \/ /\ Settles(l.tx, l.s)
        /\ GoTo(f, IF l.pay = NoPay THEN "claim" ELSE "save")
     \/ Claimable(l.tx, l.s) /\ l.pay = NoPay /\ GoTo(f, "claimOnly")
     \/ Finish(f)
  /\ UNCHANGED <<chain, store, queue, faults>>

(* A payment row needs its customer row: found, or saved for a guest. *)
EnsureCustomer(f) ==
  /\ act[f].pc \in {"claim", "claimOnly"}
  /\ customers' = customers \cup {act[f].s}
  /\ GoTo(f, IF At(f, "claim") THEN "insert" ELSE "insertOnly")
  /\ UNCHANGED <<chain, payment, session, settledBy, events, ledger, extra, redemptions, queue, faults>>

(* The insert that the unique index decides. *)
ClaimTx(f) ==
  LET l == act[f]
      row == PendingRow(l.s, l.tx) IN
  /\ l.pc \in {"insert", "insertOnly"}
  /\ \/ \E p \in PayIds :
          /\ Fresh(p) /\ IndexAllows(p, l.tx)
          /\ SavePayment(p, row)
          /\ IF l.pc = "insert"
               THEN Become(f, [l EXCEPT !.pay = p, !.row = row, !.pc = "save"])
               ELSE Finish(f)
     \/ Owners(l.tx) # {} /\ Finish(f) /\ KeepPayments
  /\ UNCHANGED <<chain, session, customers, events, ledger, extra, redemptions, queue, faults>>

SaveConfirmed(f) ==
  LET l == act[f]
      legal == CanConfirm(l.row, l.tx) /\ IndexAllows(l.pay, l.tx) IN
  /\ At(f, "save")
  /\ \/ legal /\ SavePayment(l.pay, ConfirmPayment(l.row, l.tx)) /\ GoTo(f, "complete")
     \/ ~legal /\ Finish(f) /\ KeepPayments
  /\ UNCHANGED <<chain, session, customers, events, ledger, extra, redemptions, queue, faults>>

(* Mutant: the session is saved once, after the redemption was counted. *)
SaveCompletedLast(f) ==
  LET done == CompleteSession(act[f].doc)
      promo == act[f].s \in Discounted /\ ~done.redeemed IN
  /\ At(f, "complete")
  /\ Become(f, [act[f] EXCEPT !.doc = done, !.pc = IF promo THEN "redeem" ELSE "emit"])
  /\ UNCHANGED <<chain, store, queue, faults>>

(* The document saved is the copy read at the start of the run. *)
SaveCompleted(f) ==
  LET done == CompleteSession(act[f].doc)
      promo == act[f].s \in Discounted /\ ~done.redeemed IN
  /\ At(f, "complete")
  /\ SaveSession(act[f].s, done)
  /\ Become(f, [act[f] EXCEPT !.doc = done, !.pc = IF promo THEN "redeem" ELSE "emit"])
  /\ UNCHANGED <<chain, payment, customers, settledBy, events, ledger, extra, redemptions, queue, faults>>

(* fulfillOnce, redeemPromo: count, then save the session as redeemed. *)
CountRedemption(f) ==
  /\ At(f, "redeem")
  /\ redemptions' = [redemptions EXCEPT ![act[f].s] = @ + 1]
  /\ GoTo(f, "redeemed")
  /\ UNCHANGED <<chain, payment, session, customers, settledBy, events, ledger, extra, queue, faults>>

SaveRedeemed(f) ==
  /\ At(f, "redeemed")
  /\ SaveSession(act[f].s, [act[f].doc EXCEPT !.redeemed = TRUE])
  /\ GoTo(f, "emit")
  /\ UNCHANGED <<chain, payment, customers, settledBy, events, ledger, extra, redemptions, queue, faults>>

(* The outbox keeps one event per payment whoever emits it. *)
Emit(f) ==
  /\ At(f, "emit")
  /\ events' = events \cup {act[f].pay}
  /\ GoTo(f, "ledger")
  /\ UNCHANGED <<chain, payment, session, customers, settledBy, ledger, extra, redemptions, queue, faults>>

(* fulfillPayment: the entitlement row with the derived id is the ledger. *)
FindLedger(f) ==
  /\ At(f, "ledger")
  /\ IF act[f].pay \in ledger THEN Finish(f) ELSE GoTo(f, "grant")
  /\ UNCHANGED <<chain, store, queue, faults>>

Grant(f) ==
  /\ At(f, "grant")
  /\ ledger' = ledger \cup {act[f].pay}
  /\ Finish(f)
  /\ UNCHANGED <<chain, payment, session, customers, settledBy, events, extra, redemptions, queue, faults>>

FlightStep(f) ==
  \/ FindExisting(f) \/ FindPrior(f) \/ Verify(f) \/ EnsureCustomer(f) \/ ClaimTx(f)
  \/ SaveConfirmed(f) \/ SaveCompleted(f) \/ CountRedemption(f)
  \/ SaveRedeemed(f) \/ Emit(f) \/ FindLedger(f) \/ Grant(f)

-----------------------------------------------------------------------------
(***************************************************************************)
(* Worker: the payment-confirm job.  A tick reads all pending payments     *)
(* once and works through those copies; the session of each is read when   *)
(* its turn comes.                                                         *)
(***************************************************************************)
(* Mutant: a batch waits until it holds two payments. *)
PendingPaymentsInPairs ==
  LET due == {p \in PayIds : payment[p].status = "pending" /\ payment[p].tx # NoTx} IN
  IF Cardinality(due) > 1 THEN due ELSE {}

PendingPayments == {p \in PayIds : payment[p].status = "pending" /\ payment[p].tx # NoTx}

StartTick ==
  /\ At(Worker, "idle") /\ queue = {} /\ PendingPayments # {}
  /\ queue' = {<<p, payment[p]>> : p \in PendingPayments}
  /\ UNCHANGED <<chain, store, act, faults>>

TakePayment ==
  /\ At(Worker, "idle")
  /\ \E item \in queue :
       LET row == item[2] IN
       /\ queue' = queue \ {item}
       /\ IF row.session \in Sessions
            THEN Become(Worker, [pc |-> "wkVerify", op |-> "none", pay |-> item[1], row |-> row,
                                 s |-> row.session, tx |-> row.tx, doc |-> session[row.session]])
            ELSE UNCHANGED act
  /\ UNCHANGED <<chain, store, faults>>

(* Mutant: a transfer that is not deep enough is good enough. *)
WorkerVerifyShallow ==
  LET l == act[Worker] IN
  /\ At(Worker, "wkVerify")
  /\ \/ /\ l.tx \in Covered /\ (Settles(l.tx, l.s) \/ Claimable(l.tx, l.s))
        /\ GoTo(Worker, "wkSave")
     \/ Finish(Worker)
  /\ UNCHANGED <<chain, store, queue, faults>>

(* Whatever the network shows, the answer may be "pending" (the RPC is     *)
(* down) or an exception; without a verifier it is always "unsupported".   *)
WorkerVerify ==
  LET l == act[Worker] IN
  /\ At(Worker, "wkVerify")
  /\ \/ l.tx \in Covered /\ Settles(l.tx, l.s) /\ GoTo(Worker, "wkSave")
     \/ Finish(Worker)
  /\ UNCHANGED <<chain, store, queue, faults>>

WorkerSave ==
  LET l == act[Worker]
      legal == CanConfirm(l.row, l.tx) /\ IndexAllows(l.pay, l.tx) IN
  /\ At(Worker, "wkSave")
  /\ \/ legal /\ SavePayment(l.pay, ConfirmPayment(l.row, l.tx)) /\ GoTo(Worker, "wkEmit")
     \/ ~legal /\ Finish(Worker) /\ KeepPayments
  /\ UNCHANGED <<chain, session, customers, events, ledger, extra, redemptions, queue, faults>>

WorkerEmit ==
  /\ At(Worker, "wkEmit")
  /\ events' = events \cup {act[Worker].pay}
  /\ GoTo(Worker, "wkComplete")
  /\ UNCHANGED <<chain, payment, session, customers, settledBy, ledger, extra, redemptions, queue, faults>>

(* completeAndGrant: the session only if the worker's copy is still open. *)
WorkerComplete ==
  LET l == act[Worker] IN
  /\ At(Worker, "wkComplete")
  /\ IF l.doc.status = "open"
       THEN SaveSession(l.s, CompleteSession(l.doc))
       ELSE UNCHANGED session
  /\ GoTo(Worker, "wkScan")
  /\ UNCHANGED <<chain, payment, customers, settledBy, events, ledger, extra, redemptions, queue, faults>>

ScanEntitlements ==
  /\ At(Worker, "wkScan")
  /\ IF Granted(act[Worker].pay) THEN Finish(Worker) ELSE GoTo(Worker, "wkGrant")
  /\ UNCHANGED <<chain, store, queue, faults>>

WorkerGrant ==
  /\ At(Worker, "wkGrant")
  /\ extra' = [extra EXCEPT ![act[Worker].pay] = @ + 1]
  /\ Finish(Worker)
  /\ UNCHANGED <<chain, payment, session, customers, settledBy, events, ledger, redemptions, queue, faults>>

WorkerStep ==
  \/ StartTick \/ TakePayment \/ WorkerVerify \/ WorkerSave
  \/ WorkerEmit \/ WorkerComplete \/ ScanEntitlements \/ WorkerGrant

-----------------------------------------------------------------------------
(***************************************************************************)
(* Merchant API: payments.  A request r carries its operation and what it  *)
(* read.                                                                   *)
(***************************************************************************)
Accepts(r, op) == op \in Ops /\ At(r, "idle")

(* POST /payments.  The session needs a customer, not to be open. *)
Record(r, s, tx) ==
  /\ Accepts(r, "record")
  /\ s \in Known
  /\ tx # NoTx => Owners(tx) = {}
  /\ Cardinality({p \in PayIds : Fresh(p)}) > Cardinality({t \in TxHashes \ {tx} : Owners(t) = {}})
  /\ \E p \in PayIds : Fresh(p) /\ SavePayment(p, PendingRow(s, tx))
  /\ UNCHANGED <<chain, session, customers, events, ledger, extra, redemptions, act, queue, faults>>

(* POST /payments/:id/confirm with the hash of the body, which need not be *)
(* the hash the payment was recorded with.                                 *)
ApiConfirm(r, p, tx) ==
  /\ Accepts(r, "confirm")
  /\ Stored(p) /\ extra[p] < MaxGrants
  /\ Become(r, [Idle EXCEPT !.pc = "apiSession", !.op = "confirm", !.pay = p,
                !.row = payment[p], !.s = payment[p].session, !.tx = tx])
  /\ UNCHANGED <<chain, store, queue, faults>>

ApiReadSession(r) ==
  /\ At(r, "apiSession")
  /\ IF act[r].s \in Sessions
       THEN Become(r, [act[r] EXCEPT !.doc = session[act[r].s], !.pc = "apiUnused"])
       ELSE Finish(r)
  /\ UNCHANGED <<chain, store, queue, faults>>

(* assertTxHashUnused, then the verification: an await each. *)
ApiUnused(r) ==
  /\ At(r, "apiUnused")
  /\ IF Owners(act[r].tx) \subseteq {act[r].pay} THEN GoTo(r, "apiVerify") ELSE Finish(r)
  /\ UNCHANGED <<chain, store, queue, faults>>

ApiVerify(r) ==
  LET l == act[r] IN
  /\ At(r, "apiVerify")
  /\ \/ Settles(l.tx, l.s) /\ GoTo(r, "apiSave")
     \/ Finish(r)
  /\ UNCHANGED <<chain, store, queue, faults>>

(* Mutant: an illegal transition is swallowed and the handler goes on. *)
ApiSaveSwallowing(r) ==
  LET l == act[r]
      legal == CanConfirm(l.row, l.tx) /\ IndexAllows(l.pay, l.tx) IN
  /\ At(r, "apiSave")
  /\ IF legal THEN SavePayment(l.pay, ConfirmPayment(l.row, l.tx)) ELSE KeepPayments
  /\ GoTo(r, "apiComplete")
  /\ UNCHANGED <<chain, session, customers, events, ledger, extra, redemptions, queue, faults>>

ApiSave(r) ==
  LET l == act[r]
      legal == CanConfirm(l.row, l.tx) /\ IndexAllows(l.pay, l.tx)
      promo == l.s \in Discounted /\ ~l.doc.redeemed
      next == IF l.doc.status # "open" THEN "apiGrant"
              ELSE IF promo THEN "apiRedeem" ELSE "apiComplete" IN
  /\ At(r, "apiSave")
  /\ \/ legal /\ SavePayment(l.pay, ConfirmPayment(l.row, l.tx)) /\ GoTo(r, next)
     \/ ~legal /\ Finish(r) /\ KeepPayments
  /\ UNCHANGED <<chain, session, customers, events, ledger, extra, redemptions, queue, faults>>

ApiRedeem(r) ==
  /\ At(r, "apiRedeem")
  /\ redemptions' = [redemptions EXCEPT ![act[r].s] = @ + 1]
  /\ Become(r, [act[r] EXCEPT !.doc.redeemed = TRUE, !.pc = "apiComplete"])
  /\ UNCHANGED <<chain, payment, session, customers, settledBy, events, ledger, extra, queue, faults>>

ApiComplete(r) ==
  /\ At(r, "apiComplete")
  /\ SaveSession(act[r].s, CompleteSession(act[r].doc))
  /\ GoTo(r, "apiGrant")
  /\ UNCHANGED <<chain, payment, customers, settledBy, events, ledger, extra, redemptions, queue, faults>>

(* grantEntitlements looks for no earlier grant. *)
ApiGrant(r) ==
  /\ At(r, "apiGrant")
  /\ extra' = [extra EXCEPT ![act[r].pay] = @ + 1]
  /\ GoTo(r, "apiEmit")
  /\ UNCHANGED <<chain, payment, session, customers, settledBy, events, ledger, redemptions, queue, faults>>

ApiEmit(r) ==
  /\ At(r, "apiEmit")
  /\ events' = events \cup {act[r].pay}
  /\ Finish(r)
  /\ UNCHANGED <<chain, payment, session, customers, settledBy, ledger, extra, redemptions, queue, faults>>

(* POST /payments/:id/fail and /refund: read, transition, save. *)
ApiReadPayment(r, p, op) ==
  /\ op \in {"fail", "refund"} /\ Accepts(r, op)
  /\ Stored(p)
  /\ IF op = "fail" THEN CanFail(payment[p]) ELSE CanRefund(payment[p])
  /\ Become(r, [Idle EXCEPT !.pc = "apiStatus", !.op = op, !.pay = p, !.row = payment[p]])
  /\ UNCHANGED <<chain, store, queue, faults>>

(* Mutant: a failed or refunded payment gives its hash back. *)
ApiSaveStatusFreeing(r) ==
  LET l == act[r] IN
  /\ At(r, "apiStatus")
  /\ SavePayment(l.pay, [l.row EXCEPT !.tx = NoTx,
                           !.status = IF l.op = "fail" THEN "failed" ELSE "refunded"])
  /\ Finish(r)
  /\ UNCHANGED <<chain, session, customers, events, ledger, extra, redemptions, queue, faults>>

ApiSaveStatus(r) ==
  LET l == act[r]
      next == IF l.op = "fail" THEN FailPayment(l.row) ELSE RefundPayment(l.row) IN
  /\ At(r, "apiStatus")
  /\ IF IndexAllows(l.pay, l.row.tx) THEN SavePayment(l.pay, next) ELSE KeepPayments
  /\ Finish(r)
  /\ UNCHANGED <<chain, session, customers, events, ledger, extra, redemptions, queue, faults>>

-----------------------------------------------------------------------------
(***************************************************************************)
(* Transfers the backend finds by itself: POST /payments/observe (a direct *)
(* transfer, recorded under the session id "direct:<hash>", which is no    *)
(* row of checkout_sessions) and the worker's route-watch job (the fill of *)
(* an open session's route).  Both look the hash up, verify, and insert a  *)
(* payment that is already confirmed.                                      *)
(***************************************************************************)
Notice(r, s, tx) ==
  /\ \/ s = Direct /\ Accepts(r, "observe")
     \/ s \in Sessions /\ Accepts(r, "fill") /\ session[s].status = "open"
  /\ Owners(tx) = {}
  /\ Become(r, [Idle EXCEPT !.pc = "seenVerify", !.s = s, !.tx = tx,
                !.op = IF s = Direct THEN "observe" ELSE "fill"])
  /\ UNCHANGED <<chain, store, queue, faults>>

NoticeVerify(r) ==
  /\ At(r, "seenVerify")
  /\ IF Settles(act[r].tx, act[r].s) THEN GoTo(r, "seenSave") ELSE Finish(r)
  /\ UNCHANGED <<chain, store, queue, faults>>

NoticeSave(r) ==
  LET l == act[r]
      row == ConfirmPayment(PendingRow(l.s, l.tx), l.tx) IN
  /\ At(r, "seenSave")
  /\ \/ \E p \in PayIds :
          /\ Fresh(p) /\ IndexAllows(p, l.tx) /\ KeysExist(l.s)
          /\ SavePayment(p, row)
          /\ Become(r, [l EXCEPT !.pay = p, !.pc = "seenEmit"])
     \/ /\ Owners(l.tx) # {} \/ ~KeysExist(l.s)
        /\ Finish(r) /\ KeepPayments
  /\ UNCHANGED <<chain, session, customers, events, ledger, extra, redemptions, queue, faults>>

NoticeEmit(r) ==
  /\ At(r, "seenEmit")
  /\ events' = events \cup {act[r].pay}
  /\ Finish(r)
  /\ UNCHANGED <<chain, payment, session, customers, settledBy, ledger, extra, redemptions, queue, faults>>

-----------------------------------------------------------------------------
(***************************************************************************)
(* Writers of a session document other than the confirms: the API's        *)
(* collect-fields, cancel and expire, and the checkout's saveCollectedFields*)
(* and markExpired.  Each saves the document it read, changed.  The fields *)
(* themselves are abstracted away; saving the copy is not.                 *)
(***************************************************************************)
CanEdit(op, doc) ==
  CASE op = "collect"     -> CanCollect(doc)
    [] op = "cancel"      -> CanCancel(doc)
    [] op = "expire"      -> CanExpire(doc)
    [] op = "markExpired" -> doc.status = "open"
    [] op = "fields"      -> TRUE

(* collect and fields change nothing of what is left of the document. *)
Edited(op, doc) ==
  IF op = "cancel" THEN CancelSession(doc)
  ELSE IF op \in {"expire", "markExpired"} THEN ExpireSession(doc)
  ELSE doc

EditRead(r, s, op) ==
  /\ op \in {"collect", "cancel", "expire", "fields", "markExpired"}
  /\ Accepts(r, op) /\ CanEdit(op, session[s])
  /\ Become(r, [Idle EXCEPT !.pc = "edit", !.op = op, !.s = s, !.doc = session[s]])
  /\ UNCHANGED <<chain, store, queue, faults>>

EditSave(r) ==
  /\ At(r, "edit")
  /\ SaveSession(act[r].s, Edited(act[r].op, act[r].doc))
  /\ Finish(r)
  /\ UNCHANGED <<chain, payment, customers, settledBy, events, ledger, extra, redemptions, queue, faults>>

ReqStep(r) ==
  \/ ApiReadSession(r) \/ ApiUnused(r) \/ ApiVerify(r) \/ ApiSave(r)
  \/ ApiRedeem(r) \/ ApiComplete(r) \/ ApiGrant(r) \/ ApiEmit(r) \/ ApiSaveStatus(r)
  \/ NoticeVerify(r) \/ NoticeSave(r) \/ NoticeEmit(r) \/ EditSave(r)

-----------------------------------------------------------------------------
(* A process dies between two awaits: what its handlers held is lost.  A   *)
(* storage error that fulfillOnce swallows loses the same tail of one run. *)
Processes == {{p} \X Sessions : p \in Procs} \cup {{Worker}, Reqs}

Crash(dying) ==
  /\ faults < MaxFaults
  /\ \E a \in dying : ~At(a, "idle")
  /\ faults' = faults + 1
  /\ act' = [a \in Actors |-> IF a \in dying THEN Idle ELSE act[a]]
  /\ queue' = IF Worker \in dying THEN {} ELSE queue
  /\ UNCHANGED <<chain, store>>

ReqStart(r) ==
  \/ \E s \in Sessions, tx \in TxHashes \cup {NoTx} : Record(r, s, tx)
  \/ \E p \in PayIds, tx \in TxHashes : ApiConfirm(r, p, tx)
  \/ \E p \in PayIds, op \in AllOps : ApiReadPayment(r, p, op)
  \/ \E s \in Sessions \cup {Direct}, tx \in TxHashes : Notice(r, s, tx)
  \/ \E s \in Sessions, op \in AllOps : EditRead(r, s, op)

Next ==
  \/ \E tx \in TxHashes : ChainStep(tx)
  \/ \E p \in Procs, s \in Sessions, tx \in TxHashes : Confirm(p, s, tx)
  \/ \E f \in Flights : FlightStep(f)
  \/ WorkerStep
  \/ \E r \in Reqs : ReqStart(r) \/ ReqStep(r)
  \/ \E dying \in Processes : Crash(dying)

Spec == Init /\ [][Next]_vars

(***************************************************************************)
(* The runtime resumes every await (WF on the steps of a started handler)  *)
(* and the scheduler starts the worker's tick again and again.  A network  *)
(* the worker has a verifier for does not fail it at every tick for ever:  *)
(* strong fairness, since each tick disables the answer again.  Nothing    *)
(* makes a buyer or a merchant do anything, or a transfer become final.    *)
(***************************************************************************)
WorkerConfirms(p) == WorkerVerify /\ act[Worker].pay = p /\ At(Worker, "wkSave")'

Fairness ==
  /\ \A f \in Flights : WF_vars(FlightStep(f))
  /\ \A r \in Reqs : WF_vars(ReqStep(r))
  /\ WF_vars(WorkerStep)
  /\ \A p \in PayIds : SF_vars(WorkerConfirms(p))

FairSpec == Spec /\ Fairness

(* A buyer who keeps the page open: the status poll confirms again. *)
BuyerSpec ==
  FairSpec /\ \A p \in Procs, s \in Sessions, tx \in TxHashes : WF_vars(Confirm(p, s, tx))

-----------------------------------------------------------------------------
TypeOK ==
  /\ chain \in [TxHashes -> {"unseen", "seen", "final", "late"}]
  /\ payment \in [PayIds -> Row]
  /\ session \in [Sessions -> Doc]
  /\ customers \subseteq Sessions \cup {Direct}
  /\ settledBy \in [TxHashes -> SUBSET PayIds]
  /\ events \subseteq PayIds
  /\ ledger \subseteq PayIds
  /\ extra \in [PayIds -> Nat]
  /\ redemptions \in [Sessions -> Nat]
  /\ act \in [Actors -> Local]
  /\ queue \subseteq PayIds \X Row
  /\ faults \in Nat

(***************************************************************************)
(* payment-verification.ts: "A transaction hash settles at most ONE        *)
(* payment".  Over the whole history: a hash that confirmed one payment    *)
(* never confirms another, even if the row that held it has changed since. *)
(***************************************************************************)
TxSettlesOnePayment ==
  \A tx \in TxHashes : \A p, q \in settledBy[tx] : p = q

(***************************************************************************)
(* Money first.  Whatever the interleaving and wherever a process dies, an *)
(* entitlement or a payment.confirmed event exists only for a payment that *)
(* a final transfer meeting its session's terms settled.                   *)
(***************************************************************************)
Settled(p) == \E tx \in TxHashes : p \in settledBy[tx]

NothingBeforeMoney ==
  /\ \A tx \in TxHashes : \A p \in settledBy[tx] :
       Stored(p) /\ Settles(tx, payment[p].session)
  /\ \A p \in PayIds : Granted(p) \/ p \in events => Settled(p)

(***************************************************************************)
(* The promise of PaidAccess, implemented: a payment is served when it has *)
(* an entitlement or an event.  In use without POST /payments/:id/confirm, *)
(* whose own hash may settle a second payment.                             *)
(***************************************************************************)
Promise == INSTANCE PaidAccess WITH served <- {p \in PayIds : Granted(p) \/ p \in events}
KeepsPromise == Promise!Spec

(***************************************************************************)
(* A session reads "completed" (receipt page, delivered access) only if    *)
(* one of its payments settled: no stale document copy can carry the       *)
(* status to a session that was never paid.                                *)
(***************************************************************************)
CompletedIsPaid ==
  \A s \in Sessions : session[s].status = "completed" =>
    \E p \in PayIds : payment[p].session = s /\ Settled(p)

(***************************************************************************)
(* payment-lifecycle.ts draws the status flow.  A stored row leaves it     *)
(* only while a writer holds a copy that is no longer what is stored:      *)
(* every path whose copy is fresh checks the transition it makes.          *)
(***************************************************************************)
HeldStale(p) ==
  \E a \in Actors :
    /\ act[a].pc \in {"save", "wkSave", "apiSave", "apiStatus"}
    /\ act[a].pay = p /\ act[a].row.status # payment[p].status

StatusFollowsFlow ==
  [][\A p \in PayIds : Stored(p) /\ payment'[p].status # payment[p].status =>
       \/ <<payment[p].status, payment'[p].status>> \in LegalPaymentSteps
       \/ HeldStale(p)]_vars

(***************************************************************************)
(* recordAndConfirm: a claimed transfer is pending "so the worker can      *)
(* finish confirming it even if the buyer leaves": wherever the worker has *)
(* a verifier for the network (elsewhere only the buyer's poll is left).   *)
(***************************************************************************)
ClaimIsFinished ==
  \A p \in PayIds :
    /\ payment[p].status = "pending" /\ payment[p].tx \in Covered
    /\ Settles(payment[p].tx, payment[p].session)
    ~> payment[p].status # "pending"

(***************************************************************************)
(* fulfill.ts: fulfilment "runs EXACTLY ONCE per confirmed payment".  At   *)
(* least once: a confirmed checkout payment is eventually granted.         *)
(***************************************************************************)
ConfirmedIsGranted ==
  \A p \in PayIds : payment[p].status = "confirmed" ~> Granted(p)

(***************************************************************************)
(* session-coupons.ts: "Count a confirmed session's promo redemption       *)
(* once".                                                                  *)
(***************************************************************************)
RedeemedOnce == \A s \in Sessions : redemptions[s] <= 1

-----------------------------------------------------------------------------
(***************************************************************************)
(* What makes NothingBeforeMoney and CompletedIsPaid inductive: every copy *)
(* an actor holds agrees with the stored row on the session (the one field *)
(* no writer changes), a stage after a verification holds a final          *)
(* transfer, and a stage that fulfils holds a payment that has settled.    *)
(***************************************************************************)
RowStages == {"save", "wkVerify", "wkSave", "apiSession", "apiUnused", "apiVerify", "apiSave",
              "apiStatus"}
VerifiedStages == {"claim", "insert", "save", "wkSave", "apiSave", "seenSave"}
FulfilStages == {"complete", "redeem", "redeemed", "emit", "ledger", "grant",
                 "wkEmit", "wkComplete", "wkScan", "wkGrant",
                 "apiRedeem", "apiComplete", "apiGrant", "apiEmit", "seenEmit"}

HoldsRow(a) ==
  act[a].pc \in RowStages \/ (act[a].pc = "verify" /\ act[a].pay # NoPay)
Agrees(p, row) ==
  p \in PayIds /\ Stored(p) /\ row.status # "none" /\ row.session = payment[p].session
Paid(s) == \E p \in PayIds : payment[p].session = s /\ Settled(p)

RowAgrees(a) ==
  HoldsRow(a) => /\ Agrees(act[a].pay, act[a].row)
                 /\ act[a].pc # "apiStatus" => act[a].s = act[a].row.session
HasHash(a) == act[a].pc \notin {"idle", "apiStatus", "edit"} => act[a].tx \in TxHashes
VerifiedIsFinal(a) == act[a].pc \in VerifiedStages => Settles(act[a].tx, act[a].s)
FulfilsSettled(a) ==
  act[a].pc \in FulfilStages => /\ act[a].pay \in PayIds /\ Settled(act[a].pay)
                                /\ act[a].s = payment[act[a].pay].session
CompletedCopyIsPaid(a) == act[a].doc.status = "completed" => Paid(act[a].s)

ActorInv(a) ==
  /\ RowAgrees(a) /\ HasHash(a) /\ VerifiedIsFinal(a)
  /\ FulfilsSettled(a) /\ CompletedCopyIsPaid(a)

QueueAgrees == \A item \in queue : Agrees(item[1], item[2]) /\ item[2].tx \in TxHashes
ConfirmedIsSettled == \A p \in PayIds : payment[p].status = "confirmed" => Settled(p)

MoneyInv ==
  /\ TypeOK
  /\ \A a \in Actors : ActorInv(a)
  /\ QueueAgrees
  /\ ConfirmedIsSettled
  /\ NothingBeforeMoney
  /\ CompletedIsPaid

(***************************************************************************)
(* What makes TxSettlesOnePayment inductive where the API's confirm is not *)
(* in use: no copy disagrees with its row on the hash, so a settled row    *)
(* keeps the hash that settled it, and the index guards it for ever.       *)
(***************************************************************************)
IndexHolds ==
  \A p, q \in PayIds :
    /\ Stored(p) /\ Stored(q)
    /\ payment[p].tx = payment[q].tx /\ payment[p].tx # NoTx
    => p = q
HashAgrees(a) ==
  HoldsRow(a) => /\ act[a].row.tx = payment[act[a].pay].tx
                 /\ act[a].pc # "apiStatus" => act[a].tx = act[a].row.tx
NoApiConfirm(a) == act[a].pc \notin {"apiSession", "apiUnused", "apiVerify", "apiSave"}
SettledKeepsHash ==
  \A tx \in TxHashes : \A p \in settledBy[tx] : payment[p].tx = tx

TxInv ==
  /\ IndexHolds
  /\ \A a \in Actors : HashAgrees(a) /\ NoApiConfirm(a)
  /\ \A item \in queue : item[2].tx = payment[item[1]].tx
  /\ SettledKeepsHash

=============================================================================
