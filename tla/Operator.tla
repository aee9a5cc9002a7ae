------------------------------ MODULE Operator ------------------------------
(***************************************************************************)
(* packages/operator: OperatorService, its store and its vault, with the   *)
(* operator-tick job of the worker and the owner's requests to apps/api.   *)
(*                                                                         *)
(* A handler is one of those calls: it handles an event, approves or       *)
(* rejects an escalation for the owner, or expires the stale ones.  Each   *)
(* await of the service is a step.  The engine (Claude or the heuristic)   *)
(* may make any proposals its tools accept, several of one event: payouts  *)
(* of bills, what goes to the owner, and what is beside the bills.  They   *)
(* are revealed one by one, as they are carried out.                       *)
(* The vault is OperatorVault, moved by its own actions: every step here   *)
(* is a step of the vault or leaves it alone.                              *)
(***************************************************************************)
EXTENDS OperatorVault, FiniteSets

CONSTANTS
  Bills,            \* bills; a bill is its own decision hash
  PayTo, Owed,      \* payee and amount of each bill
  Events,           \* events to handle; a bill is its own bill.due event
  Concerns,         \* the bill an event is about; an event posted to the API may be about any
  NoBill,           \* an event about no bill: revenue, refund, dispute, daily tick
  Handlers,         \* calls of the service that may be under way at once
  MaxProposals,     \* MAX_PROPOSALS_PER_EVENT
  MaxOverlaps,      \* bound: owner's requests on a row that an approval under way opened
  MaxFaults         \* bound: answers lost, storage errors and handlers killed

ASSUME OperatorBillsAssumption ==
  Bills \subseteq Decisions /\ PayTo \in [Bills -> Payees] /\ Owed \in [Bills -> Amounts]
ASSUME OperatorEventsAssumption ==
  /\ Bills \subseteq Events /\ NoBill \notin Bills /\ Concerns \in [Events -> Bills \cup {NoBill}]
  /\ \A b \in Bills : Concerns[b] = b
ASSUME OperatorBoundAssumption == MaxProposals \in Nat /\ MaxOverlaps \in Nat /\ MaxFaults \in Nat

VARIABLES
  bills,            \* operator_bills: the status of each bill
  rows,             \* operator_escalations, in the order they were opened
  claims,           \* operator_claims: ids of events and of rows
  decided,          \* events that have a decision on record
  handlers,         \* the calls under way
  payments,         \* history: how often the vault paid each bill,
  planned,          \* how many payouts of it decisions asked for,
  acted,            \* how often each event was decided,
  aside,            \* the bills an executed decision about which executed something else,
  overlaps,         \* and the requests of MaxOverlaps
  faults

history == <<planned, acted, aside, overlaps>>
serviceVars == <<bills, rows, claims, decided, handlers, payments, history, faults>>
operatorVars == <<vaultVars, serviceVars>>

RowStatus == {"pending", "approved", "rejected", "expired"}
Row == [bill : Bills, vaultId : Nat, createdAt : Nat, status : RowStatus]
EventOf(e) == <<"event", e>>
ResolveOf(i) == <<"resolve", i>>

NoCall == [at |-> "idle", flow |-> "none"]
\* bill: of the proposal or row in hand; open: bills its engine saw open; left: proposals it
\* may still make; said: the most significant status of those carried out; vaultId: the
\* vault's id of the escalation (0: none); fresh: the row opened while approving another
\* (0: none); outcome: what becomes of the row's bill; keep: the claim stays; todo: rows
\* still to expire; behind: the head of the log moved since it was read
Results == {"deferred", "denied", "executed", "escalated", "failed"}
Place == {"claim", "decide", "act", "pay", "open", "bill", "record", "append", "unclaim", "check",
          "vault", "fresh", "row", "save", "find", "close", "stale", "lapse"}
CallOf(Ids) ==
  [at : Place, flow : {"handle", "approve", "reject", "expire"}, event : Events, bill : Bills,
   open : SUBSET Bills, left : 0..MaxProposals, said : Results, row : Ids,
   vaultId : Nat, fresh : Ids, outcome : {"none", "paid", "rejected"}, keep : BOOLEAN,
   todo : SUBSET (Ids \ {0}), done : SUBSET (Ids \ {0}), behind : BOOLEAN]
HandlerOf(Ids) == {NoCall} \cup CallOf(Ids)

OperatorTypeOK ==
  /\ bills \in [Bills -> {"none", "open", "paid", "escalated", "rejected"}]
  /\ rows \in Seq(Row)
  /\ claims \subseteq {EventOf(e) : e \in Events} \cup {ResolveOf(i) : i \in 0..Len(rows)}
  /\ decided \subseteq Events
  /\ handlers \in [Handlers -> HandlerOf(0..Len(rows))]
  /\ payments \in [Bills -> Nat] /\ planned \in [Bills -> Nat] /\ acted \in [Events -> Nat]
  /\ aside \subseteq Bills \cup {NoBill} /\ overlaps \in Nat /\ faults \in Nat

ServiceInit ==
  /\ bills = [b \in Bills |-> "none"]
  /\ rows = <<>> /\ claims = {} /\ decided = {}
  /\ handlers = [h \in Handlers |-> NoCall]
  /\ payments = [b \in Bills |-> 0] /\ planned = [b \in Bills |-> 0]
  /\ acted = [e \in Events |-> 0] /\ aside = {}
  /\ overlaps = 0 /\ faults = 0
OperatorInit == VaultInit /\ ServiceInit

-----------------------------------------------------------------------------
At(h, place) == handlers[h].at = place
Is(h, flow) == handlers[h].flow = flow
(* A call forgets what it needs no more. *)
Tidy(l) ==
  IF l.at \in {"record", "append", "unclaim"}
  THEN [l EXCEPT !.vaultId = 0, !.fresh = 0, !.outcome = "none", !.keep = @ \/ l.at = "unclaim",
                 !.open = {}, !.left = 0, !.said = "deferred", !.done = {}, !.behind = @ /\ l.at = "append"]
  ELSE IF l.at = "bill" THEN [l EXCEPT !.open = {}, !.left = 0]
  ELSE IF l.at = "lapse" THEN [l EXCEPT !.done = {}] ELSE l
Become(h, new) == handlers' = [handlers EXCEPT ![h] = Tidy(new)]
Go(h, place) == Become(h, [handlers[h] EXCEPT !.at = place])
Done(h) == Become(h, NoCall)
Fault == faults < MaxFaults /\ faults' = faults + 1

New(flow, b, place) ==
  [at |-> place, flow |-> flow, event |-> b, bill |-> b, open |-> {}, left |-> 0, said |-> "deferred",
   row |-> 0, vaultId |-> 0, fresh |-> 0, outcome |-> "none", keep |-> TRUE, todo |-> {}, done |-> {}, behind |-> FALSE]

(* BillIntake saves the bill and handles it at once if it is due. *)
Intake(h, b) ==
  /\ At(h, "idle") /\ bills[b] = "none"
  /\ bills' = [bills EXCEPT ![b] = "open"]
  /\ Done(h) \/ Become(h, New("handle", b, "claim"))
  /\ UNCHANGED <<vaultVars, rows, claims, decided, payments, history, faults>>

(* The tick takes the open bills, the day and the revenue that have no     *)
(* decision yet; any other event is posted to the API.                     *)
PickDue(h, e, b) ==
  /\ At(h, "idle") /\ e \notin decided /\ Concerns[e] \in {b, NoBill}
  /\ e \in Bills => bills[e] = "open"
  /\ Become(h, [New("handle", b, "claim") EXCEPT !.event = e])
  /\ UNCHANGED <<vaultVars, bills, rows, claims, decided, payments, history, faults>>

(* handleWith and resolving claim before money can move. *)
KeyOf(h) == IF Is(h, "handle") THEN EventOf(handlers[h].event) ELSE ResolveOf(handlers[h].row)

(* Mutant: the claim is set without looking whether it is taken. *)
TakeClaimBlindly(h) ==
  /\ At(h, "claim")
  /\ claims' = claims \cup {KeyOf(h)}
  /\ Go(h, IF Is(h, "handle") THEN "decide" ELSE "check")
  /\ UNCHANGED <<vaultVars, bills, rows, decided, payments, history, faults>>

TakeClaim(h) ==
  /\ At(h, "claim")
  /\ IF KeyOf(h) \in claims
     THEN Done(h) /\ UNCHANGED claims
     ELSE claims' = claims \cup {KeyOf(h)} /\ Go(h, IF Is(h, "handle") THEN "decide" ELSE "check")
  /\ UNCHANGED <<vaultVars, bills, rows, decided, payments, history, faults>>

Unclaim(h) ==
  /\ At(h, "unclaim")
  /\ claims' = claims \ {KeyOf(h)}
  /\ Done(h)
  /\ UNCHANGED <<vaultVars, bills, rows, decided, payments, history, faults>>

(* The engine reads bills while it decides, or throws, or decides. *)
OpenBills == {b \in Bills : bills[b] = "open"}
ReadBills(h) ==
  /\ At(h, "decide") /\ ~(OpenBills \subseteq handlers[h].open)
  /\ Become(h, [handlers[h] EXCEPT !.open = @ \cup OpenBills])
  /\ UNCHANGED <<vaultVars, bills, rows, claims, decided, payments, history, faults>>

EngineThrows(h) ==
  /\ At(h, "decide")
  /\ Go(h, "unclaim")
  /\ UNCHANGED <<vaultVars, bills, rows, claims, decided, payments, history, faults>>

Decide(h) ==
  /\ At(h, "decide")
  /\ acted' = [acted EXCEPT ![handlers[h].event] = @ + 1]
  /\ Become(h, [handlers[h] EXCEPT !.at = "act", !.left = MaxProposals])
  /\ UNCHANGED <<vaultVars, bills, rows, claims, decided, payments, planned, aside, overlaps, faults>>

-----------------------------------------------------------------------------
(* execute: one proposal after the other, whatever became of the last one. *)
Own(h) == Concerns[handlers[h].event]
Proposes(h) == At(h, "act") /\ handlers[h].left > 0

(* aggregateOutcome: the most significant status counts. *)
Weight == [deferred |-> 0, denied |-> 1, executed |-> 2, escalated |-> 3, failed |-> 4]
More(one, other) == IF Weight[other] > Weight[one] THEN other ELSE one

(* A payout of a bill that was open, or that the heuristic takes from the  *)
(* event: it goes to the vault, or to the owner first.                     *)
ProposePayout(h, b, place) ==
  /\ Proposes(h) /\ b \in handlers[h].open \cup {Own(h)} /\ place \in {"pay", "open"}
  /\ planned' = [planned EXCEPT ![b] = @ + 1]
  /\ Become(h, [handlers[h] EXCEPT !.at = place, !.bill = b, !.left = @ - 1])
  /\ UNCHANGED <<vaultVars, bills, rows, claims, decided, payments, acted, aside, overlaps, faults>>

(* escalateUnmatched: a payout of a bill that is not open goes to the owner. *)
ProposeUnmatched(h, b) ==
  /\ Proposes(h) /\ bills[b] \notin {"none", "open"}
  /\ planned' = [planned EXCEPT ![b] = @ + 1]
  /\ Become(h, [handlers[h] EXCEPT !.at = "open", !.bill = b, !.left = @ - 1])
  /\ UNCHANGED <<vaultVars, bills, rows, claims, decided, payments, acted, aside, overlaps, faults>>

(* What has nothing to do with a bill: it is declined or goes to the owner *)
(* or fails, or it moves money into a bucket.                              *)
FundBills == \E amounts \in Splits : Allocate(operator, amounts) /\ amounts["OPERATING"] = SplitSum(amounts)
ProposeAside(h, status) ==
  /\ Proposes(h) /\ status \in Results
  /\ IF status = "executed"
     THEN FundBills /\ aside' = aside \cup {Own(h)}
     ELSE UNCHANGED <<vaultVars, aside>>
  /\ Become(h, [handlers[h] EXCEPT !.said = More(@, status), !.left = @ - 1])
  /\ UNCHANGED <<bills, rows, claims, decided, payments, planned, acted, overlaps, faults>>

(* updateBill finds the bill of the event and touches it if it is open.    *)
BillStatus == [executed |-> "paid", escalated |-> "escalated", denied |-> "rejected"]
Finish(h) ==
  /\ At(h, "act")
  /\ Go(h, IF Own(h) \in OpenBills /\ handlers[h].said \in DOMAIN BillStatus THEN "bill" ELSE "record")
  /\ UNCHANGED <<vaultVars, bills, rows, claims, decided, payments, history, faults>>

UpdateBill(h) ==
  /\ At(h, "bill")
  /\ bills' = [bills EXCEPT ![Own(h)] = BillStatus[handlers[h].said]]
  /\ Go(h, "record")
  /\ UNCHANGED <<vaultVars, rows, claims, decided, payments, history, faults>>

(* Where a payout of an event, or an approved one, goes with its result.   *)
Answered(h, status) == [handlers[h] EXCEPT !.at = "act", !.said = More(@, status), !.vaultId = 0]

-----------------------------------------------------------------------------
(* sendToVault.  The vault pays, or reserves the amount, or refuses.       *)
VaultPays(b) ==
  /\ PayNow(operator, "OPERATING", PayTo[b], Owed[b])
  /\ payments' = [payments EXCEPT ![b] = @ + 1]
VaultReserves(b) ==
  /\ Len(escalations) < MaxEscalations
  /\ Escalate(operator, b, "OPERATING", PayTo[b], Owed[b])
  /\ UNCHANGED payments

PayBill(h) ==
  /\ At(h, "pay")
  /\ \/ /\ VaultPays(handlers[h].bill)
        /\ IF Is(h, "handle")
           THEN /\ Become(h, Answered(h, "executed"))
                /\ aside' = IF handlers[h].bill = Own(h) THEN aside ELSE aside \cup {Own(h)}
           ELSE Become(h, [handlers[h] EXCEPT !.at = "row", !.outcome = "paid"]) /\ UNCHANGED aside
     \/ /\ VaultReserves(handlers[h].bill)
        /\ Become(h, [handlers[h] EXCEPT !.at = "open", !.vaultId = Len(escalations')])
        /\ UNCHANGED aside
  /\ UNCHANGED <<bills, rows, claims, decided, planned, acted, overlaps, faults>>

Unpaid(h, hash) ==
  IF Is(h, "handle") THEN Answered(h, "failed") ELSE [handlers[h] EXCEPT !.at = "record", !.keep = hash]

(* The simulation reverts, or a node fails before anything is sent, or the *)
(* transaction is mined and reverts, with a hash.                          *)
PayFails(h) ==
  /\ At(h, "pay")
  /\ \E mined \in BOOLEAN : Become(h, Unpaid(h, mined))
  /\ UNCHANGED <<vaultVars, bills, rows, claims, decided, payments, history, faults>>

(* The transaction is mined, but its answer is lost, with or without the   *)
(* hash: VaultTxError, or the end of pollTransaction.                      *)
PayLost(h, hash) ==
  /\ At(h, "pay") /\ Fault
  /\ VaultPays(handlers[h].bill) \/ VaultReserves(handlers[h].bill)
  /\ Become(h, Unpaid(h, hash))
  /\ UNCHANGED <<bills, rows, claims, decided, history>>

OpenRow(h) ==
  /\ At(h, "open")
  /\ rows' = Append(rows, [bill |-> handlers[h].bill, vaultId |-> handlers[h].vaultId,
                           createdAt |-> now, status |-> "pending"])
  /\ Become(h, IF Is(h, "handle") THEN Answered(h, "escalated")
               ELSE [handlers[h] EXCEPT !.at = "vault", !.fresh = Len(rows')])
  /\ UNCHANGED <<vaultVars, bills, claims, decided, payments, history, faults>>

-----------------------------------------------------------------------------
(* record: read the head, append to it.                                    *)
ReadHead(h) ==
  /\ At(h, "record")
  /\ Become(h, [handlers[h] EXCEPT !.at = "append", !.behind = FALSE])
  /\ UNCHANGED <<vaultVars, bills, rows, claims, decided, payments, history, faults>>

One(S) == CHOOSE i \in S : TRUE

(* Where a call goes once its decision is on record. *)
Recorded(l) ==
  IF l.flow = "expire" /\ l.todo # {} THEN [l EXCEPT !.at = "lapse"]
  ELSE IF l.flow = "expire" \/ l.keep THEN NoCall ELSE [l EXCEPT !.at = "unclaim"]

(* A decision was appended: calls that had read the head are behind it. *)
Overtaken(g) == IF At(g, "append") THEN [handlers[g] EXCEPT !.behind = TRUE] ELSE handlers[g]

AppendDecision(h) ==
  /\ At(h, "append") /\ ~handlers[h].behind
  /\ decided' = IF Is(h, "handle") THEN decided \cup {handlers[h].event} ELSE decided
  /\ handlers' = [g \in Handlers |-> IF g = h THEN Tidy(Recorded(handlers[h])) ELSE Overtaken(g)]
  /\ UNCHANGED <<vaultVars, bills, rows, claims, payments, history, faults>>

(* assertLinks notices that the head moved and record reads it again, up   *)
(* to three times; if only the unique index notices, the error is Postgres' *)
(* own and ends the call.                                                  *)
Relink(h) ==
  /\ At(h, "append") /\ handlers[h].behind
  /\ Go(h, "record")
  /\ UNCHANGED <<vaultVars, bills, rows, claims, decided, payments, history, faults>>

RecordThrows(h) ==
  /\ At(h, "append") /\ handlers[h].behind
  /\ IF Is(h, "approve") \/ Is(h, "reject") THEN Go(h, "unclaim") ELSE Done(h)
  /\ UNCHANGED <<vaultVars, bills, rows, claims, decided, payments, history, faults>>

-----------------------------------------------------------------------------
Stale(i) == now > rows[i].createdAt + EscalationTTL
Actionable(i) == i \in DOMAIN rows /\ rows[i].status = "pending" /\ ~Stale(i)

(* The owner's approve and reject, on a row that is still pending. *)
BeginResolve(h, i, flow) ==
  /\ At(h, "idle") /\ Actionable(i)
  /\ IF \E g \in Handlers : ~At(g, "idle") /\ handlers[g].fresh = i
     THEN overlaps < MaxOverlaps /\ overlaps' = overlaps + 1
     ELSE UNCHANGED overlaps
  /\ Become(h, [New(flow, rows[i].bill, "claim") EXCEPT !.row = i, !.vaultId = rows[i].vaultId])
  /\ UNCHANGED <<vaultVars, bills, rows, claims, decided, payments, planned, acted, aside, faults>>

CheckRow(h) ==
  /\ At(h, "check")
  /\ Go(h, IF ~Actionable(handlers[h].row) THEN "unclaim"
           ELSE IF handlers[h].vaultId # 0 THEN "vault"
           ELSE IF Is(h, "approve") THEN "pay" ELSE "row")
  /\ UNCHANGED <<vaultVars, bills, rows, claims, decided, payments, history, faults>>

OwnerCall(h) ==
  IF Is(h, "approve")
  THEN /\ Approve(owner, handlers[h].vaultId)
       /\ payments' = [payments EXCEPT ![handlers[h].bill] = @ + 1]
  ELSE Reject(owner, handlers[h].vaultId) /\ UNCHANGED payments

(* Mutant: the row is resolved whatever the vault answered. *)
AfterVaultAnyway(h, ok, keep) ==
  Become(h, [handlers[h] EXCEPT
    !.at = IF handlers[h].fresh # 0 THEN "fresh" ELSE "row",
    !.outcome = IF Is(h, "approve") THEN "paid" ELSE "rejected", !.keep = keep])

(* executeApproved marks a fresh row approved whatever the vault answered. *)
AfterVault(h, ok, keep) ==
  Become(h, [handlers[h] EXCEPT
    !.at = IF handlers[h].fresh # 0 THEN "fresh" ELSE IF ok THEN "row" ELSE "record",
    !.outcome = IF ~ok THEN "none" ELSE IF Is(h, "approve") THEN "paid" ELSE "rejected", !.keep = keep])

VaultCall(h) ==
  /\ At(h, "vault")
  /\ OwnerCall(h)
  /\ AfterVault(h, TRUE, TRUE)
  /\ UNCHANGED <<bills, rows, claims, decided, history, faults>>

(* The vault refuses, when the call is simulated or when it is mined, or a *)
(* node fails first.  What is paused or forbidden it may always refuse; a  *)
(* row the approval has opened itself (VaultCallFails) what is resolved or *)
(* too old.                                                                *)
Refused(h) ==
  \/ handlers[h].fresh = 0
  \/ handlers[h].vaultId \notin PendingIds
  \/ Is(h, "approve") /\ TooOld(escalations[handlers[h].vaultId])
VaultCallRefused(h) ==
  /\ At(h, "vault") /\ Refused(h)
  /\ \E mined \in BOOLEAN : AfterVault(h, FALSE, mined /\ Is(h, "approve"))
  /\ UNCHANGED <<vaultVars, bills, rows, claims, decided, payments, history, faults>>

(* Any other refusal of a row that the approval has opened itself counts   *)
(* as a fault: its reservation stays, and the old row can be approved anew. *)
VaultCallFails(h) ==
  /\ At(h, "vault") /\ handlers[h].fresh # 0 /\ Fault
  /\ AfterVault(h, FALSE, FALSE)
  /\ UNCHANGED <<vaultVars, bills, rows, claims, decided, payments, history>>

(* rejectClaimed drops the hash of a transaction it did not see confirmed. *)
VaultCallLost(h, hash) ==
  /\ At(h, "vault") /\ Fault
  /\ OwnerCall(h)
  /\ AfterVault(h, FALSE, hash /\ Is(h, "approve"))
  /\ UNCHANGED <<bills, rows, claims, decided, history>>

ApproveFresh(h) ==
  /\ At(h, "fresh")
  /\ rows' = IF Actionable(handlers[h].fresh)
             THEN [rows EXCEPT ![handlers[h].fresh].status = "approved"] ELSE rows
  /\ Go(h, IF handlers[h].outcome = "paid" THEN "row" ELSE "record")
  /\ UNCHANGED <<vaultVars, bills, claims, decided, payments, history, faults>>

(* EscalationQueue.approve and reject: load and check, then save. *)
LoadRow(h) ==
  /\ At(h, "row")
  /\ Go(h, IF Actionable(handlers[h].row) THEN "save" ELSE "unclaim")
  /\ UNCHANGED <<vaultVars, bills, rows, claims, decided, payments, history, faults>>

SaveRow(h) ==
  /\ At(h, "save")
  /\ rows' = [rows EXCEPT ![handlers[h].row].status = IF Is(h, "approve") THEN "approved" ELSE "rejected"]
  /\ Become(h, [handlers[h] EXCEPT !.at = "find", !.outcome = IF Is(h, "approve") THEN "paid" ELSE "rejected"])
  /\ UNCHANGED <<vaultVars, bills, claims, decided, payments, history, faults>>

(* resolveBill: close the bill if it is escalated. *)
FindBill(h) ==
  /\ At(h, "find")
  /\ Go(h, IF bills[handlers[h].bill] = "escalated" THEN "close" ELSE "record")
  /\ UNCHANGED <<vaultVars, bills, rows, claims, decided, payments, history, faults>>

CloseBill(h) ==
  /\ At(h, "close")
  /\ bills' = [bills EXCEPT ![handlers[h].bill] = handlers[h].outcome]
  /\ Go(h, "record")
  /\ UNCHANGED <<vaultVars, rows, claims, decided, payments, history, faults>>

-----------------------------------------------------------------------------
(* expireStale lists, saves every stale row as expired, and then tells the *)
(* vault and closes the bill of one after the other, in one of the orders. *)
StaleRows == {i \in DOMAIN rows : rows[i].status = "pending" /\ Stale(i)}

ListStale(h) ==
  /\ At(h, "idle") /\ StaleRows # {}
  /\ Become(h, [New("expire", rows[One(StaleRows)].bill, "stale") EXCEPT !.todo = StaleRows, !.done = StaleRows])
  /\ UNCHANGED <<vaultVars, bills, rows, claims, decided, payments, history, faults>>

SaveExpired(h) ==
  /\ At(h, "stale")
  /\ LET i == One(handlers[h].todo)
         left == handlers[h].todo \ {i}
     IN /\ rows' = [rows EXCEPT ![i].status = "expired"]
        /\ Become(h, IF left = {}
                     THEN [handlers[h] EXCEPT !.at = "lapse", !.todo = handlers[h].done]
                     ELSE [handlers[h] EXCEPT !.todo = left])
  /\ UNCHANGED <<vaultVars, bills, claims, decided, payments, history, faults>>

(* Whatever the vault answers, the bill is rejected. *)
ExpireNext(h, called) ==
  LET i == One(handlers[h].todo)
  IN /\ At(h, "lapse")
     /\ IF called THEN rows[i].vaultId # 0 /\ Expire(rows[i].vaultId) ELSE UNCHANGED vaultVars
     /\ Become(h, [handlers[h] EXCEPT !.at = "find", !.todo = @ \ {i},
                                      !.bill = rows[i].bill, !.outcome = "rejected"])
     /\ UNCHANGED <<bills, rows, claims, decided, payments, history, faults>>

-----------------------------------------------------------------------------
(* A storage error ends a request of the owner and releases its claim, ... *)
ResolveThrows(h) ==
  /\ Is(h, "approve") \/ Is(h, "reject")
  /\ handlers[h].at \in {"check", "open", "row", "save", "find", "close", "record", "append"} /\ Fault
  /\ Go(h, "unclaim")
  /\ UNCHANGED <<vaultVars, bills, rows, claims, decided, payments, history>>

(* ... and any other call, like the death of the process. *)
Kill(h) ==
  /\ ~At(h, "idle") /\ Fault
  /\ Done(h)
  /\ UNCHANGED <<vaultVars, bills, rows, claims, decided, payments, history>>

(* Revenue and the daily tick put what is unallocated where it pays bills, *)
(* and record that they did.                                               *)
Fund ==
  /\ FundBills
  /\ handlers' = [g \in Handlers |-> Overtaken(g)]
  /\ UNCHANGED <<bills, rows, claims, decided, payments, history, faults>>

(* The owner allows a payee.  What the owner forbids makes the vault refuse, *)
(* and it may refuse at any time here.                                      *)
OwnerAdmin ==
  /\ \E to \in Payees : SetAllowlist(owner, to, TRUE)
  /\ UNCHANGED serviceVars

World ==
  \/ Fund \/ OwnerAdmin
  \/ \E amount \in Amounts : Inflow(amount) /\ UNCHANGED serviceVars
  \/ VaultTick /\ UNCHANGED serviceVars

Begin(h) ==
  \/ \E b \in Bills : Intake(h, b) \/ \E e \in Events : PickDue(h, e, b)
  \/ \E i \in DOMAIN rows, flow \in {"approve", "reject"} : BeginResolve(h, i, flow)
  \/ ListStale(h)

Continue(h) ==
  \/ TakeClaim(h) \/ Unclaim(h) \/ ReadBills(h) \/ EngineThrows(h) \/ Decide(h)
  \/ \E b \in Bills : ProposeUnmatched(h, b) \/ \E place \in Place : ProposePayout(h, b, place)
  \/ \E status \in Results : ProposeAside(h, status)
  \/ Finish(h) \/ PayBill(h) \/ PayFails(h) \/ OpenRow(h) \/ UpdateBill(h)
  \/ ReadHead(h) \/ AppendDecision(h) \/ Relink(h) \/ RecordThrows(h)
  \/ CheckRow(h) \/ VaultCall(h) \/ VaultCallRefused(h) \/ ApproveFresh(h)
  \/ LoadRow(h) \/ SaveRow(h) \/ FindBill(h) \/ CloseBill(h)
  \/ SaveExpired(h) \/ \E called \in BOOLEAN : ExpireNext(h, called)

OperatorStep ==
  \/ World
  \/ \E h \in Handlers :
       \/ Begin(h) \/ Continue(h) \/ VaultCallFails(h) \/ ResolveThrows(h) \/ Kill(h)
       \/ \E hash \in BOOLEAN : PayLost(h, hash) \/ VaultCallLost(h, hash)

OperatorSpec == OperatorInit /\ [][OperatorStep]_operatorVars

-----------------------------------------------------------------------------
(* No event is decided twice, and a bill is paid no more often than        *)
(* payouts of it were decided on, whichever calls race over its events and *)
(* its escalations and whoever releases a claim.  Once more for each       *)
(* answer that was lost and call that was cut off, and for each request    *)
(* the owner makes on a row while the approval that opened it is under way. *)
BillPaidOnce ==
  /\ \A e \in Events : acted[e] <= 1
  /\ \A b \in Bills : payments[b] <= planned[b] + overlaps + faults

(* A bill the books call paid was paid by the vault, unless a decision     *)
(* about it executed something else: updateBill takes that for a payment.  *)
PaidIsPaid == \A b \in Bills \ aside : bills[b] = "paid" => payments[b] > 0
=============================================================================
