----------------------------- MODULE LedgerProofs -----------------------------
(***************************************************************************)
(* The contracts beside the operator's vault and the escrow tasks: what    *)
(* they hold for others is paid out once, to the side the contract names,  *)
(* and metered as promised.  For any number of deals, streams, tasks and   *)
(* requests, and any amounts and rates.                                    *)
(***************************************************************************)
EXTENDS MCLedgers, OperatorProofs, TLAPS

(* Deals: what was paid and by which side it was taken follow the state.   *)
DealInv == EscrowTypeOK /\ DealPaysOnce

LEMMA HomeIsContract == \A id : Home(id) \in Contracts
BY DEF Home, Contracts

LEMMA CreateAndFundInv ==
  ASSUME DealInv, NEW who \in People, NEW id \in Ids, NEW seller \in People, NEW arbiter \in People,
         NEW amount \in Prices, CreateAndFund(who, id, seller, arbiter, amount)
  PROVE  DealInv'
<1> USE EscrowPricesAssumption
<1> DEFINE deal == [buyer |-> who, seller |-> seller, arbiter |-> arbiter, amount |-> amount, state |-> "Funded"]
<1>1. deal \in Deal /\ amount \in Nat
  BY DEF Deal
<1>2. deals' = [deals EXCEPT ![id] = deal] /\ deals[id].state = "None"
  BY DEF CreateAndFund
<1>3. balance' \in [Contracts -> Nat]
  BY <1>1, HomeIsContract DEF CreateAndFund, DealInv, EscrowTypeOK
<1>4. deal.state = "Funded"
  OBVIOUS
<1> HIDE DEF deal
<1>5. EscrowTypeOK'
  BY <1>1, <1>2, <1>3 DEF CreateAndFund, DealInv, EscrowTypeOK
<1>6. \A i \in Ids : deals'[i] = IF i = id THEN deal ELSE deals[i]
  BY <1>2 DEF DealInv, EscrowTypeOK
<1>7. DealPaysOnce'
  BY <1>2, <1>4, <1>6 DEF CreateAndFund, DealInv, DealPaysOnce
<1> QED
  BY <1>5, <1>7 DEF DealInv

LEMMA PayInv ==
  ASSUME DealInv, NEW id \in Ids, NEW who \in People, ReleaseDeal(who, id) \/ RefundDeal(who, id)
  PROVE  DealInv'
<1> DEFINE state == deals'[id].state
           amount == deals[id].amount
<1>1. /\ deals[id] \in Deal /\ amount \in Nat /\ deals[id].state \in {"Funded", "Disputed"}
  BY DEF ReleaseDeal, RefundDeal, Pay, Live, DealInv, EscrowTypeOK, Deal
<1>2. PICK status \in {"Released", "Refunded"} :
        /\ Pay(id, status)
        /\ IF status = "Released"
           THEN toSeller' = [toSeller EXCEPT ![id] = @ + amount] /\ UNCHANGED toBuyer
           ELSE toBuyer' = [toBuyer EXCEPT ![id] = @ + amount] /\ UNCHANGED toSeller
  BY DEF ReleaseDeal, RefundDeal
<1> DEFINE deal == [deals[id] EXCEPT !.state = status]
<1>3. deal \in Deal /\ deal.state = status /\ deal.amount = amount
  BY <1>1 DEF Deal
<1>4. deals' = [deals EXCEPT ![id] = deal]
  BY <1>2 DEF Pay
<1> HIDE DEF deal
<1>5. balance' \in [Contracts -> Nat]
  <2>1. amount <= balance[Home(id)] /\ balance' = [balance EXCEPT ![Home(id)] = @ - amount]
    BY <1>2 DEF Pay
  <2>2. balance \in [Contracts -> Nat] /\ Home(id) \in Contracts
    BY HomeIsContract DEF DealInv, EscrowTypeOK
  <2> QED
    BY <1>1, <2>1, <2>2
<1>6. /\ toSeller \in [Ids -> Nat] /\ toBuyer \in [Ids -> Nat] /\ deals \in [Ids -> Deal]
      /\ toSeller[id] = 0 /\ toBuyer[id] = 0
  BY <1>1 DEF DealInv, EscrowTypeOK, DealPaysOnce
<1>7. /\ toSeller' = [toSeller EXCEPT ![id] = IF status = "Released" THEN amount ELSE 0]
      /\ toBuyer' = [toBuyer EXCEPT ![id] = IF status = "Refunded" THEN amount ELSE 0]
  BY <1>1, <1>2, <1>6
<1>8. EscrowTypeOK'
  BY <1>1, <1>3, <1>4, <1>5, <1>6, <1>7 DEF EscrowTypeOK
<1>9. DealPaysOnce'
  BY <1>3, <1>4, <1>6, <1>7 DEF DealInv, DealPaysOnce
<1> QED
  BY <1>8, <1>9 DEF DealInv

LEMMA DisputeInv ==
  ASSUME DealInv, NEW id \in Ids, NEW who \in People, Dispute(who, id)
  PROVE  DealInv'
<1> DEFINE deal == [deals[id] EXCEPT !.state = "Disputed"]
<1>1. deals[id] \in Deal /\ deals[id].state = "Funded" /\ deals \in [Ids -> Deal]
  BY DEF Dispute, DealInv, EscrowTypeOK
<1>2. deal \in Deal /\ deal.state = "Disputed"
  BY <1>1 DEF Deal
<1>3. deals' = [deals EXCEPT ![id] = deal]
  BY DEF Dispute
<1> HIDE DEF deal
<1>4. EscrowTypeOK'
  BY <1>1, <1>2, <1>3 DEF Dispute, DealInv, EscrowTypeOK
<1>5. DealPaysOnce'
  BY <1>1, <1>2, <1>3 DEF Dispute, DealInv, DealPaysOnce
<1> QED
  BY <1>4, <1>5 DEF DealInv

(* An escrow or a bond pays once, all of it, to the side its state names.  *)
THEOREM DealsPayOnce == EscrowSpec => [](EscrowTypeOK /\ DealPaysOnce)
<1>1. EscrowInit => DealInv
  <2> SUFFICES ASSUME EscrowInit PROVE DealInv
    OBVIOUS
  <2> DEFINE none == [buyer |-> NoPerson, seller |-> NoPerson, arbiter |-> NoPerson, amount |-> 0, state |-> "None"]
  <2>1. none \in Deal /\ none.state = "None"
    BY DEF Deal
  <2>2. deals = [id \in Ids |-> none]
    BY DEF EscrowInit
  <2> HIDE DEF none
  <2> QED
    BY <2>1, <2>2 DEF EscrowInit, DealInv, EscrowTypeOK, DealPaysOnce
<1>2. DealInv /\ [EscrowNext]_escrowVars => DealInv'
  <2> SUFFICES ASSUME DealInv, [EscrowNext]_escrowVars PROVE DealInv'
    OBVIOUS
  <2>1. CASE EscrowNext
    BY <2>1, CreateAndFundInv, PayInv, DisputeInv DEF EscrowNext
  <2>2. CASE UNCHANGED escrowVars
    BY <2>2 DEF escrowVars, DealInv, EscrowTypeOK, DealPaysOnce
  <2> QED
    BY <2>1, <2>2
<1> QED
  BY <1>1, <1>2, PTL DEF EscrowSpec, DealInv

-----------------------------------------------------------------------------
(* Tasks: a document is coherent wherever it is, in the table or in a      *)
(* request that has still to save it.                                      *)
(* A request that resolves a dispute has its release or refund on record   *)
(* before it looks for the dispute, and stamps one it found.               *)
OnRecord(q) ==
  /\ q.at \in {"dispute", "stamp"} => records[q.task] \cap {"release", "refund"} # {}
  /\ q.at = "stamp" => "dispute" \in records[q.task]
TaskInv == TasksTypeOK /\ TasksCoherent /\ \A r \in Requests : OnRecord(requests[r])

LEMMA MovedCoherent ==
  ASSUME NEW doc \in Task, Coherent(doc), NEW x \in Transitions, doc.status = x[1],
         NeedsWorker(x[2]) => doc.worker
  PROVE  Moved(doc, x[2], x[3]) \in Task /\ Coherent(Moved(doc, x[2], x[3])) /\ x[2] \in Names
<1>1. x[2] \in Names
  BY DEF Names
<1>2. x[3] \in Statuses
  BY DEF Transitions, Statuses
<1>3. /\ doc.worker \in BOOLEAN /\ doc.fundingTx \in BOOLEAN /\ doc.releaseTx \in BOOLEAN
  BY DEF Task
<1> DEFINE worker == doc.worker \/ x[2] = "assign"
           funding == doc.fundingTx \/ x[2] = "fund"
           release == doc.releaseTx \/ x[2] \in Releasing
<1>4. worker \in BOOLEAN /\ funding \in BOOLEAN /\ release \in BOOLEAN
  BY <1>3
<1>5. /\ x[3] \in Statuses \ {"created", "refunded"} => funding
      /\ x[3] \in {"assigned", "submitted", "approved", "released"} => worker
      /\ x[3] = "released" <=> release
  BY <1>3 DEF Coherent, Transitions, Statuses, Releasing, NeedsWorker
<1> HIDE DEF worker, funding, release
<1>6. Moved(doc, x[2], x[3]) = [status |-> x[3], worker |-> worker, fundingTx |-> funding, releaseTx |-> release]
  BY DEF Moved, worker, funding, release
<1> QED
  BY <1>1, <1>2, <1>4, <1>5, <1>6 DEF Coherent, Task

LEMMA RequestUnderWay ==
  ASSUME TaskInv, NEW r \in Requests, requests[r].at # "idle"
  PROVE  /\ requests[r] \in [at : {"save", "record", "dispute", "stamp"}, task : Tasks, transition : Names, doc : Task]
         /\ requests[r] # Idle /\ Coherent(requests[r].doc) /\ requests[r].task \in Tasks /\ requests[r].doc \in Task
<1>1. requests[r] \in Request /\ requests[r] # Idle
  BY DEF TaskInv, TasksTypeOK, Idle
<1>2. requests[r] \in [at : {"save", "record", "dispute", "stamp"}, task : Tasks, transition : Names, doc : Task]
  BY <1>1 DEF Request
<1> QED
  BY <1>1, <1>2 DEF TaskInv, TasksCoherent

LEMMA RequestStep ==
  ASSUME TaskInv, NEW r \in Requests, NEW new \in Request, requests' = [requests EXCEPT ![r] = new],
         new # Idle => Coherent(new.doc), records' \in [Tasks -> SUBSET Records],
         \A t \in Tasks : records[t] \subseteq records'[t] \cup {"resolved"},
         new.at \in {"dispute", "stamp"} => records'[new.task] \cap {"release", "refund"} # {},
         new.at = "stamp" => "dispute" \in records'[new.task]
  PROVE  /\ requests' \in [Requests -> Request]
         /\ \A q \in Requests : requests'[q] # Idle => Coherent(requests'[q].doc)
         /\ \A q \in Requests : OnRecord(requests[q])'
<1>1. requests' \in [Requests -> Request] /\ requests'[r] = new
      /\ \A q \in Requests \ {r} : requests'[q] = requests[q]
  BY DEF TaskInv, TasksTypeOK
<1>2. \A q \in Requests : requests'[q] # Idle => Coherent(requests'[q].doc)
  BY <1>1 DEF TaskInv, TasksCoherent
<1>3. OnRecord(requests[r])'
  BY <1>1 DEF OnRecord
<1>4. ASSUME NEW q \in Requests, q # r PROVE OnRecord(requests[q])'
  <2>1. CASE requests[q].at \in {"dispute", "stamp"}
    <3>1. requests[q].task \in Tasks /\ OnRecord(requests[q])
      BY <2>1, RequestUnderWay DEF TaskInv
    <3> QED
      BY <1>1, <1>4, <3>1 DEF OnRecord
  <2>2. CASE requests[q].at \notin {"dispute", "stamp"}
    BY <1>1, <1>4, <2>2 DEF OnRecord
  <2> QED
    BY <2>1, <2>2
<1> QED
  BY <1>1, <1>2, <1>3, <1>4

(* A dispute that reads resolved has what resolved it on record.           *)
Stamped == \A t \in Tasks :
  "resolved" \in records[t] => "dispute" \in records[t] /\ records[t] \cap {"release", "refund"} # {}

LEMMA LoadInv ==
  ASSUME TaskInv, NEW r \in Requests, NEW t \in Tasks, Load(r, t)
  PROVE  TaskInv'
<1>1. PICK x \in Transitions :
        /\ tasks[t].status = x[1] /\ (NeedsWorker(x[2]) => tasks[t].worker)
        /\ requests' = [requests EXCEPT ![r] =
             [at |-> "save", task |-> t, transition |-> x[2], doc |-> Moved(tasks[t], x[2], x[3])]]
  BY DEF Load
<1> DEFINE doc == Moved(tasks[t], x[2], x[3])
           new == [at |-> "save", task |-> t, transition |-> x[2], doc |-> doc]
<1>2. doc \in Task /\ Coherent(doc) /\ x[2] \in Names
  BY <1>1, MovedCoherent DEF TaskInv, TasksTypeOK, TasksCoherent
<1>3. requests' = [requests EXCEPT ![r] = new] /\ UNCHANGED <<tasks, records, cuts>>
  BY <1>1 DEF Load
<1> HIDE DEF doc
<1>4. new \in Request /\ new.doc = doc /\ new.at = "save"
  BY <1>2 DEF Request
<1> HIDE DEF new
<1>5. records' \in [Tasks -> SUBSET Records]
  BY <1>3 DEF TaskInv, TasksTypeOK
<1>6. /\ requests' \in [Requests -> Request]
      /\ \A q \in Requests : requests'[q] # Idle => Coherent(requests'[q].doc)
      /\ \A q \in Requests : OnRecord(requests[q])'
  BY <1>2, <1>3, <1>4, <1>5, RequestStep
<1> QED
  BY <1>3, <1>6 DEF TaskInv, TasksTypeOK, TasksCoherent

LEMMA SaveTaskInv ==
  ASSUME TaskInv, NEW r \in Requests, SaveTask(r)
  PROVE  TaskInv'
<1> DEFINE q == requests[r]
           new == IF RecordOf(q.transition) = {} THEN Idle ELSE [q EXCEPT !.at = "record"]
<1>1. /\ q \in [at : {"save", "record", "dispute", "stamp"}, task : Tasks, transition : Names, doc : Task]
      /\ Coherent(q.doc) /\ q.task \in Tasks /\ q.doc \in Task
  BY RequestUnderWay DEF SaveTask
<1>2. new \in Request /\ (new # Idle => new.doc = q.doc) /\ new.at \in {"idle", "record"}
  BY <1>1 DEF Request, Idle
<1>3. /\ requests' = [requests EXCEPT ![r] = new] /\ tasks' = [tasks EXCEPT ![q.task] = q.doc]
      /\ UNCHANGED <<records, cuts>>
  BY DEF SaveTask
<1> HIDE DEF new
<1>4. records' \in [Tasks -> SUBSET Records]
  BY <1>3 DEF TaskInv, TasksTypeOK
<1>5. /\ requests' \in [Requests -> Request]
      /\ \A p \in Requests : requests'[p] # Idle => Coherent(requests'[p].doc)
      /\ \A p \in Requests : OnRecord(requests[p])'
  BY <1>1, <1>2, <1>3, <1>4, RequestStep
<1> QED
  BY <1>1, <1>3, <1>5 DEF TaskInv, TasksTypeOK, TasksCoherent

LEMMA RecordOfRecords ==
  /\ \A transition : RecordOf(transition) \subseteq Records \ {"resolved"}
  /\ \A transition \in Resolving : RecordOf(transition) \cap {"release", "refund"} # {}
BY DEF RecordOf, Records, Resolving, Releasing

LEMMA SaveRecordInv ==
  ASSUME TaskInv, NEW r \in Requests, SaveRecord(r)
  PROVE  TaskInv'
<1> DEFINE q == requests[r]
           new == IF q.transition \in Resolving THEN [q EXCEPT !.at = "dispute"] ELSE Idle
           kept == IF q.transition = "open_dispute" THEN records[q.task] \ {"resolved"} ELSE records[q.task]
           all == kept \cup RecordOf(q.transition)
<1>1. /\ q \in [at : {"save", "record", "dispute", "stamp"}, task : Tasks, transition : Names, doc : Task]
      /\ Coherent(q.doc) /\ q.task \in Tasks /\ q.doc \in Task
  BY RequestUnderWay DEF SaveRecord
<1>2. /\ new \in Request /\ (new # Idle => new.doc = q.doc) /\ new.at # "stamp"
      /\ new.at = "dispute" => new.task = q.task /\ q.transition \in Resolving
  BY <1>1 DEF Request, Idle
<1>3. /\ requests' = [requests EXCEPT ![r] = new] /\ UNCHANGED <<tasks, cuts>>
      /\ records' = [records EXCEPT ![q.task] = all]
  BY DEF SaveRecord
<1>4. /\ all \in SUBSET Records /\ records[q.task] \subseteq all \cup {"resolved"}
      /\ "resolved" \in all => "resolved" \in records[q.task]
      /\ q.transition \in Resolving => all \cap {"release", "refund"} # {}
  BY <1>1, RecordOfRecords DEF TaskInv, TasksTypeOK
<1> HIDE DEF new, all
<1>5. /\ records' \in [Tasks -> SUBSET Records] /\ records'[q.task] = all
      /\ \A t \in Tasks \ {q.task} : records'[t] = records[t]
  BY <1>1, <1>3, <1>4 DEF TaskInv, TasksTypeOK
<1>6. \A t \in Tasks : records[t] \subseteq records'[t] \cup {"resolved"}
  BY <1>4, <1>5
<1>7. /\ new.at \in {"dispute", "stamp"} => records'[new.task] \cap {"release", "refund"} # {}
      /\ new.at = "stamp" => "dispute" \in records'[new.task]
  BY <1>2, <1>4, <1>5
<1>8. new # Idle => Coherent(new.doc)
  BY <1>1, <1>2
<1>9. /\ requests' \in [Requests -> Request]
      /\ \A p \in Requests : requests'[p] # Idle => Coherent(requests'[p].doc)
      /\ \A p \in Requests : OnRecord(requests[p])'
  BY <1>2, <1>3, <1>5, <1>6, <1>7, <1>8, RequestStep
<1>10. Stamped'
  <2>1. Stamped
    BY DEF TaskInv, TasksCoherent, Stamped
  <2>2. ASSUME NEW t \in Tasks, "resolved" \in records'[t]
        PROVE  "dispute" \in records'[t] /\ records'[t] \cap {"release", "refund"} # {}
    <3>1. "resolved" \in records[t]
      BY <1>4, <1>5, <2>2
    <3> QED
      BY <1>6, <2>1, <3>1 DEF Stamped
  <2> QED
    BY <2>2 DEF Stamped
<1> QED
  BY <1>3, <1>5, <1>9, <1>10 DEF TaskInv, TasksTypeOK, TasksCoherent, Stamped

LEMMA FindDisputeInv ==
  ASSUME TaskInv, NEW r \in Requests, FindDispute(r)
  PROVE  TaskInv'
<1> DEFINE q == requests[r]
           new == IF "dispute" \in records[q.task] THEN [q EXCEPT !.at = "stamp"] ELSE Idle
<1>1. /\ q \in [at : {"save", "record", "dispute", "stamp"}, task : Tasks, transition : Names, doc : Task]
      /\ Coherent(q.doc) /\ q.task \in Tasks /\ q.doc \in Task /\ q.at = "dispute"
  BY RequestUnderWay DEF FindDispute
<1>2. /\ new \in Request /\ (new # Idle => new.doc = q.doc) /\ new.at \in {"idle", "stamp"}
      /\ new.at = "stamp" => new.task = q.task /\ "dispute" \in records[q.task]
  BY <1>1 DEF Request, Idle
<1>3. requests' = [requests EXCEPT ![r] = new] /\ UNCHANGED <<tasks, records, cuts>>
  BY DEF FindDispute
<1> HIDE DEF new
<1>4. records[q.task] \cap {"release", "refund"} # {}
  BY <1>1 DEF TaskInv, OnRecord
<1>5. records' \in [Tasks -> SUBSET Records]
  BY <1>3 DEF TaskInv, TasksTypeOK
<1>6. /\ requests' \in [Requests -> Request]
      /\ \A p \in Requests : requests'[p] # Idle => Coherent(requests'[p].doc)
      /\ \A p \in Requests : OnRecord(requests[p])'
  BY <1>1, <1>2, <1>3, <1>4, <1>5, RequestStep
<1> QED
  BY <1>3, <1>6 DEF TaskInv, TasksTypeOK, TasksCoherent

LEMMA StampDisputeInv ==
  ASSUME TaskInv, NEW r \in Requests, StampDispute(r)
  PROVE  TaskInv'
<1> DEFINE t == requests[r].task
<1>1. /\ t \in Tasks /\ "dispute" \in records[t] /\ records[t] \cap {"release", "refund"} # {}
  BY RequestUnderWay DEF StampDispute, TaskInv, OnRecord
<1>2. /\ requests' = [requests EXCEPT ![r] = Idle] /\ Idle \in Request /\ Idle.at = "idle"
      /\ records' = [records EXCEPT ![t] = @ \cup {"resolved"}] /\ UNCHANGED <<tasks, cuts>>
  BY DEF StampDispute, Request, Idle
<1> HIDE DEF t
<1>3. /\ records' \in [Tasks -> SUBSET Records] /\ records'[t] = records[t] \cup {"resolved"}
      /\ \A k \in Tasks \ {t} : records'[k] = records[k]
  BY <1>1, <1>2 DEF TaskInv, TasksTypeOK, Records
<1>4. \A k \in Tasks : records[k] \subseteq records'[k] \cup {"resolved"}
  BY <1>3
<1>5. /\ requests' \in [Requests -> Request]
      /\ \A p \in Requests : requests'[p] # Idle => Coherent(requests'[p].doc)
      /\ \A p \in Requests : OnRecord(requests[p])'
  BY <1>2, <1>3, <1>4, RequestStep
<1>6. Stamped'
  BY <1>1, <1>3 DEF TaskInv, TasksCoherent, Stamped
<1> QED
  BY <1>2, <1>3, <1>5, <1>6 DEF TaskInv, TasksTypeOK, TasksCoherent, Stamped

LEMMA CutInv ==
  ASSUME TaskInv, NEW r \in Requests, Cut(r)
  PROVE  TaskInv'
<1>1. /\ requests' = [requests EXCEPT ![r] = Idle] /\ Idle \in Request /\ Idle.at = "idle"
      /\ UNCHANGED <<tasks, records>> /\ cuts' = cuts + 1
  BY DEF Cut, Request, Idle
<1>2. records' \in [Tasks -> SUBSET Records]
  BY <1>1 DEF TaskInv, TasksTypeOK
<1>3. /\ requests' \in [Requests -> Request]
      /\ \A p \in Requests : requests'[p] # Idle => Coherent(requests'[p].doc)
      /\ \A p \in Requests : OnRecord(requests[p])'
  BY <1>1, <1>2, RequestStep
<1> QED
  BY <1>1, <1>3 DEF TaskInv, TasksTypeOK, TasksCoherent

(* Requests overlap and die, and no task is ever a mixture of two states.  *)
THEOREM TasksStayCoherent == TasksSpec => [](TasksTypeOK /\ TasksCoherent)
<1>1. TasksInit => TaskInv
  BY DEF TasksInit, TaskInv, TasksTypeOK, TasksCoherent, Coherent, Task, Statuses, Request, Idle, OnRecord
<1>2. TaskInv /\ [TasksNext]_taskVars => TaskInv'
  <2> SUFFICES ASSUME TaskInv, [TasksNext]_taskVars PROVE TaskInv'
    OBVIOUS
  <2>1. CASE TasksNext
    BY <2>1, LoadInv, SaveTaskInv, SaveRecordInv, FindDisputeInv, StampDisputeInv, CutInv DEF TasksNext
  <2>2. CASE UNCHANGED taskVars
    BY <2>2 DEF taskVars, TaskInv, TasksTypeOK, TasksCoherent, OnRecord
  <2> QED
    BY <2>1, <2>2
<1> QED
  BY <1>1, <1>2, PTL DEF TasksSpec, TaskInv

-----------------------------------------------------------------------------
(* Streams: the meter of each and the money under it.                      *)
Metered(id) ==
  LET s == streams[id]
  IN /\ s.settled <= s.accrued /\ s.accrued <= s.reserve /\ s.lastTick <= now
     /\ s.active => s.open
StreamInv == StreamTypeOK /\ (\A id \in Streams : Metered(id)) /\ StreamConserved /\ ActiveTimeBilled

LEMMA CappedNat ==
  ASSUME NEW a \in Nat, NEW b \in Nat
  PROVE  Capped(a, b) \in Nat /\ Capped(a, b) <= b /\ Capped(0, b) = 0
BY DEF Capped

LEMMA TimesNat ==
  ASSUME NEW m \in Nat, NEW r \in Nat
  PROVE  m * r \in Nat /\ (m + 1) * r = m * r + r /\ 0 * r = 0
OBVIOUS

(* What advancing the meter of a stream makes of it. *)
LEMMA AdvancedStream ==
  ASSUME StreamInv, NEW id \in Streams
  PROVE  LET s == streams[id]
             t == Advanced(s)
         IN /\ t \in Stream
            /\ t.accrued = PreviewAccrued(s) /\ s.accrued <= t.accrued /\ t.accrued <= t.reserve
            /\ t.lastTick <= now /\ (t.active => t.lastTick = now)
            /\ t.payer = s.payer /\ t.payee = s.payee /\ t.ratePerSecond = s.ratePerSecond
            /\ t.reserve = s.reserve /\ t.settled = s.settled /\ t.open = s.open /\ t.active = s.active
<1> DEFINE s == streams[id]
           t == Advanced(s)
           step == Capped((now - s.lastTick) * s.ratePerSecond, s.reserve - s.accrued)
<1>1. /\ s \in Stream /\ now \in Nat
      /\ s.settled \in Nat /\ s.accrued \in Nat /\ s.reserve \in Nat /\ s.lastTick \in Nat /\ s.ratePerSecond \in Nat
      /\ s.accrued <= s.reserve /\ s.lastTick <= now /\ s.active \in BOOLEAN
  BY DEF StreamInv, StreamTypeOK, Metered, Stream
<1>2. now - s.lastTick \in Nat /\ s.reserve - s.accrued \in Nat
  BY <1>1
<1>3. (now - s.lastTick) * s.ratePerSecond \in Nat
  BY <1>1, <1>2, TimesNat
<1>4. step \in Nat /\ step <= s.reserve - s.accrued
  BY <1>2, <1>3, CappedNat
<1>5. PreviewAccrued(s) = IF s.active THEN s.accrued + step ELSE s.accrued
  BY DEF PreviewAccrued
<1> HIDE DEF step
<1>6. PreviewAccrued(s) \in Nat /\ s.accrued <= PreviewAccrued(s) /\ PreviewAccrued(s) <= s.reserve
  BY <1>1, <1>4, <1>5
<1> HIDE DEF s
<1>7. CASE s.active
  <2> DEFINE new == [s EXCEPT !.accrued = PreviewAccrued(s), !.lastTick = now]
  <2>1. new \in Stream
    BY <1>1, <1>6 DEF Stream
  <2>2. /\ new.accrued = PreviewAccrued(s) /\ new.lastTick = now
        /\ new.payer = s.payer /\ new.payee = s.payee /\ new.ratePerSecond = s.ratePerSecond
        /\ new.reserve = s.reserve /\ new.settled = s.settled /\ new.open = s.open /\ new.active = s.active
    BY <1>1 DEF Stream
  <2>3. t = new
    BY <1>7 DEF Advanced
  <2> HIDE DEF new, t
  <2> QED
    BY <1>1, <1>6, <2>1, <2>2, <2>3 DEF s, t
<1>8. CASE ~s.active
  <2>1. t = s
    BY <1>8 DEF Advanced
  <2> HIDE DEF t
  <2> QED
    BY <1>1, <1>5, <1>6, <1>8, <2>1 DEF s, t
<1> QED
  BY <1>7, <1>8

(* A meter that is advanced, or stopped, has billed what it shows. *)
LEMMA FreshMeter ==
  ASSUME NEW s \in Stream, now \in Nat, s.accrued <= s.reserve, s.active => s.lastTick = now
  PROVE  PreviewAccrued(s) = s.accrued
<1>1. s.accrued \in Nat /\ s.reserve \in Nat /\ s.ratePerSecond \in Nat /\ s.reserve - s.accrued \in Nat
  BY DEF Stream
<1>2. CASE s.active
  <2>1. (now - s.lastTick) * s.ratePerSecond = 0
    <3>1. now - s.lastTick = 0
      BY <1>2
    <3> QED
      BY <1>1, <3>1, TimesNat
  <2>2. Capped((now - s.lastTick) * s.ratePerSecond, s.reserve - s.accrued) = 0
    BY <1>1, <2>1, CappedNat
  <2> QED
    BY <1>1, <1>2, <2>2 DEF PreviewAccrued
<1>3. CASE ~s.active
  BY <1>3 DEF PreviewAccrued
<1> QED
  BY <1>2, <1>3

(* A step that moves one stream keeps the invariant if it does of that one. *)
LEMMA OneStreamStep ==
  ASSUME StreamInv, NEW id \in Streams, NEW t \in Stream, streams' = [streams EXCEPT ![id] = t],
         now' = now, pool' \in Nat, deposited' \in [Streams -> Nat], paidToPayee' \in [Streams -> Nat],
         refunded' \in [Streams -> Nat], metered' \in [Streams -> Nat], opens' \in [Streams -> Nat],
         \A i \in Streams \ {id} :
           /\ deposited'[i] = deposited[i] /\ paidToPayee'[i] = paidToPayee[i]
           /\ refunded'[i] = refunded[i] /\ metered'[i] = metered[i],
         t.settled <= t.accrued, t.accrued <= t.reserve, t.lastTick <= now, t.active => t.open,
         deposited'[id] = paidToPayee'[id] + refunded'[id] + (IF t.open THEN t.reserve - t.settled ELSE 0),
         t.open => PreviewAccrued(t) = Capped(metered'[id] * t.ratePerSecond, t.reserve)
  PROVE  StreamInv'
<1>1. streams \in [Streams -> Stream] /\ now \in Nat
  BY DEF StreamInv, StreamTypeOK
<1>2. streams'[id] = t /\ \A i \in Streams \ {id} : streams'[i] = streams[i]
  BY <1>1
<1>3. StreamTypeOK'
  BY <1>1 DEF StreamTypeOK
<1>4. ASSUME NEW i \in Streams PROVE Metered(i)'
  <2>1. CASE i = id
    BY <1>2, <2>1 DEF Metered
  <2>2. CASE i # id
    BY <1>2, <2>2 DEF Metered, StreamInv
  <2> QED
    BY <2>1, <2>2
<1>5. StreamConserved'
  BY <1>2 DEF StreamInv, StreamConserved
<1>6. ASSUME NEW i \in Streams, streams'[i].open
      PROVE  PreviewAccrued(streams[i])' = Capped(metered'[i] * streams'[i].ratePerSecond, streams'[i].reserve)
  <2>1. CASE i = id
    <3>1. PreviewAccrued(streams[i])' = PreviewAccrued(t)
      BY <1>2, <2>1 DEF PreviewAccrued
    <3> QED
      BY <1>2, <1>6, <2>1, <3>1
  <2>2. CASE i # id
    <3>1. PreviewAccrued(streams[i])' = PreviewAccrued(streams[i])
      BY <1>2, <2>2 DEF PreviewAccrued
    <3> QED
      BY <1>2, <1>6, <2>2, <3>1 DEF StreamInv, ActiveTimeBilled
  <2> QED
    BY <2>1, <2>2
<1>7. ActiveTimeBilled'
  BY <1>6 DEF ActiveTimeBilled
<1> QED
  BY <1>3, <1>4, <1>5, <1>7 DEF StreamInv

LEMMA StreamTypes ==
  ASSUME StreamInv, NEW id \in Streams
  PROVE  LET s == streams[id]
         IN /\ s \in Stream /\ now \in Nat /\ pool \in Nat
            /\ s.reserve \in Nat /\ s.accrued \in Nat /\ s.settled \in Nat /\ s.ratePerSecond \in Nat
            /\ s.settled <= s.accrued /\ s.accrued <= s.reserve /\ s.lastTick <= now /\ (s.active => s.open)
            /\ deposited \in [Streams -> Nat] /\ paidToPayee \in [Streams -> Nat]
            /\ refunded \in [Streams -> Nat] /\ metered \in [Streams -> Nat] /\ opens \in [Streams -> Nat]
            /\ deposited[id] = paidToPayee[id] + refunded[id] + (IF s.open THEN s.reserve - s.settled ELSE 0)
            /\ s.open => PreviewAccrued(s) = Capped(metered[id] * s.ratePerSecond, s.reserve)
BY DEF StreamInv, StreamTypeOK, Metered, Stream, StreamConserved, ActiveTimeBilled

LEMMA OpenInv ==
  ASSUME StreamInv, NEW id \in Streams, NEW who \in Parties, NEW payee \in Parties,
         NEW rate \in Rates, NEW reserve \in Reserves, Open(who, id, payee, rate, reserve)
  PROVE  StreamInv'
<1> USE StreamSizesAssumption
<1> DEFINE t == [payer |-> who, payee |-> payee, ratePerSecond |-> rate, reserve |-> reserve,
                 accrued |-> 0, settled |-> 0, lastTick |-> now, active |-> TRUE, open |-> TRUE]
<1>1. rate \in Nat /\ reserve \in Nat /\ now \in Nat
  BY DEF StreamInv, StreamTypeOK
<1>2. /\ t \in Stream /\ t.settled = 0 /\ t.accrued = 0 /\ t.reserve = reserve
      /\ t.lastTick = now /\ t.active /\ t.open /\ t.ratePerSecond = rate
  BY <1>1 DEF Stream
<1>3. streams' = [streams EXCEPT ![id] = t] /\ now' = now /\ ~streams[id].open
  BY DEF Open
<1> HIDE DEF t
<1>4. PreviewAccrued(t) = 0
  BY <1>1, <1>2, FreshMeter
<1>5. metered'[id] = 0 /\ metered' \in [Streams -> Nat]
  BY StreamTypes DEF Open
<1>6. Capped(metered'[id] * t.ratePerSecond, t.reserve) = 0
  <2>1. metered'[id] * t.ratePerSecond = 0
    BY <1>1, <1>2, <1>5, TimesNat
  <2> QED
    BY <1>1, <1>2, <2>1, CappedNat
<1>7. /\ pool' \in Nat /\ deposited' \in [Streams -> Nat] /\ paidToPayee' \in [Streams -> Nat]
      /\ refunded' \in [Streams -> Nat] /\ opens' \in [Streams -> Nat]
      /\ deposited'[id] = paidToPayee'[id] + refunded'[id] + reserve
  BY <1>1, <1>3, StreamTypes DEF Open
<1>8. \A i \in Streams \ {id} :
        /\ deposited'[i] = deposited[i] /\ paidToPayee'[i] = paidToPayee[i]
        /\ refunded'[i] = refunded[i] /\ metered'[i] = metered[i]
  BY StreamTypes DEF Open
<1>9. deposited'[id] = paidToPayee'[id] + refunded'[id] + (IF t.open THEN t.reserve - t.settled ELSE 0)
  BY <1>1, <1>2, <1>7
<1>10. t.settled <= t.accrued /\ t.accrued <= t.reserve /\ t.lastTick <= now
  BY <1>1, <1>2
<1>11. t \in Stream /\ (t.active => t.open) /\ PreviewAccrued(t) = Capped(metered'[id] * t.ratePerSecond, t.reserve)
  BY <1>2, <1>4, <1>6
<1> QED
  BY <1>3, <1>5, <1>7, <1>8, <1>9, <1>10, <1>11, OneStreamStep

LEMMA SettleInv ==
  ASSUME StreamInv, NEW id \in Streams, NEW who \in Parties, Settle(who, id)
  PROVE  StreamInv'
<1> DEFINE s == streams[id]
           a == Advanced(s)
           paid == a.accrued - a.settled
           t == [a EXCEPT !.settled = a.accrued]
<1>1. /\ a \in Stream /\ a.accrued = PreviewAccrued(s) /\ s.accrued <= a.accrued /\ a.accrued <= a.reserve
      /\ a.lastTick <= now /\ (a.active => a.lastTick = now)
      /\ a.ratePerSecond = s.ratePerSecond /\ a.reserve = s.reserve /\ a.settled = s.settled
      /\ a.open = s.open /\ a.active = s.active
  BY AdvancedStream
<1>2. s.open /\ paid <= pool /\ streams' = [streams EXCEPT ![id] = t] /\ now' = now
  BY DEF Settle
<1>3. a.accrued \in Nat /\ a.settled \in Nat /\ a.reserve \in Nat /\ paid \in Nat
  BY <1>1, StreamTypes DEF Stream
<1>4. /\ pool' = pool - paid /\ paidToPayee' = [paidToPayee EXCEPT ![id] = @ + paid]
      /\ deposited' = deposited /\ refunded' = refunded /\ metered' = metered /\ opens' = opens
  BY DEF Settle
<1> HIDE DEF a
<1>5. /\ t \in Stream /\ t.accrued = a.accrued /\ t.settled = a.accrued /\ t.reserve = a.reserve
      /\ t.lastTick = a.lastTick /\ t.active = a.active /\ t.open = a.open /\ t.ratePerSecond = a.ratePerSecond
  BY <1>1, <1>3 DEF Stream
<1> HIDE DEF t
<1>6. t.settled <= t.accrued /\ t.accrued <= t.reserve /\ t.lastTick <= now
  BY <1>1, <1>3, <1>5
<1>7. PreviewAccrued(t) = t.accrued
  BY <1>1, <1>5, <1>6, FreshMeter, StreamTypes
<1>8. t.open => PreviewAccrued(t) = Capped(metered'[id] * t.ratePerSecond, t.reserve)
  BY <1>1, <1>4, <1>5, <1>7, StreamTypes
<1>9. /\ pool' \in Nat /\ paidToPayee' \in [Streams -> Nat] /\ paidToPayee'[id] = paidToPayee[id] + paid
      /\ \A i \in Streams \ {id} : paidToPayee'[i] = paidToPayee[i]
  BY <1>2, <1>3, <1>4, StreamTypes
<1>10. deposited[id] = paidToPayee[id] + refunded[id] + (s.reserve - s.settled)
  BY <1>2, StreamTypes
<1>11. paidToPayee[id] \in Nat /\ refunded[id] \in Nat
  BY StreamTypes
<1>12. deposited'[id] = paidToPayee'[id] + refunded'[id] + (IF t.open THEN t.reserve - t.settled ELSE 0)
  BY <1>1, <1>2, <1>3, <1>4, <1>5, <1>9, <1>10, <1>11
<1>13. t.active => t.open
  BY <1>1, <1>2, <1>5
<1>14. /\ deposited' \in [Streams -> Nat] /\ refunded' \in [Streams -> Nat]
       /\ metered' \in [Streams -> Nat] /\ opens' \in [Streams -> Nat]
  BY <1>4, StreamTypes
<1> QED
  BY <1>2, <1>4, <1>5, <1>6, <1>8, <1>9, <1>12, <1>13, <1>14, OneStreamStep

LEMMA CloseInv ==
  ASSUME StreamInv, NEW id \in Streams, NEW who \in Parties, Close(who, id)
  PROVE  StreamInv'
<1> DEFINE s == streams[id]
           a == Advanced(s)
           tail == a.accrued - a.settled
           refund == a.reserve - a.accrued
           t == [a EXCEPT !.settled = a.accrued, !.open = FALSE, !.active = FALSE]
<1>1. /\ a \in Stream /\ s.accrued <= a.accrued /\ a.accrued <= a.reserve
      /\ a.lastTick <= now /\ a.reserve = s.reserve /\ a.settled = s.settled
  BY AdvancedStream
<1>2. s.open /\ tail + refund <= pool /\ streams' = [streams EXCEPT ![id] = t] /\ now' = now
  BY DEF Close
<1>3. a.accrued \in Nat /\ a.settled \in Nat /\ a.reserve \in Nat /\ tail \in Nat /\ refund \in Nat
  BY <1>1, StreamTypes DEF Stream
<1>4. /\ pool' = pool - (tail + refund) /\ paidToPayee' = [paidToPayee EXCEPT ![id] = @ + tail]
      /\ refunded' = [refunded EXCEPT ![id] = @ + refund]
      /\ deposited' = deposited /\ metered' = metered /\ opens' = opens
  BY DEF Close
<1> HIDE DEF a
<1>5. /\ t \in Stream /\ t.accrued = a.accrued /\ t.settled = a.accrued /\ t.reserve = a.reserve
      /\ t.lastTick = a.lastTick /\ ~t.active /\ ~t.open
  BY <1>1, <1>3 DEF Stream
<1> HIDE DEF t
<1>6. t.settled <= t.accrued /\ t.accrued <= t.reserve /\ t.lastTick <= now
  BY <1>1, <1>3, <1>5
<1>7. /\ pool' \in Nat /\ paidToPayee' \in [Streams -> Nat] /\ refunded' \in [Streams -> Nat]
      /\ paidToPayee'[id] = paidToPayee[id] + tail /\ refunded'[id] = refunded[id] + refund
      /\ \A i \in Streams \ {id} : paidToPayee'[i] = paidToPayee[i] /\ refunded'[i] = refunded[i]
  BY <1>2, <1>3, <1>4, StreamTypes
<1>8. deposited[id] = paidToPayee[id] + refunded[id] + (s.reserve - s.settled)
  BY <1>2, StreamTypes
<1>9. paidToPayee[id] \in Nat /\ refunded[id] \in Nat
  BY StreamTypes
<1>10. deposited'[id] = paidToPayee'[id] + refunded'[id] + (IF t.open THEN t.reserve - t.settled ELSE 0)
  BY <1>1, <1>3, <1>4, <1>5, <1>7, <1>8, <1>9
<1>11. /\ deposited' \in [Streams -> Nat] /\ metered' \in [Streams -> Nat] /\ opens' \in [Streams -> Nat]
  BY <1>4, StreamTypes
<1> QED
  BY <1>2, <1>4, <1>5, <1>6, <1>7, <1>10, <1>11, OneStreamStep

(* A pause advances the meter and stops it, a resumption starts it afresh. *)
LEMMA SwitchInv ==
  ASSUME StreamInv, NEW id \in Streams, NEW who \in Parties, Pause(who, id) \/ Resume(who, id)
  PROVE  StreamInv'
<1> DEFINE s == streams[id]
<1>1. s.open /\ now' = now /\ UNCHANGED <<pool, deposited, paidToPayee, refunded, metered, opens>>
  BY DEF Pause, Resume, moved
<1>2. PICK t \in Stream :
        /\ streams' = [streams EXCEPT ![id] = t]
        /\ t.settled = s.settled /\ t.reserve = s.reserve /\ t.open /\ t.ratePerSecond = s.ratePerSecond
        /\ s.accrued <= t.accrued /\ t.accrued <= t.reserve /\ t.lastTick <= now
        /\ t.active => t.lastTick = now
        /\ t.accrued = PreviewAccrued(s)
  <2>1. CASE Pause(who, id)
    <3> DEFINE a == Advanced(s)
               t == [a EXCEPT !.active = FALSE]
    <3>1. /\ a \in Stream /\ a.accrued = PreviewAccrued(s) /\ s.accrued <= a.accrued /\ a.accrued <= a.reserve
          /\ a.lastTick <= now /\ a.ratePerSecond = s.ratePerSecond /\ a.reserve = s.reserve
          /\ a.settled = s.settled /\ a.open = s.open
      BY AdvancedStream
    <3>2. streams' = [streams EXCEPT ![id] = t]
      BY <2>1 DEF Pause
    <3> HIDE DEF a
    <3>3. /\ t \in Stream /\ t.accrued = a.accrued /\ t.settled = a.settled /\ t.reserve = a.reserve
          /\ t.lastTick = a.lastTick /\ ~t.active /\ t.open = a.open /\ t.ratePerSecond = a.ratePerSecond
      BY <3>1 DEF Stream
    <3> HIDE DEF t
    <3> QED
      BY <1>1, <3>1, <3>2, <3>3
  <2>2. CASE Resume(who, id)
    <3> DEFINE t == [s EXCEPT !.lastTick = now, !.active = TRUE]
    <3>1. streams' = [streams EXCEPT ![id] = t] /\ ~s.active
      BY <2>2, StreamTypes DEF Resume, StreamInv, StreamTypeOK
    <3>2. s \in Stream /\ now \in Nat /\ s.accrued <= s.reserve /\ s.accrued \in Nat
      BY StreamTypes
    <3>3. PreviewAccrued(s) = s.accrued
      BY <3>1 DEF PreviewAccrued
    <3>4. /\ t \in Stream /\ t.accrued = s.accrued /\ t.settled = s.settled /\ t.reserve = s.reserve
          /\ t.lastTick = now /\ t.open = s.open /\ t.ratePerSecond = s.ratePerSecond
      BY <3>2 DEF Stream
    <3> HIDE DEF t
    <3>5. s.accrued <= s.accrued /\ now <= now
      BY <3>2
    <3>6. /\ t.settled = s.settled /\ t.reserve = s.reserve /\ t.open /\ t.ratePerSecond = s.ratePerSecond
          /\ s.accrued <= t.accrued /\ t.accrued <= t.reserve /\ t.lastTick <= now
          /\ t.active => t.lastTick = now
          /\ t.accrued = PreviewAccrued(s)
      BY <1>1, <3>2, <3>3, <3>4, <3>5
    <3> QED
      BY <3>1, <3>4, <3>6
  <2> QED
    BY <2>1, <2>2
<1>3. t.accrued \in Nat /\ s.accrued \in Nat /\ s.settled \in Nat /\ s.settled <= s.accrued
  BY StreamTypes DEF Stream
<1>4. t.settled <= t.accrued
  BY <1>2, <1>3
<1>5. PreviewAccrued(t) = t.accrued
  BY <1>2, FreshMeter, StreamTypes
<1>6. PreviewAccrued(t) = Capped(metered'[id] * t.ratePerSecond, t.reserve)
  BY <1>1, <1>2, <1>5, StreamTypes
<1>7. deposited'[id] = paidToPayee'[id] + refunded'[id] + (IF t.open THEN t.reserve - t.settled ELSE 0)
  BY <1>1, <1>2, StreamTypes
<1>8. /\ pool' \in Nat /\ deposited' \in [Streams -> Nat] /\ paidToPayee' \in [Streams -> Nat]
      /\ refunded' \in [Streams -> Nat] /\ metered' \in [Streams -> Nat] /\ opens' \in [Streams -> Nat]
  BY <1>1, StreamTypes
<1> QED
  BY <1>1, <1>2, <1>4, <1>6, <1>7, <1>8, OneStreamStep

LEMMA StreamTickInv ==
  ASSUME StreamInv, StreamTick
  PROVE  StreamInv'
<1>1. now \in Nat /\ now' = now + 1 /\ streams' = streams /\ UNCHANGED <<pool, deposited, paidToPayee, refunded, opens>>
  BY DEF StreamTick, Tick, StreamInv, StreamTypeOK, moved
<1>2. /\ metered \in [Streams -> Nat] /\ metered' \in [Streams -> Nat]
      /\ \A id \in Streams : metered'[id] = IF streams[id].active THEN metered[id] + 1 ELSE metered[id]
  BY DEF StreamTick, StreamInv, StreamTypeOK
<1>3. StreamTypeOK' /\ StreamConserved'
  BY <1>1, <1>2 DEF StreamInv, StreamTypeOK, StreamConserved
<1>4. ASSUME NEW id \in Streams PROVE Metered(id)'
  <2>1. streams[id].lastTick \in Nat /\ streams[id].lastTick <= now
    BY DEF StreamInv, StreamTypeOK, Metered, Stream
  <2> QED
    BY <1>1, <2>1 DEF StreamInv, Metered
<1>5. ASSUME NEW id \in Streams, streams[id].open
      PROVE  PreviewAccrued(streams[id])' = Capped(metered'[id] * streams[id].ratePerSecond, streams[id].reserve)
  <2> DEFINE s == streams[id]
  <2>1. /\ s.reserve \in Nat /\ s.accrued \in Nat /\ s.accrued <= s.reserve /\ s.ratePerSecond \in Nat
        /\ s.lastTick \in Nat /\ s.lastTick <= now /\ metered[id] \in Nat
        /\ PreviewAccrued(s) = Capped(metered[id] * s.ratePerSecond, s.reserve)
    BY <1>5, StreamTypes DEF Stream
  <2>2. CASE ~s.active
    BY <1>1, <1>2, <2>1, <2>2 DEF PreviewAccrued
  <2>3. CASE s.active
    <3> DEFINE d == now - s.lastTick
               r == s.ratePerSecond
               m == metered[id]
               a == s.accrued
               top == s.reserve
    <3>1. d \in Nat /\ now' - s.lastTick = d + 1
      <4> DEFINE x == s.lastTick
      <4>1. x \in Nat /\ x <= now
        BY <2>1
      <4> HIDE DEF s, x
      <4> QED
        BY <1>1, <4>1 DEF x
    <3>2. Capped(m * r, top) = a + Capped(d * r, top - a)
      BY <2>1, <2>3 DEF PreviewAccrued
    <3>3. PreviewAccrued(s)' = a + Capped((d + 1) * r, top - a)
      BY <1>1, <2>3, <3>1 DEF PreviewAccrued
    <3>4. r \in Nat /\ m \in Nat /\ a \in Nat /\ top \in Nat /\ a <= top
      BY <2>1
    <3> HIDE DEF d, r, m, a, top
    <3>5. Capped((m + 1) * r, top) = a + Capped((d + 1) * r, top - a)
      <4> DEFINE x == m * r
                 y == d * r
      <4>1. x \in Nat /\ y \in Nat /\ (m + 1) * r = x + r /\ (d + 1) * r = y + r
        BY <3>1, <3>4, TimesNat
      <4>2. Capped(x, top) = a + Capped(y, top - a)
        BY <3>2
      <4> HIDE DEF x, y
      <4>3. Capped(x + r, top) = a + Capped(y + r, top - a)
        BY <3>4, <4>1, <4>2 DEF Capped
      <4> QED
        BY <4>1, <4>3
    <3>6. metered'[id] = m + 1
      BY <1>2, <2>3 DEF m
    <3> QED
      BY <3>3, <3>5, <3>6 DEF r, top
  <2> QED
    BY <2>2, <2>3
<1>6. ActiveTimeBilled'
  BY <1>1, <1>5 DEF ActiveTimeBilled
<1> QED
  BY <1>3, <1>4, <1>6 DEF StreamInv

LEMMA NoStreamsInv == ASSUME NoStreams, now \in Nat PROVE StreamInv
<1> DEFINE none == [payer |-> NoParty, payee |-> NoParty, ratePerSecond |-> 0, reserve |-> 0,
                    accrued |-> 0, settled |-> 0, lastTick |-> 0, active |-> FALSE, open |-> FALSE]
<1>1. /\ none \in Stream /\ none.accrued = 0 /\ none.settled = 0 /\ none.reserve = 0
      /\ none.lastTick = 0 /\ ~none.active /\ ~none.open
  BY DEF Stream
<1>2. streams = [id \in Streams |-> none]
  BY DEF NoStreams
<1> HIDE DEF none
<1>3. \A id \in Streams : streams[id] = none
  BY <1>2
<1>4. StreamTypeOK
  BY <1>1, <1>2 DEF NoStreams, StreamTypeOK
<1>5. \A id \in Streams : Metered(id)
  BY <1>1, <1>3 DEF Metered
<1>6. StreamConserved
  BY <1>1, <1>3 DEF NoStreams, StreamConserved
<1>7. ActiveTimeBilled
  BY <1>1, <1>3 DEF ActiveTimeBilled
<1> QED
  BY <1>4, <1>5, <1>6, <1>7 DEF StreamInv

LEMMA StreamInvNext == ASSUME StreamInv, [StreamNext]_streamVars PROVE StreamInv'
<1>1. CASE StreamNext
  BY <1>1, OpenInv, SettleInv, SwitchInv, CloseInv, StreamTickInv DEF StreamNext
<1>2. CASE UNCHANGED streamVars
  BY <1>2 DEF streamVars, moved, StreamInv, StreamTypeOK, Metered, StreamConserved, ActiveTimeBilled, PreviewAccrued
<1> QED
  BY <1>1, <1>2

LEMMA StreamInvHolds == StreamSpec => []StreamInv
<1>1. StreamInit => StreamInv
  BY NoStreamsInv DEF StreamInit, ClockInit
<1>2. StreamInv /\ [StreamNext]_streamVars => StreamInv'
  BY StreamInvNext
<1> QED
  BY <1>1, <1>2, PTL DEF StreamSpec

(* The money of every stream is accounted for. *)
THEOREM StreamsConserve == StreamSpec => [](StreamTypeOK /\ StreamConserved)
<1>1. StreamInv => StreamTypeOK /\ StreamConserved
  BY DEF StreamInv
<1> QED
  BY <1>1, StreamInvHolds, PTL

(* An open stream bills the instants it was active, at its rate, up to its *)
(* reserve, whoever settles, pauses, resumes or reopens it in between.     *)
THEOREM StreamsBillActiveTime == StreamSpec => []ActiveTimeBilled
<1>1. StreamInv => ActiveTimeBilled
  BY DEF StreamInv
<1> QED
  BY <1>1, StreamInvHolds, PTL

-----------------------------------------------------------------------------
(* Side by side.  Where the operator does not move, its service has done   *)
(* nothing, and where the streams do not, none is open.                    *)
LedgersInv ==
  /\ VaultInv
  /\ IF focus = "operator" THEN OperatorInv /\ TokenInv /\ ClaimsInv ELSE ServiceInit
  /\ IF focus = "streams" THEN StreamInv ELSE NoStreams

LEMMA LedgersInitInv == LedgersInit => LedgersInv
<1> SUFFICES ASSUME LedgersInit PROVE LedgersInv
  OBVIOUS
<1>1. caps \in Caps /\ caps.daily \in Nat
  BY VaultCapsAssumption DEF LedgersInit, Caps
<1>2. escalations \in Seq(Escalation) /\ escalations = <<>>
  BY DEF LedgersInit
<1>3. buckets \in [Buckets -> Nat] /\ SplitSum(buckets) \in 0..1 /\ (~SetUp => SplitSum(buckets) = 0)
  BY DEF LedgersInit, Buckets, SplitSum
<1>4. VaultTypeOK
  BY <1>1, <1>2, <1>3, CastAssumption DEF LedgersInit, VaultTypeOK
<1>5. VaultSolvent
  BY <1>3 DEF LedgersInit, VaultSolvent, Accounted
<1>6. OperatorWithinCap /\ WithinToday
  BY <1>1 DEF LedgersInit, OperatorWithinCap, WithinToday
<1>7. VaultInv
  BY <1>4, <1>5, <1>6 DEF VaultInv
<1>8. ServiceInit /\ NoStreams /\ now \in Nat
  BY <1>4 DEF LedgersInit, VaultTypeOK
<1> QED
  BY <1>2, <1>7, <1>8, ServiceInitInv, TokensAtFirst, ClaimsAtFirst, NoStreamsInv DEF LedgersInv

LEMMA ServiceRests == ASSUME ServiceInit, UNCHANGED serviceVars PROVE ServiceInit'
BY DEF ServiceInit, serviceVars, history

LEMMA StreamsRest == ASSUME NoStreams, UNCHANGED contractVars PROVE NoStreams'
BY DEF NoStreams, contractVars, moved

LEMMA LedgersStepInv == ASSUME LedgersInv, [LedgersNext]_ledgerVars PROVE LedgersInv'
<1>1. CASE MoveVault
  <2>1. focus = "vault" /\ focus' = focus /\ UNCHANGED <<serviceVars, contractVars>> /\ VaultNext
    BY <1>1 DEF MoveVault
  <2> QED
    BY <2>1, VaultStepInv, ServiceRests, StreamsRest DEF LedgersInv
<1>2. CASE MoveOperator
  <2>1. focus = "operator" /\ focus' = focus /\ UNCHANGED contractVars /\ OperatorStep
    BY <1>2 DEF MoveOperator
  <2>2. OperatorInv' /\ TokenInv' /\ ClaimsInv'
    BY <2>1, OperatorStepInv, TokensStep, ClaimsStep DEF LedgersInv, TokenInv
  <2> QED
    BY <2>1, <2>2, StreamsRest DEF LedgersInv, OperatorInv
<1>3. CASE MoveStreams
  <2>1. /\ focus = "streams" /\ focus' = focus /\ StreamNext
        /\ UNCHANGED <<funds, escalations, rules, today, received, serviceVars>>
    BY <1>3 DEF MoveStreams
  <2>2. StreamInv'
    BY <2>1, StreamInvNext DEF LedgersInv
  <2>3. VaultInv'
    BY <2>1, <2>2 DEF LedgersInv, StreamInv, StreamTypeOK, VaultInv, VaultTypeOK, VaultSolvent, Accounted,
       OperatorWithinCap, WithinToday, SplitSum, funds, rules, today
  <2> QED
    BY <2>1, <2>2, <2>3, ServiceRests DEF LedgersInv
<1>4. CASE MoveDeals \/ MoveTasks \/ UNCHANGED ledgerVars
  <2>1. UNCHANGED <<focus, operatorVars, contractVars>>
    BY <1>4 DEF MoveDeals, MoveTasks, ledgerVars
  <2>2. UNCHANGED vaultVars /\ UNCHANGED serviceVars
    BY <2>1 DEF operatorVars
  <2>3. VaultInv'
    BY <2>2, VaultStepInv DEF LedgersInv
  <2>4. CASE focus = "operator"
    <3>1. OperatorInv' /\ TokenInv' /\ ClaimsInv'
      BY <2>1, <2>4, OperatorStepInv, TokensStep, ClaimsStep DEF LedgersInv, TokenInv
    <3> QED
      BY <2>1, <2>4, <3>1, StreamsRest DEF LedgersInv, OperatorInv
  <2>5. CASE focus # "operator"
    <3>1. ServiceInit'
      BY <2>2, <2>5, ServiceRests DEF LedgersInv
    <3>2. CASE focus = "streams"
      <4>1. UNCHANGED streamVars
        BY <2>1, <2>2 DEF streamVars, contractVars, vaultVars
      <4> QED
        BY <2>1, <2>3, <3>1, <3>2, <4>1, StreamInvNext DEF LedgersInv
    <3>3. CASE focus # "streams"
      BY <2>1, <2>3, <2>5, <3>1, <3>3, StreamsRest DEF LedgersInv
    <3> QED
      BY <3>2, <3>3
  <2> QED
    BY <2>4, <2>5
<1> QED
  BY <1>1, <1>2, <1>3, <1>4 DEF LedgersNext

(***************************************************************************)
(* The five ledgers side by side keep all that each of them promises, from *)
(* a vault that was set up before the operator starts as from a new one.   *)
(***************************************************************************)
THEOREM LedgersAreSound ==
  LedgersSpec => []( /\ LedgersTypeOK
                     /\ VaultSolvent /\ OperatorWithinCap /\ BillPaidOnce /\ PaidIsPaid
                     /\ StreamConserved /\ ActiveTimeBilled /\ DealPaysOnce /\ TasksCoherent )
<1>1. LedgersSpec => [](EscrowTypeOK /\ DealPaysOnce /\ TasksTypeOK /\ TasksCoherent)
  <2>1. LedgersInit => EscrowInit /\ TasksInit
    BY DEF LedgersInit
  <2>2. [LedgersNext]_ledgerVars => [EscrowNext]_escrowVars /\ [TasksNext]_taskVars
    BY DEF LedgersNext, MoveVault, MoveOperator, MoveStreams, MoveDeals, MoveTasks, ledgerVars
  <2> QED
    BY <2>1, <2>2, DealsPayOnce, TasksStayCoherent, PTL DEF LedgersSpec, EscrowSpec, TasksSpec
<1>2. LedgersInv => /\ VaultTypeOK /\ OperatorTypeOK /\ StreamTypeOK
                    /\ VaultSolvent /\ OperatorWithinCap /\ BillPaidOnce /\ PaidIsPaid
                    /\ StreamConserved /\ ActiveTimeBilled
  <2> SUFFICES ASSUME LedgersInv PROVE /\ VaultTypeOK /\ OperatorTypeOK /\ StreamTypeOK
                                       /\ VaultSolvent /\ OperatorWithinCap /\ BillPaidOnce /\ PaidIsPaid
                                       /\ StreamConserved /\ ActiveTimeBilled
    OBVIOUS
  <2>1. VaultTypeOK /\ VaultSolvent /\ OperatorWithinCap /\ now \in Nat
    BY DEF LedgersInv, VaultInv, VaultTypeOK
  <2>2. StreamInv
    BY <2>1, NoStreamsInv DEF LedgersInv
  <2>3. OperatorInv
    BY ServiceInitInv DEF LedgersInv
  <2>4. BillPaidOnce
    <3>1. CASE focus = "operator"
      BY <3>1, OnceBound DEF LedgersInv
    <3>2. CASE focus # "operator"
      BY <3>2 DEF LedgersInv, ServiceInit, BillPaidOnce
    <3> QED
      BY <3>1, <3>2
  <2>5. OperatorTypeOK /\ PaidIsPaid
    BY <2>3 DEF OperatorInv, ServiceInv, Books, Told, Calls, OperatorTypeOK, RowIds
  <2> QED
    BY <2>1, <2>2, <2>4, <2>5 DEF StreamInv
<1>3. LedgersSpec => []LedgersInv
  <2>1. LedgersInv /\ [LedgersNext]_ledgerVars => LedgersInv'
    BY LedgersStepInv
  <2> QED
    BY <2>1, LedgersInitInv, PTL DEF LedgersSpec
<1>4. VaultTypeOK /\ OperatorTypeOK /\ StreamTypeOK /\ EscrowTypeOK /\ TasksTypeOK => LedgersTypeOK
  BY DEF LedgersTypeOK
<1> QED
  BY <1>1, <1>2, <1>3, <1>4, PTL
=============================================================================
