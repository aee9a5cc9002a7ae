----------------------------- MODULE EscrowTasks -----------------------------
(***************************************************************************)
(* packages/escrow on PgEscrowStore: tasks whose money is held off chain,  *)
(* moved through a table of transitions by the requests of apps/api.       *)
(*                                                                         *)
(* A request reads the task, applies the transition, saves the whole task  *)
(* and then its audit record, in awaits of their own and without a         *)
(* transaction, so requests overlap; it may be cut off between two of      *)
(* them.  Audit records have an id derived from the task's and are         *)
(* overwritten, so each kind is there or not.                              *)
(***************************************************************************)
EXTENDS Naturals

CONSTANTS
  Tasks, Requests,
  MaxCuts           \* bound: requests cut off half way

ASSUME TasksBoundAssumption == MaxCuts \in Nat

Statuses == {"created", "funded", "assigned", "submitted", "approved", "disputed", "released", "refunded"}

(* ESCROW_TRANSITIONS *)
Transitions ==
  {<<"created", "fund", "funded">>, <<"funded", "assign", "assigned">>,
   <<"assigned", "submit", "submitted">>, <<"submitted", "approve", "approved">>,
   <<"approved", "release", "released">>,
   <<"disputed", "resolve_dispute_release", "released">>,
   <<"disputed", "resolve_dispute_refund", "refunded">>}
  \cup {<<s, "refund", "refunded">> : s \in {"created", "funded", "assigned", "submitted"}}
  \cup {<<s, "open_dispute", "disputed">> : s \in {"funded", "assigned", "submitted", "approved"}}

Releasing == {"release", "resolve_dispute_release"}
Resolving == {"resolve_dispute_release", "resolve_dispute_refund"}
Names == {x[2] : x \in Transitions}

(* The audit record a transition saves; assigning a worker saves none. *)
RecordOf(transition) ==
  CASE transition = "fund" -> {"funding"}
    [] transition = "submit" -> {"submission"}
    [] transition = "approve" -> {"review"}
    [] transition \in Releasing -> {"release"}
    [] transition \in {"refund", "resolve_dispute_refund"} -> {"refund"}
    [] transition = "open_dispute" -> {"dispute"}
    [] OTHER -> {}
Records == {"funding", "submission", "review", "release", "refund", "dispute", "resolved"}

VARIABLES
  tasks,            \* escrow_tasks: status, and whether worker and hashes are set
  records,          \* the audit tables, per task
  requests,         \* a request: task, transition, the task it will save, its next await
  cuts              \* history: requests cut off

taskVars == <<tasks, records, requests, cuts>>

Task == [status : Statuses, worker : BOOLEAN, fundingTx : BOOLEAN, releaseTx : BOOLEAN]
Idle == [at |-> "idle"]
Request == {Idle} \cup [at : {"save", "record", "dispute", "stamp"}, task : Tasks, transition : Names, doc : Task]

TasksTypeOK ==
  /\ tasks \in [Tasks -> Task]
  /\ records \in [Tasks -> SUBSET Records]
  /\ requests \in [Requests -> Request]
  /\ cuts \in Nat

TasksInit ==
  /\ tasks = [t \in Tasks |-> [status |-> "created", worker |-> FALSE, fundingTx |-> FALSE, releaseTx |-> FALSE]]
  /\ records = [t \in Tasks |-> {}]
  /\ requests = [r \in Requests |-> Idle]
  /\ cuts = 0

(* The task a transition makes of the one it read. *)
Moved(doc, transition, status) ==
  [status |-> status,
   worker |-> doc.worker \/ transition = "assign",
   fundingTx |-> doc.fundingTx \/ transition = "fund",
   releaseTx |-> doc.releaseTx \/ transition \in Releasing]

(* Mutant: a dispute is released without looking for the worker. *)
NeedsWorkerToSubmit(transition) == transition \in {"submit", "release"}

NeedsWorker(transition) == transition \in Releasing \cup {"submit"}

(* requireTask, then the guarded transition; an illegal one answers 409. *)
Load(r, t) ==
  /\ requests[r] = Idle
  /\ \E x \in Transitions :
       /\ tasks[t].status = x[1]
       /\ NeedsWorker(x[2]) => tasks[t].worker
       /\ requests' = [requests EXCEPT ![r] =
            [at |-> "save", task |-> t, transition |-> x[2], doc |-> Moved(tasks[t], x[2], x[3])]]
  /\ UNCHANGED <<tasks, records, cuts>>

SaveTask(r) ==
  /\ requests[r].at = "save"
  /\ tasks' = [tasks EXCEPT ![requests[r].task] = requests[r].doc]
  /\ requests' = [requests EXCEPT ![r] =
       IF RecordOf(requests[r].transition) = {} THEN Idle ELSE [@ EXCEPT !.at = "record"]]
  /\ UNCHANGED <<records, cuts>>

(* A record overwrites the one of its kind: a dispute opened by an older   *)
(* request takes back the stamp of its resolution.                         *)
SaveRecord(r) ==
  /\ requests[r].at = "record"
  /\ records' = [records EXCEPT ![requests[r].task] =
       (IF requests[r].transition = "open_dispute" THEN @ \ {"resolved"} ELSE @)
         \cup RecordOf(requests[r].transition)]
  /\ requests' = [requests EXCEPT ![r] =
       IF requests[r].transition \in Resolving THEN [@ EXCEPT !.at = "dispute"] ELSE Idle]
  /\ UNCHANGED <<tasks, cuts>>

(* The task may be disputed and its dispute not on record yet. *)
FindDispute(r) ==
  /\ requests[r].at = "dispute"
  /\ requests' = [requests EXCEPT ![r] =
       IF "dispute" \in records[requests[r].task] THEN [@ EXCEPT !.at = "stamp"] ELSE Idle]
  /\ UNCHANGED <<tasks, records, cuts>>

(* The dispute that was found is saved as resolved. *)
StampDispute(r) ==
  /\ requests[r].at = "stamp"
  /\ records' = [records EXCEPT ![requests[r].task] = @ \cup {"resolved"}]
  /\ requests' = [requests EXCEPT ![r] = Idle]
  /\ UNCHANGED <<tasks, cuts>>

Cut(r) ==
  /\ requests[r] # Idle /\ cuts < MaxCuts
  /\ requests' = [requests EXCEPT ![r] = Idle]
  /\ cuts' = cuts + 1
  /\ UNCHANGED <<tasks, records>>

TasksNext ==
  \E r \in Requests :
    \/ \E t \in Tasks : Load(r, t)
    \/ SaveTask(r) \/ SaveRecord(r) \/ FindDispute(r) \/ StampDispute(r) \/ Cut(r)

TasksSpec == TasksInit /\ [][TasksNext]_taskVars

-----------------------------------------------------------------------------
(* Requests that overlap lose each other's updates, but a task is never a  *)
(* mixture of two: money is released only on a task that was funded, has a *)
(* worker and names the release, for every document a request holds too.   *)
(* And a dispute reads resolved only if the release or the refund that     *)
(* resolved it is on record, whoever saved what in between.                *)
Coherent(doc) ==
  /\ doc.status \in Statuses \ {"created", "refunded"} => doc.fundingTx
  /\ doc.status \in {"assigned", "submitted", "approved", "released"} => doc.worker
  /\ doc.status = "released" <=> doc.releaseTx
TasksCoherent ==
  /\ \A t \in Tasks :
       /\ Coherent(tasks[t])
       /\ "resolved" \in records[t] =>
            "dispute" \in records[t] /\ records[t] \cap {"release", "refund"} # {}
  /\ \A r \in Requests : requests[r] # Idle => Coherent(requests[r].doc)
=============================================================================
