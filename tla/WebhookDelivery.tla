--------------------------- MODULE WebhookDelivery ---------------------------
(***************************************************************************)
(* How an event reaches a merchant's endpoint.                             *)
(*                                                                         *)
(* The checkout, the worker and the API enqueue an event under a business  *)
(* key: the event row first, then one job row per subscribed endpoint.     *)
(* The worker's webhook-retry job reads the due jobs once per tick, posts  *)
(* each to its live endpoint on a short schedule, records the attempts on  *)
(* the job, and the failure streak on the endpoint.  The merchant disables,*)
(* enables and rotates endpoints and asks for resends through the API.     *)
(*                                                                         *)
(* Every save writes back a whole document computed from a copy.  An       *)
(* action is the code between two awaits.  Times are abstracted to whether *)
(* nextAttemptAt lies in the future, and a secret, a URL and a response    *)
(* body to nothing: what is left of a rotation is the document it saves.   *)
(***************************************************************************)
EXTENDS Integers, FiniteSets

CONSTANTS
  Keys,          \* events of one organization, by business key
  Endpoints,     \* webhook endpoints subscribed to them
  Manual,        \* identifiers of jobs a merchant queues (resend, test)
  Apps,          \* programs that enqueue events
  Reqs,          \* concurrent endpoint requests of the API
  EditOps,       \* the endpoint routes in use
  TestEvent,     \* the event of a test delivery
  NoJob,         \* the worker works on no job
  TickTries,     \* length of TICK_SCHEDULE
  MaxAttempts,   \* MAX_JOB_ATTEMPTS
  DisableAfter,  \* DEFAULT_DISABLE_AFTER
  MaxFaults,     \* bound: crashes and storage errors
  MaxEdits       \* bound: endpoint requests

ASSUME EditOpsAssumption == EditOps \subseteq {"disable", "enable", "rotate"}
ASSUME TriesAssumption ==
  /\ TickTries \in Nat \ {0} /\ MaxAttempts \in Nat \ {0}
  /\ DisableAfter \in Nat \ {0}
ASSUME BoundsAssumption == MaxFaults \in Nat /\ MaxEdits \in Nat
ASSUME NamesAssumption ==
  /\ TestEvent \notin Keys
  /\ NoJob \notin (Keys \X Endpoints) \cup Manual
  /\ (Keys \X Endpoints) \cap Manual = {}

VARIABLES
  events,     \* table webhook_events
  job,        \* table worker_webhook_jobs
  endpoint,   \* table webhook_endpoints
  emitting,   \* what an app holds inside enqueue
  editing,    \* what an endpoint request of the API holds
  due,        \* job copies the worker's tick has yet to process
  wk,         \* what the worker holds on the job it processes
  owed,       \* history: the endpoints active when an event was stored, by event
  acked,      \* history: posts of a job answered with success
  inARow,     \* history: failed attempts of an endpoint since its last recorded success
  faults, edits

vars == <<events, job, endpoint, emitting, editing, due, wk, owed, acked, inARow, faults, edits>>
tables == <<events, job, endpoint>>
history == <<owed, acked, inARow>>

JobIds == (Keys \X Endpoints) \cup Manual
NoTarget == <<TestEvent, TestEvent>>

Job == [of       : ((Keys \cup {TestEvent}) \X Endpoints) \cup {NoTarget},
        status   : {"none", "pending", "failed", "delivered"},
        attempts : Nat,
        waiting  : BOOLEAN]     \* nextAttemptAt is in the future
NoRow == [of |-> NoTarget, status |-> "none", attempts |-> 0, waiting |-> FALSE]
NewJob(k, e) == [of |-> <<k, e>>, status |-> "pending", attempts |-> 0, waiting |-> FALSE]

Unset == -1   \* consecutiveFailures of an endpoint never delivered to

Endpoint == [status : {"absent", "active", "disabled"},
             auto   : BOOLEAN,           \* disabled by its failure streak
             streak : Nat \cup {Unset}]
Absent == [status |-> "absent", auto |-> FALSE, streak |-> Unset]

(* Mutant: a new endpoint gets a status of its own. *)
RegisteredEnabled == [status |-> "enabled", auto |-> FALSE, streak |-> Unset]

Registered == [status |-> "active", auto |-> FALSE, streak |-> Unset]

NotEmitting == [pc |-> "idle", key |-> TestEvent, todo |-> {}]
NotEditing == [pc |-> "idle", op |-> "none", e |-> TestEvent, doc |-> Absent]
Resting == [pc |-> "idle", id |-> NoJob, copy |-> NoRow, live |-> Absent,
            fails |-> 0, ok |-> FALSE]

Init ==
  /\ events = {}
  /\ job = [id \in JobIds |-> NoRow]
  /\ endpoint = [e \in Endpoints |-> Absent]
  /\ emitting = [a \in Apps |-> NotEmitting]
  /\ editing = [r \in Reqs |-> NotEditing]
  /\ due = {}
  /\ wk = Resting
  /\ owed = {}
  /\ acked = [id \in JobIds |-> 0]
  /\ inARow = [e \in Endpoints |-> 0]
  /\ faults = 0
  /\ edits = 0

Queued(id) == job[id].status # "none"
Active(e) == endpoint[e].status = "active"
-----------------------------------------------------------------------------
(***************************************************************************)
(* PgWebhookOutbox.enqueue: insert the event (a second insert of the same  *)
(* key is a duplicate and ends the call), read the subscribed endpoints,   *)
(* insert a job for each.                                                  *)
(***************************************************************************)
InsertEvent(a, k) ==
  /\ emitting[a].pc = "idle"
  /\ k \notin events
  /\ events' = events \cup {k}
  /\ owed' = owed \cup {<<k, e>> : e \in {x \in Endpoints : Active(x)}}
  /\ emitting' = [emitting EXCEPT ![a] = [pc |-> "targets", key |-> k, todo |-> {}]]
  /\ UNCHANGED <<job, endpoint, editing, due, wk, acked, inARow, faults, edits>>

(* Mutant: an endpoint that has been failing is passed over. *)
ReadHealthyTargets(a) ==
  /\ emitting[a].pc = "targets"
  /\ emitting' = [emitting EXCEPT ![a].pc = "jobs",
                                  ![a].todo = {e \in Endpoints : Active(e) /\ endpoint[e].streak <= 0}]
  /\ UNCHANGED <<tables, editing, due, wk, history, faults, edits>>

ReadTargets(a) ==
  /\ emitting[a].pc = "targets"
  /\ emitting' = [emitting EXCEPT ![a].pc = "jobs",
                                  ![a].todo = {e \in Endpoints : Active(e)}]
  /\ UNCHANGED <<tables, editing, due, wk, history, faults, edits>>

InsertJob(a) ==
  LET l == emitting[a] IN
  /\ l.pc = "jobs"
  /\ \/ /\ l.todo = {}
        /\ emitting' = [emitting EXCEPT ![a] = NotEmitting]
        /\ UNCHANGED job
     \/ \E e \in l.todo :
          /\ job' = IF Queued(<<l.key, e>>) THEN job ELSE [job EXCEPT ![<<l.key, e>>] = NewJob(l.key, e)]
          /\ emitting' = [emitting EXCEPT ![a].todo = @ \ {e}]
  /\ UNCHANGED <<events, endpoint, editing, due, wk, history, faults, edits>>
-----------------------------------------------------------------------------
(* The merchant's endpoint routes.  Each reads the document and saves it   *)
(* changed; a rotation changes nothing but the secret.                     *)

Register(e) ==
  /\ endpoint[e] = Absent
  /\ endpoint' = [endpoint EXCEPT ![e] = Registered]
  /\ UNCHANGED <<events, job, emitting, editing, due, wk, history, faults, edits>>

Edited(op, doc) ==
  CASE op = "disable" -> [doc EXCEPT !.status = "disabled", !.auto = FALSE]
    [] op = "enable"  -> [doc EXCEPT !.status = "active", !.auto = FALSE, !.streak = 0]
    [] op = "rotate"  -> doc

EditRead(r, e, op) ==
  /\ editing[r].pc = "idle" /\ op \in EditOps /\ edits < MaxEdits
  /\ endpoint[e] # Absent
  /\ editing' = [editing EXCEPT ![r] = [pc |-> "save", op |-> op, e |-> e, doc |-> endpoint[e]]]
  /\ edits' = edits + 1
  /\ UNCHANGED <<tables, emitting, due, wk, history, faults>>

EditSave(r) ==
  LET l == editing[r] IN
  /\ l.pc = "save"
  /\ endpoint' = [endpoint EXCEPT ![l.e] = Edited(l.op, l.doc)]
  /\ editing' = [editing EXCEPT ![r] = NotEditing]
  /\ UNCHANGED <<events, job, emitting, due, wk, history, faults, edits>>

(* Resend of a stored event, or a test event: a job of its own, under a    *)
(* fresh identifier, to an endpoint that may be disabled.                  *)
QueueManual(id, k, e) ==
  /\ ~Queued(id) /\ endpoint[e] # Absent
  /\ k \in events \cup {TestEvent}
  /\ job' = [job EXCEPT ![id] = NewJob(k, e)]
  /\ UNCHANGED <<events, endpoint, emitting, editing, due, wk, history, faults, edits>>
-----------------------------------------------------------------------------
(***************************************************************************)
(* The worker: webhookRetryJob.run.                                        *)
(***************************************************************************)
(* Mutant: the attempt cap is off by one. *)
DueCapOffByOne(row) == row.status # "delivered" /\ row.attempts <= MaxAttempts /\ ~row.waiting

IsJobDue(row) == row.status # "delivered" /\ row.attempts < MaxAttempts /\ ~row.waiting

(* Mutant: a job that failed once is forgotten. *)
PendingOnly == {id \in JobIds : job[id].status = "pending"}

PendingWebhookJobs == {id \in JobIds : job[id].status \in {"pending", "failed"}}

StartTick ==
  LET jobs == {id \in PendingWebhookJobs : IsJobDue(job[id])} IN
  /\ wk.pc = "idle" /\ due = {} /\ jobs # {}
  /\ due' = {<<id, job[id]>> : id \in jobs}
  /\ UNCHANGED <<tables, emitting, editing, wk, history, faults, edits>>

(* The live endpoint is read when the job's turn comes; a disabled one is  *)
(* skipped, and its job stays as it is.                                    *)
TakeJob ==
  /\ wk.pc = "idle"
  /\ \E item \in due :
       LET live == endpoint[item[2].of[2]] IN
       /\ due' = due \ {item}
       /\ wk' = IF live.status = "active"
                  THEN [Resting EXCEPT !.pc = "post", !.id = item[1], !.copy = item[2], !.live = live]
                  ELSE wk
  /\ UNCHANGED <<tables, emitting, editing, history, faults, edits>>

(* Mutant: the schedule goes on after a success. *)
PostGoingOn ==
  /\ wk.pc = "post"
  /\ \E ok \in BOOLEAN :
       /\ wk' = [wk EXCEPT !.fails = @ + 1, !.ok = ok \/ @,
                  !.pc = IF wk.fails + 1 = TickTries THEN "record" ELSE "post"]
       /\ acked' = IF ok THEN [acked EXCEPT ![wk.id] = @ + 1] ELSE acked
       /\ inARow' = [inARow EXCEPT ![wk.copy.of[2]] = IF ok THEN @ ELSE @ + 1]
  /\ UNCHANGED <<tables, emitting, editing, due, owed, faults, edits>>

(* deliverWithRetry: one post of the schedule, the last one or a success   *)
(* ends it.  An exception ends it too, as one failed attempt in place of   *)
(* those already made.                                                     *)
Post ==
  /\ wk.pc = "post"
  /\ \/ /\ wk' = [wk EXCEPT !.ok = TRUE, !.pc = "record"]
        /\ acked' = [acked EXCEPT ![wk.id] = @ + 1]
        /\ UNCHANGED inARow
     \/ /\ wk' = [wk EXCEPT !.fails = @ + 1,
                   !.pc = IF wk.fails + 1 = TickTries THEN "record" ELSE "post"]
        /\ inARow' = [inARow EXCEPT ![wk.copy.of[2]] = @ + 1]
        /\ UNCHANGED acked
     \/ /\ wk' = [wk EXCEPT !.fails = 1, !.pc = "record"]
        /\ inARow' = [inARow EXCEPT ![wk.copy.of[2]] = @ + 1]
        /\ UNCHANGED acked
  /\ UNCHANGED <<tables, emitting, editing, due, owed, faults, edits>>

Attempts == wk.fails + (IF wk.ok THEN 1 ELSE 0)

(* Mutant: a job that used up its attempts counts as delivered. *)
RecordGivingUpAsDelivered(row) ==
  LET total == row.attempts + Attempts
      done == wk.ok \/ total >= MaxAttempts IN
  [row EXCEPT !.status = IF done THEN "delivered" ELSE "failed", !.attempts = total, !.waiting = ~done]

(* The wait is set anew unless the job gave up. *)
RecordJobAttempts(row) ==
  LET total == row.attempts + Attempts IN
  IF wk.ok
    THEN [row EXCEPT !.status = "delivered", !.attempts = total, !.waiting = FALSE]
    ELSE [row EXCEPT !.status = "failed", !.attempts = total,
                     !.waiting = IF total < MaxAttempts THEN TRUE ELSE @]

SaveJob ==
  /\ wk.pc = "record"
  /\ job' = [job EXCEPT ![wk.id] = RecordJobAttempts(wk.copy)]
  /\ wk' = [wk EXCEPT !.pc = "health"]
  /\ UNCHANGED <<events, endpoint, emitting, editing, due, history, faults, edits>>

(* Mutant: a success does not end the streak. *)
OutcomeKeepingStreak(doc) ==
  LET before == IF doc.streak = Unset THEN 0 ELSE doc.streak
      streak == before + wk.fails IN
  IF streak >= DisableAfter
    THEN [status |-> "disabled", auto |-> TRUE, streak |-> streak]
    ELSE [doc EXCEPT !.streak = streak]

(* A success is the last attempt of its schedule, so it ends the streak. *)
ApplyEndpointOutcome(doc) ==
  LET before == IF doc.streak = Unset THEN 0 ELSE doc.streak
      streak == IF wk.ok THEN 0 ELSE before + wk.fails IN
  IF streak >= DisableAfter
    THEN [status |-> "disabled", auto |-> TRUE, streak |-> streak]
    ELSE [doc EXCEPT !.streak = streak]

SaveHealth ==
  LET health == ApplyEndpointOutcome(wk.live) IN
  /\ wk.pc = "health"
  /\ endpoint' = IF health # wk.live THEN [endpoint EXCEPT ![wk.copy.of[2]] = health] ELSE endpoint
  /\ wk' = Resting
  /\ inARow' = IF wk.ok THEN [inARow EXCEPT ![wk.copy.of[2]] = 0] ELSE inARow
  /\ UNCHANGED <<events, job, emitting, editing, due, owed, acked, faults, edits>>

(* Time passes until nextAttemptAt. *)
Elapse(id) ==
  /\ job[id].waiting
  /\ job' = [job EXCEPT ![id].waiting = FALSE]
  /\ UNCHANGED <<events, endpoint, emitting, editing, due, wk, history, faults, edits>>

WorkerStep == StartTick \/ TakeJob \/ Post \/ SaveJob \/ SaveHealth
EmitStep(a) == ReadTargets(a) \/ InsertJob(a)
-----------------------------------------------------------------------------
(* The worker dies, or a storage error ends its tick. *)
CrashWorker ==
  /\ faults < MaxFaults
  /\ wk.pc # "idle" \/ due # {}
  /\ wk' = Resting /\ due' = {}
  /\ faults' = faults + 1
  /\ UNCHANGED <<tables, emitting, editing, history, edits>>

(* An app dies inside enqueue, or a storage error ends it: emitWebhookSafely *)
(* swallows the error.                                                       *)
CrashApp(a) ==
  /\ faults < MaxFaults
  /\ emitting[a].pc # "idle"
  /\ emitting' = [emitting EXCEPT ![a] = NotEmitting]
  /\ faults' = faults + 1
  /\ UNCHANGED <<tables, editing, due, wk, history, edits>>

Next ==
  \/ \E a \in Apps, k \in Keys : InsertEvent(a, k)
  \/ \E a \in Apps : EmitStep(a) \/ CrashApp(a)
  \/ \E e \in Endpoints : Register(e)
  \/ \E r \in Reqs, e \in Endpoints, op \in EditOps : EditRead(r, e, op)
  \/ \E r \in Reqs : EditSave(r)
  \/ \E id \in Manual, k \in Keys \cup {TestEvent}, e \in Endpoints : QueueManual(id, k, e)
  \/ \E id \in JobIds : Elapse(id)
  \/ WorkerStep
  \/ CrashWorker

Spec == Init /\ [][Next]_vars

(***************************************************************************)
(* The runtime resumes every await, the scheduler starts the tick again    *)
(* and again, and time passes.  Nothing makes a merchant do anything.      *)
(***************************************************************************)
Fairness ==
  /\ WF_vars(WorkerStep)
  /\ \A a \in Apps : WF_vars(EmitStep(a))
  /\ \A id \in JobIds : WF_vars(Elapse(id))

FairSpec == Spec /\ Fairness
-----------------------------------------------------------------------------
TypeOK ==
  /\ events \subseteq Keys
  /\ job \in [JobIds -> Job]
  /\ endpoint \in [Endpoints -> Endpoint]
  /\ emitting \in [Apps -> [pc : {"idle", "targets", "jobs"}, key : Keys \cup {TestEvent},
                            todo : SUBSET Endpoints]]
  /\ editing \in [Reqs -> [pc : {"idle", "save"}, op : EditOps \cup {"none"},
                           e : Endpoints \cup {TestEvent}, doc : Endpoint]]
  /\ due \subseteq JobIds \X Job
  /\ wk \in [pc : {"idle", "post", "record", "health"}, id : JobIds \cup {NoJob}, copy : Job,
             live : Endpoint, fails : Nat, ok : BOOLEAN]
  /\ owed \subseteq Keys \X Endpoints
  /\ acked \in [JobIds -> Nat] /\ inARow \in [Endpoints -> Nat]
  /\ faults \in Nat /\ edits \in Nat

(***************************************************************************)
(* The delivery log tells the truth: a job reads delivered exactly when    *)
(* its endpoint acknowledged it, except while the worker has yet to record *)
(* the answer or died before it did.                                       *)
(***************************************************************************)
DeliveredIsAcked ==
  \A id \in JobIds :
    /\ job[id].status = "delivered" => acked[id] > 0
    /\ acked[id] > 0 /\ job[id].status # "delivered" => faults > 0 \/ wk.id = id

(***************************************************************************)
(* An endpoint that answered is not posted to again: each acknowledgement  *)
(* beyond the first costs a death of the worker between the post and the   *)
(* record of it.  Duplicate emits, stale copies and overlapping resends    *)
(* never cause one.                                                        *)
(***************************************************************************)
AckedOnce == \A id \in JobIds : acked[id] <= 1 + faults

(***************************************************************************)
(* webhook-log.ts: "Give up on a job after this many attempts".  The cap   *)
(* is tested before a whole schedule, so a tick may overrun it, by less    *)
(* than one schedule.                                                      *)
(***************************************************************************)
GivesUp == \A id \in JobIds : job[id].attempts < MaxAttempts + TickTries

(***************************************************************************)
(* webhook-log.ts: "Disable an endpoint after this many failed attempts in *)
(* a row": an endpoint that was disabled automatically has really failed   *)
(* that often since the last success the worker lived to record, whatever  *)
(* copies were saved over it in between.  In use without rotate-secret,    *)
(* which saves back the streak it read.                                    *)
(***************************************************************************)
DisabledForFailures ==
  \A e \in Endpoints : endpoint[e].auto => inARow[e] >= DisableAfter

(***************************************************************************)
(* No queued job is forgotten: again and again each is delivered, has      *)
(* given up, or rests on a disabled endpoint ("resumes when the merchant   *)
(* re-enables it").                                                        *)
(***************************************************************************)
Resolved(id) ==
  job[id].status = "delivered" \/ job[id].attempts >= MaxAttempts \/ ~Active(job[id].of[2])

JobResolves == []<>(\A id \in JobIds : Queued(id) => Resolved(id))

(***************************************************************************)
(* webhook-outbox.ts: "One worker_webhook_jobs row per matching active     *)
(* endpoint is queued".  Whoever is active when the event is stored gets   *)
(* its job, or will from the app that is emitting it: unless the endpoint  *)
(* was disabled meanwhile, or an app died between the event and its jobs.  *)
(* That app's event is lost: a retry finds it a duplicate.                 *)
(***************************************************************************)
EventIsQueued ==
  \A k \in Keys, e \in Endpoints :
    <<k, e>> \in owed =>
      Queued(<<k, e>>) \/ faults > 0 \/ edits > 0 \/ ~Active(e) \/ \E a \in Apps : emitting[a].key = k
=============================================================================
