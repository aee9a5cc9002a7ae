------------------------ MODULE WebhookDeliveryProofs ------------------------
(***************************************************************************)
(* Events, jobs and endpoints: theorems of WebhookDelivery, for any number *)
(* of events, endpoints, apps and requests, any schedule, cap and streak,  *)
(* and any number of faults and edits.                                     *)
(***************************************************************************)
EXTENDS WebhookDelivery, TLAPS

USE EditOpsAssumption, TriesAssumption, BoundsAssumption, NamesAssumption

(***************************************************************************)
(* The inductive invariant.  A copy the tick holds is the row itself, as   *)
(* nobody saves a job but the worker, and time changes only a job that     *)
(* waits, which is not due.  So an answer is added to what was known.      *)
(***************************************************************************)
EmitType == [pc : {"idle", "targets", "jobs"}, key : Keys \cup {TestEvent}, todo : SUBSET Endpoints]
EditType == [pc : {"idle", "save"}, op : EditOps \cup {"none"}, e : Endpoints \cup {TestEvent},
             doc : Endpoint]
WkType == [pc : {"idle", "post", "record", "health"}, id : JobIds \cup {NoJob}, copy : Job,
           live : Endpoint, fails : Nat, ok : BOOLEAN]

Held(id, row) ==
  row = job[id] /\ row.status \in {"pending", "failed"} /\ row.attempts < MaxAttempts /\ ~row.waiting

\* The acknowledgement that no fault has to account for.
Known(id) == IF job[id].status = "delivered" \/ (wk.id = id /\ wk.ok) THEN 1 ELSE 0

JobSound ==
  \A id \in JobIds :
    /\ Queued(id) => job[id].of[2] \in Endpoints
    /\ job[id].attempts < MaxAttempts + TickTries
    /\ job[id].status = "delivered" => acked[id] > 0
    /\ acked[id] <= faults + Known(id)

DueSound == \A item \in due : Held(item[1], item[2]) /\ item[1] # wk.id

WkSound ==
  /\ wk.pc = "idle" => wk = Resting
  /\ wk.pc # "idle" => wk.id \in JobIds /\ wk.copy.of[2] \in Endpoints
  /\ wk.pc \in {"post", "record"} => Held(wk.id, wk.copy)
  /\ wk.pc = "post" => ~wk.ok /\ wk.fails < TickTries
  /\ wk.fails + (IF wk.ok THEN 1 ELSE 0) <= TickTries
  /\ wk.ok => acked[wk.id] > 0
  /\ wk.pc = "health" /\ wk.ok => job[wk.id].status = "delivered"

EditSound ==
  \A r \in Reqs : editing[r].pc = "save" =>
    editing[r].op \in EditOps /\ editing[r].e \in Endpoints /\ editing[r].doc # Absent /\ edits > 0

LiveSound ==
  wk.pc # "idle" =>
    /\ wk.live.status = "active" /\ endpoint[wk.copy.of[2]] # Absent
    /\ edits = 0 => endpoint[wk.copy.of[2]] = wk.live

Emits(a, k, e) ==
  /\ emitting[a].key = k
  /\ emitting[a].pc = "targets" \/ (emitting[a].pc = "jobs" /\ e \in emitting[a].todo)

OwedSound ==
  \A k \in Keys, e \in Endpoints : <<k, e>> \in owed =>
    /\ endpoint[e] # Absent
    /\ Queued(<<k, e>>) \/ faults > 0 \/ edits > 0 \/ ~Active(e) \/ \E a \in Apps : Emits(a, k, e)

WebhookInv ==
  TypeOK /\ JobSound /\ DueSound /\ WkSound /\ EditSound /\ LiveSound /\ OwedSound

Types ==
  /\ events \subseteq Keys /\ job \in [JobIds -> Job]
  /\ endpoint \in [Endpoints -> Endpoint]
  /\ emitting \in [Apps -> EmitType] /\ editing \in [Reqs -> EditType]
  /\ due \subseteq JobIds \X Job /\ wk \in WkType
  /\ owed \subseteq Keys \X Endpoints
  /\ acked \in [JobIds -> Nat] /\ inARow \in [Endpoints -> Nat]
  /\ faults \in Nat /\ edits \in Nat

LEMMA TypesIsTypeOK == Types <=> TypeOK
BY DEF Types, TypeOK, EmitType, EditType, WkType

LEMMA InvParts ==
  ASSUME WebhookInv
  PROVE  Types /\ JobSound /\ DueSound /\ WkSound /\ EditSound /\ LiveSound /\ OwedSound
BY TypesIsTypeOK DEF WebhookInv

LEMMA InvWhole ==
  ASSUME Types', JobSound', DueSound', WkSound', EditSound', LiveSound', OwedSound'
  PROVE  WebhookInv'
<1>1. TypeOK'
  BY DEF Types, TypeOK, EmitType, EditType, WkType
<1>. QED
  BY <1>1 DEF WebhookInv

LEMMA Constants ==
  /\ NoRow \in Job /\ Absent \in Endpoint /\ Registered \in Endpoint
  /\ NotEmitting \in EmitType /\ NotEditing \in EditType /\ Resting \in WkType
BY DEF NoRow, NoTarget, Job, Absent, Endpoint, Registered, Unset, NotEmitting, EmitType,
       NotEditing, EditType, Resting, WkType

LEMMA NewJobOk ==
  ASSUME NEW k \in Keys \cup {TestEvent}, NEW e \in Endpoints
  PROVE  /\ NewJob(k, e) \in Job /\ NewJob(k, e).of[2] \in Endpoints
         /\ NewJob(k, e).status = "pending" /\ NewJob(k, e).attempts = 0
BY DEF NewJob, Job

LEMMA WebhookInvInit ==
  ASSUME Init
  PROVE  WebhookInv
<1>1. Types
  BY Constants DEF Init, Types
<1>2. JobSound /\ DueSound /\ WkSound /\ EditSound /\ LiveSound /\ OwedSound
  BY DEF Init, JobSound, DueSound, WkSound, EditSound, LiveSound, OwedSound, Queued, Known, NoRow,
         Resting, NotEditing
<1>. QED
  BY <1>1, <1>2, TypesIsTypeOK DEF WebhookInv

(* An action that leaves the queue and the worker alone. *)
LEMMA QueueFrame ==
  ASSUME WebhookInv, UNCHANGED <<job, due, wk, acked>>, faults' \in Nat, faults' >= faults
  PROVE  JobSound' /\ DueSound' /\ WkSound'
<1>1. JobSound'
  BY InvParts DEF JobSound, Queued, Known, Types
<1>2. DueSound' /\ WkSound'
  BY InvParts DEF DueSound, WkSound, Held
<1>. QED
  BY <1>1, <1>2

(* What is owed stays so as long as nobody forgets it. *)
LEMMA OwedFrame ==
  ASSUME WebhookInv, UNCHANGED <<owed, endpoint, emitting>>, faults' \in Nat, faults' >= faults,
         edits' \in Nat, edits' >= edits,
         \A id \in JobIds : Queued(id) => Queued(id)'
  PROVE  OwedSound'
<1>1. \A k \in Keys, e \in Endpoints : <<k, e>> \in JobIds
  BY DEF JobIds
<1>. QED
  BY <1>1, InvParts DEF OwedSound, Emits, Active, Types

LEMMA ActiveIsKnown ==
  ASSUME NEW e \in Endpoints, Active(e)
  PROVE  endpoint[e] # Absent
<1>1. endpoint[e].status = "active" /\ Absent.status = "absent"
  BY DEF Active, Absent
<1>. QED
  BY <1>1

LEMMA OwedIsKnown ==
  ASSUME WebhookInv, NEW k \in Keys, NEW e \in Endpoints, <<k, e>> \in owed
  PROVE  /\ endpoint[e] # Absent
         /\ Queued(<<k, e>>) \/ faults > 0 \/ edits > 0 \/ ~Active(e) \/ \E a \in Apps : Emits(a, k, e)
BY InvParts, Zenon DEF OwedSound

(* A row nobody had is written: no copy of it is held. *)
LEMMA NewRowFrame ==
  ASSUME WebhookInv, NEW k \in Keys \cup {TestEvent}, NEW e \in Endpoints,
         UNCHANGED <<due, wk, acked, faults>>,
         \A id \in JobIds : job'[id] = job[id] \/ (~Queued(id) /\ job'[id] = NewJob(k, e))
  PROVE  JobSound' /\ DueSound' /\ WkSound'
<1>1. \A id \in JobIds : Queued(id) => job'[id] = job[id]
  OBVIOUS
<1>2. \A id \in JobIds : job[id].status = "delivered" <=> job'[id].status = "delivered"
  BY NewJobOk DEF Queued
<1>3. JobSound'
  <2>. SUFFICES ASSUME NEW id \in JobIds
                PROVE  /\ Queued(id)' => job'[id].of[2] \in Endpoints
                       /\ job'[id].attempts < MaxAttempts + TickTries
                       /\ job'[id].status = "delivered" => acked[id] > 0
                       /\ acked[id] <= faults + Known(id)'
    BY DEF JobSound
  <2>1. Known(id)' = Known(id)
    BY <1>2 DEF Known
  <2>. QED
    BY <1>2, <2>1, NewJobOk, InvParts DEF JobSound, Queued
<1>4. DueSound'
  <2>1. \A item \in due : item[1] \in JobIds /\ Queued(item[1])
    BY InvParts DEF DueSound, Held, Queued, Types
  <2>. QED
    BY <1>1, <2>1, InvParts DEF DueSound, Held
<1>5. WkSound'
  <2>1. wk.pc # "idle" => job'[wk.id].status = "delivered" <=> job[wk.id].status = "delivered"
    BY <1>2, InvParts DEF WkSound
  <2>2. wk.pc \in {"post", "record"} => job'[wk.id] = job[wk.id]
    BY <1>1, InvParts DEF WkSound, Held, Queued
  <2>. QED
    BY <2>1, <2>2, InvParts DEF WkSound, Held
<1>. QED
  BY <1>3, <1>4, <1>5

-----------------------------------------------------------------------------
(* The apps. *)
LEMMA InsertEventInv ==
  ASSUME WebhookInv, NEW a \in Apps, NEW k \in Keys, InsertEvent(a, k)
  PROVE  WebhookInv'
<1>. DEFINE l == [pc |-> "targets", key |-> k, todo |-> {}]
<1>1. l \in EmitType /\ emitting' = [emitting EXCEPT ![a] = l]
  BY DEF InsertEvent, EmitType
<1>2. emitting'[a] = l /\ \A b \in Apps \ {a} : emitting'[b] = emitting[b]
  BY <1>1, InvParts DEF Types
<1>3. Types'
  BY <1>1, InvParts DEF Types, InsertEvent
<1>4. JobSound' /\ DueSound' /\ WkSound'
  BY InvParts, QueueFrame DEF InsertEvent, Types
<1>5. EditSound' /\ LiveSound'
  BY InvParts DEF InsertEvent, EditSound, LiveSound
<1>6. OwedSound'
  <2>. SUFFICES ASSUME NEW j \in Keys, NEW e \in Endpoints, <<j, e>> \in owed'
                PROVE  /\ endpoint[e] # Absent
                       /\ Queued(<<j, e>>) \/ faults > 0 \/ edits > 0 \/ ~Active(e)
                          \/ \E b \in Apps : Emits(b, j, e)'
    BY DEF OwedSound, InsertEvent, Queued, Active
  <2>1. CASE j = k
    <3>1. Emits(a, j, e)'
      BY <1>2, <2>1 DEF Emits
    <3>2. <<k, e>> \in owed \/ Active(e)
      BY <2>1 DEF InsertEvent
    <3>3. endpoint[e] # Absent
      BY <3>2, OwedIsKnown, ActiveIsKnown
    <3>. QED
      BY <3>1, <3>3
  <2>2. CASE j # k
    <3>1. <<j, e>> \in owed
      BY <2>2 DEF InsertEvent
    <3>2. \A b \in Apps : Emits(b, j, e) => Emits(b, j, e)'
      BY <1>2, InvParts DEF Emits, InsertEvent
    <3>. QED
      BY <3>1, <3>2, InvParts DEF OwedSound
  <2>. QED
    BY <2>1, <2>2
<1>. QED
  BY <1>3, <1>4, <1>5, <1>6, InvWhole

LEMMA ReadTargetsInv ==
  ASSUME WebhookInv, NEW a \in Apps, ReadTargets(a)
  PROVE  WebhookInv'
<1>. DEFINE targets == {e \in Endpoints : Active(e)}
<1>1. /\ emitting' \in [Apps -> EmitType]
      /\ emitting'[a].pc = "jobs" /\ emitting'[a].todo = targets
      /\ emitting'[a].key = emitting[a].key
      /\ \A b \in Apps \ {a} : emitting'[b] = emitting[b]
  BY InvParts DEF ReadTargets, Types, EmitType
<1>2. Types'
  BY <1>1, InvParts DEF Types, ReadTargets, tables, history
<1>3. JobSound' /\ DueSound' /\ WkSound'
  BY InvParts, QueueFrame DEF ReadTargets, tables, history, Types
<1>4. EditSound' /\ LiveSound'
  BY InvParts DEF ReadTargets, EditSound, LiveSound, tables, history
<1>5. OwedSound'
  <2>. SUFFICES ASSUME NEW j \in Keys, NEW e \in Endpoints, <<j, e>> \in owed,
                       Active(e), NEW b \in Apps, Emits(b, j, e)
                PROVE  Emits(b, j, e)'
    BY InvParts, Zenon DEF OwedSound, ReadTargets, tables, history, Queued, Active
  <2>. QED
    BY <1>1 DEF Emits
<1>. QED
  BY <1>2, <1>3, <1>4, <1>5, InvWhole

LEMMA InsertJobInv ==
  ASSUME WebhookInv, NEW a \in Apps, InsertJob(a)
  PROVE  WebhookInv'
<1>. DEFINE l == emitting[a]
<1>1. CASE l.todo = {} /\ emitting' = [emitting EXCEPT ![a] = NotEmitting] /\ UNCHANGED job
  <2>1. emitting'[a] = NotEmitting /\ \A b \in Apps \ {a} : emitting'[b] = emitting[b]
    BY <1>1, InvParts DEF Types
  <2>2. Types'
    BY <1>1, InvParts, Constants DEF Types, InsertJob, history
  <2>3. JobSound' /\ DueSound' /\ WkSound'
    BY <1>1, InvParts, QueueFrame DEF InsertJob, history, Types
  <2>4. EditSound' /\ LiveSound'
    BY InvParts DEF InsertJob, EditSound, LiveSound, history
  <2>5. \A b \in Apps, j \in Keys, e \in Endpoints : Emits(b, j, e) => Emits(b, j, e)'
    BY <1>1, <2>1 DEF Emits, InsertJob
  <2>6. OwedSound'
    BY <1>1, <2>5, InvParts, Zenon DEF OwedSound, InsertJob, history, Queued, Active
  <2>. QED
    BY <2>2, <2>3, <2>4, <2>6, InvWhole
<1>2. ASSUME NEW e \in l.todo,
             job' = IF Queued(<<l.key, e>>) THEN job ELSE [job EXCEPT ![<<l.key, e>>] = NewJob(l.key, e)],
             emitting' = [emitting EXCEPT ![a].todo = @ \ {e}]
      PROVE  WebhookInv'
  <2>. DEFINE new == <<l.key, e>>
  <2>1. l \in EmitType /\ e \in Endpoints /\ l.key \in Keys \cup {TestEvent}
    BY InvParts DEF Types, EmitType
  <2>2. /\ emitting' \in [Apps -> EmitType]
        /\ emitting'[a].pc = l.pc /\ emitting'[a].key = l.key /\ emitting'[a].todo = l.todo \ {e}
        /\ \A b \in Apps \ {a} : emitting'[b] = emitting[b]
    BY <1>2, <2>1, InvParts DEF Types, EmitType
  <2>3. UNCHANGED <<events, endpoint, editing, due, wk, owed, acked, inARow, faults, edits>>
    BY DEF InsertJob, history
  <2>4. /\ job' \in [JobIds -> Job]
        /\ \A id \in JobIds : job'[id] = job[id]
                             \/ (id = new /\ ~Queued(id) /\ job'[id] = NewJob(l.key, e))
    BY <1>2, <2>1, InvParts, NewJobOk DEF Types
  <2>5. JobSound' /\ DueSound' /\ WkSound'
    BY <2>1, <2>3, <2>4, NewRowFrame
  <2>6. Types'
    BY <2>2, <2>3, <2>4, InvParts DEF Types
  <2>7. EditSound' /\ LiveSound'
    BY <2>3, InvParts DEF EditSound, LiveSound
  <2>8. \A b \in Apps, j \in Keys, x \in Endpoints :
          Emits(b, j, x) => Emits(b, j, x)' \/ <<j, x>> = new
    BY <1>2, <2>2 DEF Emits
  <2>9. OwedSound'
    <3>1. \A id \in JobIds : Queued(id) => Queued(id)'
      BY <2>1, <2>4, NewJobOk DEF Queued
    <3>2. \A j \in Keys, x \in Endpoints : <<j, x>> \in JobIds
      BY DEF JobIds
    <3>3. \A id \in JobIds : id = new => Queued(id)'
      BY <1>2, <2>1, <3>1, NewJobOk, InvParts DEF Queued, Types
    <3>4. SUFFICES ASSUME NEW j \in Keys, NEW x \in Endpoints, <<j, x>> \in owed
                   PROVE  Queued(<<j, x>>)' \/ faults > 0 \/ edits > 0 \/ ~Active(x)
                          \/ \E b \in Apps : Emits(b, j, x)'
      BY <2>3, OwedIsKnown DEF OwedSound, Active
    <3>5. Queued(<<j, x>>) \/ faults > 0 \/ edits > 0 \/ ~Active(x) \/ \E b \in Apps : Emits(b, j, x)
      BY <3>4, OwedIsKnown, Zenon
    <3>. HIDE DEF new
    <3>. QED
      BY <2>8, <3>1, <3>2, <3>3, <3>5, Zenon
  <2>. QED
    BY <2>5, <2>6, <2>7, <2>9, InvWhole
<1>. QED
  BY <1>1, <1>2, Zenon DEF InsertJob

LEMMA CrashAppInv ==
  ASSUME WebhookInv, NEW a \in Apps, CrashApp(a)
  PROVE  WebhookInv'
<1>1. UNCHANGED <<events, job, endpoint, editing, due, wk, owed, acked, inARow, edits>>
  BY DEF CrashApp, tables, history
<1>2. faults' = faults + 1 /\ faults' \in Nat /\ faults' >= faults /\ faults' > 0
  BY InvParts DEF CrashApp, Types
<1>3. Types'
  BY <1>1, <1>2, InvParts, Constants DEF Types, CrashApp
<1>4. JobSound' /\ DueSound' /\ WkSound'
  BY <1>1, <1>2, QueueFrame
<1>5. EditSound' /\ LiveSound'
  BY <1>1, InvParts DEF EditSound, LiveSound
<1>6. OwedSound'
  BY <1>1, <1>2, OwedIsKnown DEF OwedSound
<1>. QED
  BY <1>3, <1>4, <1>5, <1>6, InvWhole

-----------------------------------------------------------------------------
(* The merchant. *)
LEMMA RegisterInv ==
  ASSUME WebhookInv, NEW e \in Endpoints, Register(e)
  PROVE  WebhookInv'
<1>1. UNCHANGED <<events, job, emitting, editing, due, wk, owed, acked, inARow, faults, edits>>
  BY DEF Register, history
<1>2. /\ endpoint' \in [Endpoints -> Endpoint] /\ endpoint[e] = Absent
      /\ \A x \in Endpoints \ {e} : endpoint'[x] = endpoint[x]
  BY InvParts, Constants DEF Register, Types
<1>3. Types'
  BY <1>1, <1>2, InvParts DEF Types
<1>4. JobSound' /\ DueSound' /\ WkSound'
  BY <1>1, InvParts, QueueFrame DEF Types
<1>5. EditSound' /\ LiveSound'
  BY <1>1, <1>2, InvParts DEF EditSound, LiveSound, WkSound
<1>6. \A k \in Keys, x \in Endpoints : <<k, x>> \in owed => x # e
  BY <1>2, OwedIsKnown
<1>7. OwedSound'
  <2>. SUFFICES ASSUME NEW k \in Keys, NEW x \in Endpoints, <<k, x>> \in owed
                PROVE  /\ endpoint'[x] # Absent
                       /\ Queued(<<k, x>>) \/ faults > 0 \/ edits > 0 \/ ~Active(x)'
                          \/ \E a \in Apps : Emits(a, k, x)
    BY <1>1 DEF OwedSound, Queued, Emits
  <2>. QED
    BY <1>2, <1>6, OwedIsKnown DEF Active
<1>. QED
  BY <1>3, <1>4, <1>5, <1>7, InvWhole

LEMMA EditReadInv ==
  ASSUME WebhookInv, NEW r \in Reqs, NEW e \in Endpoints, NEW op \in EditOps, EditRead(r, e, op)
  PROVE  WebhookInv'
<1>. DEFINE l == [pc |-> "save", op |-> op, e |-> e, doc |-> endpoint[e]]
<1>1. UNCHANGED <<events, job, endpoint, emitting, due, wk, owed, acked, inARow, faults>>
  BY DEF EditRead, tables, history
<1>2. edits' = edits + 1 /\ edits' \in Nat /\ edits' > 0
  BY InvParts DEF EditRead, Types
<1>3. l \in EditType /\ editing' = [editing EXCEPT ![r] = l] /\ endpoint[e] # Absent
  BY InvParts DEF EditRead, Types, EditType
<1>4. Types'
  BY <1>1, <1>2, <1>3, InvParts DEF Types
<1>5. JobSound' /\ DueSound' /\ WkSound'
  BY <1>1, InvParts, QueueFrame DEF Types
<1>6. EditSound'
  <2>1. editing'[r] = l /\ \A q \in Reqs \ {r} : editing'[q] = editing[q]
    BY <1>3, InvParts DEF Types
  <2>. QED
    BY <1>2, <1>3, <2>1, InvParts DEF EditSound
<1>7. LiveSound'
  BY <1>1, <1>2, InvParts DEF LiveSound
<1>8. OwedSound'
  BY <1>1, <1>2, OwedIsKnown DEF OwedSound
<1>. QED
  BY <1>4, <1>5, <1>6, <1>7, <1>8, InvWhole

LEMMA EditedOk ==
  ASSUME NEW op \in EditOps, NEW doc \in Endpoint, doc # Absent
  PROVE  Edited(op, doc) \in Endpoint /\ Edited(op, doc) # Absent
<1>1. CASE op = "disable"
  <2>1. Edited(op, doc) = [doc EXCEPT !.status = "disabled", !.auto = FALSE]
    BY <1>1 DEF Edited
  <2>2. Edited(op, doc) \in Endpoint /\ Edited(op, doc).status = "disabled"
    BY <2>1 DEF Endpoint
  <2>. QED
    BY <2>2 DEF Absent
<1>2. CASE op = "enable"
  <2>1. Edited(op, doc) = [doc EXCEPT !.status = "active", !.auto = FALSE, !.streak = 0]
    BY <1>2 DEF Edited
  <2>2. 0 \in Nat \cup {Unset}
    OBVIOUS
  <2>3. Edited(op, doc) \in Endpoint /\ Edited(op, doc).status = "active"
    BY <2>1, <2>2 DEF Endpoint
  <2>. QED
    BY <2>3 DEF Absent
<1>3. CASE op = "rotate"
  BY <1>3 DEF Edited
<1>. QED
  BY <1>1, <1>2, <1>3

LEMMA EditSaveInv ==
  ASSUME WebhookInv, NEW r \in Reqs, EditSave(r)
  PROVE  WebhookInv'
<1>. DEFINE l == editing[r]
<1>1. UNCHANGED <<events, job, emitting, due, wk, owed, acked, inARow, faults, edits>>
  BY DEF EditSave, history
<1>2. l.op \in EditOps /\ l.e \in Endpoints /\ l.doc \in Endpoint /\ l.doc # Absent /\ edits > 0
  BY InvParts DEF EditSave, EditSound, Types, EditType
<1>3. PICK doc \in Endpoint : doc # Absent /\ endpoint' = [endpoint EXCEPT ![l.e] = doc]
  BY <1>2, EditedOk DEF EditSave
<1>4. editing' = [editing EXCEPT ![r] = NotEditing]
  BY DEF EditSave
<1>5. Types'
  BY <1>1, <1>2, <1>3, <1>4, Constants, InvParts DEF Types
<1>6. JobSound' /\ DueSound' /\ WkSound'
  BY <1>1, InvParts, QueueFrame DEF Types
<1>7. EditSound'
  <2>1. editing'[r].pc = "idle" /\ \A q \in Reqs \ {r} : editing'[q] = editing[q]
    BY <1>4, InvParts DEF Types, NotEditing
  <2>. QED
    BY <1>1, <2>1, InvParts DEF EditSound
<1>8. \A x \in Endpoints : endpoint'[x] = endpoint[x] \/ endpoint'[x] # Absent
  BY <1>2, <1>3, InvParts DEF Types
<1>9. LiveSound'
  BY <1>1, <1>2, <1>8, InvParts DEF LiveSound, WkSound
<1>10. OwedSound'
  BY <1>1, <1>2, <1>8, OwedIsKnown DEF OwedSound
<1>. QED
  BY <1>5, <1>6, <1>7, <1>9, <1>10, InvWhole

LEMMA QueueManualInv ==
  ASSUME WebhookInv, NEW id \in Manual, NEW k \in Keys \cup {TestEvent}, NEW e \in Endpoints,
         QueueManual(id, k, e)
  PROVE  WebhookInv'
<1>1. UNCHANGED <<events, endpoint, emitting, editing, due, wk, owed, acked, inARow, faults, edits>>
  BY DEF QueueManual, history
<1>2. /\ job' \in [JobIds -> Job]
      /\ \A x \in JobIds : job'[x] = job[x] \/ (~Queued(x) /\ job'[x] = NewJob(k, e))
  BY InvParts, NewJobOk DEF QueueManual, Types, JobIds
<1>3. Types'
  BY <1>1, <1>2, InvParts DEF Types
<1>4. JobSound' /\ DueSound' /\ WkSound'
  BY <1>1, <1>2, NewRowFrame
<1>5. EditSound' /\ LiveSound'
  BY <1>1, InvParts DEF EditSound, LiveSound
<1>6. \A x \in JobIds : Queued(x) => Queued(x)'
  BY <1>2 DEF Queued
<1>7. OwedSound'
  BY <1>1, <1>6, InvParts, OwedFrame DEF Types
<1>. QED
  BY <1>3, <1>4, <1>5, <1>7, InvWhole

-----------------------------------------------------------------------------
(* The worker. *)
LEMMA StartTickInv ==
  ASSUME WebhookInv, StartTick
  PROVE  WebhookInv'
<1>1. /\ UNCHANGED <<events, job, endpoint, emitting, editing, wk, owed, acked, inARow, faults, edits>>
      /\ wk.pc = "idle"
  BY DEF StartTick, tables, history
<1>2. \A item \in due' : /\ item[1] \in JobIds /\ item[2] = job[item[1]] /\ item \in JobIds \X Job
                        /\ Held(item[1], item[2])
  BY InvParts DEF StartTick, PendingWebhookJobs, IsJobDue, Held, Types
<1>3. Types'
  BY <1>1, <1>2, InvParts DEF Types
<1>4. wk.id = NoJob
  BY <1>1, InvParts DEF WkSound, Resting
<1>5. DueSound'
  BY <1>1, <1>2, <1>4 DEF DueSound, Held, JobIds
<1>6. JobSound' /\ WkSound' /\ EditSound' /\ LiveSound'
  BY <1>1, InvParts DEF JobSound, WkSound, EditSound, LiveSound, Queued, Known, Held
<1>7. OwedSound'
  BY <1>1, InvParts, OwedFrame DEF Types, Queued
<1>. QED
  BY <1>3, <1>5, <1>6, <1>7, InvWhole

Taken(id, row, live) == [Resting EXCEPT !.pc = "post", !.id = id, !.copy = row, !.live = live]

LEMMA TakenOk ==
  ASSUME NEW id \in JobIds, NEW row \in Job, NEW live \in Endpoint
  PROVE  /\ Taken(id, row, live) \in WkType /\ Taken(id, row, live).pc = "post"
         /\ Taken(id, row, live).id = id /\ Taken(id, row, live).copy = row
         /\ Taken(id, row, live).live = live
         /\ Taken(id, row, live).fails = 0 /\ ~Taken(id, row, live).ok
<1>1. Resting \in WkType /\ Resting.fails = 0 /\ ~Resting.ok
  BY Constants DEF Resting
<1>. QED
  BY <1>1 DEF Taken, WkType

Counted(w, n, pc) == [w EXCEPT !.fails = n, !.pc = pc]

LEMMA CountedWk ==
  ASSUME wk \in WkType, ~wk.ok, NEW n \in Nat, NEW pc \in {"post", "record"},
         wk' = Counted(wk, n, pc)
  PROVE  /\ wk' \in WkType /\ ~wk'.ok
         /\ wk'.id = wk.id /\ wk'.copy = wk.copy /\ wk'.live = wk.live
         /\ wk'.pc = pc /\ wk'.fails = n
<1>1. Counted(wk, n, pc).ok = wk.ok
  BY DEF WkType, Counted
<1>2. /\ Counted(wk, n, pc) \in WkType
      /\ Counted(wk, n, pc).pc = pc /\ Counted(wk, n, pc).fails = n
      /\ Counted(wk, n, pc).id = wk.id
      /\ Counted(wk, n, pc).copy = wk.copy /\ Counted(wk, n, pc).live = wk.live
  BY DEF WkType, Counted
<1>. QED
  BY <1>1, <1>2, Zenon

LEMMA TakeJobInv ==
  ASSUME WebhookInv, TakeJob
  PROVE  WebhookInv'
<1>1. /\ UNCHANGED <<events, job, endpoint, emitting, editing, owed, acked, inARow, faults, edits>>
      /\ wk.pc = "idle"
  BY DEF TakeJob, tables, history
<1>2. PICK item \in due :
        /\ due' = due \ {item}
        /\ wk' = IF endpoint[item[2].of[2]].status = "active"
                   THEN Taken(item[1], item[2], endpoint[item[2].of[2]])
                   ELSE wk
  BY Zenon DEF TakeJob, Taken
<1>3. /\ item[1] \in JobIds /\ item[2] \in Job /\ Held(item[1], item[2])
      /\ item[2].of[2] \in Endpoints
  BY InvParts DEF DueSound, Types, Held, JobSound, Queued
<1>4. wk = Resting
  BY <1>1, InvParts DEF WkSound
<1>5. \A other \in due' : Held(other[1], other[2]) /\ other[1] # item[1] /\ other \in JobIds \X Job
  BY <1>2, InvParts DEF DueSound, Types, Held
<1>6. EditSound'
  BY <1>1, InvParts DEF EditSound
<1>7. OwedSound'
  BY <1>1, InvParts, OwedFrame DEF Types, Queued
<1>8. CASE wk' = wk
  <2>1. Types'
    BY <1>1, <1>5, <1>8, InvParts DEF Types
  <2>2. JobSound' /\ WkSound' /\ LiveSound' /\ DueSound'
    BY <1>1, <1>2, <1>8, InvParts
    DEF JobSound, WkSound, LiveSound, DueSound, Queued, Known, Held
  <2>. QED
    BY <1>6, <1>7, <2>1, <2>2, InvWhole
<1>9. CASE wk' # wk
  <2>. DEFINE live == endpoint[item[2].of[2]]
              l == Taken(item[1], item[2], live)
  <2>1. live.status = "active" /\ live \in Endpoint /\ wk' = l
    BY <1>2, <1>3, <1>9, InvParts DEF Types
  <2>2. l \in WkType /\ l.pc = "post" /\ l.id = item[1] /\ l.copy = item[2] /\ l.live = live
        /\ l.fails = 0 /\ ~l.ok
    <3>1. item[1] \in JobIds /\ item[2] \in Job /\ live \in Endpoint
      BY <1>3, <2>1, Zenon
    <3>. HIDE DEF live
    <3>2. l \in WkType
      BY <3>1, TakenOk, Zenon
    <3>3. l.id = item[1]
      BY <3>1, TakenOk
    <3>4. l.copy = item[2] /\ l.live = live /\ l.fails = 0 /\ l.pc = "post"
      BY <3>1, TakenOk
    <3>5. ~l.ok
      BY <3>1, TakenOk
    <3>. QED
      BY <3>2, <3>3, <3>4, <3>5
  <2>. HIDE DEF l
  <2>3. Types'
    BY <1>1, <1>5, <2>1, <2>2, InvParts DEF Types
  <2>4. JobSound'
    <3>1. \A id \in JobIds : Known(id)' = Known(id)
      BY <1>1, <1>4, <2>1, <2>2 DEF Known, Resting
    <3>. QED
      BY <1>1, <3>1, InvParts DEF JobSound, Queued
  <2>5. DueSound' /\ WkSound'
    BY <1>1, <1>3, <1>5, <2>1, <2>2 DEF DueSound, WkSound, Held
  <2>6. LiveSound'
    BY <1>1, <1>3, <2>1, <2>2, ActiveIsKnown DEF LiveSound, Active
  <2>. QED
    BY <1>6, <1>7, <2>3, <2>4, <2>5, <2>6, InvWhole
<1>. QED
  BY <1>8, <1>9

LEMMA PostInv ==
  ASSUME WebhookInv, Post
  PROVE  WebhookInv'
<1>1. /\ UNCHANGED <<events, job, endpoint, emitting, editing, due, owed, faults, edits>>
      /\ wk.pc = "post"
  BY DEF Post, tables
<1>2. /\ wk.id \in JobIds /\ wk.copy.of[2] \in Endpoints /\ Held(wk.id, wk.copy) /\ ~wk.ok
      /\ wk.fails < TickTries /\ wk.fails \in Nat /\ wk \in WkType /\ wk.copy \in Job
  BY <1>1, InvParts DEF WkSound, Types, WkType
<1>3. Known(wk.id) = 0
  BY <1>2 DEF Known, Held
<1>4. CASE /\ wk' = [wk EXCEPT !.ok = TRUE, !.pc = "record"]
           /\ acked' = [acked EXCEPT ![wk.id] = @ + 1]
           /\ UNCHANGED inARow
  <2>1. /\ wk' \in WkType /\ wk'.pc = "record" /\ wk'.ok
        /\ wk'.id = wk.id /\ wk'.copy = wk.copy /\ wk'.live = wk.live /\ wk'.fails = wk.fails
    BY <1>2, <1>4 DEF WkType
  <2>2. /\ acked' \in [JobIds -> Nat] /\ acked'[wk.id] = acked[wk.id] + 1
        /\ \A id \in JobIds \ {wk.id} : acked'[id] = acked[id]
    BY <1>2, <1>4, InvParts DEF Types
  <2>3. JobSound'
    <3>. SUFFICES ASSUME NEW id \in JobIds
                  PROVE  /\ job[id].status = "delivered" => acked'[id] > 0
                         /\ acked'[id] <= faults + Known(id)'
      BY <1>1, InvParts DEF JobSound, Queued
    <3>1. /\ job[id].status = "delivered" => acked[id] > 0
          /\ acked[id] <= faults + Known(id) /\ acked[id] \in Nat /\ faults \in Nat
      BY InvParts DEF JobSound, Types
    <3>2. CASE id = wk.id
      <4>1. Known(id)' = 1
        BY <2>1, <3>2 DEF Known
      <4>. QED
        BY <1>3, <2>2, <3>1, <3>2, <4>1
    <3>3. CASE id # wk.id
      <4>1. Known(id)' = Known(id)
        BY <1>1, <2>1, <3>3 DEF Known
      <4>. QED
        BY <2>2, <3>1, <3>3, <4>1
    <3>. QED
      BY <3>2, <3>3
  <2>4. WkSound'
    <3>1. acked[wk.id] \in Nat
      BY <1>2, InvParts DEF Types
    <3>. QED
      BY <1>1, <1>2, <2>1, <2>2, <3>1 DEF WkSound, Held
  <2>5. Types'
    BY <1>1, <1>4, <2>1, <2>2, InvParts DEF Types
  <2>6. DueSound' /\ EditSound' /\ LiveSound'
    BY <1>1, <2>1, InvParts DEF DueSound, EditSound, LiveSound, Held
  <2>7. OwedSound'
    BY <1>1, InvParts, OwedFrame DEF Types, Queued
  <2>. QED
    BY <2>3, <2>4, <2>5, <2>6, <2>7, InvWhole
<1>5. CASE /\ \/ wk' = [wk EXCEPT !.fails = @ + 1,
                                 !.pc = IF wk.fails + 1 = TickTries THEN "record" ELSE "post"]
              \/ wk' = [wk EXCEPT !.fails = 1, !.pc = "record"]
           /\ inARow' = [inARow EXCEPT ![wk.copy.of[2]] = @ + 1]
           /\ UNCHANGED acked
  <2>1. /\ wk' \in WkType /\ wk'.pc \in {"post", "record"} /\ ~wk'.ok
        /\ wk'.id = wk.id /\ wk'.copy = wk.copy /\ wk'.live = wk.live
        /\ wk'.fails <= TickTries /\ (wk'.pc = "post" => wk'.fails < TickTries)
    <3>1. CASE wk' = [wk EXCEPT !.fails = @ + 1,
                                !.pc = IF wk.fails + 1 = TickTries THEN "record" ELSE "post"]
      <4>1. PICK pc \in {"post", "record"} :
              wk' = Counted(wk, wk.fails + 1, pc) /\ (pc = "post" => wk.fails + 1 # TickTries)
        BY <3>1 DEF Counted
      <4>2. /\ wk.fails + 1 \in Nat /\ wk.fails + 1 <= TickTries
            /\ pc = "post" => wk.fails + 1 < TickTries
        BY <1>2, <4>1
      <4>. QED
        BY <1>2, <4>1, <4>2, CountedWk
    <3>2. CASE wk' = [wk EXCEPT !.fails = 1, !.pc = "record"]
      <4>1. wk' = Counted(wk, 1, "record")
        BY <3>2 DEF Counted
      <4>2. 1 \in Nat /\ 1 <= TickTries /\ "record" \in {"post", "record"} /\ "record" # "post"
        OBVIOUS
      <4>. QED
        BY <1>2, <4>1, <4>2, CountedWk
    <3>. QED
      BY <1>5, <3>1, <3>2
  <2>2. inARow' \in [Endpoints -> Nat]
    BY <1>2, <1>5, InvParts DEF Types
  <2>3. \A id \in JobIds : Known(id)' = Known(id)
    BY <1>1, <1>2, <2>1 DEF Known
  <2>4. JobSound'
    BY <1>1, <1>5, <2>3, InvParts DEF JobSound, Queued
  <2>5. WkSound'
    BY <1>1, <1>2, <2>1 DEF WkSound, Held, WkType
  <2>6. Types'
    BY <1>1, <1>5, <2>1, <2>2, InvParts DEF Types
  <2>7. DueSound' /\ EditSound' /\ LiveSound'
    BY <1>1, <2>1, InvParts DEF DueSound, EditSound, LiveSound, Held
  <2>8. OwedSound'
    BY <1>1, InvParts, OwedFrame DEF Types, Queued
  <2>. QED
    BY <2>4, <2>5, <2>6, <2>7, <2>8, InvWhole
<1>. QED
  BY <1>4, <1>5, Zenon DEF Post

(* What the attempts of a tick make of the row it was read from. *)
Recorded(row, st, n, w) == [row EXCEPT !.status = st, !.attempts = n, !.waiting = w]

Outcome == IF wk.ok THEN "delivered" ELSE "failed"

LEMMA RecordedOk ==
  ASSUME wk \in WkType, wk.copy \in Job
  PROVE  /\ RecordJobAttempts(wk.copy) \in Job
         /\ RecordJobAttempts(wk.copy).of = wk.copy.of
         /\ RecordJobAttempts(wk.copy).attempts = wk.copy.attempts + Attempts
         /\ RecordJobAttempts(wk.copy).status = Outcome
         /\ Attempts \in Nat
<1>1. Attempts \in Nat /\ wk.copy.attempts + Attempts \in Nat /\ wk.copy.waiting \in BOOLEAN
  BY DEF Job, Attempts, WkType
<1>2. PICK w \in BOOLEAN :
        RecordJobAttempts(wk.copy) = Recorded(wk.copy, Outcome, wk.copy.attempts + Attempts, w)
  <2>1. CASE wk.ok
    BY <2>1 DEF RecordJobAttempts, Recorded, Outcome
  <2>2. CASE ~wk.ok
    BY <1>1, <2>2 DEF RecordJobAttempts, Recorded, Outcome
  <2>. QED
    BY <2>1, <2>2
<1>3. Outcome \in {"delivered", "failed"}
  BY DEF Outcome
<1>. DEFINE r == Recorded(wk.copy, Outcome, wk.copy.attempts + Attempts, w)
<1>4. r \in Job /\ r.of = wk.copy.of /\ r.attempts = wk.copy.attempts + Attempts /\ r.status = Outcome
  BY <1>1, <1>3 DEF Recorded, Job
<1>. HIDE DEF r
<1>. QED
  BY <1>1, <1>2, <1>4 DEF r

LEMMA SaveJobInv ==
  ASSUME WebhookInv, SaveJob
  PROVE  WebhookInv'
<1>. DEFINE row == RecordJobAttempts(wk.copy)
<1>1. /\ UNCHANGED <<events, endpoint, emitting, editing, due, owed, acked, inARow, faults, edits>>
      /\ wk.pc = "record" /\ job' = [job EXCEPT ![wk.id] = row]
      /\ wk' = [wk EXCEPT !.pc = "health"]
  BY DEF SaveJob, history
<1>2. /\ wk.id \in JobIds /\ wk.copy.of[2] \in Endpoints /\ Held(wk.id, wk.copy)
      /\ Attempts <= TickTries /\ wk \in WkType /\ wk.copy \in Job
      /\ wk.ok => acked[wk.id] > 0
  BY <1>1, InvParts DEF WkSound, Types, WkType, Attempts
<1>3. /\ row \in Job /\ row.of = wk.copy.of /\ row.attempts = wk.copy.attempts + Attempts
      /\ row.status = (IF wk.ok THEN "delivered" ELSE "failed") /\ Attempts \in Nat
  BY <1>2, RecordedOk DEF Outcome
<1>. HIDE DEF row
<1>4. job' \in [JobIds -> Job] /\ job'[wk.id] = row /\ \A id \in JobIds \ {wk.id} : job'[id] = job[id]
  BY <1>1, <1>2, <1>3, InvParts DEF Types
<1>5. /\ wk' \in WkType /\ wk'.pc = "health" /\ wk'.id = wk.id /\ wk'.copy = wk.copy
      /\ wk'.live = wk.live /\ wk'.fails = wk.fails /\ (wk'.ok <=> wk.ok)
  BY <1>1, <1>2 DEF WkType
<1>6. Types'
  BY <1>1, <1>4, <1>5, InvParts DEF Types
<1>7. JobSound'
  <2>. SUFFICES ASSUME NEW id \in JobIds
                PROVE  /\ Queued(id)' => job'[id].of[2] \in Endpoints
                       /\ job'[id].attempts < MaxAttempts + TickTries
                       /\ job'[id].status = "delivered" => acked[id] > 0
                       /\ acked[id] <= faults + Known(id)'
    BY <1>1 DEF JobSound
  <2>1. /\ acked[id] <= faults + Known(id) /\ acked[id] \in Nat /\ faults \in Nat
        /\ Queued(id) => job[id].of[2] \in Endpoints
        /\ job[id].attempts < MaxAttempts + TickTries
        /\ job[id].status = "delivered" => acked[id] > 0
    BY InvParts DEF JobSound, Types
  <2>2. CASE id = wk.id
    <3>1. job'[id].attempts < MaxAttempts + TickTries
      BY <1>2, <1>3, <1>4, <2>2 DEF Held, Job
    <3>2. Known(id)' = Known(id)
      BY <1>2, <1>3, <1>4, <1>5, <2>2 DEF Known, Held
    <3>. QED
      BY <1>2, <1>3, <1>4, <2>1, <2>2, <3>1, <3>2
  <2>3. CASE id # wk.id
    <3>1. job'[id] = job[id]
      BY <1>4, <2>3
    <3>2. Known(id)' = Known(id)
      BY <1>5, <2>3, <3>1 DEF Known
    <3>. QED
      BY <2>1, <3>1, <3>2 DEF Queued
  <2>. QED
    BY <2>2, <2>3
<1>8. DueSound'
  BY <1>1, <1>4, <1>5, InvParts DEF DueSound, Held, Types
<1>9. WkSound'
  <2>1. wk'.ok => job'[wk.id].status = "delivered"
    BY <1>3, <1>4, <1>5
  <2>2. wk.fails + (IF wk.ok THEN 1 ELSE 0) <= TickTries
    BY InvParts DEF WkSound
  <2>. QED
    BY <1>1, <1>2, <1>5, <2>1, <2>2 DEF WkSound
<1>10. EditSound' /\ LiveSound'
  BY <1>1, <1>5, InvParts DEF EditSound, LiveSound
<1>11. OwedSound'
  <2>1. \A id \in JobIds : Queued(id) => Queued(id)'
    BY <1>3, <1>4 DEF Queued
  <2>. QED
    BY <1>1, <2>1, InvParts, OwedFrame DEF Types
<1>. QED
  BY <1>6, <1>7, <1>8, <1>9, <1>10, <1>11, InvWhole

(* The worker lets go of its job: what it knew of it is on the row, or a   *)
(* fault accounts for it.                                                  *)
LEMMA RestFrame ==
  ASSUME WebhookInv, wk' = Resting, UNCHANGED <<job, acked>>, due' \subseteq due,
         \/ wk.pc = "health" /\ faults' = faults
         \/ faults' = faults + 1
  PROVE  JobSound' /\ DueSound' /\ WkSound'
<1>1. Resting.pc = "idle" /\ Resting.id = NoJob /\ ~Resting.ok /\ Resting.fails = 0
  BY DEF Resting
<1>2. \A id \in JobIds : id # NoJob
  BY DEF JobIds
<1>3. JobSound'
  <2>. SUFFICES ASSUME NEW id \in JobIds
                PROVE  acked[id] <= faults' + Known(id)'
    BY InvParts DEF JobSound, Queued
  <2>1. acked[id] <= faults + Known(id) /\ acked[id] \in Nat /\ faults \in Nat
    BY InvParts DEF JobSound, Types
  <2>2. Known(id) \in {0, 1} /\ Known(id)' \in {0, 1}
    BY DEF Known
  <2>3. CASE wk.pc = "health" /\ faults' = faults
    <3>1. wk.id = id /\ wk.ok => job[id].status = "delivered"
      BY <2>3, InvParts DEF WkSound
    <3>2. Known(id)' = Known(id)
      BY <1>1, <3>1 DEF Known
    <3>. QED
      BY <2>1, <2>3, <3>2
  <2>4. CASE faults' = faults + 1
    BY <2>1, <2>2, <2>4
  <2>. QED
    BY <2>3, <2>4
<1>4. DueSound'
  BY <1>1, <1>2, InvParts DEF DueSound, Held, Types
<1>5. WkSound'
  BY <1>1 DEF WkSound
<1>. QED
  BY <1>3, <1>4, <1>5

LEMMA OutcomeOk ==
  ASSUME NEW doc \in Endpoint, wk.fails \in Nat
  PROVE  /\ ApplyEndpointOutcome(doc) \in Endpoint
         /\ ApplyEndpointOutcome(doc).status \in {"disabled", doc.status}
<1>1. PICK n \in Nat :
        \/ ApplyEndpointOutcome(doc) = [status |-> "disabled", auto |-> TRUE, streak |-> n]
        \/ ApplyEndpointOutcome(doc) = [doc EXCEPT !.streak = n]
  <2>. DEFINE before == IF doc.streak = Unset THEN 0 ELSE doc.streak
              n == IF wk.ok THEN 0 ELSE before + wk.fails
  <2>1. n \in Nat
    BY DEF Endpoint, Unset
  <2>2. \/ ApplyEndpointOutcome(doc) = [status |-> "disabled", auto |-> TRUE, streak |-> n]
        \/ ApplyEndpointOutcome(doc) = [doc EXCEPT !.streak = n]
    BY DEF ApplyEndpointOutcome
  <2>. HIDE DEF n
  <2>. QED
    BY <2>1, <2>2
<1>2. CASE ApplyEndpointOutcome(doc) = [status |-> "disabled", auto |-> TRUE, streak |-> n]
  <2>1. [status |-> "disabled", auto |-> TRUE, streak |-> n] \in Endpoint
    BY DEF Endpoint
  <2>. QED
    BY <1>2, <2>1
<1>3. CASE ApplyEndpointOutcome(doc) = [doc EXCEPT !.streak = n]
  <2>1. [doc EXCEPT !.streak = n] \in Endpoint /\ [doc EXCEPT !.streak = n].status = doc.status
    BY DEF Endpoint
  <2>. QED
    BY <1>3, <2>1
<1>. QED
  BY <1>1, <1>2, <1>3

LEMMA SaveHealthInv ==
  ASSUME WebhookInv, SaveHealth
  PROVE  WebhookInv'
<1>. DEFINE p == wk.copy.of[2]
            health == ApplyEndpointOutcome(wk.live)
<1>1. /\ UNCHANGED <<events, job, emitting, editing, due, owed, acked, faults, edits>>
      /\ wk.pc = "health" /\ wk' = Resting
      /\ endpoint' = IF health # wk.live THEN [endpoint EXCEPT ![p] = health] ELSE endpoint
      /\ inARow' = IF wk.ok THEN [inARow EXCEPT ![p] = 0] ELSE inARow
  BY DEF SaveHealth
<1>2. /\ p \in Endpoints /\ wk.live \in Endpoint /\ wk.fails \in Nat
      /\ wk.live.status = "active" /\ endpoint[p] # Absent
      /\ edits = 0 => endpoint[p] = wk.live
  BY <1>1, InvParts DEF WkSound, LiveSound, Types, WkType
<1>3. health \in Endpoint /\ health.status \in {"active", "disabled"}
  BY <1>2, OutcomeOk
<1>4. endpoint' = endpoint \/ endpoint' = [endpoint EXCEPT ![p] = health]
  BY <1>1
<1>. HIDE DEF health, p
<1>5. Types'
  <2>1. endpoint' \in [Endpoints -> Endpoint]
    BY <1>2, <1>3, <1>4, InvParts DEF Types
  <2>2. inARow' \in [Endpoints -> Nat]
    BY <1>1, <1>2, InvParts DEF Types
  <2>. QED
    BY <1>1, <2>1, <2>2, Constants, InvParts DEF Types
<1>6. JobSound' /\ DueSound' /\ WkSound'
  BY <1>1, RestFrame
<1>7. EditSound' /\ LiveSound'
  BY <1>1, InvParts DEF EditSound, LiveSound, Resting
<1>8. OwedSound'
  <2>. SUFFICES ASSUME NEW k \in Keys, NEW e \in Endpoints, <<k, e>> \in owed
                PROVE  /\ endpoint'[e] # Absent
                       /\ Queued(<<k, e>>) \/ faults > 0 \/ edits > 0 \/ ~Active(e)'
                          \/ \E a \in Apps : Emits(a, k, e)
    BY <1>1 DEF OwedSound, Queued, Emits
  <2>1. /\ endpoint[e] # Absent
        /\ Queued(<<k, e>>) \/ faults > 0 \/ edits > 0 \/ ~Active(e) \/ \E a \in Apps : Emits(a, k, e)
    BY OwedIsKnown
  <2>2. CASE endpoint'[e] = endpoint[e]
    BY <2>1, <2>2 DEF Active
  <2>3. CASE endpoint'[e] # endpoint[e]
    <3>1. e = p /\ endpoint'[e] = health
      BY <1>2, <1>4, <2>3, InvParts DEF Types
    <3>2. endpoint'[e] # Absent
      BY <1>3, <3>1 DEF Absent
    <3>3. edits > 0 \/ Active(e)
      BY <1>2, <3>1, InvParts DEF Active, Types
    <3>. QED
      BY <2>1, <3>2, <3>3
  <2>. QED
    BY <2>2, <2>3
<1>. QED
  BY <1>5, <1>6, <1>7, <1>8, InvWhole

LEMMA CrashWorkerInv ==
  ASSUME WebhookInv, CrashWorker
  PROVE  WebhookInv'
<1>1. /\ UNCHANGED <<events, job, endpoint, emitting, editing, owed, acked, inARow, edits>>
      /\ wk' = Resting /\ due' = {} /\ faults' = faults + 1
  BY DEF CrashWorker, tables, history
<1>2. Types'
  BY <1>1, Constants, InvParts DEF Types
<1>3. JobSound' /\ DueSound' /\ WkSound'
  BY <1>1, RestFrame
<1>4. EditSound' /\ LiveSound'
  BY <1>1, InvParts DEF EditSound, LiveSound, Resting
<1>5. OwedSound'
  BY <1>1, InvParts, OwedFrame DEF Types, Queued
<1>. QED
  BY <1>2, <1>3, <1>4, <1>5, InvWhole

(* Only a row that waits changes with time, and no such row is in work. *)
LEMMA ElapseInv ==
  ASSUME WebhookInv, NEW id \in JobIds, Elapse(id)
  PROVE  WebhookInv'
<1>1. /\ UNCHANGED <<events, endpoint, emitting, editing, due, wk, owed, acked, inARow, faults, edits>>
      /\ job[id].waiting /\ job' = [job EXCEPT ![id].waiting = FALSE]
  BY DEF Elapse, history
<1>2. /\ job' \in [JobIds -> Job]
      /\ \A x \in JobIds : /\ job'[x].of = job[x].of /\ job'[x].status = job[x].status
                           /\ job'[x].attempts = job[x].attempts
      /\ \A x \in JobIds \ {id} : job'[x] = job[x]
  <2>. DEFINE row == [job[id] EXCEPT !.waiting = FALSE]
  <2>1. job[id] \in Job
    BY InvParts DEF Types
  <2>2. /\ row \in Job /\ row.of = job[id].of /\ row.status = job[id].status
        /\ row.attempts = job[id].attempts
    BY <2>1 DEF Job
  <2>3. job' = [job EXCEPT ![id] = row]
    BY <1>1
  <2>. HIDE DEF row
  <2>. QED
    BY <2>2, <2>3, InvParts DEF Types
<1>3. Types'
  BY <1>1, <1>2, InvParts DEF Types
<1>4. JobSound'
  <2>1. \A x \in JobIds : Known(x)' = Known(x)
    BY <1>1, <1>2 DEF Known
  <2>. QED
    BY <1>1, <1>2, <2>1, InvParts DEF JobSound, Queued
<1>5. DueSound'
  BY <1>1, <1>2, InvParts DEF DueSound, Held, Types
<1>6. WkSound'
  <2>1. wk.pc \in {"post", "record"} => wk.id # id
    BY <1>1, InvParts DEF WkSound, Held
  <2>. QED
    BY <1>1, <1>2, <2>1, InvParts DEF WkSound, Held
<1>7. EditSound' /\ LiveSound'
  BY <1>1, InvParts DEF EditSound, LiveSound
<1>8. OwedSound'
  BY <1>1, <1>2, InvParts, OwedFrame DEF Types, Queued
<1>. QED
  BY <1>3, <1>4, <1>5, <1>6, <1>7, <1>8, InvWhole

LEMMA WebhookInvNext ==
  ASSUME WebhookInv, [Next]_vars
  PROVE  WebhookInv'
<1>1. CASE UNCHANGED vars
  BY <1>1, InvParts, InvWhole
  DEF vars, Types, JobSound, DueSound, WkSound, EditSound, LiveSound, OwedSound, Queued, Known, Held,
      Active, Emits
<1>2. CASE Next
  BY <1>2, InsertEventInv, ReadTargetsInv, InsertJobInv, CrashAppInv, RegisterInv, EditReadInv,
     EditSaveInv, QueueManualInv, ElapseInv, StartTickInv, TakeJobInv, PostInv, SaveJobInv,
     SaveHealthInv, CrashWorkerInv, Zenon
  DEF Next, EmitStep, WorkerStep
<1>. QED
  BY <1>1, <1>2

LEMMA WebhookInvHolds == Spec => []WebhookInv
BY WebhookInvInit, WebhookInvNext, PTL DEF Spec
-----------------------------------------------------------------------------
(***************************************************************************)
(* Every table, row and copy has the type the code gives it.               *)
(***************************************************************************)
THEOREM WebhooksTyped == Spec => []TypeOK
<1>1. WebhookInv => TypeOK
  BY DEF WebhookInv
<1>. QED
  BY <1>1, WebhookInvHolds, PTL

(***************************************************************************)
(* A job reads delivered exactly when its endpoint acknowledged it, short  *)
(* of the step that records the answer and of a death before it.           *)
(***************************************************************************)
THEOREM DeliveryIsTrue == Spec => []DeliveredIsAcked
<1>1. WebhookInv => DeliveredIsAcked
  <2>. SUFFICES ASSUME WebhookInv, NEW id \in JobIds
                PROVE  /\ job[id].status = "delivered" => acked[id] > 0
                       /\ acked[id] > 0 /\ job[id].status # "delivered" => faults > 0 \/ wk.id = id
    BY DEF DeliveredIsAcked
  <2>1. /\ job[id].status = "delivered" => acked[id] > 0
        /\ acked[id] <= faults + Known(id) /\ acked[id] \in Nat /\ faults \in Nat
    BY InvParts DEF JobSound, Types
  <2>. QED
    BY <2>1 DEF Known
<1>. QED
  BY <1>1, WebhookInvHolds, PTL

(***************************************************************************)
(* An endpoint that answered is posted to again only after as many deaths  *)
(* of the worker between a post and the record of it.                      *)
(***************************************************************************)
THEOREM AcknowledgedOnce == Spec => []AckedOnce
<1>1. WebhookInv => AckedOnce
  <2>. SUFFICES ASSUME WebhookInv, NEW id \in JobIds
                PROVE  acked[id] <= 1 + faults
    BY DEF AckedOnce
  <2>1. acked[id] <= faults + Known(id) /\ acked[id] \in Nat /\ faults \in Nat
    BY InvParts DEF JobSound, Types
  <2>. QED
    BY <2>1 DEF Known
<1>. QED
  BY <1>1, WebhookInvHolds, PTL

(***************************************************************************)
(* The cap on a job's attempts is overrun by less than one schedule.       *)
(***************************************************************************)
THEOREM WorkerGivesUp == Spec => []GivesUp
<1>1. WebhookInv => GivesUp
  BY InvParts DEF GivesUp, JobSound
<1>. QED
  BY <1>1, WebhookInvHolds, PTL

(***************************************************************************)
(* Whoever is subscribed when an event is stored gets its job, unless an   *)
(* app or the worker died or an endpoint was edited.                       *)
(***************************************************************************)
THEOREM EventsAreQueued == Spec => []EventIsQueued
<1>1. WebhookInv => EventIsQueued
  BY InvParts, Zenon DEF EventIsQueued, OwedSound, Emits
<1>. QED
  BY <1>1, WebhookInvHolds, PTL
-----------------------------------------------------------------------------
(***************************************************************************)
(* The failure streak.  An active endpoint never claims more failures than *)
(* there were, and while the worker holds its copy, the row is that copy,  *)
(* one enabled anew, or disabled by hand.  A rotation breaks this: it      *)
(* saves an active document with a streak a success has ended since.       *)
(***************************************************************************)
StreakRow(e) ==
  /\ endpoint[e].auto => endpoint[e].status = "disabled" /\ inARow[e] >= DisableAfter
  /\ Active(e) => endpoint[e].streak <= inARow[e]

StreakWk ==
  wk.pc # "idle" =>
    LET p == wk.copy.of[2] IN
    /\ ~wk.live.auto /\ ~endpoint[p].auto
    /\ Active(p) => endpoint[p].streak \in {wk.live.streak, 0}
    /\ inARow[p] >= wk.fails /\ inARow[p] >= wk.live.streak + wk.fails

StreakSound == (\A e \in Endpoints : StreakRow(e)) /\ StreakWk

LEMMA StreakFrame ==
  ASSUME StreakSound, UNCHANGED <<endpoint, wk, inARow>>
  PROVE  StreakSound'
BY DEF StreakSound, StreakRow, StreakWk, Active

LEMMA StreakRegister ==
  ASSUME WebhookInv, StreakSound, NEW e \in Endpoints, Register(e)
  PROVE  StreakSound'
<1>1. /\ UNCHANGED <<wk, inARow>> /\ endpoint[e] = Absent
      /\ endpoint'[e] = Registered /\ \A x \in Endpoints \ {e} : endpoint'[x] = endpoint[x]
  BY InvParts DEF Register, history, Types
<1>2. Registered.streak = -1 /\ ~Registered.auto
  BY DEF Registered, Unset
<1>3. inARow[e] \in Nat
  BY InvParts DEF Types
<1>4. StreakRow(e)'
  BY <1>1, <1>2, <1>3 DEF StreakRow
<1>5. \A x \in Endpoints \ {e} : StreakRow(x)'
  BY <1>1 DEF StreakSound, StreakRow, Active
<1>6. wk.pc # "idle" => wk.copy.of[2] \in Endpoints \ {e}
  BY <1>1, InvParts DEF LiveSound, WkSound
<1>7. StreakWk'
  BY <1>1, <1>6 DEF StreakSound, StreakWk, Active
<1>. QED
  BY <1>4, <1>5, <1>7 DEF StreakSound

LEMMA StreakEditSave ==
  ASSUME "rotate" \notin EditOps, WebhookInv, StreakSound, NEW r \in Reqs, EditSave(r)
  PROVE  StreakSound'
<1>. DEFINE l == editing[r]
            doc == Edited(l.op, l.doc)
<1>1. /\ UNCHANGED <<wk, inARow>> /\ endpoint' = [endpoint EXCEPT ![l.e] = doc] /\ l.pc = "save"
  BY DEF EditSave, history
<1>2. l.op \in {"disable", "enable"} /\ l.e \in Endpoints /\ l.doc \in Endpoint
  BY <1>1, InvParts DEF EditSound, Types, EditType
<1>3. ~doc.auto /\ (doc.status = "active" => doc.streak = 0)
  BY <1>2 DEF Edited, Endpoint
<1>. HIDE DEF doc, l
<1>4. endpoint'[l.e] = doc /\ \A x \in Endpoints \ {l.e} : endpoint'[x] = endpoint[x]
  BY <1>1, <1>2, InvParts DEF Types
<1>5. \A e \in Endpoints : inARow[e] \in Nat
  BY InvParts DEF Types
<1>6. \A e \in Endpoints : StreakRow(e)'
  BY <1>1, <1>3, <1>4, <1>5 DEF StreakSound, StreakRow, Active
<1>7. wk.pc # "idle" => wk.copy.of[2] \in Endpoints
  BY InvParts DEF WkSound
<1>8. StreakWk'
  BY <1>1, <1>3, <1>4, <1>7 DEF StreakSound, StreakWk, Active
<1>. QED
  BY <1>6, <1>8 DEF StreakSound

LEMMA StreakTakeJob ==
  ASSUME WebhookInv, StreakSound, TakeJob
  PROVE  StreakSound'
<1>1. UNCHANGED <<endpoint, inARow>>
  BY DEF TakeJob, tables, history
<1>2. PICK item \in due :
        wk' = IF endpoint[item[2].of[2]].status = "active"
                THEN Taken(item[1], item[2], endpoint[item[2].of[2]])
                ELSE wk
  BY Zenon DEF TakeJob, Taken
<1>3. /\ item[1] \in JobIds /\ item[2] \in Job /\ item[2].of[2] \in Endpoints
  BY InvParts DEF DueSound, Types, Held, JobSound, Queued
<1>4. CASE wk' = wk
  BY <1>1, <1>4, StreakFrame
<1>5. CASE wk' # wk
  <2>. DEFINE p == item[2].of[2]
              live == endpoint[p]
  <2>1. live.status = "active" /\ live \in Endpoint /\ wk' = Taken(item[1], item[2], live)
    BY <1>2, <1>3, <1>5, InvParts DEF Types
  <2>2. wk'.copy = item[2] /\ wk'.live = live /\ wk'.fails = 0
    <3>. HIDE DEF live
    <3>. QED
      BY <1>3, <2>1, TakenOk
  <2>3. ~live.auto /\ live.streak <= inARow[p] /\ inARow[p] \in Nat /\ live.streak \in Int
    BY <1>3, <2>1, InvParts DEF StreakSound, StreakRow, Active, Types, Endpoint, Unset
  <2>4. StreakWk'
    BY <1>1, <2>2, <2>3 DEF StreakWk
  <2>. QED
    BY <1>1, <2>4 DEF StreakSound, StreakRow, Active
<1>. QED
  BY <1>4, <1>5

LEMMA StreakPost ==
  ASSUME WebhookInv, StreakSound, Post
  PROVE  StreakSound'
<1>. DEFINE p == wk.copy.of[2]
<1>1. /\ UNCHANGED endpoint /\ wk.pc = "post"
      /\ \/ wk' = [wk EXCEPT !.ok = TRUE, !.pc = "record"] /\ inARow' = inARow
         \/ /\ \/ wk' = [wk EXCEPT !.fails = @ + 1,
                                  !.pc = IF wk.fails + 1 = TickTries THEN "record" ELSE "post"]
               \/ wk' = [wk EXCEPT !.fails = 1, !.pc = "record"]
            /\ inARow' = [inARow EXCEPT ![p] = @ + 1]
  BY DEF Post, tables
<1>2. /\ wk \in WkType /\ p \in Endpoints /\ wk.fails \in Nat /\ wk.live.streak \in Int
      /\ \A e \in Endpoints : inARow[e] \in Nat
  BY <1>1, InvParts DEF WkSound, Types, WkType, Endpoint, Unset
<1>3. /\ ~wk.live.auto /\ ~endpoint[p].auto
      /\ Active(p) => endpoint[p].streak \in {wk.live.streak, 0}
      /\ inARow[p] >= wk.fails /\ inARow[p] >= wk.live.streak + wk.fails
  BY <1>1 DEF StreakSound, StreakWk
<1>4. wk'.copy = wk.copy /\ wk'.live = wk.live
  BY <1>1, <1>2 DEF WkType
<1>5. \/ inARow' = inARow /\ wk'.fails = wk.fails
      \/ inARow' = [inARow EXCEPT ![p] = @ + 1] /\ wk'.fails \in {1, wk.fails + 1}
  BY <1>1, <1>2 DEF WkType
<1>. HIDE DEF p
<1>6. \/ inARow'[p] = inARow[p] /\ wk'.fails = wk.fails
      \/ inARow'[p] = inARow[p] + 1 /\ wk'.fails \in {1, wk.fails + 1}
  BY <1>2, <1>5, InvParts DEF Types
<1>7. \A e \in Endpoints : inARow'[e] >= inARow[e] /\ inARow'[e] \in Nat
  BY <1>2, <1>5, InvParts DEF Types
<1>8. inARow'[p] >= wk'.fails /\ inARow'[p] >= wk.live.streak + wk'.fails
  BY <1>2, <1>3, <1>6
<1>9. StreakWk'
  BY <1>1, <1>3, <1>4, <1>8 DEF StreakWk, Active, p
<1>10. \A e \in Endpoints : StreakRow(e)'
  <2>. SUFFICES ASSUME NEW e \in Endpoints
                PROVE  StreakRow(e)'
    OBVIOUS
  <2>1. endpoint[e].streak \in Int /\ DisableAfter \in Nat
    BY InvParts DEF Types, Endpoint, Unset
  <2>. QED
    BY <1>1, <1>2, <1>7, <2>1 DEF StreakSound, StreakRow, Active
<1>. QED
  BY <1>9, <1>10 DEF StreakSound

LEMMA StreakOutcome ==
  ASSUME NEW doc \in Endpoint, ~doc.auto, wk.fails \in Nat
  PROVE  LET health == ApplyEndpointOutcome(doc)
             before == IF doc.streak = Unset THEN 0 ELSE doc.streak
         IN  /\ wk.ok => health.streak = 0 /\ ~health.auto
             /\ ~wk.ok => health.streak = before + wk.fails
             /\ health.auto => health.status = "disabled" /\ health.streak >= DisableAfter
<1>. DEFINE before == IF doc.streak = Unset THEN 0 ELSE doc.streak
            streak == IF wk.ok THEN 0 ELSE before + wk.fails
            off == [status |-> "disabled", auto |-> TRUE, streak |-> streak]
            on == [doc EXCEPT !.streak = streak]
<1>1. streak \in Nat /\ (wk.ok => streak = 0) /\ (~wk.ok => streak = before + wk.fails)
  BY DEF Endpoint, Unset
<1>2. ApplyEndpointOutcome(doc) = IF streak >= DisableAfter THEN off ELSE on
  BY DEF ApplyEndpointOutcome
<1>. HIDE DEF streak, before
<1>3. on.streak = streak /\ ~on.auto
  BY DEF Endpoint
<1>4. off.streak = streak /\ off.auto /\ off.status = "disabled"
  OBVIOUS
<1>. HIDE DEF on, off
<1>5. CASE streak >= DisableAfter
  BY <1>1, <1>2, <1>4, <1>5 DEF before
<1>6. CASE ~(streak >= DisableAfter)
  BY <1>1, <1>2, <1>3, <1>6 DEF before
<1>. QED
  BY <1>5, <1>6

LEMMA StreakSaveHealth ==
  ASSUME WebhookInv, StreakSound, SaveHealth
  PROVE  StreakSound'
<1>. DEFINE p == wk.copy.of[2]
            health == ApplyEndpointOutcome(wk.live)
            before == IF wk.live.streak = Unset THEN 0 ELSE wk.live.streak
<1>1. /\ wk.pc = "health" /\ wk' = Resting
      /\ endpoint' = IF health # wk.live THEN [endpoint EXCEPT ![p] = health] ELSE endpoint
      /\ inARow' = IF wk.ok THEN [inARow EXCEPT ![p] = 0] ELSE inARow
  BY DEF SaveHealth
<1>2. /\ p \in Endpoints /\ wk.live \in Endpoint /\ wk.fails \in Nat
      /\ wk.live.streak \in Nat \cup {Unset} /\ inARow[p] \in Nat
  BY <1>1, InvParts DEF WkSound, Types, WkType, Endpoint
<1>3. /\ ~wk.live.auto /\ ~endpoint[p].auto
      /\ Active(p) => endpoint[p].streak \in {wk.live.streak, 0}
      /\ inARow[p] >= wk.fails /\ inARow[p] >= wk.live.streak + wk.fails
  BY <1>1 DEF StreakSound, StreakWk
<1>4. /\ wk.ok => health.streak = 0 /\ ~health.auto
      /\ ~wk.ok => health.streak = before + wk.fails
      /\ health.auto => health.status = "disabled" /\ health.streak >= DisableAfter
  BY <1>2, <1>3, StreakOutcome
<1>. HIDE DEF health, p
<1>5. /\ endpoint'[p] = IF health # wk.live THEN health ELSE endpoint[p]
      /\ inARow'[p] = IF wk.ok THEN 0 ELSE inARow[p]
      /\ \A e \in Endpoints \ {p} : endpoint'[e] = endpoint[e] /\ inARow'[e] = inARow[e]
  BY <1>1, <1>2, InvParts DEF Types
<1>6. \A e \in Endpoints \ {p} : StreakRow(e)'
  BY <1>5 DEF StreakSound, StreakRow, Active
<1>7. ASSUME NEW e \in Endpoints, e = p
      PROVE  StreakRow(e)'
  <2>1. /\ endpoint'[e] = IF health # wk.live THEN health ELSE endpoint[e]
        /\ inARow'[e] = IF wk.ok THEN 0 ELSE inARow[e]
    BY <1>5, <1>7
  <2>2. CASE wk.ok /\ health # wk.live
    BY <1>4, <2>1, <2>2 DEF StreakRow
  <2>3. CASE wk.ok /\ health = wk.live
    BY <1>3, <1>4, <1>7, <2>1, <2>3 DEF StreakRow, Active
  <2>4. CASE ~wk.ok /\ health # wk.live
    <3>1. before + wk.fails <= inARow[e] /\ before \in Nat
      BY <1>2, <1>3, <1>7 DEF Unset
    <3>2. endpoint'[e] = health /\ inARow'[e] = inARow[e]
      BY <2>1, <2>4
    <3>. HIDE DEF before
    <3>. QED
      BY <1>2, <1>4, <1>7, <2>4, <3>1, <3>2 DEF StreakRow
  <2>5. CASE ~wk.ok /\ health = wk.live
    BY <2>1, <2>5 DEF StreakSound, StreakRow, Active
  <2>. QED
    BY <2>2, <2>3, <2>4, <2>5
<1>8. StreakWk'
  BY <1>1 DEF StreakWk, Resting
<1>. QED
  BY <1>6, <1>7, <1>8 DEF StreakSound

LEMMA StreakNext ==
  ASSUME "rotate" \notin EditOps, WebhookInv, StreakSound, [Next]_vars
  PROVE  StreakSound'
<1>1. CASE UNCHANGED <<endpoint, wk, inARow>>
  BY <1>1, StreakFrame
<1>2. CASE wk' = Resting /\ UNCHANGED <<endpoint, inARow>>
  BY <1>2 DEF StreakSound, StreakRow, StreakWk, Active, Resting
<1>3. ASSUME SaveJob PROVE StreakSound'
  <2>1. UNCHANGED <<endpoint, inARow>> /\ wk' = [wk EXCEPT !.pc = "health"] /\ wk.pc = "record"
    BY <1>3 DEF SaveJob, history
  <2>2. wk'.copy = wk.copy /\ wk'.live = wk.live /\ wk'.fails = wk.fails
    BY <2>1, InvParts DEF Types, WkType
  <2>. QED
    BY <2>1, <2>2 DEF StreakSound, StreakRow, StreakWk, Active
<1>4. ASSUME NEW r \in Reqs, NEW e \in Endpoints, NEW op \in EditOps, EditRead(r, e, op)
      PROVE  StreakSound'
  BY <1>1, <1>4 DEF EditRead, tables, history
<1>5. ASSUME NEW id \in Manual, NEW k \in Keys \cup {TestEvent}, NEW e \in Endpoints,
             QueueManual(id, k, e)
      PROVE  StreakSound'
  BY <1>1, <1>5 DEF QueueManual, history
<1>6. ASSUME NEW a \in Apps, NEW k \in Keys, InsertEvent(a, k) PROVE StreakSound'
  BY <1>1, <1>6 DEF InsertEvent
<1>7. ASSUME NEW a \in Apps, EmitStep(a) \/ CrashApp(a) PROVE StreakSound'
  BY <1>1, <1>7 DEF EmitStep, ReadTargets, InsertJob, CrashApp, tables, history
<1>8. ASSUME NEW id \in JobIds, Elapse(id) PROVE StreakSound'
  BY <1>1, <1>8 DEF Elapse, history
<1>9. StartTick => StreakSound'
  BY <1>1 DEF StartTick, tables, history
<1>10. CrashWorker => StreakSound'
  BY <1>2 DEF CrashWorker, tables, history
<1>11. UNCHANGED vars => StreakSound'
  BY <1>1 DEF vars
<1>. QED
  BY <1>3, <1>4, <1>5, <1>6, <1>7, <1>8, <1>9, <1>10, <1>11, StreakRegister, StreakEditSave,
     StreakTakeJob, StreakPost, StreakSaveHealth, Zenon
  DEF Next, WorkerStep

(***************************************************************************)
(* webhook-log.ts: "Disable an endpoint after this many failed attempts in *)
(* a row".  Where no secret is rotated, an endpoint the worker disabled    *)
(* has failed that often since the last success recorded for it, whatever  *)
(* disable, enable or crash came between the reads and the saves.          *)
(***************************************************************************)
THEOREM StreaksAreReal ==
  ASSUME "rotate" \notin EditOps
  PROVE  Spec => []DisabledForFailures
<1>1. Init => WebhookInv /\ StreakSound
  <2>1. Init => StreakSound
    BY DEF Init, StreakSound, StreakRow, StreakWk, Active, Absent, Resting
  <2>. QED
    BY <2>1, WebhookInvInit
<1>2. (WebhookInv /\ StreakSound) /\ [Next]_vars => (WebhookInv /\ StreakSound)'
  BY WebhookInvNext, StreakNext
<1>3. WebhookInv /\ StreakSound => DisabledForFailures
  BY DEF StreakSound, StreakRow, DisabledForFailures
<1>. QED
  BY <1>1, <1>2, <1>3, PTL DEF Spec
=============================================================================
