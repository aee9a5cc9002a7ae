------------------------- MODULE DeliveryRunsProofs -------------------------
(***************************************************************************)
(* What a delivery run records is what stands in the other systems:        *)
(* theorems of DeliveryRuns, for every number of runs, actions, tries,     *)
(* failures, lost answers and crashes.                                     *)
(***************************************************************************)
EXTENDS MCWorkerJobs, RoyaltySweepProofs, WellFoundedInduction, TLAPS

USE ActionsAssumption, DeliveryTriesAssumption, DeliveryBoundsAssumption, DeliveryNamesAssumption

(* A set of numbers has a smallest one, so First and Last choose a member  *)
(* of the set they are given.                                              *)
LEMMA SmallestExists ==
  ASSUME NEW js, js \subseteq Nat, js # {}
  PROVE  \E j \in js : \A k \in js : j <= k
<1>. DEFINE Less == {ss \in Nat \X Nat : ss[1] < ss[2]}
<1>1. IsWellFoundedOn(Less, Nat)
  BY NatLessThanWellFounded, Zenon DEF OpToRel
<1>2. PICK j \in js : \A k \in js : <<k, j>> \notin Less
  <2>. HIDE DEF Less
  <2>. QED
    BY <1>1, WFMin, Zenon
<1>3. ASSUME NEW k \in js
      PROVE  j <= k
  <2>1. j \in Nat /\ k \in Nat
    OBVIOUS
  <2>2. ~(k < j)
    BY <1>2, <2>1
  <2>. QED
    BY <2>1, <2>2
<1>. QED
  BY <1>3

LEMMA FirstIsMember ==
  ASSUME NEW js, js \subseteq Actions, js # {}
  PROVE  First(js) \in js
<1>1. js \subseteq Nat
  BY DEF Actions
<1>2. \E j \in js : \A k \in js : j <= k
  BY <1>1, SmallestExists
<1>. QED
  BY <1>2 DEF First

LEMMA LastIsMember ==
  ASSUME NEW js, js \subseteq Actions, js # {}
  PROVE  Last(js) \in js
<1>. DEFINE fromEnd == {N - j : j \in js}
<1>1. fromEnd \subseteq Nat /\ fromEnd # {}
  <2>1. \A j \in js : N - j \in Nat
    BY DEF Actions
  <2>. QED
    BY <2>1
<1>2. PICK m \in fromEnd : \A k \in fromEnd : m <= k
  <2>. HIDE DEF fromEnd
  <2>. QED
    BY <1>1, SmallestExists
<1>3. PICK j \in js : m = N - j
  BY <1>2
<1>4. ASSUME NEW k \in js
      PROVE  k <= j
  <2>1. N - j <= N - k
    BY <1>2, <1>3
  <2>2. N \in Int /\ j \in Int /\ k \in Int
    BY DEF Actions
  <2>. HIDE DEF fromEnd
  <2>. QED
    BY <2>1, <2>2
<1>. QED
  BY <1>4 DEF Last

-----------------------------------------------------------------------------
(***************************************************************************)
(* The inductive invariant.  The record of a run that is not executed is   *)
(* true; of the one that is, the copy in the runner is.  A run waiting to  *)
(* be taken is the row it was read from, because only the runner saves     *)
(* rows, and the runner executes an action that has not succeeded.         *)
(***************************************************************************)
RunnerType ==
  [pc : {"idle", "execute", "undo", "save"}, run : Runs \cup {NoRun},
   actions : [Actions -> ActionStatus], at : 0..N, tries : Nat]

AtOpen(l) == l.pc = "execute" => l.at \in Actions /\ l.actions[l.at] # "succeeded"
AtDone(l) == l.pc = "undo" => l.at \in Actions /\ l.actions[l.at] = "succeeded"

RunnerSound ==
  /\ runner.pc = "idle" <=> runner.run = NoRun
  /\ runner.pc # "idle" => runQueue[runner.run].status \notin {"none", "succeeded"}
  /\ AtOpen(runner) /\ AtDone(runner)

DueSound ==
  \A item \in dueRuns :
    /\ item[2] = runQueue[item[1]]
    /\ item[2].status \notin {"none", "succeeded"}
    /\ item[1] # runner.run

RowSound ==
  \A r \in Runs :
    /\ runQueue[r].status = "none" => runQueue[r].actions = NoQueueRow.actions
    /\ runQueue[r].status = "succeeded" => \A i \in Actions : runQueue[r].actions[i] = "succeeded"

CopyIsTrue == runner.pc # "idle" => \A i \in Actions : Stands(runner.actions, runner.run, i)

DeliveryInv == DeliveryTypeOK /\ RecordIsTrue /\ CopyIsTrue /\ RunnerSound /\ DueSound /\ RowSound

(* Where the runner goes next: to an open action, or to the save. *)
LEMMA AdvanceSound ==
  ASSUME NEW l \in RunnerType, NEW i \in Nat \ {0}
  PROVE  /\ Advance(l, i) \in RunnerType
         /\ Advance(l, i).run = l.run /\ Advance(l, i).actions = l.actions
         /\ Advance(l, i).pc # "idle"
         /\ AtOpen(Advance(l, i)) /\ AtDone(Advance(l, i))
<1>1. CASE Open(l.actions, i) = {}
  BY <1>1 DEF Advance, RunnerType, AtOpen, AtDone
<1>2. CASE Open(l.actions, i) # {}
  <2>1. Open(l.actions, i) \subseteq Actions
    BY DEF Open, Actions
  <2>2. First(Open(l.actions, i)) \in Open(l.actions, i)
    BY <1>2, <2>1, FirstIsMember
  <2>3. l.actions[First(Open(l.actions, i))] # "succeeded"
    BY <2>2 DEF Open
  <2>4. PICK j \in Actions :
          /\ l.actions[j] # "succeeded"
          /\ Advance(l, i) = [l EXCEPT !.pc = "execute", !.at = j, !.tries = 0]
    BY <1>2, <2>1, <2>2, <2>3, Zenon DEF Advance
  <2>5. j \in 0..N
    BY DEF Actions
  <2>6. Advance(l, i) = [pc |-> "execute", run |-> l.run, actions |-> l.actions, at |-> j, tries |-> 0]
    BY <2>4 DEF RunnerType
  <2>. QED
    BY <2>4, <2>5, <2>6 DEF RunnerType, AtOpen, AtDone
<1>. QED
  BY <1>1, <1>2

LEMMA RetreatSound ==
  ASSUME NEW l \in RunnerType, NEW i \in Int, i <= N
  PROVE  /\ Retreat(l, i) \in RunnerType
         /\ Retreat(l, i).run = l.run /\ Retreat(l, i).actions = l.actions
         /\ Retreat(l, i).pc # "idle"
         /\ AtOpen(Retreat(l, i)) /\ AtDone(Retreat(l, i))
<1>1. CASE ToUndo(l.actions, i) = {}
  BY <1>1 DEF Retreat, RunnerType, AtOpen, AtDone
<1>2. CASE ToUndo(l.actions, i) # {}
  <2>1. ToUndo(l.actions, i) \subseteq Actions
    BY DEF ToUndo, Actions
  <2>2. Last(ToUndo(l.actions, i)) \in ToUndo(l.actions, i)
    BY <1>2, <2>1, LastIsMember
  <2>3. l.actions[Last(ToUndo(l.actions, i))] = "succeeded"
    BY <2>2 DEF ToUndo
  <2>4. PICK j \in Actions :
          l.actions[j] = "succeeded" /\ Retreat(l, i) = [l EXCEPT !.pc = "undo", !.at = j]
    BY <1>2, <2>1, <2>2, <2>3, Zenon DEF Retreat
  <2>5. j \in 0..N
    BY DEF Actions
  <2>. QED
    BY <2>4, <2>5 DEF RunnerType, AtOpen, AtDone
<1>. QED
  BY <1>1, <1>2

-----------------------------------------------------------------------------
(* What the invariant says, one part at a time. *)
LEMMA InvParts ==
  ASSUME DeliveryInv
  PROVE  /\ runQueue \in [Runs -> Run] /\ dueRuns \subseteq Runs \X Run
         /\ runner \in RunnerType
         /\ effect \in [Runs -> [Actions -> Nat]]
         /\ vanished \subseteq Runs \X Actions
         /\ failures \in Nat /\ lost \in Nat /\ crashes \in Nat
         /\ \A r \in Runs, i \in Actions : runner.run # r => Stands(runQueue[r].actions, r, i)
         /\ runner.pc # "idle" => runner.run \in Runs
         /\ CopyIsTrue /\ RunnerSound /\ DueSound /\ RowSound
BY DEF DeliveryInv, DeliveryTypeOK, RunnerType, RecordIsTrue, Busy, Stands, RunnerSound

LEMMA InvWhole ==
  ASSUME runQueue' \in [Runs -> Run], dueRuns' \subseteq Runs \X Run, runner' \in RunnerType,
         effect' \in [Runs -> [Actions -> Nat]],
         vanished' \subseteq Runs \X Actions,
         failures' \in Nat, lost' \in Nat, crashes' \in Nat,
         \A r \in Runs, i \in Actions : runner'.run # r => Stands(runQueue[r].actions, r, i)',
         CopyIsTrue', RunnerSound', DueSound', RowSound'
  PROVE  DeliveryInv'
BY DEF DeliveryInv, DeliveryTypeOK, RunnerType, RecordIsTrue, Busy, Stands

LEMMA DeliveryInvInit ==
  ASSUME DeliveryInit
  PROVE  DeliveryInv
<1>1. NoQueueRow \in Run /\ RunnerResting \in RunnerType
  BY DEF NoQueueRow, Run, RunStatus, ActionStatus, RunnerResting, RunnerType
<1>2. \A r \in Runs, i \in Actions : Stands(runQueue[r].actions, r, i)
  BY DEF DeliveryInit, Stands, TakenBack, NoQueueRow
<1>3. CopyIsTrue /\ RunnerSound /\ DueSound /\ RowSound
  BY DEF DeliveryInit, CopyIsTrue, RunnerSound, DueSound, RowSound, RunnerResting, NoQueueRow,
         AtOpen, AtDone
<1>4. DeliveryTypeOK
  BY <1>1 DEF DeliveryInit, DeliveryTypeOK, RunnerType
<1>. QED
  BY <1>2, <1>3, <1>4 DEF DeliveryInv, RecordIsTrue, Stands, TakenBack

LEMMA RestInv ==
  ASSUME DeliveryInv, UNCHANGED deliveryVars
  PROVE  DeliveryInv'
BY DEF DeliveryInv, DeliveryTypeOK, RecordIsTrue, Busy, CopyIsTrue, Stands, TakenBack, RunnerSound, AtOpen,
       AtDone, DueSound, RowSound, deliveryVars

LEMMA EnqueueInv ==
  ASSUME DeliveryInv, NEW r \in Runs, Enqueue(r)
  PROVE  DeliveryInv'
<1>1. NewRun \in Run /\ NewRun.actions = NoQueueRow.actions /\ NewRun.status = "pending"
  BY DEF NewRun, NoQueueRow, Run, RunStatus, ActionStatus
<1>2. runQueue' \in [Runs -> Run]
  BY <1>1, InvParts DEF Enqueue
<1>3. \A q \in Runs : runQueue'[q].actions = runQueue[q].actions
  BY <1>1, InvParts DEF Enqueue, RowSound
<1>4. \A q \in Runs \ {r} : runQueue'[q] = runQueue[q]
  BY InvParts DEF Enqueue
<1>5. \A q \in Runs, i \in Actions : runner'.run # q => Stands(runQueue[q].actions, q, i)'
  BY <1>3, InvParts DEF Enqueue, Stands, TakenBack
<1>6. CopyIsTrue'
  BY InvParts DEF Enqueue, CopyIsTrue, Stands, TakenBack
<1>7. RunnerSound'
  BY <1>4, InvParts DEF Enqueue, RunnerSound, AtOpen, AtDone
<1>8. DueSound'
  BY <1>4, InvParts DEF Enqueue, DueSound
<1>9. RowSound'
  <2>1. runQueue'[r] = NewRun
    BY InvParts DEF Enqueue
  <2>. QED
    BY <1>1, <1>4, <2>1, InvParts DEF RowSound
<1>10. /\ dueRuns' \subseteq Runs \X Run /\ runner' \in RunnerType
       /\ effect' \in [Runs -> [Actions -> Nat]]
       /\ failures' \in Nat /\ lost' \in Nat /\ crashes' \in Nat /\ vanished' \subseteq Runs \X Actions
  BY InvParts DEF Enqueue, RunnerType
<1>. QED
  BY <1>2, <1>5, <1>6, <1>7, <1>8, <1>9, <1>10, InvWhole

LEMMA StartRunsInv ==
  ASSUME DeliveryInv, StartRuns
  PROVE  DeliveryInv'
<1>1. dueRuns' \subseteq Runs \X Run
  BY InvParts DEF StartRuns, PendingDeliveryRuns
<1>2. DueSound'
  BY InvParts DEF StartRuns, PendingDeliveryRuns, DueSound, RunnerSound
<1>3. /\ \A q \in Runs, i \in Actions : runner'.run # q => Stands(runQueue[q].actions, q, i)'
      /\ CopyIsTrue' /\ RunnerSound' /\ RowSound'
  BY InvParts DEF StartRuns, Stands, TakenBack, CopyIsTrue, RunnerSound, RowSound, AtOpen, AtDone
<1>4. /\ runQueue' \in [Runs -> Run] /\ runner' \in RunnerType
      /\ effect' \in [Runs -> [Actions -> Nat]]
      /\ failures' \in Nat /\ lost' \in Nat /\ crashes' \in Nat /\ vanished' \subseteq Runs \X Actions
  BY InvParts DEF StartRuns, RunnerType
<1>. QED
  BY <1>1, <1>2, <1>3, <1>4, InvWhole

FreshAt(r, actions) == [RunnerResting EXCEPT !.run = r, !.actions = actions]

LEMMA FreshRunner ==
  ASSUME NEW r \in Runs, NEW actions \in [Actions -> ActionStatus]
  PROVE  /\ FreshAt(r, actions) \in RunnerType
         /\ FreshAt(r, actions).run = r /\ FreshAt(r, actions).actions = actions
<1>1. RunnerResting \in RunnerType
  BY DEF RunnerResting, RunnerType, NoQueueRow, ActionStatus
<1>. QED
  BY <1>1 DEF RunnerType, FreshAt

LEMMA TakeRunInv ==
  ASSUME DeliveryInv, TakeRun
  PROVE  DeliveryInv'
<1>1. PICK item \in dueRuns :
        /\ dueRuns' = dueRuns \ {item}
        /\ \/ UNCHANGED runner
           \/ \E actions \in {item[2].actions, ResetFailed(item[2].actions)} :
                runner' = Advance(FreshAt(item[1], actions), 1)
  BY Zenon DEF TakeRun, FreshAt
<1>2. runner.pc = "idle" /\ UNCHANGED <<runQueue, effect, vanished, failures, lost, crashes>>
  BY DEF TakeRun
<1>3. /\ runQueue' \in [Runs -> Run] /\ dueRuns' \subseteq Runs \X Run
      /\ effect' \in [Runs -> [Actions -> Nat]]
      /\ failures' \in Nat /\ lost' \in Nat /\ crashes' \in Nat /\ vanished' \subseteq Runs \X Actions
      /\ RowSound'
  BY <1>1, <1>2, InvParts DEF RowSound
<1>4. \A q \in Runs, i \in Actions : Stands(runQueue[q].actions, q, i)'
  BY <1>2, InvParts DEF Stands, TakenBack, RunnerSound
<1>5. CASE UNCHANGED runner
  <2>1. runner' \in RunnerType /\ CopyIsTrue' /\ RunnerSound' /\ DueSound'
    BY <1>1, <1>2, <1>5, InvParts DEF CopyIsTrue, RunnerSound, DueSound, AtOpen, AtDone, RunnerType
  <2>. QED
    BY <1>3, <1>4, <2>1, InvWhole
<1>6. ASSUME NEW actions \in {item[2].actions, ResetFailed(item[2].actions)},
             runner' = Advance(FreshAt(item[1], actions), 1)
      PROVE  DeliveryInv'
  <2>. DEFINE l == FreshAt(item[1], actions)
  <2>1. /\ item[1] \in Runs /\ item[2] = runQueue[item[1]] /\ item[2] \in Run
        /\ item[2].status \notin {"none", "succeeded"}
    BY InvParts DEF DueSound
  <2>2. /\ actions \in [Actions -> ActionStatus]
        /\ \A i \in Actions : actions[i] = "succeeded" <=> item[2].actions[i] = "succeeded"
    BY <2>1, <1>6 DEF ResetFailed, Run, ActionStatus
  <2>3. l \in RunnerType /\ l.run = item[1] /\ l.actions = actions
    BY <2>1, <2>2, FreshRunner
  <2>4. /\ runner' \in RunnerType /\ runner'.run = item[1] /\ runner'.actions = actions
        /\ runner'.pc # "idle" /\ AtOpen(runner') /\ AtDone(runner')
    <3>. HIDE DEF l
    <3>1. runner' = Advance(l, 1)
      BY <1>6 DEF l
    <3>. QED
      BY <2>3, <3>1, AdvanceSound
  <2>5. CopyIsTrue'
    BY <1>4, <2>1, <2>2, <2>4, <1>2 DEF CopyIsTrue, Stands, TakenBack
  <2>6. RunnerSound'
    <3>1. AtOpen(runner)' /\ AtDone(runner)'
      BY <2>4 DEF AtOpen, AtDone
    <3>. QED
      BY <1>2, <2>1, <2>4, <3>1 DEF RunnerSound
  <2>7. DueSound'
    <3>1. \A other \in dueRuns' : other[1] # item[1]
      BY <1>1, InvParts DEF DueSound
    <3>. QED
      BY <1>1, <1>2, <2>4, <3>1, InvParts DEF DueSound
  <2>. QED
    BY <1>3, <1>4, <2>4, <2>5, <2>6, <2>7, InvWhole
<1>. QED
  BY <1>1, <1>5, <1>6

(* What a call, or the undoing of one, changes: the runner and one count.  *)
LEMMA CallFrame ==
  ASSUME DeliveryInv, runner.pc # "idle", UNCHANGED <<runQueue, dueRuns, crashes>>,
         NEW l \in RunnerType, l.run = runner.run, AtOpen(l), AtDone(l), l.pc # "idle",
         runner' = l, lost' \in Nat, lost' >= lost, failures' \in Nat,
         vanished' \subseteq Runs \X Actions, vanished \subseteq vanished',
         effect' \in [Runs -> [Actions -> Nat]],
         \A r \in Runs, i \in Actions : r # runner.run => effect'[r][i] = effect[r][i],
         \A i \in Actions :
           /\ effect'[runner.run][i] <= 1 + lost' + crashes
           /\ l.actions[i] = "succeeded" =>
                effect'[runner.run][i] > 0 \/ crashes > 0 \/ <<runner.run, i>> \in vanished'
           /\ l.actions[i] # "succeeded" => effect'[runner.run][i] <= lost' + crashes
  PROVE  DeliveryInv'
<1>1. \A q \in Runs, i \in Actions : runner'.run # q => Stands(runQueue[q].actions, q, i)'
  <2>. SUFFICES ASSUME NEW q \in Runs, NEW i \in Actions, runner'.run # q
                PROVE  Stands(runQueue[q].actions, q, i)'
    OBVIOUS
  <2>1. Stands(runQueue[q].actions, q, i) /\ effect'[q][i] = effect[q][i]
    BY InvParts
  <2>2. TakenBack(q, i) => TakenBack(q, i)'
    BY DEF TakenBack
  <2>. QED
    BY <2>1, <2>2, InvParts DEF Stands, TakenBack
<1>2. CopyIsTrue'
  <2>1. runner' = l /\ runner'.run = runner.run /\ crashes' = crashes
    OBVIOUS
  <2>. QED
    BY <2>1 DEF CopyIsTrue, Stands, TakenBack
<1>3. AtOpen(runner)' /\ AtDone(runner)'
  BY DEF AtOpen, AtDone
<1>4. RunnerSound' /\ DueSound' /\ RowSound'
  BY <1>3, InvParts DEF RunnerSound, DueSound, RowSound, RunnerType
<1>. QED
  BY <1>1, <1>2, <1>4, InvParts, InvWhole

LEMMA ExecuteOkInv ==
  ASSUME DeliveryInv, ExecuteOk
  PROVE  DeliveryInv'
<1>. DEFINE done == [runner EXCEPT !.actions[runner.at] = "succeeded"]
<1>1. runner.at \in Actions /\ runner.actions[runner.at] # "succeeded" /\ runner.run \in Runs
  BY InvParts DEF ExecuteOk, RunnerSound, AtOpen
<1>2. done \in RunnerType /\ done.run = runner.run
      /\ done.actions = [runner.actions EXCEPT ![runner.at] = "succeeded"]
  BY <1>1, InvParts DEF RunnerType, ActionStatus
<1>3. PICK l \in RunnerType :
        /\ runner' = l /\ l.run = runner.run /\ l.actions = done.actions
        /\ l.pc # "idle" /\ AtOpen(l) /\ AtDone(l)
  <2>1. runner.at + 1 \in Nat \ {0}
    BY <1>1 DEF Actions
  <2>2. runner' = Advance(done, runner.at + 1)
    BY DEF ExecuteOk
  <2>. HIDE DEF done
  <2>. QED
    BY <1>2, <2>1, <2>2, AdvanceSound
<1>4. /\ effect' \in [Runs -> [Actions -> Nat]]
      /\ \A r \in Runs, i \in Actions :
           effect'[r][i] = IF r = runner.run /\ i = runner.at THEN effect[r][i] + 1 ELSE effect[r][i]
  BY <1>1, InvParts DEF ExecuteOk
<1>0. UNCHANGED <<vanished, crashes>>
  BY DEF ExecuteOk
<1>5. ASSUME NEW i \in Actions
      PROVE  /\ effect'[runner.run][i] <= 1 + lost + crashes
             /\ l.actions[i] = "succeeded" =>
                effect'[runner.run][i] > 0 \/ crashes > 0 \/ <<runner.run, i>> \in vanished'
             /\ l.actions[i] # "succeeded" => effect'[runner.run][i] <= lost + crashes
  <2>1. Stands(runner.actions, runner.run, i)
    BY InvParts DEF CopyIsTrue, ExecuteOk
  <2>2. i # runner.at => l.actions[i] = runner.actions[i]
    BY <1>2, <1>3, InvParts DEF RunnerType
  <2>3. l.actions[runner.at] = "succeeded"
    BY <1>1, <1>2, <1>3, InvParts DEF RunnerType
  <2>. QED
    BY <1>0, <1>1, <1>4, <2>1, <2>2, <2>3, InvParts DEF Stands, TakenBack
<1>6. runner.pc # "idle" /\ UNCHANGED <<runQueue, dueRuns, vanished, crashes, lost, failures>>
  BY DEF ExecuteOk
<1>7. /\ lost' \in Nat /\ lost' >= lost /\ failures' \in Nat
      /\ vanished' \subseteq Runs \X Actions /\ vanished \subseteq vanished'
  BY <1>6, InvParts
<1>8. \A r \in Runs, i \in Actions : r # runner.run => effect'[r][i] = effect[r][i]
  BY <1>4
<1>9. \A i \in Actions :
        /\ effect'[runner.run][i] <= 1 + lost' + crashes
        /\ l.actions[i] = "succeeded" =>
             effect'[runner.run][i] > 0 \/ crashes > 0 \/ <<runner.run, i>> \in vanished'
        /\ l.actions[i] # "succeeded" => effect'[runner.run][i] <= lost' + crashes
  BY <1>5, <1>6
<1>. QED
  BY <1>3, <1>4, <1>6, <1>7, <1>8, <1>9, CallFrame

LEMMA ExecuteFailInv ==
  ASSUME DeliveryInv, ExecuteFail
  PROVE  DeliveryInv'
<1>. DEFINE failed == [runner EXCEPT !.actions[runner.at] = "failed", !.tries = @ + 1]
<1>1. runner.at \in Actions /\ runner.actions[runner.at] # "succeeded" /\ runner.run \in Runs
  BY InvParts DEF ExecuteFail, RunnerSound, AtOpen
<1>2. failed \in RunnerType /\ failed.run = runner.run /\ failed.pc = "execute"
      /\ failed.at = runner.at
      /\ failed.actions = [runner.actions EXCEPT ![runner.at] = "failed"]
  <2>. DEFINE marked == [runner EXCEPT !.actions[runner.at] = "failed"]
  <2>1. marked \in RunnerType /\ marked.run = runner.run /\ marked.pc = "execute"
        /\ marked.at = runner.at
        /\ marked.actions = [runner.actions EXCEPT ![runner.at] = "failed"]
    BY <1>1, InvParts DEF RunnerType, ActionStatus, ExecuteFail
  <2>2. failed = [marked EXCEPT !.tries = @ + 1]
    BY InvParts DEF RunnerType
  <2>. HIDE DEF marked, failed
  <2>. QED
    BY <2>1, <2>2 DEF RunnerType
<1>3. PICK l \in RunnerType :
        /\ runner' = l /\ l.run = runner.run /\ l.actions = failed.actions
        /\ l.pc # "idle" /\ AtOpen(l) /\ AtDone(l)
  <2>1. runner' = failed \/ runner' = Retreat(failed, N)
    BY DEF ExecuteFail
  <2>2. AtOpen(failed) /\ AtDone(failed)
    BY <1>1, <1>2, InvParts DEF AtOpen, AtDone, RunnerType
  <2>. HIDE DEF failed
  <2>. QED
    BY <1>2, <2>1, <2>2, RetreatSound
<1>4. /\ effect' \in [Runs -> [Actions -> Nat]]
      /\ failures' \in Nat /\ lost' \in Nat /\ lost' >= lost
      /\ \A r \in Runs, i \in Actions :
           effect'[r][i] = IF r = runner.run /\ i = runner.at
                             THEN effect[r][i] + (lost' - lost) ELSE effect[r][i]
  <2>1. CASE lost' = lost + 1 /\ UNCHANGED failures
             /\ effect' = [effect EXCEPT ![runner.run][runner.at] = @ + 1]
    BY <1>1, <2>1, InvParts
  <2>2. CASE failures' = failures + 1 /\ UNCHANGED <<effect, lost>>
    BY <1>1, <2>2, InvParts
  <2>. QED
    BY <2>1, <2>2 DEF ExecuteFail
<1>0. UNCHANGED <<vanished, crashes>>
  BY DEF ExecuteFail
<1>5. ASSUME NEW i \in Actions
      PROVE  /\ effect'[runner.run][i] <= 1 + lost' + crashes
             /\ l.actions[i] = "succeeded" =>
                effect'[runner.run][i] > 0 \/ crashes > 0 \/ <<runner.run, i>> \in vanished'
             /\ l.actions[i] # "succeeded" => effect'[runner.run][i] <= lost' + crashes
  <2>1. Stands(runner.actions, runner.run, i)
    BY InvParts DEF CopyIsTrue, ExecuteFail
  <2>2. i # runner.at => l.actions[i] = runner.actions[i]
    BY <1>2, <1>3, InvParts DEF RunnerType
  <2>3. l.actions[runner.at] = "failed"
    BY <1>1, <1>2, <1>3, InvParts DEF RunnerType
  <2>4. effect[runner.run][i] \in Nat /\ lost \in Nat /\ crashes \in Nat
    BY <1>1, InvParts
  <2>5. /\ effect[runner.run][i] <= 1 + lost + crashes
        /\ runner.actions[i] = "succeeded" =>
             effect[runner.run][i] > 0 \/ crashes > 0 \/ <<runner.run, i>> \in vanished'
        /\ runner.actions[i] # "succeeded" => effect[runner.run][i] <= lost + crashes
    BY <1>0, <2>1 DEF Stands, TakenBack
  <2>6. CASE i = runner.at
    <3>1. effect'[runner.run][i] = effect[runner.run][i] + (lost' - lost)
      BY <1>1, <1>4, <2>6
    <3>. QED
      BY <1>1, <1>4, <2>3, <2>4, <2>5, <2>6, <3>1
  <2>7. CASE i # runner.at
    <3>1. effect'[runner.run][i] = effect[runner.run][i] /\ l.actions[i] = runner.actions[i]
      BY <1>1, <1>4, <2>2, <2>7
    <3>. QED
      BY <1>4, <2>4, <2>5, <3>1
  <2>. QED
    BY <2>6, <2>7
<1>6. runner.pc # "idle" /\ UNCHANGED <<runQueue, dueRuns, crashes>>
  BY DEF ExecuteFail
<1>7. vanished' \subseteq Runs \X Actions /\ vanished \subseteq vanished'
  BY <1>0, InvParts
<1>. QED
  BY <1>3, <1>4, <1>5, <1>6, <1>7, CallFrame

LEMMA UndoInv ==
  ASSUME DeliveryInv, Undo
  PROVE  DeliveryInv'
<1>. DEFINE undone == [runner EXCEPT !.actions[runner.at] = "rolled_back"]
            answered == /\ effect' = [effect EXCEPT ![runner.run][runner.at] = IF @ > 0 THEN @ - 1 ELSE 0]
                        /\ runner' = Retreat(undone, runner.at - 1)
                        /\ UNCHANGED vanished
            failing == UNCHANGED <<effect, vanished>> /\ runner' = Retreat(runner, runner.at - 1)
            silent == /\ effect[runner.run][runner.at] > 0
                      /\ effect' = [effect EXCEPT ![runner.run][runner.at] = @ - 1]
                      /\ vanished' = vanished \cup {<<runner.run, runner.at>>}
                      /\ runner' = Retreat(runner, runner.at - 1)
<1>0. answered \/ failing \/ silent
  BY Zenon DEF Undo
<1>1. runner.at \in Actions /\ runner.actions[runner.at] = "succeeded" /\ runner.run \in Runs
  BY InvParts DEF Undo, RunnerSound, AtDone
<1>2. runner.pc # "idle" /\ UNCHANGED <<runQueue, dueRuns, crashes, lost>>
  BY DEF Undo
<1>3. lost' \in Nat /\ lost' >= lost /\ failures' \in Nat
  BY <1>2, InvParts DEF Undo
<1>4. runner.at - 1 \in Int /\ runner.at - 1 <= N
  BY <1>1 DEF Actions
<1>5. undone \in RunnerType /\ undone.run = runner.run
      /\ undone.actions = [runner.actions EXCEPT ![runner.at] = "rolled_back"]
  BY <1>1, InvParts DEF RunnerType, ActionStatus
<1>6. \A i \in Actions : Stands(runner.actions, runner.run, i)
  BY <1>2, InvParts DEF CopyIsTrue
<1>7. CASE answered
  <2>1. PICK l \in RunnerType :
          /\ runner' = l /\ l.run = runner.run /\ l.actions = undone.actions
          /\ l.pc # "idle" /\ AtOpen(l) /\ AtDone(l)
    <3>1. runner' = Retreat(undone, runner.at - 1)
      BY <1>7
    <3>. HIDE DEF undone
    <3>. QED
      BY <1>4, <1>5, <3>1, RetreatSound
  <2>2. /\ effect' \in [Runs -> [Actions -> Nat]] /\ UNCHANGED vanished
        /\ \A r \in Runs, i \in Actions :
             effect'[r][i] = IF r = runner.run /\ i = runner.at
                               THEN IF effect[r][i] > 0 THEN effect[r][i] - 1 ELSE 0
                               ELSE effect[r][i]
    BY <1>1, <1>7, InvParts
  <2>3. ASSUME NEW i \in Actions
        PROVE  /\ effect'[runner.run][i] <= 1 + lost' + crashes
               /\ l.actions[i] = "succeeded" =>
                effect'[runner.run][i] > 0 \/ crashes > 0 \/ <<runner.run, i>> \in vanished'
               /\ l.actions[i] # "succeeded" => effect'[runner.run][i] <= lost' + crashes
    <3>1. i # runner.at => l.actions[i] = runner.actions[i]
      BY <1>5, <2>1, InvParts DEF RunnerType
    <3>2. l.actions[runner.at] = "rolled_back"
      BY <1>1, <1>5, <2>1, InvParts DEF RunnerType
    <3>3. effect[runner.run][i] \in Nat
      BY <1>1, InvParts
    <3>. QED
      BY <1>1, <1>2, <1>6, <2>2, <3>1, <3>2, <3>3, InvParts DEF Stands, TakenBack
  <2>4. /\ \A r \in Runs, i \in Actions : r # runner.run => effect'[r][i] = effect[r][i]
        /\ vanished' \subseteq Runs \X Actions /\ vanished \subseteq vanished'
    BY <2>2, InvParts
  <2>. HIDE DEF undone
  <2>. QED
    BY <1>2, <1>3, <2>1, <2>2, <2>3, <2>4, CallFrame
<1>8. CASE failing \/ silent
  <2>1. PICK l \in RunnerType :
          /\ runner' = l /\ l.run = runner.run /\ l.actions = runner.actions
          /\ l.pc # "idle" /\ AtOpen(l) /\ AtDone(l)
    BY <1>4, <1>8, InvParts, RetreatSound
  <2>2. /\ effect' \in [Runs -> [Actions -> Nat]]
        /\ vanished' \subseteq Runs \X Actions /\ vanished \subseteq vanished'
        /\ \A r \in Runs, i \in Actions :
             \/ effect'[r][i] = effect[r][i]
             \/ /\ r = runner.run /\ i = runner.at /\ <<r, i>> \in vanished'
                /\ effect'[r][i] <= effect[r][i]
    <3>1. CASE failing
      BY <3>1, InvParts
    <3>2. CASE silent
      BY <1>1, <3>2, InvParts
    <3>. QED
      BY <1>8, <3>1, <3>2
  <2>3. ASSUME NEW i \in Actions
        PROVE  /\ effect'[runner.run][i] <= 1 + lost' + crashes
               /\ l.actions[i] = "succeeded" =>
                effect'[runner.run][i] > 0 \/ crashes > 0 \/ <<runner.run, i>> \in vanished'
               /\ l.actions[i] # "succeeded" => effect'[runner.run][i] <= lost' + crashes
    <3>1. effect[runner.run][i] \in Nat /\ effect'[runner.run][i] \in Nat
      BY <1>1, <2>2, InvParts
    <3>2. Stands(runner.actions, runner.run, i) /\ (i = runner.at => runner.actions[i] = "succeeded")
      BY <1>1, <1>6
    <3>3. CASE effect'[runner.run][i] = effect[runner.run][i]
      BY <1>2, <2>1, <2>2, <3>2, <3>3 DEF Stands, TakenBack
    <3>4. CASE i = runner.at /\ <<runner.run, i>> \in vanished' /\ effect'[runner.run][i] <= effect[runner.run][i]
      <4>1. effect[runner.run][i] <= 1 + lost + crashes
        BY <3>2 DEF Stands
      <4>. QED
        BY <1>2, <2>1, <3>1, <3>2, <3>4, <4>1, InvParts
    <3>. QED
      BY <1>1, <2>2, <3>3, <3>4
  <2>4. \A r \in Runs, i \in Actions : r # runner.run => effect'[r][i] = effect[r][i]
    BY <2>2
  <2>. HIDE DEF failing, silent
  <2>. QED
    BY <1>2, <1>3, <2>1, <2>2, <2>3, <2>4, CallFrame
<1>. QED
  BY <1>0, <1>7, <1>8

LEMMA SaveRunInv ==
  ASSUME DeliveryInv, SaveRun
  PROVE  DeliveryInv'
<1>. DEFINE r == runner.run
            row == [status |-> DeriveRunStatus(runner.actions), actions |-> runner.actions]
<1>1. runner.pc # "idle" /\ r \in Runs /\ runner' = RunnerResting
      /\ UNCHANGED <<dueRuns, effect, vanished, failures, lost, crashes>>
  BY InvParts DEF SaveRun
<1>2. row \in Run /\ row.status # "none" /\ row.actions = runner.actions
      /\ (row.status = "succeeded" => \A i \in Actions : runner.actions[i] = "succeeded")
  BY InvParts DEF DeriveRunStatus, Run, RunStatus, RunnerType
<1>3. runQueue' = [runQueue EXCEPT ![r] = row]
  BY DEF SaveRun
<1>. HIDE DEF row, r
<1>4. runQueue' \in [Runs -> Run] /\ runQueue'[r] = row /\ \A q \in Runs \ {r} : runQueue'[q] = runQueue[q]
  BY <1>1, <1>2, <1>3, InvParts
<1>5. RunnerResting \in RunnerType /\ RunnerResting.pc = "idle" /\ RunnerResting.run = NoRun
  BY DEF RunnerResting, RunnerType, NoQueueRow, ActionStatus
<1>6. ASSUME NEW q \in Runs, NEW i \in Actions
      PROVE  Stands(runQueue[q].actions, q, i)'
  <2>1. CASE q = r
    BY <1>1, <1>2, <1>4, <2>1, InvParts DEF CopyIsTrue, Stands, TakenBack, r
  <2>2. CASE q # r
    BY <1>1, <1>4, <2>2, InvParts DEF Stands, TakenBack, r
  <2>. QED
    BY <2>1, <2>2
<1>7. CopyIsTrue' /\ RunnerSound'
  BY <1>1, <1>5 DEF CopyIsTrue, RunnerSound, AtOpen, AtDone
<1>8. DueSound'
  BY <1>1, <1>4, <1>5, InvParts DEF DueSound, r
<1>9. RowSound'
  BY <1>2, <1>4, InvParts DEF RowSound
<1>. QED
  BY <1>1, <1>4, <1>5, <1>6, <1>7, <1>8, <1>9, InvParts, InvWhole

(* What the runner remembered is lost: a row that says succeeded may       *)
(* already have been undone, one that does not may already have been done. *)
LEMMA RunnerCrashInv ==
  ASSUME DeliveryInv, RunnerCrash
  PROVE  DeliveryInv'
<1>1. RunnerResting \in RunnerType /\ RunnerResting.pc = "idle" /\ RunnerResting.run = NoRun
  BY DEF RunnerResting, RunnerType, NoQueueRow, ActionStatus
<1>2. runner' = RunnerResting /\ dueRuns' = {} /\ crashes' = crashes + 1
      /\ UNCHANGED <<runQueue, effect, vanished, failures, lost>>
  BY DEF RunnerCrash
<1>3. ASSUME NEW q \in Runs, NEW i \in Actions
      PROVE  Stands(runQueue[q].actions, q, i)'
  <2>1. effect[q][i] \in Nat /\ effect[q][i] <= 1 + lost + crashes
    <3>1. CASE runner.run = q
      <4>1. runner.pc # "idle"
        BY <3>1, InvParts DEF RunnerSound
      <4>. QED
        BY <3>1, <4>1, InvParts DEF CopyIsTrue, Stands, TakenBack
    <3>2. CASE runner.run # q
      BY <3>2, InvParts DEF Stands, TakenBack
    <3>. QED
      BY <3>1, <3>2
  <2>. QED
    BY <1>2, <2>1, InvParts DEF Stands, TakenBack
<1>4. CopyIsTrue' /\ RunnerSound' /\ DueSound' /\ RowSound'
  BY <1>1, <1>2, InvParts DEF CopyIsTrue, RunnerSound, AtOpen, AtDone, DueSound, RowSound
<1>. QED
  BY <1>1, <1>2, <1>3, <1>4, InvParts, InvWhole

LEMMA DeliveryInvNext ==
  ASSUME DeliveryInv, [DeliveryNext]_deliveryVars
  PROVE  DeliveryInv'
BY EnqueueInv, StartRunsInv, TakeRunInv, ExecuteOkInv, ExecuteFailInv, UndoInv, SaveRunInv,
   RunnerCrashInv, RestInv DEF DeliveryNext, RunnerStep

LEMMA DeliveryInvariant == DeliverySpec => []DeliveryInv
BY DeliveryInvInit, DeliveryInvNext, PTL DEF DeliverySpec

(***************************************************************************)
(* The record of every run that is not being executed is what stands in    *)
(* the other systems, up to one leftover per crash or lost answer and what *)
(* a rollback took back without an answer, through failures, retries,      *)
(* rollbacks and crashes in any order (runAction, rollbackSucceeded,       *)
(* retryRun, and the save at the end of a run).                            *)
(***************************************************************************)
THEOREM RecordsAreTrue == DeliverySpec => [](DeliveryTypeOK /\ RecordIsTrue)
<1>1. DeliveryInv => DeliveryTypeOK /\ RecordIsTrue
  BY DEF DeliveryInv
<1>. QED
  BY <1>1, DeliveryInvariant, PTL

(***************************************************************************)
(* No action stands more than once in another system, plus once per crash  *)
(* or lost answer: a retry of a run (retryRun) does not execute again what *)
(* has succeeded, also while the run is being executed.                    *)
(***************************************************************************)
THEOREM NothingTwice == DeliverySpec => []StandsOnce
<1>1. ASSUME DeliveryInv
      PROVE  StandsOnce
  <2>. SUFFICES ASSUME NEW r \in Runs, NEW i \in Actions
                PROVE  effect[r][i] <= 1 + lost + crashes
    BY DEF StandsOnce
  <2>1. CASE runner.run = r
    <3>1. runner.pc # "idle"
      BY <1>1, <2>1, InvParts DEF RunnerSound
    <3>. QED
      BY <1>1, <2>1, <3>1, InvParts DEF CopyIsTrue, Stands, TakenBack
  <2>2. CASE runner.run # r
    BY <1>1, <2>2, InvParts DEF Stands, TakenBack
  <2>. QED
    BY <2>1, <2>2
<1>. QED
  BY <1>1, DeliveryInvariant, PTL

(***************************************************************************)
(* A run that reads succeeded (the customer is sent the access e-mail) has *)
(* every action of its product standing, but for those a rollback took     *)
(* back without an answer, unless the worker died in the middle of a       *)
(* rollback: whatever failed, was retried or was answered late.            *)
(***************************************************************************)
THEOREM SuccessIsDelivery == DeliverySpec => []SucceededIsDelivered
<1>1. ASSUME DeliveryInv
      PROVE  SucceededIsDelivered
  <2>. SUFFICES ASSUME NEW r \in Runs, NEW i \in Actions,
                       runQueue[r].status = "succeeded"
                PROVE  effect[r][i] > 0 \/ TakenBack(r, i)
    BY DEF SucceededIsDelivered
  <2>1. runner.run # r
    BY <1>1, InvParts DEF RunnerSound
  <2>2. runQueue[r].actions[i] = "succeeded"
    BY <1>1, InvParts DEF RowSound
  <2>. QED
    BY <1>1, <2>1, <2>2, InvParts DEF Stands, TakenBack
<1>. QED
  BY <1>1, DeliveryInvariant, PTL

-----------------------------------------------------------------------------
(***************************************************************************)
(* The two jobs side by side: to each of them a behaviour of the worker is *)
(* one of its own, for they share no table.  So all that is proved of the  *)
(* runs and of the sweeps holds of the worker that has both.               *)
(***************************************************************************)
THEOREM JobsImplementParts == JobsSpec => DeliverySpec /\ SweepSpec
<1>1. JobsInit => DeliveryInit /\ SweepInit
  BY DEF JobsInit
<1>2. [JobsNext]_jobVars => [DeliveryNext]_deliveryVars /\ [SweepNext]_sweepVars
  BY DEF JobsNext, MoveDeliveries, MoveSweeps, jobVars
<1>. QED
  BY <1>1, <1>2, PTL DEF JobsSpec, DeliverySpec, SweepSpec

(***************************************************************************)
(* A worker with both jobs keeps what each promises: records tell what     *)
(* stands elsewhere, nothing is granted or sent twice without a fault, no  *)
(* leg is paid twice, and only what was answered is marked as settled.     *)
(***************************************************************************)
THEOREM JobsAreSound ==
  JobsSpec => []( /\ JobsTypeOK
                  /\ RecordIsTrue /\ SucceededIsDelivered /\ StandsOnce
                  /\ SentOnce /\ LegPaidOnce /\ SettledIsAnswered )
<1>1. DeliveryTypeOK /\ SweepTypeOK => JobsTypeOK
  BY DEF JobsTypeOK
<1>. QED
  BY <1>1, JobsImplementParts, RecordsAreTrue, NothingTwice, SuccessIsDelivery, RoyaltiesPayOnce, LegsPayOnce,
     SettledWasAnswered, PTL
=============================================================================
