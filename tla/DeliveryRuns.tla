----------------------------- MODULE DeliveryRuns -----------------------------
(***************************************************************************)
(* How a paid charge becomes access in other systems.                      *)
(*                                                                         *)
(* A delivery run is the ordered list of a product's actions (invite to a  *)
(* repository, issue a key, send an e-mail ...).  The worker's             *)
(* delivery-runner job reads the unfinished runs once per tick and drives  *)
(* each through DeliveryRunner: every action with retries; when one fails  *)
(* for good, the ones that succeeded are rolled back in reverse order.     *)
(* The new snapshot of the run is saved once, when the run ends; a later   *)
(* tick retries the failed actions of it.                                  *)
(*                                                                         *)
(* An action of this module is the code up to the next await: a call of a  *)
(* handler, its answer, the save.  What an action does in the other system *)
(* is counted in effect.                                                   *)
(***************************************************************************)
EXTENDS Integers, FiniteSets

CONSTANTS
  Runs,         \* delivery runs, one per charge
  N,            \* number of actions of a run
  Undoable,     \* the actions whose handler has a rollback
  NoRun,        \* the worker works on no run
  MaxTries,     \* RetryPolicy.maxAttempts
  MaxFailures,  \* bound: calls of another system that fail
  MaxLost,      \* bound: calls that take effect and whose answer is lost
  MaxCrashes    \* bound: crashes of the worker

Actions == 1..N

ASSUME ActionsAssumption == N \in Nat \ {0} /\ Undoable \subseteq Actions
ASSUME DeliveryTriesAssumption == MaxTries \in Nat \ {0}
ASSUME DeliveryBoundsAssumption == MaxFailures \in Nat /\ MaxLost \in Nat /\ MaxCrashes \in Nat
ASSUME DeliveryNamesAssumption == NoRun \notin Runs

VARIABLES
  runQueue,     \* table worker_delivery_queue
  dueRuns,      \* the run copies the tick has yet to process
  runner,       \* the run the worker executes
  effect,       \* what stands in the other systems, by run and action
  vanished,     \* history: the actions a rollback took back without answering
  failures, lost, crashes

deliveryVars == <<runQueue, dueRuns, runner, effect, vanished, failures, lost, crashes>>

RunStatus == {"none", "pending", "succeeded", "failed", "partially_failed"}
ActionStatus == {"pending", "failed", "succeeded", "rolled_back"}
Run == [status : RunStatus, actions : [Actions -> ActionStatus]]
NewRun == [status |-> "pending", actions |-> [i \in Actions |-> "pending"]]
NoQueueRow == [status |-> "none", actions |-> [i \in Actions |-> "pending"]]

RunnerResting == [pc |-> "idle", run |-> NoRun, actions |-> NoQueueRow.actions, at |-> 0, tries |-> 0]

DeliveryInit ==
  /\ runQueue = [r \in Runs |-> NoQueueRow]
  /\ dueRuns = {}
  /\ runner = RunnerResting
  /\ effect = [r \in Runs |-> [i \in Actions |-> 0]]
  /\ vanished = {}
  /\ failures = 0
  /\ lost = 0
  /\ crashes = 0
-----------------------------------------------------------------------------
(* A charge collected: createOnchainDeliveryQueue inserts the pending run. *)
Enqueue(r) ==
  /\ runQueue[r].status = "none"
  /\ runQueue' = [runQueue EXCEPT ![r] = NewRun]
  /\ UNCHANGED <<dueRuns, runner, effect, vanished, failures, lost, crashes>>

(* Mutant: partially failed runs are not looked at again. *)
PendingWithoutPartial == {r \in Runs : runQueue[r].status \in {"pending", "failed"}}

PendingDeliveryRuns == {r \in Runs : runQueue[r].status \in {"pending", "failed", "partially_failed"}}

StartRuns ==
  /\ runner.pc = "idle" /\ dueRuns = {} /\ PendingDeliveryRuns # {}
  /\ dueRuns' = {<<r, runQueue[r]>> : r \in PendingDeliveryRuns}
  /\ UNCHANGED <<runQueue, runner, effect, vanished, failures, lost, crashes>>

(* Mutant: a retry starts the whole run over. *)
ResetAll(actions) == [i \in Actions |-> "pending"]

ResetFailed(actions) ==
  [i \in Actions |-> IF actions[i] = "failed" THEN "pending" ELSE actions[i]]

(* The first action from i on that is neither succeeded nor rolled back.   *)
Open(actions, i) == {j \in i..N : actions[j] \notin {"succeeded", "rolled_back"}}
First(js) == CHOOSE j \in js : \A k \in js : j <= k

(* The next action to execute, or the end of the run. *)
Advance(l, i) ==
  IF Open(l.actions, i) = {} THEN [l EXCEPT !.pc = "save"]
  ELSE [l EXCEPT !.pc = "execute", !.at = First(Open(l.actions, i)), !.tries = 0]

(* A failed or partially failed run goes through retryRun, which throws    *)
(* when no action of it has failed: the run is left as it is.              *)
TakeRun ==
  /\ runner.pc = "idle"
  /\ \E item \in dueRuns :
       LET run == item[2]
           isRetry == run.status # "pending"
           actions == IF isRetry THEN ResetFailed(run.actions) ELSE run.actions
           throws == isRetry /\ \A i \in Actions : run.actions[i] # "failed" IN
       /\ dueRuns' = dueRuns \ {item}
       /\ runner' = IF throws THEN runner
                    ELSE Advance([RunnerResting EXCEPT !.run = item[1], !.actions = actions], 1)
  /\ UNCHANGED <<runQueue, effect, vanished, failures, lost, crashes>>

(* handler.execute answers; whoever fails is tried again, up to MaxTries   *)
(* times, unless the error is not retryable.                               *)
ExecuteOk ==
  /\ runner.pc = "execute"
  /\ effect' = [effect EXCEPT ![runner.run][runner.at] = @ + 1]
  /\ runner' = Advance([runner EXCEPT !.actions[runner.at] = "succeeded"], runner.at + 1)
  /\ UNCHANGED <<runQueue, dueRuns, vanished, failures, lost, crashes>>

(* Rollback goes through the actions from the last to the first. *)
ToUndo(actions, i) == {j \in 1..i : actions[j] = "succeeded" /\ j \in Undoable}
Last(js) == CHOOSE j \in js : \A k \in js : k <= j

Retreat(l, i) ==
  IF ToUndo(l.actions, i) = {} THEN [l EXCEPT !.pc = "save"]
  ELSE [l EXCEPT !.pc = "undo", !.at = Last(ToUndo(l.actions, i))]

LostSoFar == lost + Cardinality(vanished)

(* The call may also take effect and its answer be lost on the way. *)
ExecuteFail ==
  /\ runner.pc = "execute"
  /\ \/ /\ failures < MaxFailures
        /\ failures' = failures + 1
        /\ UNCHANGED <<effect, lost>>
     \/ /\ LostSoFar < MaxLost
        /\ lost' = lost + 1
        /\ effect' = [effect EXCEPT ![runner.run][runner.at] = @ + 1]
        /\ UNCHANGED failures
  /\ LET failed == [runner EXCEPT !.actions[runner.at] = "failed", !.tries = @ + 1]
     IN \/ failed.tries < MaxTries /\ runner' = failed
        \/ runner' = Retreat(failed, N)
  /\ UNCHANGED <<runQueue, dueRuns, vanished, crashes>>

(* Mutant: an action counts as rolled back even if its rollback failed. *)
UndoAlwaysDone ==
  /\ runner.pc = "undo"
  /\ \/ /\ effect' = [effect EXCEPT ![runner.run][runner.at] = IF @ > 0 THEN @ - 1 ELSE 0]
        /\ UNCHANGED failures
     \/ /\ failures < MaxFailures /\ failures' = failures + 1
        /\ UNCHANGED effect
  /\ runner' = Retreat([runner EXCEPT !.actions[runner.at] = "rolled_back"], runner.at - 1)
  /\ UNCHANGED <<runQueue, dueRuns, vanished, lost, crashes>>

(* handler.rollback takes back the one grant the action recorded, if it    *)
(* still stands.  A failing one leaves the action succeeded; so does one   *)
(* that took the grant back and whose answer was lost.                     *)
Undo ==
  LET r == runner.run
      i == runner.at IN
  /\ runner.pc = "undo"
  /\ \/ /\ effect' = [effect EXCEPT ![r][i] = IF @ > 0 THEN @ - 1 ELSE 0]
        /\ runner' = Retreat([runner EXCEPT !.actions[i] = "rolled_back"], i - 1)
        /\ UNCHANGED <<vanished, failures>>
     \/ /\ failures < MaxFailures /\ failures' = failures + 1
        /\ runner' = Retreat(runner, i - 1)
        /\ UNCHANGED <<effect, vanished>>
     \/ /\ LostSoFar < MaxLost /\ effect[r][i] > 0
        /\ effect' = [effect EXCEPT ![r][i] = @ - 1]
        /\ vanished' = vanished \cup {<<r, i>>}
        /\ runner' = Retreat(runner, i - 1)
        /\ UNCHANGED failures
  /\ UNCHANGED <<runQueue, dueRuns, lost, crashes>>

(* Mutant: a rolled-back action counts as a success. *)
StatusCountingUndone(actions) ==
  IF \A i \in Actions : actions[i] \in {"succeeded", "rolled_back"} THEN "succeeded"
  ELSE IF \E i \in Actions : actions[i] \in {"succeeded", "rolled_back"} THEN "partially_failed"
  ELSE "failed"

(* Mutant: a run that failed stays running. *)
StatusRunning(actions) ==
  IF \A i \in Actions : actions[i] = "succeeded" THEN "succeeded" ELSE "running"

DeriveRunStatus(actions) ==
  IF \A i \in Actions : actions[i] = "succeeded" THEN "succeeded"
  ELSE IF \E i \in Actions : actions[i] \in {"succeeded", "rolled_back"} THEN "partially_failed"
  ELSE "failed"

SaveRun ==
  /\ runner.pc = "save"
  /\ runQueue' = [runQueue EXCEPT ![runner.run] = [status |-> DeriveRunStatus(runner.actions),
                                                  actions |-> runner.actions]]
  /\ runner' = RunnerResting
  /\ UNCHANGED <<dueRuns, effect, vanished, failures, lost, crashes>>

(* The worker dies, or a storage error ends its tick. *)
RunnerCrash ==
  /\ crashes < MaxCrashes
  /\ runner.pc # "idle" \/ dueRuns # {}
  /\ runner' = RunnerResting /\ dueRuns' = {}
  /\ crashes' = crashes + 1
  /\ UNCHANGED <<runQueue, effect, vanished, failures, lost>>

RunnerStep == StartRuns \/ TakeRun \/ ExecuteOk \/ ExecuteFail \/ Undo \/ SaveRun

DeliveryNext == (\E r \in Runs : Enqueue(r)) \/ RunnerStep \/ RunnerCrash

DeliverySpec == DeliveryInit /\ [][DeliveryNext]_deliveryVars

(* The runtime resumes every await and the scheduler starts the tick again *)
(* and again.  Failures are bounded: the other systems recover.            *)
DeliveryFairSpec == DeliverySpec /\ WF_deliveryVars(RunnerStep)
-----------------------------------------------------------------------------
DeliveryTypeOK ==
  /\ runQueue \in [Runs -> Run]
  /\ dueRuns \subseteq Runs \X Run
  /\ runner \in [pc : {"idle", "execute", "undo", "save"}, run : Runs \cup {NoRun},
                 actions : [Actions -> ActionStatus], at : 0..N, tries : Nat]
  /\ effect \in [Runs -> [Actions -> Nat]]
  /\ vanished \subseteq Runs \X Actions
  /\ failures \in Nat /\ lost \in Nat /\ crashes \in Nat

Busy(r) == runner.run = r

(***************************************************************************)
(* What the queue says of a run that is not being executed is what stands  *)
(* in the other systems.  A succeeded action has taken effect, unless a    *)
(* rollback took it back and could not say so, or the worker died after a  *)
(* rollback and before the save (rollbackSucceeded, runner.ts:221-233).    *)
(* One that was rolled back, failed or never started has not, up to one    *)
(* leftover per crash or lost answer of an execution.                      *)
(***************************************************************************)
TakenBack(r, i) == crashes > 0 \/ <<r, i>> \in vanished

Stands(actions, r, i) ==
  /\ effect[r][i] <= 1 + lost + crashes
  /\ actions[i] = "succeeded" => effect[r][i] > 0 \/ TakenBack(r, i)
  /\ actions[i] # "succeeded" => effect[r][i] <= lost + crashes

RecordIsTrue ==
  \A r \in Runs, i \in Actions : ~Busy(r) => Stands(runQueue[r].actions, r, i)

(***************************************************************************)
(* A run reads succeeded (the customer gets the access e-mail) only if     *)
(* every action of the product stands, but for those a rollback took back  *)
(* without an answer, as long as the worker never died in a rollback.      *)
(***************************************************************************)
SucceededIsDelivered ==
  \A r \in Runs :
    runQueue[r].status = "succeeded" =>
      \A i \in Actions : effect[r][i] > 0 \/ TakenBack(r, i)

(***************************************************************************)
(* retry.ts: a retry recovers "without re-executing the actions that       *)
(* already succeeded": at every moment an action stands at most once, plus *)
(* once per crash or lost answer.                                          *)
(***************************************************************************)
StandsOnce == \A r \in Runs, i \in Actions : effect[r][i] <= 1 + lost + crashes

(***************************************************************************)
(* No queued run is forgotten: in the end each has succeeded, or has an    *)
(* action that was rolled back and no action left to retry.                *)
(***************************************************************************)
Stuck(r) ==
  /\ runQueue[r].status = "partially_failed"
  /\ \A i \in Actions : runQueue[r].actions[i] # "failed"
  /\ \E i \in Actions : runQueue[r].actions[i] = "rolled_back"

RunSettles ==
  <>[](\A r \in Runs : runQueue[r].status \in {"none", "succeeded"} \/ Stuck(r))

(***************************************************************************)
(* retry.ts: a retry is "Used to recover a partially_failed/failed run".   *)
(* Once the other systems answer again, the paid run succeeds.             *)
(***************************************************************************)
Recovers == \A r \in Runs : runQueue[r].status = "pending" ~> runQueue[r].status = "succeeded"
===============================================================================
