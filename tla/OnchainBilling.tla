---------------------------- MODULE OnchainBilling ----------------------------
(***************************************************************************)
(* The renewals of one onchain subscription paid by Permit2 pulls.         *)
(*                                                                         *)
(* The buyer signs one allowance of Covered periods.  In every period the  *)
(* worker's subscription-charge job and the API (after a grant, or POST    *)
(* /charge) run SubscriptionChargeEngine.chargeSubscription: it claims the *)
(* charge of the period under a lease, pulls one period's price, records   *)
(* the transaction, waits for it, and then marks the period paid and       *)
(* extends access; a declined pull walks the dunning campaign to           *)
(* suspension.  The buyer may cancel at any time.                          *)
(*                                                                         *)
(* An action is the code of a run up to its next await.  Amounts are in    *)
(* units of one period's price.  The attempt counter of a charge decides   *)
(* nothing and is left out; so is the ERC-20 approval of Permit2, whose    *)
(* check declines like the balance's.                                      *)
(***************************************************************************)
EXTENDS Integers, Sequences, FiniteSets

CONSTANTS
  Runs,        \* chargeSubscription calls that may be under way together
  Api,         \* those of the API process; the others are the worker's
  NoRun,       \* nobody holds the lease
  MaxPeriod,   \* bound: the last period the clock reaches
  Covered,     \* periods the signed allowance covers
  Attempts,    \* offsets of the dunning schedule
  MayRevoke,   \* whether the buyer may revoke the allowance onchain
  MaxPulls,    \* bound: pulls broadcast
  MaxCancels,  \* bound: cancel requests
  MaxFaults    \* bound: crashes, errors, lost answers, leases run over

ASSUME RunsAssumption == Api \subseteq Runs /\ NoRun \notin Runs
ASSUME SizesAssumption ==
  MaxPeriod \in Nat /\ Covered \in Nat \ {0} /\ Attempts \in Nat \ {0}
ASSUME BoundsAssumption == MayRevoke \in BOOLEAN /\ MaxPulls \in Nat /\ MaxCancels \in Nat /\ MaxFaults \in Nat

Periods == 0..MaxPeriod
Reached == -1..MaxPeriod

VARIABLES
  current,    \* the period the clock is in
  sub,        \* row of onchain_subscriptions
  charge,     \* rows of onchain_charges, by period
  dunning,    \* row of dunning_states
  access,     \* what the hooks wrote: core subscription and entitlement
  run,        \* the chargeSubscription calls
  grant,      \* the API's grant request: "none", "read" or "done"
  cancel,     \* the API's cancel request, with the row it read
  allowance,  \* Permit2 allowance left
  txs,        \* the pulls broadcast
  revoked, cancels, faults

chain == <<allowance, txs, revoked>>
edits == <<grant, cancel, cancels>>
vars == <<current, sub, charge, dunning, access, run, edits, chain, faults>>

Sub == [status : {"pending_grant", "active", "past_due", "suspended", "canceled"},
        paidThrough : Reached, cancelAtPeriodEnd : BOOLEAN]
ChargeStatus == {"none", "pending", "failed", "succeeded"}
Dunning == [status : {"none", "active", "recovered", "exhausted"},
            attempt : 0..Attempts, waiting : BOOLEAN]

Charge == [status : ChargeStatus, step : Nat, lease : Runs \cup {NoRun}]
Tx == [period : Periods, status : {"sent", "mined", "reverted"}]
Access == [core : {"none", "active", "past_due", "expired", "canceled"},
           entitlement : {"none", "active", "expired"}, through : Reached]

NewSub == [status |-> "pending_grant", paidThrough |-> -1, cancelAtPeriodEnd |-> FALSE]
NoCharge == [status |-> "none", step |-> 0, lease |-> NoRun]
NoDunning == [status |-> "none", attempt |-> 0, waiting |-> FALSE]
NoAccess == [core |-> "none", entitlement |-> "none", through |-> -1]

\* at: the period; status, step, leased: the run's copy of the charge;
\* prior: priorCollected; inTry: within collect's try; then: how the call goes on;
\* seen: the paidThrough it read; dun, patched: the rows; delivers: the charge delivers access
Rest == [pc |-> "idle", at |-> 0, seen |-> -1, step |-> 0, leased |-> FALSE, prior |-> 0,
         inTry |-> FALSE, then |-> "none", dun |-> NoDunning, patched |-> NewSub, delivers |-> FALSE]
Stage == {"idle", "start", "wait", "claim", "list", "receipt", "allowance", "send", "record",
          "confirm", "succeed", "decline", "dunning", "begin", "open", "find", "attempt",
          "patch", "save", "core", "entitle"}
Course == {"none", "paid", "declined", "canceled", "past_due", "suspended"}
Run == [pc : Stage, at : Periods, seen : Reached, step : Nat, leased : BOOLEAN, prior : Nat,
        inTry : BOOLEAN, then : Course, dun : Dunning, patched : Sub, delivers : BOOLEAN]
NoCancel == [pc |-> "idle", now |-> FALSE, seen |-> NewSub]

Init ==
  /\ current = 0 /\ sub = NewSub
  /\ charge = [p \in Periods |-> NoCharge]
  /\ dunning = NoDunning /\ access = NoAccess
  /\ run = [r \in Runs |-> Rest]
  /\ grant = "none" /\ cancel = NoCancel /\ cancels = 0
  /\ allowance = 0 /\ txs = <<>> /\ revoked = FALSE
  /\ faults = 0

Succeeded == {p \in Periods : charge[p].status = "succeeded"}
Pulls(p) == Cardinality({i \in DOMAIN txs : txs[i].period = p /\ txs[i].status = "mined"})

Become(r, l) == run' = [run EXCEPT ![r] = l]
Go(r, pc) == Become(r, [run[r] EXCEPT !.pc = pc])
End(r) == Become(r, Rest)
-----------------------------------------------------------------------------
(* POST /grant: submitGrant reads the row, registers the permit, saves the *)
(* active subscription, and the same request then charges.                 *)
GrantRead ==
  /\ grant = "none" /\ sub.status = "pending_grant"
  /\ grant' = "read"
  /\ allowance' = Covered
  /\ UNCHANGED <<current, sub, charge, dunning, access, run, cancel, cancels, txs, revoked, faults>>

GrantSave(r) ==
  /\ grant = "read" /\ r \in Api /\ run[r].pc = "idle"
  /\ grant' = "done"
  /\ sub' = [NewSub EXCEPT !.status = "active"]
  /\ Go(r, "start")
  /\ UNCHANGED <<current, charge, dunning, access, cancel, cancels, chain, faults>>

(* POST /cancel: reads the row, saves the patched copy, and mirrors the    *)
(* cancel on the core subscription.                                        *)
CancelRead ==
  /\ cancel.pc = "idle" /\ cancels < MaxCancels
  /\ cancels' = cancels + 1
  /\ \E now \in BOOLEAN : cancel' = [pc |-> "save", now |-> now, seen |-> sub]
  /\ UNCHANGED <<current, sub, charge, dunning, access, run, grant, chain, faults>>

CancelSave ==
  /\ cancel.pc = "save"
  /\ sub' = IF ~cancel.now /\ cancel.seen.status = "active"
              THEN [cancel.seen EXCEPT !.cancelAtPeriodEnd = TRUE]
              ELSE [cancel.seen EXCEPT !.cancelAtPeriodEnd = TRUE, !.status = "canceled"]
  /\ cancel' = [cancel EXCEPT !.pc = "core", !.seen = NewSub]
  /\ UNCHANGED <<current, charge, dunning, access, run, grant, cancels, chain, faults>>

CancelCore ==
  /\ cancel.pc = "core"
  /\ access' = IF cancel.now /\ access.core # "none" THEN [access EXCEPT !.core = "canceled"]
               ELSE access
  /\ cancel' = NoCancel
  /\ UNCHANGED <<current, sub, charge, dunning, run, grant, cancels, chain, faults>>
-----------------------------------------------------------------------------
(* chargeSubscription.  The worker calls it for every subscription that    *)
(* listBillable returns, the API on POST /charge.                          *)
Call(r) ==
  /\ run[r].pc = "idle" /\ sub.status \in {"active", "past_due"}
  /\ Go(r, "start")
  /\ UNCHANGED <<current, sub, charge, dunning, access, edits, chain, faults>>

(* duePeriod: the period the clock is in, unless it is paid.               *)
IsDue == current > sub.paidThrough

Start(r) ==
  /\ run[r].pc = "start"
  /\ IF sub.status \notin {"active", "past_due"} \/ ~IsDue THEN End(r)
     ELSE LET l == [Rest EXCEPT !.at = current, !.seen = sub.paidThrough] IN
          Become(r, IF sub.cancelAtPeriodEnd THEN [l EXCEPT !.pc = "patch", !.then = "canceled"]
                    ELSE [l EXCEPT !.pc = IF sub.status = "past_due" THEN "wait" ELSE "claim"])
  /\ UNCHANGED <<current, sub, charge, dunning, access, edits, chain, faults>>

(* Mutant: a campaign that goes on is waited for, whatever the time.       *)
WaitForever(r) ==
  /\ run[r].pc = "wait"
  /\ IF dunning.status = "active" THEN End(r) ELSE Go(r, "claim")
  /\ UNCHANGED <<current, sub, charge, dunning, access, edits, chain, faults>>

(* A past_due subscription is left alone until its next dunning attempt.   *)
WaitForRetry(r) ==
  /\ run[r].pc = "wait"
  /\ IF dunning.status = "active" /\ dunning.waiting THEN End(r) ELSE Go(r, "claim")
  /\ UNCHANGED <<current, sub, charge, dunning, access, edits, chain, faults>>

(* Mutant: the lease of a pending charge is not looked at.                 *)
ClaimableUnleased(c) == c.status # "succeeded"

(* decideClaim: a failed charge is claimed anew, without its steps; a      *)
(* pending one whose lease ran out is resumed with them.                   *)
Claimable(c) == c.status # "succeeded" /\ ~(c.status = "pending" /\ c.lease # NoRun)
ClaimedStep(c) == IF c.status = "pending" THEN c.step ELSE 0

ClaimCharge(r) ==
  /\ run[r].pc = "claim"
  /\ LET l == run[r]  c == charge[l.at] IN
     \/ /\ Claimable(c)
        /\ charge' = [charge EXCEPT ![l.at] =
                        [status |-> "pending", step |-> ClaimedStep(c), lease |-> r]]
        /\ Become(r, [l EXCEPT !.step = ClaimedStep(c), !.leased = TRUE,
                               !.pc = IF l.at >= Covered THEN "decline" ELSE "list"])
     \/ /\ c.status = "succeeded"
        /\ Become(r, [l EXCEPT !.pc = "patch", !.then = "paid"])
        /\ UNCHANGED charge
     \/ /\ c.status # "succeeded" /\ ~Claimable(c)
        /\ End(r) /\ UNCHANGED charge
  /\ UNCHANGED <<current, sub, dunning, access, edits, chain, faults>>

(* A charge is saved from the run's copy, lease included.  Neither lease   *)
(* nor step of a settled charge is looked at again.                        *)
SaveCharge(r, status) ==
  charge' = [charge EXCEPT ![run[r].at] =
    IF status # "pending" THEN [NoCharge EXCEPT !.status = status]
    ELSE [status |-> status, step |-> run[r].step, lease |-> IF run[r].leased THEN r ELSE NoRun]]
-----------------------------------------------------------------------------
(* collect, with the Permit2 provider. *)
ListCharges(r) ==
  /\ run[r].pc = "list"
  /\ Become(r, [run[r] EXCEPT !.prior = Cardinality(Succeeded \ {run[r].at}), !.inTry = TRUE,
                              !.pc = IF run[r].step = 0 THEN "allowance" ELSE "receipt"])
  /\ UNCHANGED <<current, sub, charge, dunning, access, edits, chain, faults>>

(* A recorded pull is settled first: unknown, landed, or reverted. *)
ReadReceipt(r) ==
  /\ run[r].pc = "receipt"
  /\ CASE txs[run[r].step].status = "sent" -> End(r)
       [] txs[run[r].step].status = "mined" -> Go(r, "succeed")
       [] OTHER -> Go(r, "allowance")
  /\ UNCHANGED <<current, sub, charge, dunning, access, edits, chain, faults>>

(* Mutant: off by one period. *)
ReconciledEarly(l) == l.step = 0 /\ allowance = Covered - l.prior

(* "A pull for this period landed but its hash was never recorded." *)
Reconciled(l) == l.step = 0 /\ allowance = Covered - l.prior - 1

ReadAllowance(r) ==
  /\ run[r].pc = "allowance"
  /\ Become(r, [run[r] EXCEPT !.prior = 0,
                              !.pc = IF Reconciled(run[r]) THEN "succeed"
                                     ELSE IF allowance < 1 THEN "decline" ELSE "send"])
  /\ UNCHANGED <<current, sub, charge, dunning, access, edits, chain, faults>>

(* The balance is read and operator.write simulates the call: the wallet   *)
(* may hold too little at either.  Then the pull is broadcast.             *)
Broadcast(r) ==
  /\ allowance >= 1 /\ Len(txs) < MaxPulls
  /\ txs' = Append(txs, [period |-> run[r].at, status |-> "sent"])
  /\ UNCHANGED <<allowance, revoked>>

Send(r) ==
  /\ run[r].pc = "send"
  /\ \/ /\ Broadcast(r)
        /\ Become(r, [run[r] EXCEPT !.pc = "record", !.step = Len(txs) + 1])
     \/ UNCHANGED chain /\ Go(r, "decline")
  /\ UNCHANGED <<current, sub, charge, dunning, access, edits, faults>>

RecordStep(r) ==
  /\ run[r].pc = "record"
  /\ SaveCharge(r, "pending")
  /\ Go(r, "confirm")
  /\ UNCHANGED <<current, sub, dunning, access, edits, chain, faults>>

(* confirmCharge: a revert declines, a wait that ends without a receipt    *)
(* leaves the charge pending.                                              *)
Confirm(r) ==
  /\ run[r].pc = "confirm"
  /\ CASE txs[run[r].step].status = "sent" -> End(r)
       [] txs[run[r].step].status = "mined" -> Go(r, "succeed")
       [] OTHER -> Go(r, "decline")
  /\ UNCHANGED <<current, sub, charge, dunning, access, edits, chain, faults>>

SaveSucceeded(r) ==
  /\ run[r].pc = "succeed"
  /\ SaveCharge(r, "succeeded")
  /\ Become(r, [run[r] EXCEPT !.pc = "patch", !.then = "paid", !.step = 0, !.leased = FALSE])
  /\ UNCHANGED <<current, sub, dunning, access, edits, chain, faults>>

(* decline: the charge failed, the campaign records the attempt. *)
SaveFailed(r) ==
  /\ run[r].pc = "decline"
  /\ SaveCharge(r, "failed")
  /\ Become(r, [Rest EXCEPT !.pc = "dunning", !.at = run[r].at, !.then = "declined"])
  /\ UNCHANGED <<current, sub, dunning, access, edits, chain, faults>>
-----------------------------------------------------------------------------
(* Dunning.  markPaid records a success in an active campaign and decline  *)
(* a failure, in a campaign it starts when none is active.  start and      *)
(* recordAttempt read the row again: another call may have begun or closed *)
(* the campaign meanwhile, at which a decline throws.                      *)
GetDunning(r) ==
  /\ run[r].pc = "dunning"
  /\ Go(r, IF dunning.status = "active" THEN "find"
           ELSE IF run[r].then = "paid" THEN "core" ELSE "begin")
  /\ UNCHANGED <<current, sub, charge, dunning, access, edits, chain, faults>>

FindActive(r) ==
  /\ run[r].pc = "begin"
  /\ IF dunning.status = "active" THEN End(r) ELSE Go(r, "open")
  /\ UNCHANGED <<current, sub, charge, dunning, access, edits, chain, faults>>

StartDunning(r) ==
  /\ run[r].pc = "open"
  /\ dunning' = [NoDunning EXCEPT !.status = "active"]
  /\ Go(r, "find")
  /\ UNCHANGED <<current, sub, charge, access, edits, chain, faults>>

FindCampaign(r) ==
  /\ run[r].pc = "find"
  /\ IF dunning.status = "active" THEN Become(r, [run[r] EXCEPT !.pc = "attempt", !.dun = dunning])
     ELSE IF run[r].then = "paid" THEN Go(r, "core") ELSE End(r)
  /\ UNCHANGED <<current, sub, charge, dunning, access, edits, chain, faults>>

(* The row saved is the patched copy of the one read; the attempts of a    *)
(* closed campaign are not counted any more.                               *)

(* Mutant: the campaign never ends.                                        *)
AttemptForever(d, ok) ==
  IF ok THEN [NoDunning EXCEPT !.status = "recovered"]
  ELSE [status |-> "active", attempt |-> d.attempt + 1, waiting |-> TRUE]

Attempt(d, ok) ==
  IF ok THEN [NoDunning EXCEPT !.status = "recovered"]
  ELSE IF d.attempt + 1 < Attempts THEN [status |-> "active", attempt |-> d.attempt + 1, waiting |-> TRUE]
  ELSE [NoDunning EXCEPT !.status = "exhausted"]

RecordAttempt(r) ==
  /\ run[r].pc = "attempt"
  /\ LET l == run[r]  d == Attempt(l.dun, l.then = "paid") IN
     /\ dunning' = d
     /\ Become(r, IF l.then = "paid" THEN [l EXCEPT !.pc = "core", !.dun = NoDunning]
                  ELSE [l EXCEPT !.pc = "patch", !.dun = NoDunning,
                                 !.then = IF d.status = "exhausted" THEN "suspended" ELSE "past_due"])
  /\ UNCHANGED <<current, sub, charge, access, edits, chain, faults>>

(* nextAttemptAt comes. *)
RetryIsDue ==
  /\ dunning.waiting
  /\ dunning' = [dunning EXCEPT !.waiting = FALSE]
  /\ UNCHANGED <<current, sub, charge, access, run, edits, chain, faults>>
-----------------------------------------------------------------------------
(* patchSubscription reads the row again and saves the merge of it.        *)
ReadForPatch(r) ==
  /\ run[r].pc = "patch"
  /\ Become(r, [run[r] EXCEPT !.pc = "save", !.patched = sub])
  /\ UNCHANGED <<current, sub, charge, dunning, access, edits, chain, faults>>

MaxOf(a, b) == IF a > b THEN a ELSE b

(* Mutant: the patch overwrites a cancel it has read. *)
MergedOverCancel(s, l) ==
  IF l.then = "paid"
    THEN [s EXCEPT !.status = "active", !.paidThrough = MaxOf(l.seen, l.at)]
    ELSE [s EXCEPT !.status = l.then]

(* Mutant: a period is booked whatever came of its charge. *)
MergedBooking(s, l) ==
  [s EXCEPT !.status = IF s.status = "canceled" THEN "canceled"
                       ELSE IF l.then = "paid" THEN "active" ELSE l.then,
            !.paidThrough = MaxOf(l.seen, l.at)]

(* "A cancel that raced this charge wins." *)
Merged(s, l) ==
  LET status == IF s.status = "canceled" THEN "canceled"
                ELSE IF l.then = "paid" THEN "active" ELSE l.then IN
  IF l.then = "paid"
    THEN [s EXCEPT !.status = status, !.paidThrough = MaxOf(l.seen, l.at)]
    ELSE [s EXCEPT !.status = status]

PatchSubscription(r) ==
  /\ run[r].pc = "save"
  /\ sub' = Merged(run[r].patched, run[r])
  /\ IF run[r].then = "canceled" THEN End(r)
     ELSE Become(r, [run[r] EXCEPT !.patched = NewSub,
                                   !.pc = IF run[r].then = "paid" THEN "dunning" ELSE "core"])
  /\ UNCHANGED <<current, charge, dunning, access, edits, chain, faults>>

(* The access hooks: first the core subscription, then the entitlements.   *)
HookCore(r) ==
  /\ run[r].pc = "core"
  /\ LET then == run[r].then  core == access.core IN
     /\ access' = [access EXCEPT !.core =
          CASE then = "paid" -> "active"
            [] core \in {"none", "canceled"} -> core
            [] then = "suspended" -> "expired"
            [] OTHER -> "past_due"]
     /\ IF then = "past_due" THEN End(r)
        ELSE Become(r, [run[r] EXCEPT !.pc = "entitle",
                                      !.delivers = core \in {"none", "expired"} \/ run[r].at = 0])
  /\ UNCHANGED <<current, sub, charge, dunning, edits, chain, faults>>

(* onCollected extends the entitlements there are; only the delivery of    *)
(* the API grants one that is missing.  onSuspended expires them.          *)
HookEntitlement(r) ==
  /\ run[r].pc = "entitle"
  /\ LET granted == access.entitlement # "none" \/ (run[r].delivers /\ r \in Api) IN
     access' = IF run[r].then = "paid"
                 THEN IF granted THEN [access EXCEPT !.entitlement = "active", !.through = run[r].at]
                      ELSE access
               ELSE IF access.entitlement = "active" THEN [access EXCEPT !.entitlement = "expired"]
               ELSE access
  /\ End(r)
  /\ UNCHANGED <<current, sub, charge, dunning, edits, chain, faults>>
-----------------------------------------------------------------------------
(* Faults.  An error inside collect's try, the markPaid after a collected  *)
(* pull included, declines the charge; elsewhere it ends the call, as a    *)
(* crash of the process does.  A node that does not answer for a           *)
(* transaction leaves the charge pending: to the database, a crash.        *)
Fault == faults < MaxFaults /\ faults' = faults + 1

Throw(r) ==
  /\ run[r].inTry /\ run[r].pc \notin {"receipt", "confirm", "decline"}
  /\ Fault
  /\ Go(r, "decline")
  /\ UNCHANGED <<current, sub, charge, dunning, access, edits, chain>>

Crash(r) ==
  /\ run[r].pc # "idle"
  /\ Fault
  /\ End(r)
  /\ UNCHANGED <<current, sub, charge, dunning, access, edits, chain>>

(* The pull is broadcast and the answer of the node is lost. *)
SendLost(r) ==
  /\ run[r].pc = "send"
  /\ Fault
  /\ Broadcast(r)
  /\ Go(r, "decline")
  /\ UNCHANGED <<current, sub, charge, dunning, access, edits>>

(* A lease of 10 minutes runs out: after the call that took it has ended,  *)
(* or, a fault, while it still works.                                      *)
LeaseEnds(p) ==
  /\ charge[p].lease # NoRun
  /\ LET r == charge[p].lease  works == run[r].leased /\ run[r].at = p IN
     /\ IF works THEN Fault ELSE UNCHANGED faults
     /\ IF works THEN Become(r, [run[r] EXCEPT !.leased = FALSE]) ELSE UNCHANGED run
  /\ charge' = [charge EXCEPT ![p].lease = NoRun]
  /\ UNCHANGED <<current, sub, dunning, access, edits, chain>>
-----------------------------------------------------------------------------
(* The network and the buyer.  A pull reverts when the wallet holds too    *)
(* little or the allowance is gone.                                        *)
Mine(i) ==
  /\ i \in DOMAIN txs /\ txs[i].status = "sent"
  /\ \/ /\ allowance >= 1 /\ allowance' = allowance - 1
        /\ txs' = [txs EXCEPT ![i].status = "mined"]
     \/ /\ txs' = [txs EXCEPT ![i].status = "reverted"]
        /\ UNCHANGED allowance
  /\ UNCHANGED <<current, sub, charge, dunning, access, run, edits, revoked, faults>>

Revoke ==
  /\ MayRevoke /\ ~revoked /\ grant # "none"
  /\ allowance' = 0 /\ revoked' = TRUE
  /\ UNCHANGED <<current, sub, charge, dunning, access, run, edits, txs, faults>>

(* A period is a month or a year; that one begins while a call is under    *)
(* way is counted as a fault.                                              *)
NextPeriod ==
  /\ current < MaxPeriod
  /\ current' = current + 1
  /\ IF \E r \in Runs : run[r].pc # "idle" THEN Fault ELSE UNCHANGED faults
  /\ UNCHANGED <<sub, charge, dunning, access, run, edits, chain>>

Step(r) ==
  \/ Start(r) \/ WaitForRetry(r) \/ ClaimCharge(r)
  \/ ListCharges(r) \/ ReadReceipt(r) \/ ReadAllowance(r)
  \/ Send(r) \/ RecordStep(r) \/ Confirm(r) \/ SaveSucceeded(r)
  \/ SaveFailed(r) \/ GetDunning(r) \/ FindActive(r) \/ StartDunning(r)
  \/ FindCampaign(r) \/ RecordAttempt(r)
  \/ ReadForPatch(r) \/ PatchSubscription(r) \/ HookCore(r) \/ HookEntitlement(r)

Next ==
  \/ GrantRead \/ (\E r \in Runs : GrantSave(r))
  \/ CancelRead \/ CancelSave \/ CancelCore
  \/ \E r \in Runs : Call(r) \/ Step(r) \/ Throw(r) \/ Crash(r) \/ SendLost(r)
  \/ \E p \in Periods : LeaseEnds(p)
  \/ \E i \in DOMAIN txs : Mine(i)
  \/ RetryIsDue \/ Revoke \/ NextPeriod

Spec == Init /\ [][Next]_vars

(* The runtime resumes every await; the scheduler calls the worker's run   *)
(* again and again; time passes, so leases and dunning waits end; the      *)
(* network mines what was broadcast.                                       *)
FairSpec ==
  /\ Spec
  /\ \A r \in Runs : WF_vars(Step(r))
  /\ \A r \in Runs \ Api : WF_vars(Call(r))
  /\ WF_vars(\E p \in Periods : LeaseEnds(p))
  /\ WF_vars(\E i \in DOMAIN txs : Mine(i))
  /\ WF_vars(RetryIsDue)
-----------------------------------------------------------------------------
RowsOK ==
  /\ current \in Periods /\ sub \in Sub /\ dunning \in Dunning /\ access \in Access
  /\ grant \in {"none", "read", "done"}
  /\ cancel \in [pc : {"idle", "save", "core"}, now : BOOLEAN, seen : Sub]
  /\ allowance \in 0..Covered /\ revoked \in BOOLEAN
  /\ cancels \in 0..MaxCancels /\ faults \in 0..MaxFaults

\* A recorded pull is one of those broadcast, a patch has a status to write.
Outcome == {"paid", "canceled", "past_due", "suspended"}
Sound(l) == l.step <= Len(txs) /\ (l.pc \in {"patch", "save"} => l.then \in Outcome)
PullsOK ==
  /\ txs \in Seq(Tx)
  /\ charge \in [Periods -> Charge] /\ \A p \in Periods : charge[p].step <= Len(txs)
  /\ run \in [Runs -> Run] /\ \A r \in Runs : Sound(run[r])

TypeOK == RowsOK /\ PullsOK

(***************************************************************************)
(* store.ts: two workers (or two ticks) can never pull the same period     *)
(* twice.  A pull that was broadcast and not recorded costs one more; a    *)
(* lease that runs out under its holder costs two, for the call may record *)
(* its pull over another call's, and a revert then frees the charge twice. *)
(***************************************************************************)
PulledOnce == \A p \in Periods : Pulls(p) <= 1 + 2 * faults

(***************************************************************************)
(* The periods the books show as paid were pulled, all but the one that a  *)
(* revoked allowance passes for and one per fault.                         *)
(***************************************************************************)
AllPulls == Cardinality({i \in DOMAIN txs : txs[i].status = "mined"})
PaidIsPulled == Cardinality(Succeeded) <= AllPulls + faults + (IF revoked THEN 1 ELSE 0)

(***************************************************************************)
(* charge-engine.ts: "collected -> period marked paid, ... onCollected".   *)
(* Every step is one of the promise or leaves it alone: money first, then  *)
(* the mark, then paidThrough and the access that rest on it; and without  *)
(* a fault no stale copy takes a mark back or books a period never marked. *)
(***************************************************************************)
Promise == INSTANCE PeriodCharge WITH
  PullIds <- 1..MaxPulls,
  pulls <- {<<i, txs[i].period>> : i \in {j \in DOMAIN txs : txs[j].status = "mined"}},
  paid <- Succeeded, booked <- sub.paidThrough, through <- access.through, slips <- faults
KeepsPromise == Promise!Spec

(***************************************************************************)
(* charge-engine.ts: "never clobber concurrent API edits", "A cancel that  *)
(* raced this charge wins".  A canceled subscription comes back only by    *)
(* the save of a row that was read before the cancel: of a patch, of the   *)
(* grant, or of another cancel.                                            *)
(***************************************************************************)
CanceledStays ==
  [][sub.status = "canceled" /\ sub'.status # "canceled" =>
       \/ grant = "read"
       \/ cancel.pc = "save" /\ cancel.seen.status # "canceled"
       \/ \E r \in Runs : run[r].pc = "save" /\ run[r].patched.status # "canceled"]_vars

(***************************************************************************)
(* onchain-delivery.ts: when "the worker collects a first period" the      *)
(* product is delivered.  A customer whose first period is paid has an     *)
(* entitlement.                                                            *)
(***************************************************************************)
Quiet == \A r \in Runs : run[r].pc = "idle"
PaidIsEntitled == Quiet /\ sub.paidThrough >= 0 => access.entitlement # "none"

(***************************************************************************)
(* The period the clock stays in is settled: paid, or the subscription is  *)
(* suspended or canceled.                                                  *)
(***************************************************************************)
DueIsSettled ==
  sub.status \in {"active", "past_due"} /\ current = MaxPeriod
    ~> sub.paidThrough = MaxPeriod \/ sub.status \in {"suspended", "canceled"}
===============================================================================
