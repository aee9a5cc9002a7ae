---- MODULE BlockTime ----
(* block.timestamp on Arc, in ticks of any length that divides a day.  The   *)
(* vault derives its UTC day and the age of an escalation from it, a stream  *)
(* what it has accrued since its lastTick; any number of transactions may    *)
(* fall into one tick.                                                       *)
EXTENDS Naturals

CONSTANT MaxTime  \* bound: the last instant

ASSUME MaxTimeAssumption == MaxTime \in Nat

VARIABLE now

ClockInit == now = 0
Tick == now < MaxTime /\ now' = now + 1
====
