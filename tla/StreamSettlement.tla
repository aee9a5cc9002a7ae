-------------------------- MODULE StreamSettlement --------------------------
(***************************************************************************)
(* LeptonStreamSettlement.sol: a payer deposits a reserve that flows to    *)
(* the payee by the second while the stream is active; a pause stops the   *)
(* meter; closing pays the tail and refunds the rest.  The id of a closed  *)
(* stream may be opened again.                                             *)
(*                                                                         *)
(* All streams share one balance of USDC, and a transfer beyond it         *)
(* reverts.                                                                *)
(***************************************************************************)
EXTENDS BlockTime, Integers

CONSTANTS
  Streams,          \* stream ids
  Parties,          \* who may call
  NoParty,          \* address(0), of a stream never opened
  Rates, Reserves,  \* ratePerSecond and reserve, as given to open
  MaxOpens          \* bound: how often an id is opened

ASSUME StreamSizesAssumption == Rates \subseteq Nat \ {0} /\ Reserves \subseteq Nat \ {0}
ASSUME StreamBoundsAssumption == MaxOpens \in Nat

VARIABLES
  streams,          \* _streams
  pool,             \* token.balanceOf(contract)
  deposited, paidToPayee, refunded,  \* history: USDC moved under each id
  metered,          \* history: instants each stream was open and active since it was opened
  opens             \* history: how often each id was opened

moved == <<deposited, paidToPayee, refunded>>
streamVars == <<now, streams, pool, moved, metered, opens>>

Stream == [payer : Parties \cup {NoParty}, payee : Parties \cup {NoParty}, ratePerSecond : Nat, reserve : Nat,
           accrued : Nat, settled : Nat, lastTick : Nat, active : BOOLEAN, open : BOOLEAN]

StreamTypeOK ==
  /\ now \in Nat /\ pool \in Nat
  /\ streams \in [Streams -> Stream]
  /\ deposited \in [Streams -> Nat] /\ paidToPayee \in [Streams -> Nat] /\ refunded \in [Streams -> Nat]
  /\ metered \in [Streams -> Nat] /\ opens \in [Streams -> Nat]

NoStreams ==
  /\ pool = 0
  /\ streams = [id \in Streams |->
       [payer |-> NoParty, payee |-> NoParty, ratePerSecond |-> 0, reserve |-> 0,
        accrued |-> 0, settled |-> 0, lastTick |-> 0, active |-> FALSE, open |-> FALSE]]
  /\ deposited = [id \in Streams |-> 0]
  /\ paidToPayee = [id \in Streams |-> 0]
  /\ refunded = [id \in Streams |-> 0]
  /\ metered = [id \in Streams |-> 0]
  /\ opens = [id \in Streams |-> 0]
StreamInit == ClockInit /\ NoStreams

Capped(a, b) == IF a > b THEN b ELSE a

PreviewAccrued(s) ==
  IF s.active THEN s.accrued + Capped((now - s.lastTick) * s.ratePerSecond, s.reserve - s.accrued)
  ELSE s.accrued

Advanced(s) ==
  IF s.active THEN [s EXCEPT !.accrued = PreviewAccrued(s), !.lastTick = now] ELSE s

IsParty(who, s) == who \in {s.payer, s.payee}

Open(who, id, payee, rate, reserve) ==
  /\ ~streams[id].open /\ opens[id] < MaxOpens
  /\ payee # who
  /\ streams' = [streams EXCEPT ![id] =
       [payer |-> who, payee |-> payee, ratePerSecond |-> rate, reserve |-> reserve,
        accrued |-> 0, settled |-> 0, lastTick |-> now, active |-> TRUE, open |-> TRUE]]
  /\ pool' = pool + reserve
  /\ deposited' = [deposited EXCEPT ![id] = @ + reserve]
  /\ metered' = [metered EXCEPT ![id] = 0]
  /\ opens' = [opens EXCEPT ![id] = @ + 1]
  /\ UNCHANGED <<now, paidToPayee, refunded>>

Settle(who, id) ==
  LET s == Advanced(streams[id])
      paid == s.accrued - s.settled
  IN /\ streams[id].open /\ IsParty(who, s)
     /\ paid <= pool
     /\ streams' = [streams EXCEPT ![id] = [s EXCEPT !.settled = s.accrued]]
     /\ pool' = pool - paid
     /\ paidToPayee' = [paidToPayee EXCEPT ![id] = @ + paid]
     /\ UNCHANGED <<now, deposited, refunded, metered, opens>>

Pause(who, id) ==
  /\ streams[id].open /\ IsParty(who, streams[id]) /\ streams[id].active
  /\ streams' = [streams EXCEPT ![id] = [Advanced(@) EXCEPT !.active = FALSE]]
  /\ UNCHANGED <<now, pool, moved, metered, opens>>

(* Mutant: the meter also runs while the stream is paused. *)
ResumeWithoutTick(who, id) ==
  /\ streams[id].open /\ IsParty(who, streams[id]) /\ ~streams[id].active
  /\ streams' = [streams EXCEPT ![id].active = TRUE]
  /\ UNCHANGED <<now, pool, moved, metered, opens>>

Resume(who, id) ==
  /\ streams[id].open /\ IsParty(who, streams[id]) /\ ~streams[id].active
  /\ streams' = [streams EXCEPT ![id].lastTick = now, ![id].active = TRUE]
  /\ UNCHANGED <<now, pool, moved, metered, opens>>

(* Mutant: closing refunds what was not settled, the tail included. *)
CloseRefundingTail(who, id) ==
  LET s == Advanced(streams[id])
      tail == s.accrued - s.settled
      refund == s.reserve - s.settled
  IN /\ streams[id].open /\ who = s.payer
     /\ tail + refund <= pool
     /\ streams' = [streams EXCEPT ![id] = [s EXCEPT !.settled = s.accrued, !.open = FALSE, !.active = FALSE]]
     /\ pool' = pool - (tail + refund)
     /\ paidToPayee' = [paidToPayee EXCEPT ![id] = @ + tail]
     /\ refunded' = [refunded EXCEPT ![id] = @ + refund]
     /\ UNCHANGED <<now, deposited, metered, opens>>

Close(who, id) ==
  LET s == Advanced(streams[id])
      tail == s.accrued - s.settled
      refund == s.reserve - s.accrued
  IN /\ streams[id].open /\ who = s.payer
     /\ tail + refund <= pool
     /\ streams' = [streams EXCEPT ![id] = [s EXCEPT !.settled = s.accrued, !.open = FALSE, !.active = FALSE]]
     /\ pool' = pool - (tail + refund)
     /\ paidToPayee' = [paidToPayee EXCEPT ![id] = @ + tail]
     /\ refunded' = [refunded EXCEPT ![id] = @ + refund]
     /\ UNCHANGED <<now, deposited, metered, opens>>

StreamTick ==
  /\ Tick
  /\ metered' = [id \in Streams |-> IF streams[id].active THEN metered[id] + 1 ELSE metered[id]]
  /\ UNCHANGED <<streams, pool, moved, opens>>

StreamNext ==
  \/ \E who \in Parties, id \in Streams :
       \/ \E payee \in Parties, rate \in Rates, reserve \in Reserves : Open(who, id, payee, rate, reserve)
       \/ Settle(who, id) \/ Pause(who, id) \/ Resume(who, id) \/ Close(who, id)
  \/ StreamTick

StreamSpec == StreamInit /\ [][StreamNext]_streamVars

-----------------------------------------------------------------------------
(* Under every id what was deposited is what went to payees, what went     *)
(* back to payers and what an open stream has not yet moved, through any   *)
(* number of settlements, pauses and reopenings.                           *)
StreamConserved ==
  \A id \in Streams :
    deposited[id] = paidToPayee[id] + refunded[id]
                    + (IF streams[id].open THEN streams[id].reserve - streams[id].settled ELSE 0)

(* An open stream bills the instants it was active, at its rate, up to its *)
(* reserve: paused time is never billed, and no instant is billed twice or *)
(* lost, whoever settles, pauses or resumes and when.                      *)
ActiveTimeBilled ==
  \A id \in Streams : streams[id].open =>
    PreviewAccrued(streams[id]) = Capped(metered[id] * streams[id].ratePerSecond, streams[id].reserve)
=============================================================================
