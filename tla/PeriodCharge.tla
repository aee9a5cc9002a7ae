----------------------------- MODULE PeriodCharge -----------------------------
(***************************************************************************)
(* What the onchain billing of a subscription promises, with nothing of    *)
(* how: each period is pulled once; no more periods are marked paid than   *)
(* were pulled; the subscription is paid through, and access runs to, a    *)
(* period that is paid.  What goes wrong on the way (a slip) may cost two  *)
(* pulls of a period more, mark one period unpulled, and from then on a    *)
(* paid period may be opened again; a revoked allowance may mark one more. *)
(* OnchainBilling implements it.                                           *)
(***************************************************************************)
EXTENDS Integers, FiniteSets

CONSTANTS
  Periods,
  PullIds

VARIABLES
  pulls,     \* the transfers made, each with its period
  paid,      \* the periods marked paid
  booked,    \* the period the subscription is paid through; -1: none
  through,   \* the period access runs to; -1: none
  slips, revoked

Init ==
  /\ pulls = {} /\ paid = {}
  /\ booked = -1 /\ through = -1
  /\ slips = 0 /\ revoked = FALSE

PullsOf(p) == {x \in pulls : x[2] = p}
Excused == slips + (IF revoked THEN 1 ELSE 0)

Pull(i, p) ==
  /\ \A q \in Periods : <<i, q>> \notin pulls
  /\ Cardinality(PullsOf(p)) <= 2 * slips
  /\ pulls' = pulls \cup {<<i, p>>}
  /\ UNCHANGED <<paid, booked, through, slips, revoked>>

MarkPaid(p) ==
  /\ p \notin paid /\ Cardinality(paid) < Cardinality(pulls) + Excused
  /\ paid' = paid \cup {p}
  /\ UNCHANGED <<pulls, booked, through, slips, revoked>>

Reopen(p) ==
  /\ slips > 0
  /\ paid' = paid \ {p}
  /\ UNCHANGED <<pulls, booked, through, slips, revoked>>

IsPaid(p) == p \in paid \/ slips > 0

Book(p) ==
  /\ p = -1 \/ IsPaid(p)
  /\ booked' = p
  /\ UNCHANGED <<pulls, paid, through, slips, revoked>>

Extend(p) ==
  /\ IsPaid(p)
  /\ through' = p
  /\ UNCHANGED <<pulls, paid, booked, slips, revoked>>

Slip == slips' = slips + 1 /\ UNCHANGED <<pulls, paid, booked, through, revoked>>
Revoke == revoked' = TRUE /\ UNCHANGED <<pulls, paid, booked, through, slips>>

Next ==
  \/ \E p \in Periods :
       MarkPaid(p) \/ Reopen(p) \/ Extend(p) \/ \E i \in PullIds : Pull(i, p)
  \/ \E p \in Periods \cup {-1} : Book(p)
  \/ Slip \/ Revoke

Spec == Init /\ [][Next]_<<pulls, paid, booked, through, slips, revoked>>

===============================================================================
