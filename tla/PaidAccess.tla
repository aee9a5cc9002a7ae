----------------------------- MODULE PaidAccess -----------------------------
(***************************************************************************)
(* What SettleKit promises about money and access, with nothing of how:    *)
(* a transfer settles one payment and stays with it; a payment is served   *)
(* (an entitlement, a payment.confirmed event) only after a transfer has   *)
(* settled it; and neither is ever taken back.  Settlement implements it.  *)
(***************************************************************************)
CONSTANTS TxHashes, PayIds

VARIABLES
  settledBy,   \* the payment a transfer has settled, as a set of at most one
  served       \* the payments an entitlement or an event exists for

Init ==
  /\ settledBy = [tx \in TxHashes |-> {}]
  /\ served = {}

Settle(tx, p) ==
  /\ settledBy[tx] = {}
  /\ settledBy' = [settledBy EXCEPT ![tx] = {p}]
  /\ UNCHANGED served

Serve(p) ==
  /\ \E tx \in TxHashes : p \in settledBy[tx]
  /\ served' = served \cup {p}
  /\ UNCHANGED settledBy

Next == \E p \in PayIds : Serve(p) \/ \E tx \in TxHashes : Settle(tx, p)

Spec == Init /\ [][Next]_<<settledBy, served>>

=============================================================================
