----------------------------- MODULE Lifecycle -----------------------------
(***************************************************************************)
(* The two state machines of packages/payments as pure operators.  The     *)
(* source writes each transition as a function from a document to a NEW    *)
(* document that throws when the transition is illegal: Can...(d) is the   *)
(* condition under which the function returns, the operator named after    *)
(* the function is what it returns.  Nothing here reads a store: whether   *)
(* the document is still the stored one when the result is saved is the    *)
(* caller's problem, and the subject of module Settlement.                 *)
(***************************************************************************)

PaymentStatus == {"pending", "confirmed", "failed", "refunded"}
SessionStatus == {"open", "completed", "canceled", "expired"}

(***************************************************************************)
(* Payments.  The depth check of confirmPayment (confirmations against     *)
(* minConfirmations) is a fact about the chain and is part of the          *)
(* verification that every caller runs first.                              *)
(***************************************************************************)
CanConfirm(row, tx) ==
  \/ row.status = "pending"
  \/ row.status = "confirmed" /\ row.tx = tx

ConfirmPayment(row, tx) == [row EXCEPT !.status = "confirmed", !.tx = tx]

(* Mutant: anything that was not refunded may fail. *)
CanFailConfirmed(row) == row.status # "refunded"

CanFail(row) == row.status \in {"pending", "failed"}
FailPayment(row) == [row EXCEPT !.status = "failed"]

CanRefund(row) == row.status \in {"confirmed", "refunded"}
RefundPayment(row) == [row EXCEPT !.status = "refunded"]

(* The status changes the header of payment-lifecycle.ts draws. *)
LegalPaymentSteps ==
  {<<"pending", "confirmed">>, <<"pending", "failed">>, <<"confirmed", "refunded">>}

(***************************************************************************)
(* Checkout sessions.  completeSession, expireSession and cancelSession    *)
(* return the session unchanged when it already has the target status.     *)
(***************************************************************************)
CanComplete(doc) == doc.status \in {"open", "completed"}
CompleteSession(doc) == [doc EXCEPT !.status = "completed"]

CanExpire(doc) == doc.status \in {"open", "expired"}
ExpireSession(doc) == [doc EXCEPT !.status = "expired"]

CanCancel(doc) == doc.status \in {"open", "canceled"}
CancelSession(doc) == [doc EXCEPT !.status = "canceled"]

CanCollect(doc) == doc.status = "open"

=============================================================================
