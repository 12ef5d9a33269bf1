--------------------------- MODULE WebhooksService ---------------------------
(***************************************************************************)
(* The webhook endpoint: handlePaystackWebhook and its four handlers in    *)
(* src/modules/webhooks/webhooks.service.ts, and the answer that           *)
(* src/shared/resolvers/index.ts makes of what they return.                *)
(*                                                                         *)
(* A handler reads the transaction row, awaits a read of the wallet, and   *)
(* then writes back the whole row it read.  handler[h] is a delivery that  *)
(* passed its guard and holds the row it read; the status of that row is   *)
(* the only column whose age matters.                                      *)
(***************************************************************************)
EXTENDS Ledger, Paystack

CONSTANT Handlers  \* deliveries handled at the same time

ASSUME HandlersAssumption == IsFiniteSet(Handlers)

VARIABLE handler

Waiting == [event |-> "none"]
Delivery == [event : PaystackEvents, row : Row]

WebhooksTypeOK == handler \in [Handlers -> Delivery \cup {Waiting}]
WebhooksInit == handler = [h \in Handlers |-> Waiting]

(* The status a handler gives the row, and whose presence makes it return  *)
(* at once                                                                 *)
Target ==
  [e \in PaystackEvents |->
     CASE e \in {"charge.success", "transfer.success"} -> "successful"
       [] e = "transfer.failed" -> "failed"
       [] e = "transfer.reversed" -> "cancelled"]

RepeatsUnnoticed(name, row) == FALSE  \* mutant: the early return is gone

(* "Transaction already successful" (failed, reversed) *)
AlreadyHandled(name, row) == row.status = Target[name]

(* What becomes of a delivery: "returned" when handlePaystackWebhook       *)
(* returns, which it does without a value whatever its handler returned;   *)
(* resolveResponse reads the length of that undefined value and throws.    *)
ErrorsSwallowed(result) ==    \* mutant: the handler catches its error and answers
  IF result = "thrown" THEN 200 ELSE 500
UnknownAccepted(result) ==    \* mutant: an unknown reference is answered with 200
  IF result = "unknown" THEN 200 ELSE 500
HttpStatus(result) ==
  CASE result = "returned" -> 500
    [] result = "unknown" -> 404
    [] result = "thrown" -> 500

Reply(e, result) ==
  /\ Acknowledge(e, HttpStatus(result))
  /\ UNCHANGED <<charge, payout, kobo>>

-----------------------------------------------------------------------------
(* handlePaystackWebhook finds the row, and the guard of the handler lets  *)
(* it through to the await of walletService.findOne                        *)
LoadWebhook(h, e) ==
  /\ handler[h] = Waiting
  /\ e \in events
  /\ \E t \in transactions :
       /\ t.reference = e.reference
       /\ ~AlreadyHandled(e.event, t)
       /\ handler' = [handler EXCEPT ![h] = [event |-> e.event, row |-> t]]
  /\ UNCHANGED <<ledgerVars, paystackVars>>

(* BaseService.findOne finds no row: 404 *)
NotFound(e) ==
  /\ e \in events
  /\ \A t \in transactions : t.reference # e.reference
  /\ Reply(e, "unknown")
  /\ UNCHANGED <<ledgerVars, handler>>

(* the guard of the handler returns *)
AnswerRepeated(e) ==
  /\ e \in events
  /\ \E t \in transactions :
       t.reference = e.reference /\ AlreadyHandled(e.event, t)
  /\ Reply(e, "returned")
  /\ UNCHANGED <<ledgerVars, handler>>

(* mutant: the status is not set before the row is saved *)
SaveUnchanged(h) == transactions' = SaveRow(handler[h].row)

(* UPDATE transactions with the row as it was read, but for the status *)
UpdateTransaction(h) ==
  LET row == handler[h].row
  IN  transactions' =
        SaveRow([row EXCEPT !.status = Target[handler[h].event]])

(* UPDATE wallets with the amount of the row *)
CreditWallet(row) ==
  /\ CanIncrement(balance, row.userId, row.amount)
  /\ balance' = Increment(balance, row.userId, row.amount)
  /\ credits' = [credits EXCEPT ![row.reference] = @ + 1]

Return(h) ==
  /\ handler' = [handler EXCEPT ![h] = Waiting]
  /\ Reply(Event(handler[h].event, handler[h].row.reference), "returned")
  /\ UNCHANGED debited

HandleChargeSuccess(h) ==
  /\ handler[h].event = "charge.success"
  /\ CreditWallet(handler[h].row)
  /\ UpdateTransaction(h)
  /\ Return(h)

(* mutant: the transfer handlers are copies of one another *)
SuccessCredits(h) ==
  /\ handler[h].event = "transfer.success"
  /\ CreditWallet(handler[h].row)
  /\ UpdateTransaction(h)
  /\ Return(h)

(* mutant: the wallet loses again what the row's meta says it does *)
SuccessDebitsAgain(h) ==
  LET row == handler[h].row IN
  /\ handler[h].event = "transfer.success"
  /\ CanIncrement(balance, row.userId, -row.amount)
  /\ balance' = Increment(balance, row.userId, -row.amount)
  /\ UpdateTransaction(h)
  /\ Return(h)
  /\ UNCHANGED credits

(* The money left the wallet when the withdrawal was requested *)
HandleTransferSuccess(h) ==
  /\ handler[h].event = "transfer.success"
  /\ UpdateTransaction(h)
  /\ Return(h)
  /\ UNCHANGED <<balance, credits>>

HandleTransferFailed(h) ==
  /\ handler[h].event = "transfer.failed"
  /\ CreditWallet(handler[h].row)
  /\ UpdateTransaction(h)
  /\ Return(h)

HandleTransferReversed(h) ==
  /\ handler[h].event = "transfer.reversed"
  /\ CreditWallet(handler[h].row)
  /\ UpdateTransaction(h)
  /\ Return(h)

Commit(h) ==
  \/ HandleChargeSuccess(h)
  \/ HandleTransferSuccess(h)
  \/ HandleTransferFailed(h)
  \/ HandleTransferReversed(h)

(* The transaction throws and is rolled back: the credit exceeds the       *)
(* column (full), or MySQL fails it for a reason of its own                *)
CreditRefused(h) ==
  /\ handler[h].event \in {"charge.success", "transfer.failed", "transfer.reversed"}
  /\ ~CanIncrement(balance, handler[h].row.userId, handler[h].row.amount)

WebhookFails(h) ==
  /\ handler[h] # Waiting
  /\ handler' = [handler EXCEPT ![h] = Waiting]
  /\ Reply(Event(handler[h].event, handler[h].row.reference), "thrown")
  /\ UNCHANGED ledgerVars
=============================================================================
