---------------------------- MODULE WalletSystem ----------------------------
(***************************************************************************)
(* The wallet: requests of WalletService, webhooks of WebhooksService, the *)
(* database they share and Paystack, which calls back about what the       *)
(* requests started.                                                       *)
(***************************************************************************)
EXTENDS WalletService, WebhooksService, Functions

vars == <<ledgerVars, paystackVars, serviceVars, handler>>

TypeOK ==
  LedgerTypeOK /\ PaystackTypeOK /\ ServiceTypeOK /\ WebhooksTypeOK

Init == LedgerInit /\ PaystackInit /\ ServiceInit /\ WebhooksInit

Request == (\E w \in Workers : ServiceStep(w)) /\ UNCHANGED handler

(* Paystack; the customer pays only where fundWallet's answer sent him *)
Provider ==
  /\ \E r \in References :
       \/ r \in urls /\ CustomerPays(r)
       \/ PayoutSucceeds(r)
       \/ PayoutFails(r)
       \/ PayoutReversed(r)
  /\ UNCHANGED <<ledgerVars, serviceVars, handler>>

Deliver(e) == (\E h \in Handlers : LoadWebhook(h, e)) /\ UNCHANGED serviceVars

Handle(h) ==
  /\ Commit(h) \/ (CreditRefused(h) /\ WebhookFails(h))
  /\ UNCHANGED serviceVars

(* A delivery whose guard answers it at once *)
AnswerAtOnce ==
  /\ \E e \in events : NotFound(e) \/ AnswerRepeated(e)
  /\ UNCHANGED serviceVars

Webhook ==
  \/ \E e \in events : Deliver(e)
  \/ AnswerAtOnce
  \/ \E h \in Handlers : Handle(h)

WebhookError ==
  /\ \E h \in Handlers : WebhookFails(h)
  /\ Fault
  /\ UNCHANGED <<worker, urls>>

(* The process stops and is started again: whatever it was doing is lost,  *)
(* the database and Paystack remain                                        *)
Crash ==
  /\ Fault
  /\ worker' = [w \in Workers |-> Idle]
  /\ handler' = [h \in Handlers |-> Waiting]
  /\ UNCHANGED <<ledgerVars, paystackVars, urls>>

Next == Request \/ Provider \/ Webhook \/ WebhookError \/ Crash

Spec == Init /\ [][Next]_vars

(* Node runs every callback that is ready and MySQL answers or refuses     *)
(* every statement, so a handler that passed its guard finishes.  Paystack *)
(* repeats every event it has no 2xx for, so an event is delivered if it   *)
(* can be again and again; strong fairness, because Handlers bounds the    *)
(* deliveries in flight and the code does not.                             *)
Fairness ==
  /\ \A h \in Handlers : WF_vars(Handle(h))
  /\ \A name \in PaystackEvents, r \in References : SF_vars(Deliver(Event(name, r)))

FairSpec == Spec /\ Fairness

-----------------------------------------------------------------------------
RowsOf(r) == {t \in transactions : t.reference = r}
Charged(r) == charge[r] # "none"
PaidOut(r) == payout[r] # "none"
Quiet == faults = 0 /\ \A w \in Workers : At(w, "idle")

(* fundWallet answers with the authorization_url only after it inserted    *)
(* the row: whenever Paystack reports a paid charge, handlePaystackWebhook *)
(* finds a row for it, and the row has the amount the customer paid.       *)
ChargeRecorded ==
  \A r \in References : charge[r] = "paid" =>
    \E t \in RowsOf(r) : t.amount * 100 = kobo[r]

(* No webhook credits a wallet for a reference Paystack does not owe it:   *)
(* a charge must have been paid, or a payout must have come back.  In      *)
(* particular handleTransferSuccess, the late and the repeated delivery    *)
(* of any event and the stale row a handler saves credit nothing else.     *)
CreditJustified ==
  \A r \in References : credits[r] > 0 =>
    charge[r] = "paid" \/ payout[r] \in {"failed", "reversed"}

(* handleChargeSuccess changes wallet and row in one knex transaction: a   *)
(* deposit is marked successful exactly when it has been credited,         *)
(* whatever crashes, errors and concurrent deliveries happened.            *)
DepositSettled ==
  \A t \in transactions : Charged(t.reference) =>
    (t.status = "successful" <=> credits[t.reference] > 0)

(* withdrawFund inserts its row only after the decrement, so a webhook     *)
(* that overtakes it is turned away (404): no payout is refunded that was  *)
(* not taken from the wallet first.                                        *)
RefundOnlyDebited ==
  \A r \in References : PaidOut(r) /\ credits[r] > 0 => debited[r] > 0

(* What the guard of handleChargeSuccess does achieve without a lock: one  *)
(* payment is credited at most once per delivery that was in flight at the *)
(* same time, never once per delivery.                                     *)
DepositCreditBounded ==
  \A r \in References : Charged(r) => credits[r] <= Cardinality(Handlers)

(* What checkBalance does achieve outside the transaction: concurrent      *)
(* transfers and withdrawals overdraw a wallet by no more than one amount  *)
(* for each request in flight but the first.                               *)
OverdraftBounded ==
  \A u \in WalletOwners : balance[u] >= -((Cardinality(Workers) - 1) * MaxAmount)

(* A row's reference is what a webhook finds it by with .first(): a        *)
(* reference Paystack knows names at most one row.                         *)
WebhookRowUnique ==
  \A s, t \in transactions :
    s.reference = t.reference /\ (Charged(s.reference) \/ PaidOut(s.reference)) => s = t

(* Without crash, error or lost answer, once every request has ended each  *)
(* payout Paystack accepted has been taken from a wallet and has its row.  *)
PayoutsBooked ==
  Quiet => \A r \in References : PaidOut(r) => debited[r] > 0 /\ RowsOf(r) # {}

(* The wallets hold what was there, what webhooks credited and not what    *)
(* withdrawals took; a transfer, to oneself too, keeps the sum.  A webhook *)
(* credits the amount of the row it found, the only one of its reference.  *)
AmountOf(r) == (CHOOSE t \in RowsOf(r) : TRUE).amount
Credited(r) == IF credits[r] > 0 THEN credits[r] * AmountOf(r) ELSE 0
NetCredit == [r \in References |-> Credited(r) - debited[r]]
Money == SumFunction(balance)
MoneyBooked == Cardinality(WalletOwners) * OpeningBalance + SumFunction(NetCredit)
ConservationOfMoney == Money = MoneyBooked

(* A payment is credited some day, though the row may have been read by a  *)
(* delivery that fails: Paystack repeats it.  Only a wallet without room   *)
(* in its FLOAT column keeps the money out.                                *)
NoRoom(t) == ~CanIncrement(balance, t.userId, t.amount)
DepositEventuallyCredited ==
  \A r \in References :
    charge[r] = "paid" ~> (credits[r] > 0 \/ \E t \in RowsOf(r) : NoRoom(t))

(* A recorded withdrawal whose payout failed or was reversed is refunded   *)
(* some day, even if the event came before the row and found nothing.      *)
RefundEventually ==
  \A r \in References :
    payout[r] \in {"failed", "reversed"} /\ RowsOf(r) # {}
      ~> (credits[r] > 0 \/ \E t \in RowsOf(r) : NoRoom(t))
=============================================================================
