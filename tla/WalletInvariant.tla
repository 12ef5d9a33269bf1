--------------------------- MODULE WalletInvariant ---------------------------
(***************************************************************************)
(* The strengthening of the safety properties of WalletSystem that its     *)
(* steps preserve.  TLC checks it as an invariant; WalletProofs proves it. *)
(***************************************************************************)
EXTENDS WalletSystem

Known(r) == Charged(r) \/ PaidOut(r)

(* A reference is drawn for one request to Paystack only *)
OnePurpose == \A r \in References : ~(Charged(r) /\ PaidOut(r))

(* What Paystack must have done when the event e about r exists *)
Happened(e, r) ==
  CASE e = "charge.success" -> charge[r] = "paid"
    [] e = "transfer.success" -> payout[r] \in {"success", "reversed"}
    [] e = "transfer.failed" -> payout[r] = "failed"
    [] e = "transfer.reversed" -> payout[r] = "reversed"

EventsHappened == \A e \in events : Happened(e.event, e.reference)

(* Requests that told Paystack a reference whose row is still to come *)
Owing == {w \in Workers : worker[w].step \in LateSteps}

RowToCome(task) ==
  /\ RowsOf(task.reference) = {}
  /\ task.step = "initialized" =>
       Charged(task.reference) /\ task.amount * 100 = kobo[task.reference]
  /\ task.step \in {"sent", "debited"} => PaidOut(task.reference)
  /\ task.step = "debited" => debited[task.reference] > 0

OwingOK ==
  /\ \A w \in Owing : RowToCome(worker[w])
  /\ \A w, x \in Owing : worker[w].reference = worker[x].reference => w = x

(* A row Paystack knows of: a deposit of the amount asked, or a withdrawal *)
(* the wallet was debited for                                              *)
RowsOK ==
  \A t \in transactions :
    /\ Charged(t.reference) => t.amount * 100 = kobo[t.reference]
    /\ PaidOut(t.reference) => debited[t.reference] > 0

CheckoutOK ==
  /\ \A r \in urls : Charged(r) /\ RowsOf(r) # {}
  /\ \A r \in References : charge[r] = "paid" => r \in urls

CreditsHaveRow == \A r \in References : credits[r] > 0 => RowsOf(r) # {}

(* A handler holds a copy of a row that is still there, old status aside *)
Loaded(h) == handler[h] # Waiting
HoldsCopy(delivery) ==
  /\ Happened(delivery.event, delivery.row.reference)
  /\ \E t \in transactions :
       /\ SameId(t, delivery.row)
       /\ t.amount = delivery.row.amount
       /\ t.userId = delivery.row.userId
       /\ t.type = delivery.row.type

HandlersOK == \A h \in Handlers : Loaded(h) => HoldsCopy(handler[h])

(* Deliveries past their guard for a reference use up the bound in advance *)
InFlight(r) == {h \in Handlers : Loaded(h) /\ handler[h].row.reference = r}
CreditsInFlight ==
  \A r \in References : Charged(r) /\ credits[r] > 0 =>
    credits[r] + Cardinality(InFlight(r)) <= Cardinality(Handlers)

(* Requests of u that passed checkBalance and have not been debited.  The  *)
(* one that passed it last, or another, still finds its amount, but for    *)
(* one MaxAmount taken by each request that is not waiting.                *)
Spending(u) ==
  {w \in Workers : worker[w].step \in {"ready", "checked", "sent"} /\ worker[w].user = u}
Slack(n) == (Cardinality(Workers) - n) * MaxAmount
Covered(u, w) == balance[u] >= worker[w].amount - Slack(Cardinality(Spending(u)))
Funded(u) ==
  IF Spending(u) = {} THEN balance[u] >= -Slack(1)
                      ELSE \E w \in Spending(u) : Covered(u, w)
FundsOK == \A u \in WalletOwners : Funded(u)

(* A withdrawal is debited once, and for a payout Paystack knows           *)
DebitedOnce ==
  /\ \A r \in References : debited[r] > 0 => PaidOut(r)
  /\ \A w \in Workers : At(w, "sent") => debited[worker[w].reference] = 0
DebitedInFull ==
  \A w \in Workers : At(w, "debited") => debited[worker[w].reference] = worker[w].amount

(* The wallets never hold more than was booked.  They hold less when money *)
(* went to a user without a wallet, whose increment matches no row.        *)
NoMoneyCreated == Money <= MoneyBooked
MoneyOK == DebitedOnce /\ NoMoneyCreated /\ (Users = WalletOwners => ConservationOfMoney)

(* Each part is preserved with the help of the others: TLC checks the      *)
(* conjunction of what handlers, requests and Paystack agree on.           *)
BooksInv ==
  /\ OnePurpose
  /\ EventsHappened
  /\ OwingOK
  /\ RowsOK
  /\ CheckoutOK
  /\ CreditsHaveRow
  /\ HandlersOK
  /\ WebhookRowUnique
=============================================================================
