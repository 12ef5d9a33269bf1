---------------------------- MODULE WalletService ----------------------------
(***************************************************************************)
(* The wallet operations of src/modules/wallet/wallet.service.ts.  A       *)
(* request is an asynchronous method that gives up the event loop at every *)
(* await; each action below runs from one await that other requests can    *)
(* observe or disturb to the next.  worker[w] is a request being served,   *)
(* with the local variables the method still needs.                        *)
(*                                                                         *)
(* Only wallet owners get anywhere: findUserWallet returns undefined for a *)
(* user without a wallet, and each method throws on wallet.currency or     *)
(* wallet.balance right after its first await, before it changed anything. *)
(***************************************************************************)
EXTENDS Ledger, Paystack

CONSTANT Workers    \* requests served at the same time
CONSTANT MaxFaults  \* bound: database errors, lost answers and crashes

ASSUME WorkersAssumption == IsFiniteSet(Workers) /\ Workers # {}

VARIABLES
  worker,  \* the request each worker serves
  urls,    \* the references whose authorization_url a customer received
  faults   \* the faults so far

serviceVars == <<worker, urls, faults>>

(* The requests that have drawn no reference, and those that have one,     *)
(* which Paystack knows                                                    *)
EarlySteps == {"ready",       \* transferFunds: the balance and the receiver were read
               "checked"}     \* withdrawFund: the balance was read
LateSteps == {"initialized",  \* fundWallet: Paystack knows the charge
              "sent",         \* withdrawFund: Paystack accepted the payout
              "debited"}      \* withdrawFund: the wallet was decremented

Idle == [step |-> "idle"]
Tasks(steps, refs) == [step : steps, user : WalletOwners, receiver : Users,
                       amount : Amounts, reference : refs]
Task == Tasks(EarlySteps, {NoReference}) \cup Tasks(LateSteps, References)

ServiceTypeOK ==
  /\ worker \in [Workers -> Task \cup {Idle}]
  /\ urls \subseteq References
  /\ faults \in Nat

ServiceInit ==
  /\ worker = [w \in Workers |-> Idle]
  /\ urls = {}
  /\ faults = 0

At(w, step) == worker[w].step = step
Finish(w) == worker' = [worker EXCEPT ![w] = Idle]
Begin(w, step, u, v, a, r) ==
  worker' = [worker EXCEPT ![w] =
    [step |-> step, user |-> u, receiver |-> v, amount |-> a, reference |-> r]]

Fault == faults < MaxFaults /\ faults' = faults + 1

FreshAtPaystack(r) == Unknown(r)  \* mutant: a transfer's reference is drawn again

(* Helper.randString never repeats itself *)
Fresh(r) == Unknown(r) /\ \A t \in transactions : t.reference # r

(* The row createTransaction inserts, for a deposit and a withdrawal alike *)
NewTransaction(task, r) ==
  [reference |-> r, operation |-> "credit", userId |-> task.user,
   amount |-> task.amount, type |-> "deposit", status |-> "pending"]

(* The two rows of createTransferTransaction *)
NewTransfer(task, r) ==
  {[reference |-> r, operation |-> "debit", userId |-> task.user,
    amount |-> task.amount, type |-> "transfer", status |-> "pending"],
   [reference |-> r, operation |-> "credit", userId |-> task.receiver,
    amount |-> task.amount, type |-> "transfer", status |-> "pending"]}

NoBalanceCheck(u, a) == TRUE  \* mutant: the balance is not compared

(* checkBalance: what the method read is no longer protected afterwards *)
SufficientFunds(u, a) == balance[u] >= a

-----------------------------------------------------------------------------
(* mutant: the authorization_url is sent before the row is inserted *)
InitializeAndAnswer(w, u, a, r) ==
  /\ At(w, "idle")
  /\ Fresh(r)
  /\ AcceptCharge(r, a * 100)
  /\ Begin(w, "initialized", u, u, a, r)
  /\ urls' = urls \cup {r}
  /\ UNCHANGED <<ledgerVars, faults>>

(* fundWallet: the charge is started at Paystack, in kobo *)
FundInitialize(w, u, a, r) ==
  /\ At(w, "idle")
  /\ Fresh(r)
  /\ AcceptCharge(r, a * 100)
  /\ Begin(w, "initialized", u, u, a, r)
  /\ UNCHANGED <<ledgerVars, urls, faults>>

(* the same, but the answer to the POST is lost or later than 15 s *)
FundTimesOut(w, a, r) ==
  /\ At(w, "idle")
  /\ Fresh(r)
  /\ AcceptCharge(r, a * 100)
  /\ Fault
  /\ UNCHANGED <<ledgerVars, worker, urls>>

(* fundWallet: insert the row, then answer with the authorization_url *)
FundRecord(w) ==
  /\ At(w, "initialized")
  /\ CanInsert(worker[w].amount)
  /\ transactions' = transactions \cup {NewTransaction(worker[w], worker[w].reference)}
  /\ urls' = urls \cup {worker[w].reference}
  /\ Finish(w)
  /\ UNCHANGED <<balance, credits, debited, paystackVars, faults>>

(* transferFunds: checkBalance and findUserByEmail; users never change.    *)
(* The receiver may be the sender, and need not own a wallet.              *)
TransferCheck(w, u, v, a) ==
  /\ At(w, "idle")
  /\ SufficientFunds(u, a)
  /\ Begin(w, "ready", u, v, a, NoReference)
  /\ UNCHANGED <<ledgerVars, paystackVars, urls, faults>>

(* mutant: each balance is written from a value read before the other write *)
TransferOverwrites(w, r) ==
  LET t == worker[w]
      written == [u \in WalletOwners |->
                    IF u = t.receiver THEN balance[u] + t.amount
                    ELSE IF u = t.user THEN balance[u] - t.amount
                    ELSE balance[u]]
  IN  /\ At(w, "ready")
      /\ Fresh(r)
      /\ \A u \in WalletOwners : Fits(written[u])
      /\ balance' = written
      /\ transactions' = transactions \cup NewTransfer(t, r)
      /\ Finish(w)
      /\ UNCHANGED <<credits, debited, paystackVars, urls, faults>>

(* transferFunds: the knex transaction.  It commits as a whole, or throws  *)
(* and rolls back when an update would exceed the column.                  *)
TransferCommit(w, r) ==
  LET t == worker[w]
      taken == Increment(balance, t.user, -t.amount)
  IN  /\ At(w, "ready")
      /\ Fresh(r)
      /\ CanIncrement(balance, t.user, -t.amount)
      /\ CanIncrement(taken, t.receiver, t.amount)
      /\ CanInsert(t.amount)
      /\ balance' = Increment(taken, t.receiver, t.amount)
      /\ transactions' = transactions \cup NewTransfer(t, r)
      /\ Finish(w)
      /\ UNCHANGED <<credits, debited, paystackVars, urls, faults>>

(* withdrawFund: checkBalance, then verifyAccount and                      *)
(* createTransferRecipient, which change nothing here                      *)
WithdrawCheck(w, u, a) ==
  /\ At(w, "idle")
  /\ SufficientFunds(u, a)
  /\ Begin(w, "checked", u, u, a, NoReference)
  /\ UNCHANGED <<ledgerVars, paystackVars, urls, faults>>

(* The kobo that reach Paystack: WalletService.makeTransfer multiplies the *)
(* naira by 100, and PaystackService.makeTransfer multiplies again.        *)
PayoutKobo(a) == (a * 100) * 100

(* mutant: the row is inserted before the wallet is decremented *)
SendAndRecord(w, r) ==
  /\ At(w, "checked")
  /\ Fresh(r)
  /\ AcceptPayout(r, PayoutKobo(worker[w].amount))
  /\ transactions' = transactions \cup {NewTransaction(worker[w], r)}
  /\ worker' = [worker EXCEPT ![w].step = "sent", ![w].reference = r]
  /\ UNCHANGED <<balance, credits, debited, urls, faults>>

(* withdrawFund: makeTransfer, answered *)
WithdrawSend(w, r) ==
  /\ At(w, "checked")
  /\ Fresh(r)
  /\ AcceptPayout(r, PayoutKobo(worker[w].amount))
  /\ worker' = [worker EXCEPT ![w].step = "sent", ![w].reference = r]
  /\ UNCHANGED <<ledgerVars, urls, faults>>

(* withdrawFund: makeTransfer, accepted by Paystack but the answer to the  *)
(* POST is lost or later than 15 s; the method throws and nothing is       *)
(* retried or undone                                                       *)
WithdrawTimesOut(w, r) ==
  /\ At(w, "checked")
  /\ Fresh(r)
  /\ AcceptPayout(r, PayoutKobo(worker[w].amount))
  /\ Finish(w)
  /\ Fault
  /\ UNCHANGED <<ledgerVars, urls>>

(* withdrawFund: the decrement, in a transaction of its own *)
WithdrawDebit(w) ==
  LET t == worker[w] IN
  /\ At(w, "sent")
  /\ CanIncrement(balance, t.user, -t.amount)
  /\ balance' = Increment(balance, t.user, -t.amount)
  /\ debited' = [debited EXCEPT ![t.reference] = t.amount]
  /\ worker' = [worker EXCEPT ![w].step = "debited"]
  /\ UNCHANGED <<transactions, credits, paystackVars, urls, faults>>

(* withdrawFund: createTransaction, then the answer *)
WithdrawRecord(w) ==
  /\ At(w, "debited")
  /\ CanInsert(worker[w].amount)
  /\ transactions' =
       transactions \cup {NewTransaction(worker[w], worker[w].reference)}
  /\ Finish(w)
  /\ UNCHANGED <<balance, credits, debited, paystackVars, urls, faults>>

-----------------------------------------------------------------------------
(* findUserByEmail finds nobody *)
UnknownReceiver(w) == At(w, "ready")

(* verifyAccountNumber or createTransferRecipient throws, or Paystack      *)
(* refuses the payout                                                      *)
RecipientRefused(w) == At(w, "checked")

(* mutant: the method also throws on an answer of Paystack it cannot read *)
RejectAnswered(w) ==
  /\ worker[w].step \in EarlySteps \cup {"sent"}
  /\ Finish(w)
  /\ UNCHANGED <<ledgerVars, paystackVars, urls, faults>>

(* The method throws before it changed anything *)
RejectRequest(w) ==
  /\ UnknownReceiver(w) \/ RecipientRefused(w)
  /\ Finish(w)
  /\ UNCHANGED <<ledgerVars, paystackVars, urls, faults>>

(* MySQL refuses the statement the method is about to issue because a      *)
(* value leaves the column's range                                         *)
OutOfRange(w) ==
  LET t == worker[w]
      taken == Increment(balance, t.user, -t.amount)
  IN  \/ At(w, "ready") /\ ~CanIncrement(balance, t.user, -t.amount)
      \/ At(w, "ready") /\ ~CanIncrement(taken, t.receiver, t.amount)
      \/ At(w, "sent") /\ ~CanIncrement(balance, t.user, -t.amount)
      \/ worker[w].step \in {"initialized", "ready", "debited"} /\ ~CanInsert(t.amount)

(* The statement fails, for that reason or for one of MySQL's own (a       *)
(* deadlock, a lost connection): the method throws, a knex transaction is  *)
(* rolled back, and what earlier awaits did stays done                     *)
RequestFails(w) ==
  /\ ~At(w, "idle")
  /\ \/ OutOfRange(w) /\ UNCHANGED faults
     \/ Fault
  /\ Finish(w)
  /\ UNCHANGED <<ledgerVars, paystackVars, urls>>

ServiceStep(w) ==
  \/ \E u \in WalletOwners, a \in Amounts, r \in References : FundInitialize(w, u, a, r)
  \/ \E a \in Amounts, r \in References : FundTimesOut(w, a, r)
  \/ FundRecord(w)
  \/ \E u \in WalletOwners, v \in Users, a \in Amounts : TransferCheck(w, u, v, a)
  \/ \E r \in References : TransferCommit(w, r)
  \/ \E u \in WalletOwners, a \in Amounts : WithdrawCheck(w, u, a)
  \/ \E r \in References : WithdrawSend(w, r)
  \/ \E r \in References : WithdrawTimesOut(w, r)
  \/ WithdrawDebit(w)
  \/ WithdrawRecord(w)
  \/ RejectRequest(w)
  \/ RequestFails(w)
=============================================================================
