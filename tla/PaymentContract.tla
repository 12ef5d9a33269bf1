-------------------------- MODULE PaymentContract --------------------------
(***************************************************************************)
(* What the wallet owes who pays into it or takes money out of it, said    *)
(* without requests, webhooks, retries and crashes.  A request names a     *)
(* user and an amount and tells Paystack a reference; the money of that    *)
(* reference, if it comes, goes to that user and is that amount.           *)
(*                                                                         *)
(* Per reference: what it is for, whose claim it is, and whether the money *)
(* is due, because the customer paid or because a payout came back.        *)
(***************************************************************************)
EXTENDS WalletRow

CONSTANT AtOnce  \* deliveries of an event handled at the same time

VARIABLES
  balance,
  purpose,  \* "none", "charge" (fundWallet) or "payout" (withdrawFund)
  asked,    \* the kobo a customer is asked for
  claim,    \* the user and the amount, while a request or a row has them
  taken,    \* the naira a withdrawal was debited
  due,      \* the references whose money has come, or come back
  credited  \* how often that money was credited

contractVars == <<balance, purpose, asked, claim, taken, due, credited>>

NoClaim == [state |-> "none"]
ClaimOf(state, u, a) == [state |-> state, user |-> u, amount |-> a]

Init ==
  /\ balance = [u \in WalletOwners |-> OpeningBalance]
  /\ purpose = [r \in References |-> "none"]
  /\ asked = [r \in References |-> 0]
  /\ claim = [r \in References |-> NoClaim]
  /\ taken = [r \in References |-> 0]
  /\ due = {}
  /\ credited = [r \in References |-> 0]

-----------------------------------------------------------------------------
(* The POST to Paystack.  When its answer is lost nobody claims the        *)
(* reference, then or later.                                               *)
Opened(r, a) ==
  \/ \E u \in WalletOwners : claim' = [claim EXCEPT ![r] = ClaimOf("open", u, a)]
  \/ UNCHANGED claim

AskCharge(r, a) ==
  /\ purpose[r] = "none"
  /\ purpose' = [purpose EXCEPT ![r] = "charge"]
  /\ asked' = [asked EXCEPT ![r] = a * 100]
  /\ Opened(r, a)
  /\ UNCHANGED <<balance, taken, due, credited>>

AskPayout(r, a) ==
  /\ purpose[r] = "none"
  /\ purpose' = [purpose EXCEPT ![r] = "payout"]
  /\ Opened(r, a)
  /\ UNCHANGED <<balance, asked, taken, due, credited>>

(* withdrawFund takes the amount from who claims it, once *)
Debit(r) ==
  /\ purpose[r] = "payout" /\ claim[r].state = "open" /\ taken[r] = 0
  /\ balance' = Increment(balance, claim[r].user, -claim[r].amount)
  /\ taken' = [taken EXCEPT ![r] = claim[r].amount]
  /\ UNCHANGED <<purpose, asked, claim, due, credited>>

(* The row: from here on a claim neither changes nor gets lost.  One to a  *)
(* payout is only booked for what was taken.                               *)
Book(r) ==
  /\ claim[r].state = "open"
  /\ purpose[r] = "payout" => taken[r] = claim[r].amount
  /\ claim' = [claim EXCEPT ![r] = ClaimOf("booked", @.user, @.amount)]
  /\ UNCHANGED <<balance, purpose, asked, taken, due, credited>>

(* Errors and crashes lose open claims *)
Lose(R) ==
  /\ \A r \in R : claim[r].state = "open"
  /\ claim' = [r \in References |-> IF r \in R THEN NoClaim ELSE claim[r]]
  /\ UNCHANGED <<balance, purpose, asked, taken, due, credited>>

Transfer(u, v, a) ==
  /\ balance' = Increment(Increment(balance, u, -a), v, a)
  /\ UNCHANGED <<purpose, asked, claim, taken, due, credited>>

(* The customer pays what was asked, which is what was booked; a payout    *)
(* may come back at any time                                               *)
ComeDue(r) ==
  /\ purpose[r] # "none" /\ r \notin due
  /\ purpose[r] = "charge" =>
       claim[r].state = "booked" /\ asked[r] = claim[r].amount * 100
  /\ due' = due \cup {r}
  /\ UNCHANGED <<balance, purpose, asked, claim, taken, credited>>

(* A webhook.  Payouts may be refunded more often than once: the two       *)
(* handlers of a payout that came back undo each other's guard.            *)
Credit(r) ==
  /\ r \in due /\ claim[r].state = "booked"
  /\ purpose[r] = "charge" => credited[r] < AtOnce
  /\ balance' = Increment(balance, claim[r].user, claim[r].amount)
  /\ credited' = [credited EXCEPT ![r] = @ + 1]
  /\ UNCHANGED <<purpose, asked, claim, taken, due>>

-----------------------------------------------------------------------------
Reference(r) ==
  \/ \E a \in Amounts : AskCharge(r, a) \/ AskPayout(r, a)
  \/ Debit(r)
  \/ Book(r)
  \/ ComeDue(r)
  \/ Credit(r)

Next ==
  \/ \E r \in References : Reference(r)
  \/ \E R \in SUBSET References : Lose(R)
  \/ \E u \in WalletOwners, v \in Users, a \in Amounts : Transfer(u, v, a)

Spec == Init /\ [][Next]_contractVars
=============================================================================
