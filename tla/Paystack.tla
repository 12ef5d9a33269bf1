------------------------------ MODULE Paystack ------------------------------
(***************************************************************************)
(* Paystack, the payment provider, as the code of src/ uses it: charges    *)
(* started by POST /transaction/initialize, payouts started by POST        *)
(* /transfer, and the webhook events it sends about them.  An event is     *)
(* delivered again and again, in any order, until it is answered with a    *)
(* 2xx status.  Amounts are in kobo, a hundredth of a naira.               *)
(***************************************************************************)
EXTENDS Domain

VARIABLES
  charge,  \* the state of the charge with a reference
  payout,  \* the state of the payout with a reference
  kobo,    \* the amount of the charge or payout
  events   \* the webhook events not yet acknowledged

paystackVars == <<charge, payout, kobo, events>>

PaystackEvents ==
  {"charge.success", "transfer.success", "transfer.failed", "transfer.reversed"}

Event(name, r) == [event |-> name, reference |-> r]

PaystackTypeOK ==
  /\ charge \in [References -> {"none", "initialized", "paid"}]
  /\ payout \in [References -> {"none", "pending", "success", "failed", "reversed"}]
  /\ kobo \in [References -> Nat]
  /\ events \subseteq [event : PaystackEvents, reference : References]

PaystackInit ==
  /\ charge = [r \in References |-> "none"]
  /\ payout = [r \in References |-> "none"]
  /\ kobo = [r \in References |-> 0]
  /\ events = {}

Unknown(r) == charge[r] = "none" /\ payout[r] = "none"

(* Paystack accepts POST /transaction/initialize *)
AcceptCharge(r, k) ==
  /\ Unknown(r)
  /\ charge' = [charge EXCEPT ![r] = "initialized"]
  /\ kobo' = [kobo EXCEPT ![r] = k]
  /\ UNCHANGED <<payout, events>>

(* Paystack accepts POST /transfer *)
AcceptPayout(r, k) ==
  /\ Unknown(r)
  /\ payout' = [payout EXCEPT ![r] = "pending"]
  /\ kobo' = [kobo EXCEPT ![r] = k]
  /\ UNCHANGED <<charge, events>>

(* the customer pays at the authorization_url *)
CustomerPays(r) ==
  /\ charge[r] = "initialized"
  /\ charge' = [charge EXCEPT ![r] = "paid"]
  /\ events' = events \cup {Event("charge.success", r)}
  /\ UNCHANGED <<payout, kobo>>

PayoutMoves(r, from, to, name) ==
  /\ payout[r] \in from
  /\ payout' = [payout EXCEPT ![r] = to]
  /\ events' = events \cup {Event(name, r)}
  /\ UNCHANGED <<charge, kobo>>

PayoutSucceeds(r) == PayoutMoves(r, {"pending"}, "success", "transfer.success")
PayoutFails(r) == PayoutMoves(r, {"pending"}, "failed", "transfer.failed")
PayoutReversed(r) ==
  PayoutMoves(r, {"pending", "success"}, "reversed", "transfer.reversed")

(* An answer to a delivery of e: only a 2xx status stops the redelivery *)
Acknowledge(e, status) ==
  events' = IF 200 <= status /\ status < 300 THEN events \ {e} ELSE events
=============================================================================
