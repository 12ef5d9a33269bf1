--------------------------- MODULE WalletContract ---------------------------
(***************************************************************************)
(* How the state of the wallet is a state of PaymentContract: a claim is a *)
(* variable of the method until it is a row of the transactions table.     *)
(***************************************************************************)
EXTENDS WalletInvariant

(* The row of a reference Paystack knows, and the request that owes one *)
BookedRows(r) == IF Known(r) THEN RowsOf(r) ELSE {}
OpenTasks(r) == {worker[w] : w \in {x \in Owing : worker[x].reference = r}}

NoClaim == [state |-> "none"]
ClaimOf(state, u, a) == [state |-> state, user |-> u, amount |-> a]
ClaimFrom(rows, tasks) ==
  IF rows # {} THEN LET t == CHOOSE t \in rows : TRUE
                    IN  ClaimOf("booked", t.userId, t.amount)
  ELSE IF tasks # {} THEN LET t == CHOOSE t \in tasks : TRUE
                          IN  ClaimOf("open", t.user, t.amount)
  ELSE NoClaim
Claim(r) == ClaimFrom(BookedRows(r), OpenTasks(r))

Purpose(r) == IF Charged(r) THEN "charge" ELSE IF PaidOut(r) THEN "payout" ELSE "none"
Asked(r) == IF Charged(r) THEN kobo[r] ELSE 0
CameBack(r) == charge[r] = "paid" \/ payout[r] \in {"failed", "reversed"}

Purposes == [r \in References |-> Purpose(r)]
Asks == [r \in References |-> Asked(r)]
Claims == [r \in References |-> Claim(r)]
Dues == {r \in References : CameBack(r)}

Contract == INSTANCE PaymentContract WITH
  AtOnce <- Cardinality(Handlers), purpose <- Purposes, asked <- Asks, claim <- Claims,
  taken <- debited, due <- Dues, credited <- credits

(* Who asked for a charge is credited what the customer paid, and who was  *)
(* debited for a payout what was taken, whichever request, row or webhook  *)
(* carries user and amount at the moment: across the two POSTs, stale rows *)
(* that handlers write back, and crashes between any two steps.            *)
HonorsContract == Contract!Spec
=============================================================================
