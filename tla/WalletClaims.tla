---------------------------- MODULE WalletClaims ----------------------------
(***************************************************************************)
(* What messages, tests and documents of the repository say of the wallet  *)
(* and the code does not achieve.  Every definition here is refuted by a   *)
(* run of its own; the README names the text and tells the counterexample. *)
(***************************************************************************)
EXTENDS WalletInvariant

(* "Transaction already successful" (webhooks.service.ts:71): a repeated   *)
(* charge.success leaves the wallet alone.                                 *)
CreditedOnce == \A r \in References : Charged(r) => credits[r] <= 1

(* "Transaction already failed", "Transaction already reversed"            *)
(* (webhooks.service.ts:154, 186): a payout is refunded once.              *)
RefundedOnce == \A r \in References : PaidOut(r) => credits[r] <= 1

(* "Insufficient funds" (wallet.service.ts:204): nobody spends more than   *)
(* the wallet holds.                                                       *)
NonNegativeBalance == \A u \in WalletOwners : balance[u] >= 0

(* Amounts are in "Naira" (fund-wallet.dto.ts:6), and a payout is a        *)
(* "Withdrawal of funds from user accounts" (README.md:27): Paystack pays  *)
(* out, in kobo, the naira that were taken from the wallet.                *)
PayoutMatchesDebit ==
  \A r \in References : debited[r] > 0 => kobo[r] = debited[r] * 100
=============================================================================
