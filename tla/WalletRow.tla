----------------------------- MODULE WalletRow -----------------------------
(***************************************************************************)
(* The balance column of the wallets table and the one statement that      *)
(* changes it, WalletService.updateWalletBalance.  A FLOAT column holds at *)
(* most MaxBalance, and MySQL in strict mode refuses what exceeds it.      *)
(***************************************************************************)
EXTENDS Domain

CONSTANTS
  OpeningBalance,  \* the balance of every wallet in the initial state
  MaxBalance       \* the largest value of the FLOAT columns

ASSUME BalanceAssumption ==
  /\ OpeningBalance \in Nat
  /\ MaxBalance \in Nat
  /\ OpeningBalance <= MaxBalance

Fits(n) == -MaxBalance <= n /\ n <= MaxBalance

(* UPDATE wallets SET balance = balance + n WHERE userId = u.  It matches  *)
(* no row, and is no error, when u has no wallet.                          *)
UnboundedColumn(b, u, n) == TRUE  \* mutant: a column without a range
CanIncrement(b, u, n) == u \in WalletOwners => Fits(b[u] + n)
Increment(b, u, n) ==
  [v \in WalletOwners |-> IF v = u THEN b[v] + n ELSE b[v]]
=============================================================================
