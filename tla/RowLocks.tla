------------------------------ MODULE RowLocks ------------------------------
(***************************************************************************)
(* The knex transactions of WalletService and WebhooksService, statement   *)
(* by statement: the pool of connections, InnoDB's lock on a wallet's row  *)
(* from the UPDATE to the end of the transaction, the rollback of an error *)
(* or of a deadlock's victim.  The rows of the transactions table are left *)
(* out: an INSERT meets no lock, and a handler updates its row only after  *)
(* it locked the wallet the row belongs to.                                *)
(*                                                                         *)
(* A method reads the wallet before its transaction, from the last         *)
(* committed version, and computes the newBalance of meta from what it     *)
(* read.                                                                   *)
(***************************************************************************)
EXTENDS WalletRow, FiniteSets

CONSTANTS
  Clients,      \* methods running at the same time
  PoolSizes,    \* the sizes of knex's pool to consider
  MaxFaults     \* bound: errors of MySQL, lost connections, timeouts

VARIABLES
  balance,    \* the wallets' rows as the last UPDATE left them
  committed,  \* the version that reads without a lock see
  held,       \* the rows a client's transaction has locked
  job,        \* the transaction a client runs, or how its last one ended
  faults,
  pool        \* connections knex may open, fixed when it starts

vars == <<balance, committed, held, job, faults, pool>>

Kinds == {"transfer", "debit", "credit"}
Open == {"connect", "first", "second", "commit"}

Rest(step) == [step |-> step]  \* nothing runs: "idle", "committed", "failed"
Job == [kind : Kinds, user : WalletOwners, receiver : Users, amount : Amounts,
        seen : Int,       \* the balance that was read before
        moved : BOOLEAN,  \* history: another transaction changed it since
        step : Open]

Init ==
  /\ balance = [u \in WalletOwners |-> OpeningBalance]
  /\ committed = balance
  /\ held = [c \in Clients |-> {}]
  /\ job = [c \in Clients |-> Rest("idle")]
  /\ faults = 0
  /\ pool \in PoolSizes

Running(c) == job[c].step \in Open
InTransaction(c) == job[c].step \in Open \ {"connect"}
At(c, step) == job[c].step = step
MoveTo(c, step) == job' = [job EXCEPT ![c].step = step]

(* What the first UPDATE adds to the wallet of the user *)
Change(j) == IF j.kind = "credit" THEN j.amount ELSE -j.amount
NewBalance(j) == j.seen + Change(j)

-----------------------------------------------------------------------------
(* checkBalance, or the handler's findOne: the wallet is read and not      *)
(* locked                                                                  *)
Load(c, kind, u, v, a) ==
  /\ ~Running(c)
  /\ kind # "credit" => committed[u] >= a
  /\ kind # "transfer" => v = u
  /\ job' = [job EXCEPT ![c] =
       [kind |-> kind, user |-> u, receiver |-> v, amount |-> a,
        seen |-> committed[u], moved |-> FALSE, step |-> "connect"]]
  /\ UNCHANGED <<balance, committed, held, faults, pool>>

SpareConnection == Cardinality({d \in Clients : InTransaction(d)}) < pool

(* knex.transaction takes a connection for all its statements *)
Begin(c) ==
  /\ At(c, "connect")
  /\ SpareConnection
  /\ MoveTo(c, "first")
  /\ UNCHANGED <<balance, committed, held, faults, pool>>

Blocks(d, c, u) == d # c /\ u \in held[d]

(* UPDATE wallets SET balance = balance + n WHERE userId = u: locks the    *)
(* row; there is none for a user without a wallet                          *)
Update(c, u, n) ==
  /\ \A d \in Clients : ~Blocks(d, c, u)
  /\ CanIncrement(balance, u, n)
  /\ balance' = Increment(balance, u, n)
  /\ held' = [held EXCEPT ![c] = @ \cup ({u} \cap WalletOwners)]
  /\ UNCHANGED <<committed, faults, pool>>

(* mutant: the first statement is not given trx and commits by itself *)
UpdateFirstAlone(c) ==
  /\ At(c, "first")
  /\ \A d \in Clients : ~Blocks(d, c, job[c].user)
  /\ CanIncrement(balance, job[c].user, Change(job[c]))
  /\ balance' = Increment(balance, job[c].user, Change(job[c]))
  /\ committed' = Increment(committed, job[c].user, Change(job[c]))
  /\ MoveTo(c, IF job[c].kind = "transfer" THEN "second" ELSE "commit")
  /\ UNCHANGED <<held, faults, pool>>

(* mutant: meta is computed from the wallet as the transaction finds it *)
UpdateFirstAndRead(c) ==
  /\ At(c, "first")
  /\ Update(c, job[c].user, Change(job[c]))
  /\ job' = [job EXCEPT ![c].seen = balance'[job[c].user],
                        ![c].step = IF job[c].kind = "transfer" THEN "second" ELSE "commit"]

UpdateFirst(c) ==
  /\ At(c, "first")
  /\ Update(c, job[c].user, Change(job[c]))
  /\ MoveTo(c, IF job[c].kind = "transfer" THEN "second" ELSE "commit")

UpdateSecond(c) ==
  /\ At(c, "second")
  /\ Update(c, job[c].receiver, job[c].amount)
  /\ MoveTo(c, "commit")

(* The INSERT of a transfer or the UPDATE of a handler's row, and COMMIT *)
Commit(c) ==
  /\ At(c, "commit")
  /\ committed' = [u \in WalletOwners |->
                     IF u \in held[c] THEN balance[u] ELSE committed[u]]
  /\ held' = [held EXCEPT ![c] = {}]
  /\ job' = [d \in Clients |->
       IF d = c THEN Rest("committed")
       ELSE IF Running(d) /\ job[d].user \in held[c] THEN [job[d] EXCEPT !.moved = TRUE]
       ELSE job[d]]
  /\ UNCHANGED <<balance, faults, pool>>

(* knex rolls back and the method throws; nothing repeats it *)
Rollback(c) ==
  /\ balance' = [u \in WalletOwners |->
                   IF u \in held[c] THEN committed[u] ELSE balance[u]]
  /\ held' = [held EXCEPT ![c] = {}]
  /\ job' = [job EXCEPT ![c] = Rest("failed")]
  /\ UNCHANGED <<committed, pool>>

(* A statement exceeds the column *)
OutOfRange(c) ==
  /\ \/ /\ At(c, "first")
        /\ \A d \in Clients : ~Blocks(d, c, job[c].user)
        /\ ~CanIncrement(balance, job[c].user, Change(job[c]))
     \/ /\ At(c, "second")
        /\ \A d \in Clients : ~Blocks(d, c, job[c].receiver)
        /\ ~CanIncrement(balance, job[c].receiver, job[c].amount)
  /\ Rollback(c)
  /\ UNCHANGED faults

WaitsFor(c, d) ==
  \/ At(c, "first") /\ Blocks(d, c, job[c].user)
  \/ At(c, "second") /\ Blocks(d, c, job[c].receiver)

(* InnoDB finds a cycle of waiting transactions and sacrifices one of them *)
Deadlocked(c) ==
  \E S \in SUBSET Clients :
    /\ c \in S
    /\ \A d \in S : (\E e \in S : WaitsFor(d, e)) /\ (\E e \in S : WaitsFor(e, d))

(* mutant: the method begins the transaction again *)
VictimRetried(c) ==
  /\ Deadlocked(c)
  /\ balance' = [u \in WalletOwners |->
                   IF u \in held[c] THEN committed[u] ELSE balance[u]]
  /\ held' = [held EXCEPT ![c] = {}]
  /\ MoveTo(c, "connect")
  /\ UNCHANGED <<committed, faults, pool>>

Victim(c) ==
  /\ Deadlocked(c)
  /\ Rollback(c)
  /\ UNCHANGED faults

(* The pool or the lock makes it wait too long, or MySQL fails it *)
Fails(c) ==
  /\ Running(c)
  /\ faults < MaxFaults
  /\ faults' = faults + 1
  /\ Rollback(c)

(* The process is killed: MySQL rolls back what its connections began *)
Crash ==
  /\ faults < MaxFaults
  /\ faults' = faults + 1
  /\ balance' = committed
  /\ held' = [c \in Clients |-> {}]
  /\ job' = [c \in Clients |-> IF Running(c) THEN Rest("failed") ELSE job[c]]
  /\ UNCHANGED <<committed, pool>>

Proceed(c) ==
  \/ Begin(c)
  \/ UpdateFirst(c)
  \/ UpdateSecond(c)
  \/ Commit(c)
  \/ OutOfRange(c)
  \/ Victim(c)

Next ==
  \/ \E c \in Clients :
       \/ \E kind \in Kinds, u \in WalletOwners, v \in Users, a \in Amounts :
            Load(c, kind, u, v, a)
       \/ Proceed(c)
       \/ Fails(c)
  \/ Crash

Spec == Init /\ [][Next]_vars

(* knex's pool and InnoDB's row locks are queues, so who waits has his     *)
(* turn; the timeouts, of 60 and 50 seconds, are not relied on             *)
FairSpec == Spec /\ \A c \in Clients : SF_vars(Proceed(c))

-----------------------------------------------------------------------------
FirstDone(c) == At(c, "second") \/ At(c, "commit")
SecondDone(c) == At(c, "commit") /\ job[c].kind = "transfer"

(* What the transaction of c has added to the row of u so far *)
Pending(c, u) ==
  (IF FirstDone(c) /\ job[c].user = u THEN Change(job[c]) ELSE 0)
  + (IF SecondDone(c) /\ job[c].receiver = u THEN job[c].amount ELSE 0)

Locked(c) ==
  ((IF FirstDone(c) THEN {job[c].user} ELSE {})
   \cup (IF SecondDone(c) THEN {job[c].receiver} ELSE {})) \cap WalletOwners

Fit(c) ==
  FirstDone(c) => CanIncrement(committed, job[c].user, Change(job[c]))

LocksTypeOK ==
  /\ balance \in [WalletOwners -> -MaxBalance..MaxBalance]
  /\ committed \in [WalletOwners -> -MaxBalance..MaxBalance]
  /\ held \in [Clients -> SUBSET WalletOwners]
  /\ job \in [Clients -> Job \cup {Rest(step) : step \in {"idle", "committed", "failed"}}]
  /\ \A c \in Clients : At(c, "second") => job[c].kind = "transfer"
  /\ faults \in Nat /\ pool \in PoolSizes

(* updateWalletBalance locks what it changes until the transaction ends: a *)
(* row differs from its committed version by what the one transaction that *)
(* holds it has added, and by nothing if no transaction holds it.  What    *)
(* was read of a wallet is still true of it until another one commits.     *)
LocksInv ==
  /\ LocksTypeOK
  /\ \A c \in Clients : held[c] = Locked(c) /\ Fit(c)
  /\ \A c, d \in Clients : c # d => held[c] \cap held[d] = {}
  /\ \A c \in Clients : \A u \in held[c] : balance[u] = committed[u] + Pending(c, u)
  /\ \A u \in WalletOwners :
       (\A c \in Clients : u \notin held[c]) => balance[u] = committed[u]
  /\ \A c \in Clients : Running(c) /\ ~job[c].moved => job[c].seen = committed[job[c].user]

(* The newBalance that handleChargeSuccess and withdrawFund write to meta  *)
(* is what the wallet holds after their transaction, unless another one    *)
(* changed the wallet since they read it.                                  *)
Commits(c) == At(c, "commit") /\ job'[c] = Rest("committed")
SnapshotRight ==
  [][\A c \in Clients :
       Commits(c) /\ job[c].kind # "transfer" /\ ~job[c].moved =>
         committed'[job[c].user] = NewBalance(job[c])]_vars

(* Two opposite transfers, or a pool without connections, block nobody for *)
(* good: every transaction commits or its method throws, no timeout needed. *)
TransactionsEnd == \A c \in Clients : Running(c) ~> ~Running(c)

(* Whatever the statements of others do in between, the transaction of     *)
(* transferFunds and of the webhook handlers takes effect at one moment.   *)
View(j) ==
  IF j.step \in Open
  THEN [kind |-> j.kind, user |-> j.user, receiver |-> j.receiver, amount |-> j.amount,
        step |-> "open"]
  ELSE j
Atomic == INSTANCE KnexTransaction WITH
  balance <- committed,
  job <- [c \in Clients |-> View(job[c])]
TransactionsAtomic == Atomic!Spec
=============================================================================
