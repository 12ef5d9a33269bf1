----------------------------- MODULE FundsProofs -----------------------------
(***************************************************************************)
(* How far checkBalance, made outside the transaction that spends, lets a  *)
(* wallet be overdrawn; and that a payout is booked when nothing fails and *)
(* the column has room for that overdraft.                                 *)
(***************************************************************************)
EXTENDS BooksProofs

K == Cardinality(Workers)

LEMMA WorkersCount == K \in Nat /\ K >= 1
BY WorkersAssumption, FS_CardinalityType, FS_EmptySet DEF K

LEMMA SlackFacts ==
  ASSUME NEW n \in Int
  PROVE  /\ Slack(n) \in Int
         /\ Slack(n - 1) = Slack(n) + MaxAmount
         /\ n <= K => Slack(n) >= 0
BY WorkersCount, AmountsAssumption DEF Slack, K

LEMMA SpendingFinite ==
  ASSUME NEW u
  PROVE  /\ IsFiniteSet(Spending(u))
         /\ Cardinality(Spending(u)) \in Nat
         /\ Cardinality(Spending(u)) <= K
         /\ Spending(u) # {} => Cardinality(Spending(u)) >= 1
<1>1. Spending(u) \subseteq Workers
  BY DEF Spending
<1>2. IsFiniteSet(Spending(u)) /\ Cardinality(Spending(u)) <= K
  BY <1>1, WorkersAssumption, FS_Subset DEF K
<1> QED
  BY <1>2, FS_CardinalityType, FS_EmptySet

LEMMA SpendingTask ==
  ASSUME TypeOK, NEW u, NEW w \in Spending(u)
  PROVE  w \in Workers /\ worker[w] \in Task /\ worker[w].amount \in Nat
         /\ worker[w].amount <= MaxAmount
<1>1. w \in Workers /\ worker[w].step \in {"ready", "checked", "sent"}
  BY DEF Spending
<1>2. worker[w] \in Task
  BY <1>1, TaskType DEF At
<1>3. worker[w].amount \in 1..MaxAmount
  BY <1>2, TaskFields, AmountsAssumption
<1> QED BY <1>1, <1>2, <1>3, AmountsAssumption

-----------------------------------------------------------------------------
(* Whoever is waiting, the balance is above the floor                      *)
LEMMA Floor ==
  ASSUME TypeOK, NEW u \in WalletOwners, Funded(u)
  PROVE  balance[u] >= -Slack(1)
<1>1. balance[u] \in Int /\ Slack(1) \in Int
  BY SlackFacts DEF TypeOK, LedgerTypeOK
<1>2. CASE Spending(u) = {}
  BY <1>2 DEF Funded
<1>3. CASE Spending(u) # {}
  <2> DEFINE n == Cardinality(Spending(u))
  <2>1. PICK s \in Spending(u) : balance[u] >= worker[s].amount - Slack(n)
    BY <1>3 DEF Funded, Covered
  <2>2. worker[s].amount \in Nat
    BY <2>1, SpendingTask
  <2>3. n \in Nat /\ n >= 1
    BY <1>3, SpendingFinite
  <2> HIDE DEF n
  <2>4. Slack(n) \in Int /\ Slack(n) <= Slack(1)
    BY <2>3, WorkersCount, AmountsAssumption DEF Slack, K
  <2> QED BY <1>1, <2>1, <2>2, <2>4
<1> QED BY <1>2, <1>3

(* Nobody enters or leaves, and the balance does not fall                  *)
LEMMA Stays ==
  ASSUME TypeOK, TypeOK', NEW u \in WalletOwners, Funded(u),
         Spending(u)' = Spending(u),
         \A s \in Spending(u) : worker'[s].amount = worker[s].amount,
         balance'[u] >= balance[u]
  PROVE  Funded(u)'
<1>1. balance[u] \in Int /\ balance'[u] \in Int
  BY DEF TypeOK, LedgerTypeOK
<1>2. Slack(1) \in Int /\ Slack(Cardinality(Spending(u))) \in Int
  BY SlackFacts, SpendingFinite
<1>3. CASE Spending(u) = {}
  BY <1>1, <1>2, <1>3 DEF Funded, Slack
<1>4. CASE Spending(u) # {}
  <2>1. PICK s \in Spending(u) :
          balance[u] >= worker[s].amount - Slack(Cardinality(Spending(u)))
    BY <1>4 DEF Funded, Covered
  <2>2. worker[s].amount \in Nat
    BY <2>1, SpendingTask
  <2>3. balance'[u] >= worker'[s].amount - Slack(Cardinality(Spending(u)))
    BY <1>1, <1>2, <2>1, <2>2
  <2> QED BY <1>4, <2>3 DEF Funded, Covered, Slack
<1> QED BY <1>3, <1>4

(* A request enters after it found its amount in the wallet                *)
LEMMA Enters ==
  ASSUME TypeOK, TypeOK', NEW u \in WalletOwners, NEW w \in Workers, Funded(u),
         w \notin Spending(u), Spending(u)' = Spending(u) \cup {w},
         worker'[w].amount \in Nat,
         balance'[u] = balance[u], balance[u] >= worker'[w].amount
  PROVE  Funded(u)'
<1> DEFINE n == Cardinality(Spending(u)')
<1>1. Cardinality(Spending(u)') = Cardinality(Spending(u)) + 1
  BY SpendingFinite, FS_AddElement
<1>2. Spending(u)' \subseteq Workers
  BY DEF Spending
<1>3. n \in Nat /\ n <= K
  BY <1>2, WorkersAssumption, FS_Subset, FS_CardinalityType DEF K
<1>4. balance[u] \in Int
  BY DEF TypeOK, LedgerTypeOK
<1>5. Slack(n) \in Int /\ Slack(n) >= 0
  BY <1>3, SlackFacts
<1>6. balance'[u] >= worker'[w].amount - Slack(n)
  BY <1>4, <1>5
<1> QED
  BY <1>6 DEF Funded, Covered, Slack

(* A request leaves, and takes at most its amount with it                  *)
LEMMA Leaves ==
  ASSUME TypeOK, TypeOK', NEW u \in WalletOwners, NEW w \in Spending(u), Funded(u),
         Spending(u)' = Spending(u) \ {w},
         \A s \in Spending(u)' : worker'[s] = worker[s],
         balance'[u] >= balance[u] - worker[w].amount
  PROVE  Funded(u)'
<1> DEFINE n == Cardinality(Spending(u))
<1>1. /\ n \in Nat /\ n >= 1 /\ IsFiniteSet(Spending(u))
      /\ Cardinality(Spending(u) \ {w}) = n - 1
  BY SpendingFinite, FS_RemoveElement
<1>2. PICK s \in Spending(u) : balance[u] >= worker[s].amount - Slack(n)
  BY DEF Funded, Covered
<1>3. \A x \in Spending(u) : worker[x].amount \in Nat /\ worker[x].amount <= MaxAmount
  BY SpendingTask
<1>4. balance[u] \in Int /\ balance'[u] \in Int
  BY DEF TypeOK, LedgerTypeOK
<1>5. /\ Slack(n) \in Int /\ Slack(1) \in Int
      /\ Slack(n - 1) = Slack(n) + MaxAmount /\ MaxAmount \in Int
  BY <1>1, SlackFacts, AmountsAssumption
<1>6. \A m : Slack(m)' = Slack(m)
  BY DEF Slack
<1> HIDE DEF n
<1>7. CASE Spending(u)' = {}
  <2>1. s = w /\ n = 1
    BY <1>1, <1>7, FS_EmptySet
  <2>2. balance'[u] >= -Slack(1)
    BY <1>2, <1>3, <1>4, <1>5, <2>1
  <2> QED BY <1>6, <1>7, <2>2 DEF Funded, Slack
<1>8. CASE Spending(u)' # {}
  <2>1. \E x \in Spending(u)' : balance'[u] >= worker'[x].amount - Slack(n - 1)
    <3>1. CASE s = w
      <4>1. PICK x \in Spending(u)' : worker'[x] = worker[x] /\ x \in Spending(u)
        BY <1>8
      <4>2. balance'[u] >= worker[x].amount - Slack(n - 1)
        BY <1>2, <1>3, <1>4, <1>5, <3>1, <4>1
      <4> QED BY <4>1, <4>2
    <3>2. CASE s # w
      <4>1. s \in Spending(u)' /\ worker'[s] = worker[s]
        BY <3>2
      <4>2. balance'[u] >= worker[s].amount - Slack(n - 1)
        BY <1>2, <1>3, <1>4, <1>5
      <4> QED BY <4>1, <4>2
    <3> QED BY <3>1, <3>2
  <2> QED BY <1>1, <1>8, <2>1 DEF Funded, Covered, Slack
<1> QED BY <1>7, <1>8

-----------------------------------------------------------------------------
(* One request moves: nobody else enters or leaves                         *)
Waits(task, u) == task.step \in {"ready", "checked", "sent"} /\ task.user = u

LEMMA OneMoves ==
  ASSUME TypeOK, NEW w \in Workers, NEW new, NEW u,
         worker' = [worker EXCEPT ![w] = new]
  PROVE  /\ worker'[w] = new
         /\ \A x \in Workers : x # w => worker'[x] = worker[x]
         /\ w \in Spending(u) <=> Waits(worker[w], u)
         /\ Waits(new, u) => Spending(u)' = Spending(u) \cup {w}
         /\ ~Waits(new, u) => Spending(u)' = Spending(u) \ {w}
<1>1. /\ worker'[w] = new
      /\ \A x \in Workers : x # w => worker'[x] = worker[x]
  BY DEF TypeOK, ServiceTypeOK
<1> QED
  BY <1>1 DEF Spending, Waits

(* A request ends, is debited or never waited: if it waited it took at     *)
(* most its amount, and otherwise nothing                                  *)
LEMMA Ends ==
  ASSUME TypeOK, TypeOK', NEW u \in WalletOwners, NEW w \in Workers, Funded(u),
         NEW new, worker' = [worker EXCEPT ![w] = new], ~Waits(new, u),
         Waits(worker[w], u) => balance'[u] >= balance[u] - worker[w].amount,
         ~Waits(worker[w], u) => balance'[u] >= balance[u]
  PROVE  Funded(u)'
<1>1. /\ \A x \in Workers : x # w => worker'[x] = worker[x]
      /\ w \in Spending(u) <=> Waits(worker[w], u)
      /\ Spending(u)' = Spending(u) \ {w}
  BY OneMoves
<1>2. \A s \in Spending(u)' : worker'[s] = worker[s]
  BY <1>1 DEF Spending
<1>3. CASE w \in Spending(u)
  BY <1>1, <1>2, <1>3, Leaves
<1>4. CASE w \notin Spending(u)
  <2>1. Spending(u)' = Spending(u)
    BY <1>1, <1>4
  <2>2. \A s \in Spending(u) : worker'[s].amount = worker[s].amount
    BY <1>2, <2>1
  <2> QED BY <1>1, <1>4, <2>1, <2>2, Stays
<1> QED BY <1>3, <1>4

(* A request finds its amount in the wallet and waits                      *)
LEMMA Checks ==
  ASSUME TypeOK, TypeOK', NEW u \in WalletOwners, NEW w \in Workers, Funded(u),
         At(w, "idle"), NEW new, worker' = [worker EXCEPT ![w] = new],
         new.amount \in Nat, balance' = balance,
         Waits(new, u) => balance[u] >= new.amount
  PROVE  Funded(u)'
<1>1. ~Waits(worker[w], u)
  BY DEF At, Waits
<1>2. balance[u] \in Int
  BY DEF TypeOK, LedgerTypeOK
<1>3. CASE Waits(new, u)
  <2>1. /\ w \notin Spending(u)
        /\ Spending(u)' = Spending(u) \cup {w}
        /\ worker'[w] = new
    BY <1>1, <1>3, OneMoves
  <2>2. balance'[u] = balance[u] /\ balance[u] >= worker'[w].amount /\ worker'[w].amount \in Nat
    BY <1>3, <2>1
  <2> QED BY <2>1, <2>2, Enters
<1>4. CASE ~Waits(new, u)
  <2>1. balance'[u] >= balance[u]
    BY <1>2
  <2> QED BY <1>1, <1>4, <2>1, Ends
<1> QED BY <1>3, <1>4

(* The transfer takes its amount from the sender alone, and nothing when   *)
(* the sender is the receiver                                              *)
LEMMA TransferTakes ==
  ASSUME TypeOK, NEW w \in Workers, NEW r \in References, TransferCommit(w, r),
         NEW u \in WalletOwners
  PROVE  /\ balance'[u] >= balance[u] - worker[w].amount
         /\ worker[w].user # u => balance'[u] >= balance[u]
<1> DEFINE t == worker[w]
           taken == Increment(balance, t.user, -t.amount)
<1>1. t \in Task
  BY TaskType DEF TransferCommit, At
<1>2. t.amount \in Nat
  BY <1>1, TaskFields
<1>3. balance' = Increment(taken, t.receiver, t.amount) /\ balance[u] \in Int
  BY DEF TransferCommit, TypeOK, LedgerTypeOK
<1>4. taken[u] = IF u = t.user THEN balance[u] + (-t.amount) ELSE balance[u]
  BY DEF Increment
<1> HIDE DEF t, taken
<1>5. balance'[u] = IF u = t.receiver THEN taken[u] + t.amount ELSE taken[u]
  BY <1>3 DEF Increment
<1>6. balance'[u] >= balance[u] - t.amount /\ (t.user # u => balance'[u] >= balance[u])
  BY <1>2, <1>3, <1>4, <1>5
<1> QED
  BY <1>6 DEF t

LEMMA RequestFunds ==
  ASSUME TypeOK, TypeOK', NEW u \in WalletOwners, Funded(u),
         NEW w \in Workers, ServiceStep(w)
  PROVE  Funded(u)'
<1> USE DEF ledgerVars
<1>0. /\ ~Waits(Idle, u)
      /\ balance[u] \in Int
      /\ \A s \in Spending(u) : s \in Workers /\ worker[s].amount \in Nat
      /\ ~At(w, "idle") => worker[w].amount \in Nat
      /\ \A a \in Amounts : a \in Nat
  <2>1. ~At(w, "idle") => worker[w].amount \in Nat
    BY TaskType, TaskFields
  <2>2. \A a \in Amounts : a \in Nat
    BY AmountsAssumption
  <2> QED
    BY <2>1, <2>2, SpendingTask DEF Waits, Idle, TypeOK, LedgerTypeOK
<1>1. ASSUME NEW o \in WalletOwners, NEW a \in Amounts, NEW r \in References,
             FundInitialize(w, o, a, r)
      PROVE  Funded(u)'
  <2> DEFINE new == [step |-> "initialized", user |-> o, receiver |-> o,
                     amount |-> a, reference |-> r]
  <2>1. ~Waits(new, u) /\ new.amount \in Nat
    BY <1>0 DEF Waits
  <2>2. worker' = [worker EXCEPT ![w] = new] /\ At(w, "idle") /\ balance' = balance
    BY <1>1 DEF FundInitialize, Begin
  <2> HIDE DEF new
  <2> QED BY <2>1, <2>2, Checks
<1>2. CASE worker' = worker /\ balance' = balance
  <2>1. Spending(u)' = Spending(u)
    BY <1>2 DEF Spending
  <2> QED BY <1>0, <1>2, <2>1, Stays
<1>3. CASE Finish(w) /\ balance' = balance
  <2>1. Waits(worker[w], u) => balance'[u] >= balance[u] - worker[w].amount
    BY <1>0, <1>3 DEF Waits, At
  <2>2. balance'[u] >= balance[u]
    BY <1>0, <1>3
  <2>3. worker' = [worker EXCEPT ![w] = Idle]
    BY <1>3 DEF Finish
  <2> QED BY <1>0, <2>1, <2>2, <2>3, Ends
<1>4. ASSUME NEW o \in WalletOwners, NEW v \in Users, NEW a \in Amounts,
             TransferCheck(w, o, v, a)
      PROVE  Funded(u)'
  <2> DEFINE new == [step |-> "ready", user |-> o, receiver |-> v,
                     amount |-> a, reference |-> NoReference]
  <2>1. new.amount \in Nat /\ (Waits(new, u) => balance[u] >= new.amount)
    BY <1>0, <1>4 DEF Waits, TransferCheck, SufficientFunds
  <2>2. worker' = [worker EXCEPT ![w] = new] /\ At(w, "idle") /\ balance' = balance
    BY <1>4 DEF TransferCheck, Begin
  <2> HIDE DEF new
  <2> QED BY <2>1, <2>2, Checks
<1>5. ASSUME NEW r \in References, TransferCommit(w, r) PROVE Funded(u)'
  <2>1. worker' = [worker EXCEPT ![w] = Idle] /\ At(w, "ready")
    BY <1>5 DEF TransferCommit, Finish
  <2>2. /\ Waits(worker[w], u) => balance'[u] >= balance[u] - worker[w].amount
        /\ ~Waits(worker[w], u) => balance'[u] >= balance[u]
    BY <1>5, <2>1, TransferTakes DEF Waits, At
  <2> QED BY <1>0, <2>1, <2>2, Ends
<1>6. ASSUME NEW o \in WalletOwners, NEW a \in Amounts, WithdrawCheck(w, o, a)
      PROVE  Funded(u)'
  <2> DEFINE new == [step |-> "checked", user |-> o, receiver |-> o,
                     amount |-> a, reference |-> NoReference]
  <2>1. new.amount \in Nat /\ (Waits(new, u) => balance[u] >= new.amount)
    BY <1>0, <1>6 DEF Waits, WithdrawCheck, SufficientFunds
  <2>2. worker' = [worker EXCEPT ![w] = new] /\ At(w, "idle") /\ balance' = balance
    BY <1>6 DEF WithdrawCheck, Begin
  <2> HIDE DEF new
  <2> QED BY <2>1, <2>2, Checks
<1>7. ASSUME NEW r \in References, WithdrawSend(w, r) PROVE Funded(u)'
  <2> DEFINE new == [worker[w] EXCEPT !.step = "sent", !.reference = r]
  <2>1. worker[w] \in Task /\ worker[w].step = "checked"
    BY <1>7, TaskType DEF WithdrawSend, At
  <2>2. /\ worker' = [worker EXCEPT ![w] = new]
        /\ new.step = "sent" /\ new.user = worker[w].user /\ new.amount = worker[w].amount
    BY <1>7, <2>1 DEF WithdrawSend, Task, Tasks, TypeOK, ServiceTypeOK
  <2> HIDE DEF new
  <2>3. Waits(new, u) <=> Waits(worker[w], u)
    BY <2>1, <2>2 DEF Waits
  <2>4. /\ worker'[w] = new
        /\ \A x \in Workers : x # w => worker'[x] = worker[x]
        /\ w \in Spending(u) <=> Waits(worker[w], u)
        /\ Waits(new, u) => Spending(u)' = Spending(u) \cup {w}
        /\ ~Waits(new, u) => Spending(u)' = Spending(u) \ {w}
    BY <2>2, OneMoves
  <2>5. Spending(u)' = Spending(u)
    BY <2>3, <2>4
  <2>6. \A s \in Spending(u) : worker'[s].amount = worker[s].amount
    BY <1>0, <2>2, <2>4
  <2>7. balance'[u] >= balance[u]
    BY <1>0, <1>7 DEF WithdrawSend
  <2> QED BY <2>5, <2>6, <2>7, Stays
<1>8. CASE WithdrawDebit(w)
  <2> DEFINE new == [worker[w] EXCEPT !.step = "debited"]
  <2>1. worker[w] \in Task /\ worker[w].step = "sent"
    BY <1>8, TaskType DEF WithdrawDebit, At
  <2>2. worker' = [worker EXCEPT ![w] = new] /\ new.step = "debited"
    BY <1>8, <2>1 DEF WithdrawDebit, Task, Tasks, TypeOK, ServiceTypeOK
  <2>3. balance'[u] = IF u = worker[w].user THEN balance[u] + (-worker[w].amount) ELSE balance[u]
    BY <1>8 DEF WithdrawDebit, Increment
  <2> HIDE DEF new
  <2>4. ~Waits(new, u) /\ (Waits(worker[w], u) <=> worker[w].user = u)
    BY <2>1, <2>2 DEF Waits
  <2>5. worker[w].amount \in Nat
    BY <1>0, <2>1 DEF At
  <2>6. /\ Waits(worker[w], u) => balance'[u] >= balance[u] - worker[w].amount
        /\ ~Waits(worker[w], u) => balance'[u] >= balance[u]
    BY <1>0, <2>3, <2>4, <2>5
  <2> QED BY <2>2, <2>4, <2>6, Ends
<1> QED
  BY <1>1, <1>2, <1>3, <1>4, <1>5, <1>6, <1>7, <1>8
     DEF ServiceStep, FundTimesOut, FundRecord, WithdrawTimesOut, WithdrawRecord,
         RejectRequest, RequestFails

(* A webhook only adds to a balance                                        *)
LEMMA CommitAdds ==
  ASSUME TypeOK, NEW h \in Handlers, Commit(h), NEW u \in WalletOwners
  PROVE  balance'[u] >= balance[u]
<1> DEFINE row == handler[h].row
<1>1. balance[u] \in Int
  BY DEF TypeOK, LedgerTypeOK
<1>2. row.amount \in Nat
  BY CommitEffect, DeliveryType
<1>3. balance' = balance \/ balance' = Increment(balance, row.userId, row.amount)
  BY CommitEffect DEF CreditWallet
<1> HIDE DEF row
<1> QED
  BY <1>1, <1>2, <1>3 DEF Increment

LEMMA StepFunds ==
  ASSUME TypeOK, TypeOK', FundsOK, [Next]_vars
  PROVE  FundsOK'
<1> SUFFICES ASSUME NEW u \in WalletOwners PROVE Funded(u)'
  BY DEF FundsOK
<1>1. Funded(u) /\ balance[u] \in Int
  BY DEF FundsOK, TypeOK, LedgerTypeOK
<1>2. CASE worker' = worker /\ balance'[u] >= balance[u]
  <2>1. Spending(u)' = Spending(u)
    BY <1>2 DEF Spending
  <2> QED BY <1>1, <1>2, <2>1, Stays
<1>3. CASE Request
  BY <1>1, <1>3, RequestFunds DEF Request
<1>4. CASE Provider \/ UNCHANGED vars
  BY <1>1, <1>2, <1>4 DEF Provider, vars, ledgerVars, serviceVars
<1>5. ASSUME NEW h \in Handlers, Commit(h), UNCHANGED serviceVars PROVE Funded(u)'
  BY <1>2, <1>5, CommitAdds DEF serviceVars
<1>6. CASE Webhook \/ WebhookError
  <2>1. \/ \E h \in Handlers : Commit(h) /\ UNCHANGED serviceVars
        \/ UNCHANGED <<worker, ledgerVars>>
    BY <1>6 DEF Webhook, WebhookError, Deliver, Handle, AnswerAtOnce, LoadWebhook,
       NotFound, AnswerRepeated, WebhookFails, serviceVars
  <2> QED BY <1>1, <1>2, <1>5, <2>1 DEF ledgerVars
<1>7. CASE Crash
  <2>1. Spending(u)' = {}
    BY <1>7 DEF Crash, Spending, Idle
  <2>2. balance' = balance
    BY <1>7 DEF Crash, ledgerVars
  <2>3. balance[u] >= -Slack(1)
    BY <1>1, Floor
  <2> QED BY <2>1, <2>2, <2>3 DEF Funded, Slack
<1> QED
  BY <1>3, <1>4, <1>6, <1>7 DEF Next

LEMMA FundsInductive == Spec => [](TypeOK /\ FundsOK)
<1>1. Init => TypeOK /\ FundsOK
  <2> SUFFICES ASSUME Init, NEW u \in WalletOwners PROVE Funded(u)
    BY InitType DEF FundsOK
  <2>1. Spending(u) = {} /\ balance[u] = OpeningBalance
    BY DEF Init, ServiceInit, LedgerInit, Spending, Idle
  <2>2. Slack(1) \in Int /\ Slack(1) >= 0
    BY SlackFacts, WorkersCount
  <2> QED BY <2>1, <2>2, BalanceAssumption DEF Funded
<1>2. TypeOK /\ FundsOK /\ [Next]_vars => (TypeOK /\ FundsOK)'
  BY StepType, StepFunds
<1> QED
  BY <1>1, <1>2, PTL DEF Spec

(* Of the requests of a user that passed checkBalance and have not taken   *)
(* anything yet, one still finds its amount but for what the others may    *)
(* take.                                                                   *)
THEOREM FundsCorrect == Spec => []FundsOK
BY FundsInductive, PTL

(* Concurrent transfers and withdrawals that all passed checkBalance, with *)
(* crashes and failures between their awaits, overdraw a wallet by at most *)
(* one amount for each request in flight but the first.                    *)
THEOREM OverdraftsBounded == Spec => []OverdraftBounded
<1>1. TypeOK /\ FundsOK => OverdraftBounded
  <2> SUFFICES ASSUME TypeOK, FundsOK, NEW u \in WalletOwners PROVE balance[u] >= -Slack(1)
    BY DEF OverdraftBounded, Slack
  <2> QED BY Floor DEF FundsOK
<1> QED
  BY <1>1, FundsInductive, PTL

-----------------------------------------------------------------------------
(* withdrawFund tells Paystack first and books afterwards: until a payout  *)
(* is booked, the request that started it is still on its way to do so     *)
Booked(r) == debited[r] > 0 /\ RowsOf(r) # {}
ToBook(w) == worker[w].step \in {"sent", "debited"}
Booking(r) == \E w \in Workers : ToBook(w) /\ worker[w].reference = r
PayoutsInv ==
  faults = 0 => \A r \in References : PaidOut(r) => Booked(r) \/ Booking(r)

(* The FLOAT column holds any amount, and what OverdraftBounded leaves     *)
(* after one more of them was taken                                        *)
ColumnHoldsOverdraft == K * MaxAmount <= MaxBalance

LEMMA BookedStays ==
  ASSUME UNCHANGED debited, transactions \subseteq transactions', NEW r, Booked(r)
  PROVE  Booked(r)'
BY DEF Booked, RowsOf

LEMMA BookingStays ==
  ASSUME NEW w \in Workers, ~ToBook(w), \A x \in Workers \ {w} : worker'[x] = worker[x],
         NEW r, Booking(r)
  PROVE  Booking(r)'
BY DEF Booking, ToBook

LEMMA PayoutsKept ==
  ASSUME PayoutsInv, faults' = 0 => faults = 0,
         \A r \in References :
           /\ PaidOut(r)' => PaidOut(r) \/ Booking(r)'
           /\ Booked(r) => Booked(r)'
           /\ Booking(r) => Booking(r)' \/ Booked(r)'
  PROVE  PayoutsInv'
BY DEF PayoutsInv

(* With that room MySQL refuses a withdrawal neither the decrement nor the *)
(* INSERT                                                                  *)
LEMMA NothingOutOfRange ==
  ASSUME TypeOK, FundsOK, ColumnHoldsOverdraft, NEW w \in Workers, ToBook(w)
  PROVE  ~OutOfRange(w)
<1> DEFINE u == worker[w].user
           a == worker[w].amount
<1>1. worker[w] \in Task
  BY TaskType DEF ToBook, At
<1>2. u \in WalletOwners /\ a \in 1..MaxAmount
  BY <1>1, TaskFields, AmountsAssumption
<1>3. balance[u] \in -MaxBalance..MaxBalance /\ MaxBalance \in Nat
  BY <1>2, BalanceAssumption DEF TypeOK, LedgerTypeOK
<1>4. balance[u] >= -Slack(1)
  BY <1>2, Floor DEF FundsOK
<1> HIDE DEF u, a
<1>5. Slack(1) = K * MaxAmount - MaxAmount /\ K * MaxAmount \in Int /\ MaxAmount <= K * MaxAmount
  BY WorkersCount, AmountsAssumption DEF Slack, K
<1>6. Fits(balance[u] + -a) /\ Fits(a)
  BY <1>2, <1>3, <1>4, <1>5, AmountsAssumption DEF Fits, ColumnHoldsOverdraft
<1>7. CanIncrement(balance, u, -a) /\ CanInsert(a)
  BY <1>2, <1>6 DEF CanIncrement, CanInsert
<1> QED
  BY <1>7 DEF OutOfRange, ToBook, At, u, a

LEMMA RequestBooks ==
  ASSUME TypeOK, TypeOK', BooksInv, FundsOK, PayoutsInv, ColumnHoldsOverdraft,
         NEW w \in Workers, ServiceStep(w)
  PROVE  PayoutsInv'
<1> USE DEF TypeOK, ServiceTypeOK, LedgerTypeOK, PaystackTypeOK
<1>1. ASSUME ~ToBook(w), \A x \in Workers \ {w} : worker'[x] = worker[x],
             UNCHANGED <<payout, debited, faults>>, transactions \subseteq transactions'
      PROVE  PayoutsInv'
  BY <1>1, BookedStays, BookingStays, PayoutsKept DEF PaidOut
<1>2. ASSUME Fault PROVE PayoutsInv'
  BY <1>2 DEF Fault, PayoutsInv
<1>3. ASSUME NEW u \in WalletOwners, NEW a \in Amounts, NEW r \in References,
             FundInitialize(w, u, a, r)
      PROVE  PayoutsInv'
  BY <1>1, <1>3 DEF FundInitialize, At, ToBook, Begin, AcceptCharge, ledgerVars
<1>4. ASSUME FundRecord(w) PROVE PayoutsInv'
  BY <1>1, <1>4 DEF FundRecord, At, ToBook, Finish, paystackVars
<1>5. ASSUME NEW u \in WalletOwners, NEW v \in Users, NEW a \in Amounts, TransferCheck(w, u, v, a)
      PROVE  PayoutsInv'
  BY <1>1, <1>5 DEF TransferCheck, At, ToBook, Begin, ledgerVars, paystackVars
<1>6. ASSUME NEW r \in References, TransferCommit(w, r) PROVE PayoutsInv'
  BY <1>1, <1>6 DEF TransferCommit, At, ToBook, Finish, paystackVars
<1>7. ASSUME NEW u \in WalletOwners, NEW a \in Amounts, WithdrawCheck(w, u, a)
      PROVE  PayoutsInv'
  BY <1>1, <1>7 DEF WithdrawCheck, At, ToBook, Begin, ledgerVars, paystackVars
<1>8. ASSUME NEW r \in References, WithdrawSend(w, r) PROVE PayoutsInv'
  <2>1. ~ToBook(w) /\ \A x \in Workers \ {w} : worker'[x] = worker[x]
    BY <1>8 DEF WithdrawSend, At, ToBook
  <2>2. worker[w] \in Task
    BY <1>8, TaskType DEF WithdrawSend, At
  <2>3. worker'[w].step = "sent" /\ worker'[w].reference = r
    BY <1>8, <2>2 DEF WithdrawSend, Task, Tasks
  <2>4. Booking(r)'
    BY <2>3 DEF Booking, ToBook
  <2>5. \A q \in References : PaidOut(q)' => PaidOut(q) \/ q = r
    BY <1>8 DEF WithdrawSend, AcceptPayout, PaidOut
  <2>6. UNCHANGED <<debited, transactions, faults>>
    BY <1>8 DEF WithdrawSend, ledgerVars
  <2> QED
    BY <2>1, <2>4, <2>5, <2>6, BookedStays, BookingStays, PayoutsKept
<1>9. ASSUME WithdrawDebit(w) PROVE PayoutsInv'
  <2>1. worker[w] \in Task /\ worker[w].step = "sent"
    BY <1>9, TaskType DEF WithdrawDebit, At
  <2>2. worker[w].amount \in Nat \ {0} /\ worker[w].reference \in References
    BY <2>1, TaskFields, AmountsAssumption DEF LateSteps
  <2>3. /\ worker'[w].step = "debited" /\ worker'[w].reference = worker[w].reference
        /\ \A x \in Workers \ {w} : worker'[x] = worker[x]
    BY <1>9, <2>1 DEF WithdrawDebit, Task, Tasks
  <2>4. \A r : Booking(r) => Booking(r)'
    BY <2>3 DEF Booking, ToBook
  <2>5. UNCHANGED <<transactions, payout, faults>> /\ \A r \in References : debited[r] > 0 => debited'[r] > 0
    BY <1>9, <2>2 DEF WithdrawDebit, paystackVars
  <2> QED
    BY <2>4, <2>5, PayoutsKept DEF Booked, RowsOf, PaidOut
<1>10. ASSUME WithdrawRecord(w) PROVE PayoutsInv'
  <2>1. w \in Owing /\ worker[w].step = "debited"
    BY <1>10 DEF WithdrawRecord, At, Owing, LateSteps
  <2>2. PICK q \in References : worker[w].reference = q
    BY <2>1, OwingTask
  <2>3. debited[q] > 0
    BY <2>1, <2>2 DEF BooksInv, OwingOK, RowToCome
  <2>4. /\ transactions' = transactions \cup {NewTransaction(worker[w], q)}
        /\ UNCHANGED <<debited, payout, faults>>
        /\ \A x \in Workers \ {w} : worker'[x] = worker[x]
    BY <1>10, <2>2 DEF WithdrawRecord, Finish, paystackVars
  <2>5. NewTransaction(worker[w], q).reference = q
    BY DEF NewTransaction
  <2>6. Booked(q)'
    BY <2>3, <2>4, <2>5 DEF Booked, RowsOf
  <2>7. \A r : Booking(r) => Booking(r)' \/ Booked(r)'
    BY <2>2, <2>4, <2>6 DEF Booking, ToBook
  <2> QED
    BY <2>4, <2>7, BookedStays, PayoutsKept DEF PaidOut
<1>11. ASSUME RejectRequest(w) PROVE PayoutsInv'
  BY <1>1, <1>11 DEF RejectRequest, UnknownReceiver, RecipientRefused, At, ToBook, Finish,
     ledgerVars, paystackVars
<1>12. ASSUME RequestFails(w) PROVE PayoutsInv'
  <2>1. Fault \/ (~ToBook(w) /\ UNCHANGED faults)
    BY <1>12, NothingOutOfRange DEF RequestFails
  <2> QED
    BY <1>1, <1>2, <1>12, <2>1 DEF RequestFails, Finish, ledgerVars, paystackVars
<1> QED
  BY <1>2, <1>3, <1>4, <1>5, <1>6, <1>7, <1>8, <1>9, <1>10, <1>11, <1>12
     DEF ServiceStep, FundTimesOut, WithdrawTimesOut

LEMMA StepPayouts ==
  ASSUME TypeOK, TypeOK', BooksInv, FundsOK, PayoutsInv, ColumnHoldsOverdraft, [Next]_vars
  PROVE  PayoutsInv'
<1>1. ASSUME UNCHANGED <<worker, faults, debited>>,
             \A r \in References : PaidOut(r)' => PaidOut(r),
             \A r \in References : RowsOf(r) # {} => RowsOf(r)' # {}
      PROVE  PayoutsInv'
  <2>1. \A r \in References : (Booking(r) => Booking(r)') /\ (Booked(r) => Booked(r)')
    BY <1>1 DEF Booking, ToBook, Booked
  <2> QED BY <1>1, <2>1, PayoutsKept
<1>2. CASE Request
  BY <1>2, RequestBooks DEF Request
<1>3. CASE Provider
  <2>1. \A r \in References : PaidOut(r)' => PaidOut(r)
    BY <1>3 DEF Provider, CustomerPays, PayoutSucceeds, PayoutFails, PayoutReversed,
       PayoutMoves, PaidOut, TypeOK, PaystackTypeOK
  <2> QED BY <1>1, <1>3, <2>1 DEF Provider, ledgerVars, serviceVars, RowsOf
<1>4. ASSUME NEW h \in Handlers, Commit(h), UNCHANGED serviceVars PROVE PayoutsInv'
  <2> DEFINE row == [handler[h].row EXCEPT !.status = Target[handler[h].event]]
  <2>1. transactions' = SaveRow(row) /\ UNCHANGED <<debited, payout>>
    BY <1>4, CommitEffect DEF paystackVars
  <2> HIDE DEF row
  <2>2. \A r \in References : RowsOf(r) # {} => RowsOf(r)' # {}
    BY <2>1 DEF RowsOf, SaveRow, SameId
  <2> QED BY <1>1, <1>4, <2>1, <2>2 DEF serviceVars, PaidOut
<1>5. ASSUME UNCHANGED <<ledgerVars, payout, worker, faults>> PROVE PayoutsInv'
  BY <1>1, <1>5 DEF ledgerVars, PaidOut, RowsOf
<1>6. CASE Webhook
  <2>1. \/ \E h \in Handlers : Commit(h) /\ UNCHANGED serviceVars
        \/ UNCHANGED <<ledgerVars, payout, worker, faults>>
    BY <1>6 DEF Webhook, Deliver, Handle, AnswerAtOnce, LoadWebhook, NotFound,
       AnswerRepeated, WebhookFails, Reply, serviceVars, paystackVars
  <2> QED BY <1>4, <1>5, <2>1
<1>7. CASE WebhookError \/ Crash
  BY <1>7 DEF WebhookError, Crash, Fault, PayoutsInv, TypeOK, ServiceTypeOK
<1>8. CASE UNCHANGED vars
  BY <1>5, <1>8 DEF vars, paystackVars, serviceVars
<1> QED
  BY <1>2, <1>3, <1>6, <1>7, <1>8 DEF Next

(* Without crash, error or lost answer every payout Paystack accepted is   *)
(* taken from its wallet and recorded, if the FLOAT column has room for    *)
(* the overdraft that concurrent requests may cause: a decrement that is   *)
(* refused comes after the payout.                                         *)
THEOREM PayoutsAreBooked ==
  ASSUME ColumnHoldsOverdraft
  PROVE  Spec => []PayoutsBooked
<1>1. Init => PayoutsInv
  BY DEF Init, PaystackInit, PayoutsInv, PaidOut
<1>2. TypeOK /\ TypeOK' /\ BooksInv /\ FundsOK /\ PayoutsInv /\ [Next]_vars => PayoutsInv'
  BY StepPayouts
<1>3. PayoutsInv => PayoutsBooked
  BY DEF PayoutsInv, PayoutsBooked, Quiet, Booked, Booking, ToBook, At
<1> QED
  BY <1>1, <1>2, <1>3, BooksCorrect, FundsInductive, PTL DEF Spec
=============================================================================
