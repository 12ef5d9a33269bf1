---------------------------- MODULE LocksProofs ----------------------------
(***************************************************************************)
(* The transactions of RowLocks are atomic.  LocksInv says how a row that  *)
(* is locked differs from its committed version, so that a COMMIT makes    *)
(* exactly the change KnexTransaction makes in one step, and every other   *)
(* step leaves the committed balances alone.                               *)
(***************************************************************************)
EXTENDS RowLocks, TLAPS

(* What LocksInv says of one client, but for what it has to do with others *)
LEMMA JobFacts ==
  ASSUME LocksTypeOK, NEW c \in Clients
  PROVE  /\ Running(c) => job[c] \in Job
         /\ ~Running(c) => job[c] \in {Rest(step) : step \in {"idle", "committed", "failed"}}
         /\ Running(c) => /\ job[c].user \in WalletOwners /\ job[c].receiver \in Users
                          /\ job[c].amount \in Int /\ job[c].seen \in Int
                          /\ job[c].kind \in Kinds /\ job[c].moved \in BOOLEAN
                          /\ Change(job[c]) \in Int
         /\ FirstDone(c) => Running(c)
         /\ SecondDone(c) => FirstDone(c)
         /\ Locked(c) \subseteq WalletOwners
<1>1. Amounts \subseteq Int
  BY AmountsAssumption
<1>2. job[c] \in Job \/ job[c] \in {Rest(step) : step \in {"idle", "committed", "failed"}}
  BY DEF LocksTypeOK
<1>3. Running(c) <=> job[c] \in Job
  BY <1>2 DEF Running, Job, Rest, Open
<1>4. FirstDone(c) => Running(c)
  BY DEF FirstDone, At, Running, Open
<1>5. job[c] \in Job => /\ job[c].user \in WalletOwners /\ job[c].receiver \in Users
                        /\ job[c].amount \in Int /\ job[c].seen \in Int
                        /\ job[c].kind \in Kinds /\ job[c].moved \in BOOLEAN
  BY <1>1 DEF Job
<1>6. job[c] \in Job => Change(job[c]) \in Int
  BY <1>5 DEF Change
<1>7. SecondDone(c) => FirstDone(c)
  BY DEF SecondDone, FirstDone
<1>8. Locked(c) \subseteq WalletOwners
  BY DEF Locked
<1> QED  BY <1>2, <1>3, <1>4, <1>5, <1>6, <1>7, <1>8

LEMMA PendingInt ==
  ASSUME LocksTypeOK, NEW c \in Clients, NEW u
  PROVE  Pending(c, u) \in Int
  BY JobFacts DEF Pending, SecondDone

(* A client whose step and statements stay the same keeps its locks *)
SameWork(c) ==
  /\ job'[c].step = job[c].step
  /\ Running(c) => /\ job'[c].kind = job[c].kind /\ job'[c].user = job[c].user
                   /\ job'[c].receiver = job[c].receiver /\ job'[c].amount = job[c].amount

LEMMA SameWorkKeeps ==
  ASSUME NEW c \in Clients, SameWork(c)
  PROVE  /\ Locked(c)' = Locked(c)
         /\ \A u : Pending(c, u)' = Pending(c, u)
         /\ FirstDone(c)' = FirstDone(c)
         /\ SecondDone(c)' = SecondDone(c)
         /\ Running(c)' = Running(c)
  BY DEF SameWork, Locked, Pending, FirstDone, SecondDone, At, Running, Open, Change

LEMMA LocksInit == Init => LocksInv
  BY BalanceAssumption
     DEF Init, LocksInv, LocksTypeOK, Rest, At, Locked, Fit, FirstDone, SecondDone, Pending,
         Running, Open

LEMMA LoadStep ==
  ASSUME LocksInv, NEW c \in Clients, NEW kind \in Kinds, NEW u \in WalletOwners,
         NEW v \in Users, NEW a \in Amounts, Load(c, kind, u, v, a)
  PROVE  LocksInv'
<1> DEFINE new == [kind |-> kind, user |-> u, receiver |-> v, amount |-> a,
                   seen |-> committed[u], moved |-> FALSE, step |-> "connect"]
<1>1. /\ job' = [job EXCEPT ![c] = new] /\ new \in Job /\ ~Running(c)
      /\ UNCHANGED <<balance, committed, held, faults, pool>>
  BY DEF Load, LocksInv, LocksTypeOK, Job, Open
<1>2. LocksTypeOK'
  BY <1>1 DEF LocksInv, LocksTypeOK, At
<1>3. \A d \in Clients : d # c => SameWork(d) /\ job'[d] = job[d]
  BY <1>1 DEF LocksInv, LocksTypeOK, SameWork
<1>4. job'[c] = new
  BY <1>1 DEF LocksInv, LocksTypeOK
<1>5. Locked(c) = {} /\ Locked(c)' = {} /\ ~FirstDone(c)'
  BY <1>1, <1>4 DEF Locked, FirstDone, SecondDone, At, Running, Open
<1> HIDE DEF new
<1>6. \A d \in Clients : (held[d] = Locked(d) /\ Fit(d))'
  BY <1>1, <1>3, <1>5, SameWorkKeeps DEF LocksInv, Fit, CanIncrement, Change
<1>7. \A d \in Clients : \A w \in held'[d] : balance'[w] = committed'[w] + Pending(d, w)'
  BY <1>1, <1>3, <1>5, <1>6, SameWorkKeeps DEF LocksInv
<1>8. \A d \in Clients : (Running(d) /\ ~job[d].moved => job[d].seen = committed[job[d].user])'
  BY <1>1, <1>3, <1>4 DEF LocksInv, Running, new
<1> QED  BY <1>1, <1>2, <1>6, <1>7, <1>8 DEF LocksInv

LEMMA BeginStep ==
  ASSUME LocksInv, NEW c \in Clients, Begin(c)
  PROVE  LocksInv'
<1>1. /\ job' = [job EXCEPT ![c].step = "first"] /\ job[c].step = "connect"
      /\ UNCHANGED <<balance, committed, held, faults, pool>>
  BY DEF Begin, MoveTo, At
<1>2. Running(c) /\ job[c] \in Job
  BY <1>1, JobFacts DEF LocksInv, Running, Open
<1>3. /\ job'[c] = [job[c] EXCEPT !.step = "first"] /\ job'[c] \in Job
      /\ \A d \in Clients : d # c => job'[d] = job[d]
  BY <1>1, <1>2 DEF LocksInv, LocksTypeOK, Job, Open
<1>4. LocksTypeOK'
  BY <1>1, <1>3 DEF LocksInv, LocksTypeOK, At
<1>5. \A d \in Clients : d # c => SameWork(d)
  BY <1>3 DEF SameWork
<1>6. Locked(c) = {} /\ Locked(c)' = {} /\ ~FirstDone(c)'
  BY <1>1, <1>2, <1>3 DEF Locked, FirstDone, SecondDone, At, Job
<1>7. \A d \in Clients : (held[d] = Locked(d) /\ Fit(d))'
  <2>1. held'[c] = Locked(c)' /\ Fit(c)'
    BY <1>1, <1>6 DEF LocksInv, Fit
  <2>2. \A d \in Clients : d # c => held'[d] = Locked(d)' /\ Fit(d)'
    BY <1>1, <1>3, <1>5, SameWorkKeeps DEF LocksInv, Fit, CanIncrement, Change
  <2> QED  BY <2>1, <2>2
<1>8. \A d \in Clients : \A w \in held'[d] : balance'[w] = committed'[w] + Pending(d, w)'
  BY <1>1, <1>5, <1>6, <1>7, SameWorkKeeps DEF LocksInv
<1>9. \A d \in Clients : (Running(d) /\ ~job[d].moved => job[d].seen = committed[job[d].user])'
  BY <1>1, <1>2, <1>3 DEF LocksInv, Running, Job
<1> QED  BY <1>1, <1>4, <1>7, <1>8, <1>9 DEF LocksInv

(* An UPDATE that goes through: nobody else has the row, and its balance   *)
(* is the committed one but for what this transaction did to it            *)
LEMMA UpdateFirstStep ==
  ASSUME LocksInv, NEW c \in Clients, UpdateFirst(c)
  PROVE  LocksInv'
<1> DEFINE u == job[c].user
           n == Change(job[c])
           next == IF job[c].kind = "transfer" THEN "second" ELSE "commit"
<1>1. /\ job' = [job EXCEPT ![c].step = next] /\ job[c].step = "first"
      /\ balance' = Increment(balance, u, n) /\ CanIncrement(balance, u, n)
      /\ held' = [held EXCEPT ![c] = @ \cup ({u} \cap WalletOwners)]
      /\ \A d \in Clients : d # c => u \notin held[d]
      /\ UNCHANGED <<committed, faults, pool>>
  BY DEF UpdateFirst, Update, MoveTo, At, Blocks
<1>2. Running(c) /\ job[c] \in Job /\ u \in WalletOwners /\ n \in Int
  BY <1>1, JobFacts DEF LocksInv, Running, Open
<1>3. /\ job'[c] = [job[c] EXCEPT !.step = next] /\ job'[c] \in Job
      /\ \A d \in Clients : d # c => job'[d] = job[d]
  BY <1>1, <1>2 DEF LocksInv, LocksTypeOK, Job, Open
<1>4. /\ job'[c].kind = job[c].kind /\ job'[c].user = u /\ job'[c].amount = job[c].amount
      /\ job'[c].step = next /\ job'[c].seen = job[c].seen /\ job'[c].moved = job[c].moved
      /\ Change(job'[c]) = n
  BY <1>2, <1>3 DEF Job, Change
<1>5. held[c] = {} /\ held'[c] = {u} /\ \A d \in Clients : d # c => held'[d] = held[d]
  BY <1>1, <1>2 DEF LocksInv, LocksTypeOK, Locked, FirstDone, SecondDone, At
<1>6. balance[u] = committed[u] /\ balance[u] \in Int
  BY <1>1, <1>2, <1>5, BalanceAssumption DEF LocksInv, LocksTypeOK
<1>7. /\ balance'[u] = balance[u] + n
      /\ \A w \in WalletOwners : w # u => balance'[w] = balance[w]
      /\ balance' \in [WalletOwners -> -MaxBalance..MaxBalance]
  <2>1. balance[u] + n \in -MaxBalance..MaxBalance
    BY <1>1, <1>2, <1>6, BalanceAssumption DEF CanIncrement, Fits
  <2> QED  BY <1>1, <1>2, <2>1 DEF Increment, LocksInv, LocksTypeOK
<1> HIDE DEF n, next
<1>8. LocksTypeOK'
  BY <1>1, <1>2, <1>3, <1>4, <1>7 DEF LocksInv, LocksTypeOK, At, next
<1>9. \A d \in Clients : d # c => SameWork(d)
  BY <1>3 DEF SameWork
<1>10. /\ FirstDone(c)' /\ ~SecondDone(c)' /\ Locked(c)' = {u}
       /\ \A w : Pending(c, w)' = IF w = u THEN n ELSE 0
  BY <1>2, <1>4 DEF FirstDone, SecondDone, At, Locked, Pending, next
<1>11. \A d \in Clients : (held[d] = Locked(d) /\ Fit(d))'
  <2>1. Fit(c)' /\ held'[c] = Locked(c)'
    BY <1>1, <1>2, <1>4, <1>5, <1>6, <1>10 DEF Fit, CanIncrement
  <2> QED  BY <2>1, <1>1, <1>3, <1>5, <1>9, SameWorkKeeps DEF LocksInv, Fit, CanIncrement, Change
<1>12. (\A d, e \in Clients : d # e => held[d] \cap held[e] = {})'
  BY <1>1, <1>5 DEF LocksInv
<1>13. \A d \in Clients : \A w \in held'[d] : balance'[w] = committed'[w] + Pending(d, w)'
  <2>1. \A d \in Clients : d # c => u \notin held[d] /\ held[d] \subseteq WalletOwners
    BY <1>1 DEF LocksInv, LocksTypeOK
  <2>2. \A d \in Clients : d # c => \A w \in held'[d] : balance'[w] = committed'[w] + Pending(d, w)'
    BY <2>1, <1>1, <1>5, <1>7, <1>9, SameWorkKeeps DEF LocksInv
  <2> QED  BY <2>2, <1>1, <1>5, <1>6, <1>7, <1>10
<1>14. \A w \in WalletOwners : (\A d \in Clients : w \notin held'[d]) => balance'[w] = committed'[w]
  BY <1>1, <1>5, <1>7 DEF LocksInv
<1>15. \A d \in Clients : (Running(d) /\ ~job[d].moved => job[d].seen = committed[job[d].user])'
  BY <1>1, <1>2, <1>3, <1>4 DEF LocksInv, Running
<1> QED  BY <1>8, <1>11, <1>12, <1>13, <1>14, <1>15 DEF LocksInv

LEMMA UpdateSecondStep ==
  ASSUME LocksInv, NEW c \in Clients, UpdateSecond(c)
  PROVE  LocksInv'
<1> DEFINE u == job[c].user
           v == job[c].receiver
           n == job[c].amount
<1>1. /\ job' = [job EXCEPT ![c].step = "commit"] /\ job[c].step = "second"
      /\ balance' = Increment(balance, v, n) /\ CanIncrement(balance, v, n)
      /\ held' = [held EXCEPT ![c] = @ \cup ({v} \cap WalletOwners)]
      /\ \A d \in Clients : d # c => v \notin held[d]
      /\ UNCHANGED <<committed, faults, pool>>
  BY DEF UpdateSecond, Update, MoveTo, At, Blocks
<1>2. Running(c) /\ job[c] \in Job /\ u \in WalletOwners /\ n \in Int /\ job[c].kind = "transfer"
      /\ Change(job[c]) \in Int
  BY <1>1, JobFacts DEF LocksInv, LocksTypeOK, Running, Open, At
<1>3. /\ job'[c] = [job[c] EXCEPT !.step = "commit"] /\ job'[c] \in Job
      /\ \A d \in Clients : d # c => job'[d] = job[d]
  BY <1>1, <1>2 DEF LocksInv, LocksTypeOK, Job, Open
<1>4. /\ job'[c].kind = "transfer" /\ job'[c].user = u /\ job'[c].amount = n
      /\ job'[c].receiver = v /\ job'[c].step = "commit" /\ job'[c].seen = job[c].seen
      /\ job'[c].moved = job[c].moved /\ Change(job'[c]) = Change(job[c])
  BY <1>2, <1>3 DEF Job, Change
<1>5. /\ held[c] = {u} /\ held'[c] = {u} \cup ({v} \cap WalletOwners)
      /\ \A d \in Clients : d # c => held'[d] = held[d]
  BY <1>1, <1>2 DEF LocksInv, LocksTypeOK, Locked, FirstDone, SecondDone, At
<1>6. /\ FirstDone(c) /\ \A w : Pending(c, w) = IF w = u THEN Change(job[c]) ELSE 0
      /\ FirstDone(c)' /\ SecondDone(c)' /\ Locked(c)' = {u} \cup ({v} \cap WalletOwners)
      /\ \A w : Pending(c, w)' = Pending(c, w) + (IF w = v THEN n ELSE 0)
  BY <1>1, <1>2, <1>4 DEF FirstDone, SecondDone, At, Locked, Pending
<1>7. /\ \A w \in WalletOwners : balance[w] \in Int /\ committed[w] \in Int
      /\ \A w \in WalletOwners : balance'[w] = IF w = v THEN balance[w] + n ELSE balance[w]
      /\ balance' \in [WalletOwners -> -MaxBalance..MaxBalance]
  <2>1. \A w \in WalletOwners : balance[w] \in Int /\ committed[w] \in Int
    BY BalanceAssumption DEF LocksInv, LocksTypeOK
  <2>2. v \in WalletOwners => balance[v] + n \in -MaxBalance..MaxBalance
    BY <1>1, <1>2, <2>1, BalanceAssumption DEF CanIncrement, Fits
  <2> QED  BY <1>1, <1>2, <2>1, <2>2 DEF Increment, LocksInv, LocksTypeOK
<1>8. LocksTypeOK'
  BY <1>1, <1>2, <1>3, <1>4, <1>7 DEF LocksInv, LocksTypeOK, At
<1>9. \A d \in Clients : d # c => SameWork(d)
  BY <1>3 DEF SameWork
<1>11. \A d \in Clients : (held[d] = Locked(d) /\ Fit(d))'
  <2>1. Fit(c)' /\ held'[c] = Locked(c)'
    BY <1>1, <1>4, <1>5, <1>6 DEF LocksInv, Fit, CanIncrement
  <2> QED  BY <2>1, <1>1, <1>3, <1>5, <1>9, SameWorkKeeps DEF LocksInv, Fit, CanIncrement, Change
<1>12. (\A d, e \in Clients : d # e => held[d] \cap held[e] = {})'
  BY <1>1, <1>5 DEF LocksInv
<1>13. \A d \in Clients : \A w \in held'[d] : balance'[w] = committed'[w] + Pending(d, w)'
  <2>1. \A d \in Clients : d # c => v \notin held[d] /\ held[d] \subseteq WalletOwners
    BY <1>1 DEF LocksInv, LocksTypeOK
  <2>2. \A d \in Clients : d # c => \A w \in held'[d] : balance'[w] = committed'[w] + Pending(d, w)'
    BY <2>1, <1>1, <1>5, <1>7, <1>9, SameWorkKeeps DEF LocksInv
  <2>3. balance[u] = committed[u] + Change(job[c])
    BY <1>2, <1>5, <1>6 DEF LocksInv
  <2>4. v \in WalletOwners /\ v # u => balance[v] = committed[v]
    BY <1>1, <1>5 DEF LocksInv
  <2>5. \A w \in held'[c] : balance'[w] = committed'[w] + Pending(c, w)'
    <3> SUFFICES ASSUME NEW w \in held'[c]
                 PROVE  balance'[w] = committed[w] + Pending(c, w)'
      BY <1>1
    <3>1. w \in WalletOwners /\ (w = u \/ w = v)
      BY <1>2, <1>5
    <3>2. CASE w = u
      BY <3>1, <3>2, <1>2, <1>6, <1>7, <2>3
    <3>3. CASE w # u /\ w = v
      BY <3>1, <3>3, <1>2, <1>6, <1>7, <2>4
    <3> QED  BY <3>1, <3>2, <3>3
  <2> QED  BY <2>2, <2>5
<1>14. \A w \in WalletOwners : (\A d \in Clients : w \notin held'[d]) => balance'[w] = committed'[w]
  BY <1>1, <1>5, <1>7 DEF LocksInv
<1>15. \A d \in Clients : (Running(d) /\ ~job[d].moved => job[d].seen = committed[job[d].user])'
  BY <1>1, <1>2, <1>3, <1>4 DEF LocksInv, Running
<1> QED  BY <1>8, <1>11, <1>12, <1>13, <1>14, <1>15 DEF LocksInv

(* COMMIT makes the balances of the rows it held the committed ones *)
LEMMA CommitStep ==
  ASSUME LocksInv, NEW c \in Clients, Commit(c)
  PROVE  LocksInv'
<1>1. /\ job[c].step = "commit"
      /\ committed' = [u \in WalletOwners |-> IF u \in held[c] THEN balance[u] ELSE committed[u]]
      /\ held' = [held EXCEPT ![c] = {}]
      /\ UNCHANGED <<balance, faults, pool>>
  BY DEF Commit, At
<1>2. /\ job'[c] = Rest("committed")
      /\ \A d \in Clients : d # c =>
           \/ job'[d] = job[d] /\ ~(Running(d) /\ job[d].user \in held[c])
           \/ job'[d] = [job[d] EXCEPT !.moved = TRUE] /\ Running(d)
  BY DEF Commit
<1>3. \A d \in Clients : d # c /\ Running(d) => [job[d] EXCEPT !.moved = TRUE] \in Job
  BY JobFacts DEF LocksInv, Job
<1>4. \A d \in Clients : d # c => SameWork(d)
  <2> SUFFICES ASSUME NEW d \in Clients, d # c PROVE SameWork(d)
    OBVIOUS
  <2>1. CASE job'[d] = job[d]
    BY <2>1 DEF SameWork
  <2>2. CASE job'[d] = [job[d] EXCEPT !.moved = TRUE] /\ Running(d)
    <3>1. job[d] \in Job
      BY <2>2, JobFacts DEF LocksInv
    <3> QED  BY <2>2, <3>1 DEF SameWork, Job
  <2> QED  BY <1>2, <2>1, <2>2
<1>5. ~Running(c)' /\ ~FirstDone(c)' /\ Locked(c)' = {}
  BY <1>2 DEF Rest, Running, Open, FirstDone, SecondDone, Locked, At
<1>6. \A d \in Clients : d # c =>
        /\ held'[d] = held[d]
        /\ held[c] \cap held[d] = {}
        /\ Running(d)' => job'[d].user = job[d].user /\ Change(job'[d]) = Change(job[d])
  BY <1>1, <1>4, SameWorkKeeps DEF LocksInv, LocksTypeOK, SameWork, Change
<1>7. \A u \in WalletOwners : u \notin held[c] => committed'[u] = committed[u]
  BY <1>1
<1>8. LocksTypeOK'
  <2>1. job' \in [Clients -> Job \cup {Rest(step) : step \in {"idle", "committed", "failed"}}]
    <3>1. job' = [d \in Clients |-> job'[d]]
      BY DEF Commit
    <3>2. \A d \in Clients :
            job'[d] \in Job \cup {Rest(step) : step \in {"idle", "committed", "failed"}}
      BY <1>2, <1>3 DEF LocksInv, LocksTypeOK
    <3> QED  BY <3>1, <3>2
  <2>2. committed' \in [WalletOwners -> -MaxBalance..MaxBalance]
    BY <1>1 DEF LocksInv, LocksTypeOK
  <2>3. \A d \in Clients : At(d, "second")' => job'[d].kind = "transfer"
    <3> SUFFICES ASSUME NEW d \in Clients, At(d, "second")' PROVE job'[d].kind = "transfer"
      OBVIOUS
    <3>1. d # c
      BY <1>2 DEF At, Rest
    <3>2. At(d, "second") /\ Running(d)
      BY <3>1, <1>4 DEF SameWork, At, Running, Open
    <3> QED  BY <3>1, <3>2, <1>4 DEF SameWork, LocksInv, LocksTypeOK
  <2> QED  BY <1>1, <2>1, <2>2, <2>3 DEF LocksInv, LocksTypeOK
<1>9. \A d \in Clients : (held[d] = Locked(d) /\ Fit(d))'
  <2>1. held'[c] = Locked(c)' /\ Fit(c)'
    BY <1>1, <1>5 DEF LocksInv, LocksTypeOK, Fit
  <2>2. ASSUME NEW d \in Clients, d # c PROVE held'[d] = Locked(d)' /\ Fit(d)'
    <3>1. held'[d] = Locked(d)'
      BY <2>2, <1>4, <1>6, SameWorkKeeps DEF LocksInv
    <3>2. ASSUME FirstDone(d)' PROVE CanIncrement(committed', job'[d].user, Change(job'[d]))
      <4>1. FirstDone(d) /\ Running(d) /\ Running(d)'
        BY <2>2, <3>2, <1>4, SameWorkKeeps, JobFacts DEF LocksInv
      <4>2. job[d].user \in held[d]
        BY <4>1, JobFacts DEF LocksInv, Locked
      <4> QED  BY <2>2, <4>1, <4>2, <1>6, <1>7 DEF LocksInv, Fit, CanIncrement
    <3> QED  BY <3>1, <3>2 DEF Fit
  <2> QED  BY <2>1, <2>2
<1>10. (\A d, e \in Clients : d # e => held[d] \cap held[e] = {})'
  BY <1>1 DEF LocksInv, LocksTypeOK
<1>11. \A d \in Clients : \A w \in held'[d] : balance'[w] = committed'[w] + Pending(d, w)'
  <2>1. \A d \in Clients : d # c => \A w \in held'[d] : balance'[w] = committed'[w] + Pending(d, w)'
    BY <1>1, <1>4, <1>6, <1>7, SameWorkKeeps DEF LocksInv, LocksTypeOK
  <2> QED  BY <2>1, <1>5, <1>9
<1>12. \A w \in WalletOwners : (\A d \in Clients : w \notin held'[d]) => balance'[w] = committed'[w]
  BY <1>1, <1>6 DEF LocksInv
<1>13. \A d \in Clients : (Running(d) /\ ~job[d].moved => job[d].seen = committed[job[d].user])'
  <2> SUFFICES ASSUME NEW d \in Clients, Running(d)', ~job'[d].moved
               PROVE  job'[d].seen = committed'[job'[d].user]
    OBVIOUS
  <2>1. d # c /\ Running(d)
    BY <1>4, <1>5, SameWorkKeeps
  <2>2. job'[d] = job[d] /\ job[d].user \notin held[c]
    BY <2>1, <1>2, JobFacts DEF LocksInv, Job
  <2> QED  BY <2>1, <2>2, <1>7, JobFacts DEF LocksInv
<1> QED  BY <1>8, <1>9, <1>10, <1>11, <1>12, <1>13 DEF LocksInv

(* A rollback gives the rows it held their committed balances again *)
LEMMA RollbackStep ==
  ASSUME LocksInv, NEW c \in Clients, Running(c), Rollback(c), faults' \in Nat
  PROVE  LocksInv'
<1>1. /\ balance' = [u \in WalletOwners |-> IF u \in held[c] THEN committed[u] ELSE balance[u]]
      /\ held' = [held EXCEPT ![c] = {}]
      /\ job' = [job EXCEPT ![c] = Rest("failed")]
      /\ UNCHANGED <<committed, pool>>
  BY DEF Rollback
<1>2. job'[c] = Rest("failed") /\ \A d \in Clients : d # c => job'[d] = job[d]
  BY <1>1 DEF LocksInv, LocksTypeOK
<1>3. \A d \in Clients : d # c => SameWork(d) /\ held'[d] = held[d] /\ held[c] \cap held[d] = {}
  BY <1>1, <1>2 DEF LocksInv, LocksTypeOK, SameWork
<1>4. ~Running(c)' /\ ~FirstDone(c)' /\ Locked(c)' = {}
  BY <1>2 DEF Rest, Running, Open, FirstDone, SecondDone, Locked, At
<1>5. LocksTypeOK'
  BY <1>1, <1>2 DEF LocksInv, LocksTypeOK, At, Rest
<1>6. \A d \in Clients : (held[d] = Locked(d) /\ Fit(d))'
  <2>1. held'[c] = Locked(c)' /\ Fit(c)'
    BY <1>1, <1>4 DEF LocksInv, LocksTypeOK, Fit
  <2>2. \A d \in Clients : d # c => held'[d] = Locked(d)' /\ Fit(d)'
    BY <1>1, <1>2, <1>3, SameWorkKeeps DEF LocksInv, Fit, CanIncrement, Change
  <2> QED  BY <2>1, <2>2
<1>7. (\A d, e \in Clients : d # e => held[d] \cap held[e] = {})'
  BY <1>1 DEF LocksInv, LocksTypeOK
<1>8. \A d \in Clients : \A w \in held'[d] : balance'[w] = committed'[w] + Pending(d, w)'
  <2>1. \A d \in Clients : d # c => \A w \in held'[d] : balance'[w] = committed'[w] + Pending(d, w)'
    BY <1>1, <1>3, SameWorkKeeps DEF LocksInv, LocksTypeOK
  <2> QED  BY <2>1, <1>4, <1>6
<1>9. \A w \in WalletOwners : (\A d \in Clients : w \notin held'[d]) => balance'[w] = committed'[w]
  BY <1>1, <1>3 DEF LocksInv
<1>10. \A d \in Clients : (Running(d) /\ ~job[d].moved => job[d].seen = committed[job[d].user])'
  BY <1>1, <1>2, <1>4 DEF LocksInv, Running
<1> QED  BY <1>5, <1>6, <1>7, <1>8, <1>9, <1>10 DEF LocksInv

LEMMA CrashStep == LocksInv /\ Crash => LocksInv'
<1> SUFFICES ASSUME LocksInv, Crash PROVE LocksInv'
  OBVIOUS
<1>1. /\ balance' = committed /\ UNCHANGED <<committed, pool>> /\ faults' \in Nat
      /\ held' = [c \in Clients |-> {}]
      /\ job' = [c \in Clients |-> IF Running(c) THEN Rest("failed") ELSE job[c]]
  BY DEF Crash, LocksInv, LocksTypeOK
<1>2. \A c \in Clients : ~Running(c)' /\ ~FirstDone(c)' /\ ~At(c, "second")' /\ Locked(c)' = {}
  BY <1>1 DEF Rest, Running, Open, FirstDone, SecondDone, Locked, At
<1>3. LocksTypeOK'
  BY <1>1, <1>2 DEF LocksInv, LocksTypeOK
<1> QED  BY <1>1, <1>2, <1>3 DEF LocksInv, Fit

LEMMA LocksStep == LocksInv /\ [Next]_vars => LocksInv'
<1> SUFFICES ASSUME LocksInv, [Next]_vars PROVE LocksInv'
  OBVIOUS
<1>1. CASE UNCHANGED vars
  BY <1>1 DEF vars, LocksInv, LocksTypeOK, At, Locked, Fit, FirstDone, SecondDone, Pending,
              Running, CanIncrement, Change
<1>2. ASSUME NEW c \in Clients, NEW kind \in Kinds, NEW u \in WalletOwners, NEW v \in Users,
             NEW a \in Amounts, Load(c, kind, u, v, a)
      PROVE  LocksInv'
  BY <1>2, LoadStep
<1>3. ASSUME NEW c \in Clients, Proceed(c) PROVE LocksInv'
  <2>1. CASE OutOfRange(c) \/ Victim(c)
    <3>1. Running(c) /\ Rollback(c) /\ faults' \in Nat
      BY <2>1 DEF OutOfRange, Victim, Deadlocked, WaitsFor, At, Running, Open, LocksInv, LocksTypeOK
    <3> QED  BY <3>1, RollbackStep
  <2> QED  BY <1>3, <2>1, BeginStep, UpdateFirstStep, UpdateSecondStep, CommitStep DEF Proceed
<1>4. ASSUME NEW c \in Clients, Fails(c) PROVE LocksInv'
  <2>1. Running(c) /\ Rollback(c) /\ faults' \in Nat
    BY <1>4 DEF Fails, LocksInv, LocksTypeOK
  <2> QED  BY <2>1, RollbackStep
<1>5. CASE Crash
  BY <1>5, CrashStep
<1> QED  BY <1>1, <1>2, <1>3, <1>4, <1>5 DEF Next

-----------------------------------------------------------------------------
(* WalletService.updateWalletBalance and the handlers' increments: a row   *)
(* differs from what is committed by what its one transaction did, for any *)
(* number of clients, wallets and connections.                             *)
THEOREM LocksCorrect == Spec => []LocksInv
<1>1. LocksInv /\ [Next]_vars => LocksInv'
  BY LocksStep
<1> QED  BY LocksInit, <1>1, PTL DEF Spec

-----------------------------------------------------------------------------
(* Which steps end a transaction: only its own COMMIT commits it *)
LEMMA OnlyCommitCommits ==
  ASSUME LocksInv, [Next]_vars, NEW c \in Clients, Commits(c)
  PROVE  Commit(c)
<1>1. job[c].step = "commit" /\ job'[c] = Rest("committed") /\ job'[c].step = "committed"
  BY DEF Commits, At, Rest
<1>2. job'[c] # job[c] /\ Running(c) /\ job \in [Clients -> Job \cup {Rest(step) : step \in {"idle", "committed", "failed"}}]
  BY <1>1 DEF Running, Open, LocksInv, LocksTypeOK
<1>3. ~UNCHANGED vars
  BY <1>2 DEF vars
<1>4. ASSUME NEW d \in Clients, NEW kind \in Kinds, NEW u \in WalletOwners, NEW v \in Users,
             NEW a \in Amounts, Load(d, kind, u, v, a)
      PROVE  FALSE
  BY <1>1, <1>2, <1>4 DEF Load
<1>5. ASSUME NEW d \in Clients, Rollback(d)
      PROVE  FALSE
  BY <1>1, <1>2, <1>5 DEF Rollback, Rest
<1>6. ASSUME NEW d \in Clients, Begin(d) \/ UpdateFirst(d) \/ UpdateSecond(d)
      PROVE  FALSE
  BY <1>1, <1>2, <1>6 DEF Begin, UpdateFirst, UpdateSecond, MoveTo, At
<1>7. ASSUME NEW d \in Clients, Commit(d), d # c
      PROVE  FALSE
  <2>1. job'[c] = job[c] \/ (job'[c] = [job[c] EXCEPT !.moved = TRUE] /\ job[c] \in Job)
    BY <1>7, <1>2, JobFacts DEF Commit, LocksInv
  <2> QED  BY <2>1, <1>1 DEF Job
<1>8. CASE Crash
  BY <1>8, <1>1, <1>2 DEF Crash, Rest
<1> QED  BY <1>3, <1>4, <1>5, <1>6, <1>7, <1>8 DEF Next, Proceed, OutOfRange, Victim, Fails

(* What the row of c's user holds when c commits *)
LEMMA CommittedBalance ==
  ASSUME LocksInv, NEW c \in Clients, Commit(c)
  PROVE  \A u \in WalletOwners : committed'[u] = committed[u] + Pending(c, u)
<1> SUFFICES ASSUME NEW u \in WalletOwners
             PROVE  committed'[u] = committed[u] + Pending(c, u)
  OBVIOUS
<1>1. committed'[u] = IF u \in held[c] THEN balance[u] ELSE committed[u]
  BY DEF Commit
<1>2. CASE u \in held[c]
  BY <1>1, <1>2 DEF LocksInv
<1>3. CASE u \notin held[c]
  <2>1. Pending(c, u) = 0
    BY <1>3 DEF LocksInv, Locked, Pending, SecondDone, FirstDone
  <2>2. committed[u] \in Int
    BY BalanceAssumption DEF LocksInv, LocksTypeOK
  <2> QED  BY <2>1, <2>2, <1>1, <1>3
<1> QED  BY <1>2, <1>3

(* handleChargeSuccess and withdrawFund: meta.newBalance is what the       *)
(* wallet holds after the transaction unless another one came in between.  *)
THEOREM SnapshotsRight == Spec => SnapshotRight
<1> DEFINE Right == \A c \in Clients :
       Commits(c) /\ job[c].kind # "transfer" /\ ~job[c].moved =>
         committed'[job[c].user] = NewBalance(job[c])
<1>1. LocksInv /\ [Next]_vars => [Right]_vars
  <2> SUFFICES ASSUME LocksInv, [Next]_vars, NEW c \in Clients,
                      Commits(c), job[c].kind # "transfer", ~job[c].moved
               PROVE  committed'[job[c].user] = NewBalance(job[c])
    OBVIOUS
  <2>1. Commit(c) /\ At(c, "commit") /\ Running(c)
    BY OnlyCommitCommits DEF Commits, At, Running, Open
  <2>2. job[c].user \in WalletOwners /\ Change(job[c]) \in Int
    BY <2>1, JobFacts DEF LocksInv
  <2>3. Pending(c, job[c].user) = Change(job[c])
    BY <2>1, <2>2 DEF Pending, FirstDone, SecondDone
  <2>4. job[c].seen = committed[job[c].user]
    BY <2>1 DEF LocksInv
  <2> QED  BY <2>1, <2>2, <2>3, <2>4, CommittedBalance DEF NewBalance
<1> QED  BY <1>1, LocksCorrect, PTL DEF Spec, SnapshotRight

-----------------------------------------------------------------------------
(* Begin and the UPDATEs are steps nobody sees *)
LEMMA ViewFacts ==
  ASSUME LocksTypeOK, NEW c \in Clients
  PROVE  /\ Running(c) => /\ View(job[c]).step = "open"
                          /\ View(job[c]).kind = job[c].kind
                          /\ View(job[c]).user = job[c].user
                          /\ View(job[c]).receiver = job[c].receiver
                          /\ View(job[c]).amount = job[c].amount
         /\ ~Running(c) => View(job[c]) = job[c] /\ View(job[c]).step # "open"
<1>1. CASE Running(c)
  BY <1>1 DEF View, Running
<1>2. CASE ~Running(c)
  <2>1. PICK step \in {"idle", "committed", "failed"} : job[c] = Rest(step)
    BY <1>2, JobFacts
  <2>2. job[c].step = step /\ step \notin Open /\ step # "open"
    BY <2>1 DEF Rest, Open
  <2> QED  BY <1>2, <2>2 DEF View
<1> QED  BY <1>1, <1>2

LEMMA Hidden ==
  ASSUME LocksInv, NEW c \in Clients, Begin(c) \/ UpdateFirst(c) \/ UpdateSecond(c)
  PROVE  committed' = committed /\ \A d \in Clients : View(job'[d]) = View(job[d])
<1>1. PICK step \in Open : job' = [job EXCEPT ![c].step = step]
  BY DEF Begin, UpdateFirst, UpdateSecond, MoveTo, Open
<1>2. Running(c) /\ job[c] \in Job /\ committed' = committed
  BY JobFacts DEF Begin, UpdateFirst, UpdateSecond, Update, At, Running, Open, LocksInv
<1>3. job'[c] = [job[c] EXCEPT !.step = step] /\ \A d \in Clients : d # c => job'[d] = job[d]
  BY <1>1 DEF LocksInv, LocksTypeOK
<1>4. /\ job'[c].kind = job[c].kind /\ job'[c].user = job[c].user /\ job'[c].step = step
      /\ job'[c].receiver = job[c].receiver /\ job'[c].amount = job[c].amount
  BY <1>2, <1>3 DEF Job
<1> QED  BY <1>2, <1>3, <1>4 DEF View, Running

LEMMA LoadAsks ==
  ASSUME LocksInv, NEW c \in Clients, NEW kind \in Kinds, NEW u \in WalletOwners,
         NEW v \in Users, NEW a \in Amounts, Load(c, kind, u, v, a)
  PROVE  Atomic!Ask(c)
<1> DEFINE new == [kind |-> kind, user |-> u, receiver |-> v, amount |-> a,
                   seen |-> committed[u], moved |-> FALSE, step |-> "connect"]
           j == [kind |-> kind, user |-> u, receiver |-> v, amount |-> a, step |-> "open"]
<1>1. job' = [job EXCEPT ![c] = new] /\ ~Running(c) /\ committed' = committed
  BY DEF Load
<1>2. job'[c] = new /\ \A d \in Clients : d # c => job'[d] = job[d]
  BY <1>1 DEF LocksInv, LocksTypeOK
<1>3. View(new) = j
  BY DEF View, Open
<1>4. j \in Atomic!Job
  BY DEF Atomic!Job, Atomic!Kinds, Kinds
<1>5. View(job[c]).step # "open"
  BY <1>1, ViewFacts DEF LocksInv
<1> HIDE DEF new, j
<1>6. [d \in Clients |-> View(job'[d])] = [[d \in Clients |-> View(job[d])] EXCEPT ![c] = j]
  BY <1>2, <1>3
<1> QED  BY <1>1, <1>4, <1>5, <1>6 DEF Atomic!Ask

LEMMA CommitCommits ==
  ASSUME LocksInv, NEW c \in Clients, Commit(c)
  PROVE  Atomic!Commit(c)
<1> DEFINE b == job[c]
           j == View(b)
<1>1. /\ b.step = "commit" /\ Running(c) /\ b \in Job
      /\ b.user \in WalletOwners /\ b.amount \in Int /\ Change(b) \in Int
      /\ FirstDone(c) /\ (SecondDone(c) <=> b.kind = "transfer")
  BY JobFacts DEF Commit, At, Running, Open, LocksInv, FirstDone, SecondDone
<1>2. /\ j.step = "open" /\ j.kind = b.kind /\ j.user = b.user /\ j.receiver = b.receiver
      /\ j.amount = b.amount /\ Atomic!Change(j) = Change(b)
  BY <1>1, ViewFacts DEF LocksInv, Change, Atomic!Change
<1>3. \A u \in WalletOwners :
        /\ committed[u] \in Int /\ balance[u] \in -MaxBalance..MaxBalance
        /\ u \in held[c] => balance[u] = committed[u] + Pending(c, u)
        /\ Pending(c, u) = (IF u = b.user THEN Change(b) ELSE 0)
                            + (IF b.kind = "transfer" /\ u = b.receiver THEN b.amount ELSE 0)
  BY <1>1, BalanceAssumption DEF LocksInv, LocksTypeOK, Pending
<1>4. /\ CanIncrement(committed, b.user, Change(b))
      /\ b.kind = "transfer" /\ b.receiver \in WalletOwners => b.receiver \in held[c]
  BY <1>1 DEF LocksInv, Fit, Locked
<1> HIDE DEF j
<1>5. Atomic!Allowed(j, committed)
  <2>1. Atomic!CanIncrement(committed, j.user, Atomic!Change(j))
    BY <1>2, <1>4 DEF CanIncrement, Fits, Atomic!CanIncrement, Atomic!Fits
  <2>2. ASSUME j.kind = "transfer", j.receiver \in WalletOwners
        PROVE  Atomic!Fits(Atomic!AfterFirst(j, committed)[j.receiver] + j.amount)
    <3> DEFINE w == b.receiver
    <3>1. w \in WalletOwners /\ b.kind = "transfer" /\ balance[w] = committed[w] + Pending(c, w)
      BY <2>2, <1>2, <1>3, <1>4
    <3>2. Atomic!AfterFirst(j, committed)[w] =
            IF w = b.user THEN committed[w] + Change(b) ELSE committed[w]
      BY <3>1, <1>2 DEF Atomic!AfterFirst, Atomic!Increment
    <3>3. Atomic!AfterFirst(j, committed)[w] + b.amount = balance[w]
      BY <3>1, <3>2, <1>1, <1>3
    <3>4. balance[w] \in -MaxBalance..MaxBalance
      BY <3>1, <1>3
    <3> QED  BY <3>3, <3>4, <1>2, BalanceAssumption DEF Atomic!Fits
  <2> QED  BY <2>1, <2>2 DEF Atomic!Allowed, Atomic!CanIncrement
<1>6. committed' = Atomic!AfterAll(j, committed)
  <2>1. committed' = [u \in WalletOwners |-> committed'[u]]
    BY DEF Commit
  <2>2. \A u \in WalletOwners : committed'[u] = committed[u] + Pending(c, u)
    BY CommittedBalance
  <2>3. \A u \in WalletOwners : Atomic!AfterFirst(j, committed)[u] =
          IF u = b.user THEN committed[u] + Change(b) ELSE committed[u]
    BY <1>2 DEF Atomic!AfterFirst, Atomic!Increment
  <2>4. CASE b.kind = "transfer"
    <3>1. \A u \in WalletOwners : Atomic!AfterAll(j, committed)[u] = committed[u] + Pending(c, u)
      BY <2>3, <2>4, <1>1, <1>2, <1>3 DEF Atomic!AfterAll, Atomic!Increment
    <3>2. Atomic!AfterAll(j, committed) =
            [u \in WalletOwners |-> Atomic!AfterAll(j, committed)[u]]
      BY <2>4, <1>2 DEF Atomic!AfterAll, Atomic!Increment
    <3> QED  BY <3>1, <3>2, <2>1, <2>2
  <2>5. CASE b.kind # "transfer"
    <3>1. \A u \in WalletOwners : Atomic!AfterAll(j, committed)[u] = committed[u] + Pending(c, u)
      BY <2>3, <2>5, <1>1, <1>2, <1>3 DEF Atomic!AfterAll
    <3>2. Atomic!AfterAll(j, committed) =
            [u \in WalletOwners |-> Atomic!AfterAll(j, committed)[u]]
      BY <2>5, <1>2 DEF Atomic!AfterAll, Atomic!AfterFirst, Atomic!Increment
    <3> QED  BY <3>1, <3>2, <2>1, <2>2
  <2> QED  BY <2>4, <2>5
<1>7. [d \in Clients |-> View(job'[d])] =
        [[d \in Clients |-> View(job[d])] EXCEPT ![c] = Atomic!Rest("committed")]
  <2>1. View(job'[c]) = Atomic!Rest("committed")
    BY DEF Commit, View, Rest, Open, Atomic!Rest
  <2>2. ASSUME NEW d \in Clients, d # c PROVE View(job'[d]) = View(job[d])
    <3>1. CASE job'[d] = job[d]
      BY <3>1
    <3>2. CASE job'[d] = [job[d] EXCEPT !.moved = TRUE] /\ Running(d)
      <4>1. job[d] \in Job
        BY <3>2, JobFacts DEF LocksInv
      <4> QED  BY <3>2, <4>1 DEF View, Job
    <3> QED  BY <2>2, <3>1, <3>2 DEF Commit
  <2> QED  BY <2>1, <2>2
<1> QED  BY <1>2, <1>5, <1>6, <1>7 DEF Atomic!Commit, j

LEMMA RollbackFails ==
  ASSUME LocksInv, NEW c \in Clients, Running(c), Rollback(c)
  PROVE  Atomic!Fail(c)
<1>1. job' = [job EXCEPT ![c] = Rest("failed")] /\ committed' = committed
  BY DEF Rollback
<1>2. job'[c] = Rest("failed") /\ \A d \in Clients : d # c => job'[d] = job[d]
  BY <1>1 DEF LocksInv, LocksTypeOK
<1>3. View(Rest("failed")) = Atomic!Rest("failed")
  BY DEF View, Rest, Open, Atomic!Rest
<1>4. View(job[c]).step = "open"
  BY ViewFacts DEF LocksInv
<1>5. [d \in Clients |-> View(job'[d])] =
        [[d \in Clients |-> View(job[d])] EXCEPT ![c] = Atomic!Rest("failed")]
  BY <1>2, <1>3
<1> QED  BY <1>1, <1>4, <1>5 DEF Atomic!Fail

LEMMA CrashCrashes ==
  ASSUME LocksInv, Crash
  PROVE  Atomic!Crash
<1>1. committed' = committed
      /\ job' = [c \in Clients |-> IF Running(c) THEN Rest("failed") ELSE job[c]]
  BY DEF Crash
<1>2. View(Rest("failed")) = Atomic!Rest("failed")
  BY DEF View, Rest, Open, Atomic!Rest
<1>3. \A c \in Clients : View(job'[c]) =
        IF View(job[c]).step = "open" THEN Atomic!Rest("failed") ELSE View(job[c])
  BY <1>1, <1>2, ViewFacts DEF LocksInv
<1> QED  BY <1>1, <1>3 DEF Atomic!Crash

(* knex.transaction, as transferFunds and the handlers use it: a           *)
(* transaction takes effect at the moment of its COMMIT or not at all,     *)
(* whatever the statements of the others do in between.                    *)
THEOREM ImplementsKnexTransaction == Spec => TransactionsAtomic
<1>1. Init => Atomic!Init
  BY DEF Init, Atomic!Init, View, Rest, Open, Atomic!Rest
<1>2. LocksInv /\ [Next]_vars =>
        [Atomic!Next]_<<committed, [c \in Clients |-> View(job[c])]>>
  <2> SUFFICES ASSUME LocksInv, [Next]_vars
               PROVE  \/ Atomic!Next
                      \/ /\ committed' = committed
                         /\ [c \in Clients |-> View(job'[c])] = [c \in Clients |-> View(job[c])]
    OBVIOUS
  <2>1. CASE UNCHANGED vars
    BY <2>1 DEF vars
  <2>2. ASSUME NEW c \in Clients, NEW kind \in Kinds, NEW u \in WalletOwners, NEW v \in Users,
               NEW a \in Amounts, Load(c, kind, u, v, a)
        PROVE  Atomic!Next
    BY <2>2, LoadAsks DEF Atomic!Next
  <2>3. ASSUME NEW c \in Clients, OutOfRange(c) \/ Victim(c) \/ Fails(c)
        PROVE  Atomic!Next
    <3>1. Running(c) /\ Rollback(c)
      BY <2>3 DEF OutOfRange, Victim, Fails, Deadlocked, WaitsFor, At, Running, Open
    <3> QED  BY <3>1, RollbackFails DEF Atomic!Next
  <2>4. ASSUME NEW c \in Clients, Begin(c) \/ UpdateFirst(c) \/ UpdateSecond(c)
        PROVE  /\ committed' = committed
               /\ [d \in Clients |-> View(job'[d])] = [d \in Clients |-> View(job[d])]
    BY <2>4, Hidden
  <2>5. ASSUME NEW c \in Clients, Commit(c) PROVE Atomic!Next
    BY <2>5, CommitCommits DEF Atomic!Next
  <2>6. CASE Crash
    BY <2>6, CrashCrashes DEF Atomic!Next
  <2> QED  BY <2>1, <2>2, <2>3, <2>4, <2>5, <2>6 DEF Next, Proceed
<1> QED  BY <1>1, <1>2, LocksCorrect, PTL DEF Spec, TransactionsAtomic, Atomic!Spec
=============================================================================
