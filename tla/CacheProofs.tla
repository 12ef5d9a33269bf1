---------------------------- MODULE CacheProofs ----------------------------
(***************************************************************************)
(* First CacheService.  CacheInv is inductive.  A step of the service      *)
(* changes one task at most, so every action is proved by what it does to  *)
(* that task and, for the two that write Redis, to its key; the other      *)
(* tasks keep what they had, and the floor only rises, for a key whose     *)
(* delete looked at every writer.                                          *)
(***************************************************************************)
EXTENDS CachePair, CacheService, Entries, FiniteSetTheorems, SequenceTheorems, TLAPS

USE CacheAssumption

LEMMA CacheInitCorrect == CacheInit => CacheInv
  BY DEF CacheInit, CacheInv, CacheTypeOK, NothingNewer, RemoteFresh, HoldersFresh,
         Versions, Entry, Gone, Task, Rest, Steps, NoValue, HasKey, Writer, At

LEMMA GetStep ==
  ASSUME CacheInv, NEW t \in Tasks, NEW k \in Keys, NEW op \in {"get", "getOrSet"},
         Get(t, op, k)
  PROVE  CacheInv'
  BY DEF CacheInv, CacheTypeOK, NothingNewer, RemoteFresh, HoldersFresh,
         Versions, Entry, Task, Steps, NoValue, HasKey, Writer, At, Get, Idle, Starts

(* A task that goes on keeps its key and what it must not fall behind *)
LEMMA GoesOn ==
  ASSUME CacheTypeOK, NEW t \in Tasks, NEW step \in Steps, NEW v \in Versions,
         Goes(t, step, v)
  PROVE  /\ task' \in [Tasks -> Task]
         /\ \A u \in Tasks : u # t => task'[u] = task[u]
         /\ task'[t].key = task[t].key /\ task'[t].since = task[t].since
         /\ task'[t].at = step /\ task'[t].holds = v
<1>1. task[t] \in Task /\ task \in [Tasks -> Task]
  BY DEF CacheTypeOK
<1>2. [task[t] EXCEPT !.at = step, !.holds = v] \in Task
  BY <1>1 DEF Task
<1>3. task' = [task EXCEPT ![t] = [task[t] EXCEPT !.at = step, !.holds = v]]
  BY DEF Goes
<1>4. task'[t] = [task[t] EXCEPT !.at = step, !.holds = v]
  BY <1>1, <1>3
<1>5. /\ task'[t].key = task[t].key /\ task'[t].since = task[t].since
      /\ task'[t].at = step /\ task'[t].holds = v
  BY <1>1, <1>4 DEF Task
<1> QED  BY <1>1, <1>2, <1>3, <1>5

LEMMA RemoteGetStep ==
  ASSUME CacheInv, NEW t \in Tasks, RemoteGet(t)
  PROVE  CacheInv'
<1> DEFINE k == task[t].key
           found == remote[k].value
<1>1. k \in Keys /\ found \in Versions /\ task[t].since <= floor[k] /\ NoValue \in Versions
  BY DEF CacheInv, CacheTypeOK, NothingNewer, Task, Entry, HasKey, At, RemoteGet, Versions, NoValue
<1>2. CASE Ends(t)
  BY <1>1, <1>2 DEF CacheInv, CacheTypeOK, NothingNewer, RemoteFresh, HoldersFresh,
         Versions, Task, Steps, NoValue, HasKey, Writer, At, RemoteGet, Ends, Rest,
         Answered, LosesAnswer
<1>3. CASE Goes(t, "computing", NoValue)
  <2>1. "computing" \in Steps /\ CacheTypeOK
    BY DEF Steps, CacheInv
  <2> QED  BY ONLY CacheInv, RemoteGet(t), <1>1, <1>3, <2>1, GoesOn, CacheAssumption
           DEF CacheInv, CacheTypeOK, NothingNewer, RemoteFresh, HoldersFresh,
         Versions, Entry, NoValue, HasKey, Writer, At,
               RemoteGet, Answered, LosesAnswer
<1>4. CASE found # NoValue /\ Goes(t, "reply", found)
  <2>1. "reply" \in Steps /\ CacheTypeOK
    BY DEF Steps, CacheInv
  <2> HIDE DEF found
  <2>2. /\ task' \in [Tasks -> Task]
        /\ \A u \in Tasks : u # t => task'[u] = task[u]
        /\ task'[t].key = k /\ task'[t].since = task[t].since
        /\ task'[t].at = "reply" /\ task'[t].holds = found
    BY <1>1, <1>4, <2>1, GoesOn
  <2>3. k \notin raced => found >= task[t].since
    <3>1. k \notin raced => found >= floor[k]
      BY <1>1, <1>4 DEF CacheInv, RemoteFresh, found
    <3> QED  BY <3>1, <1>1 DEF CacheInv, CacheTypeOK, Versions, Task
  <2> QED  BY <1>1, <2>2, <2>3 DEF CacheInv, CacheTypeOK, NothingNewer, RemoteFresh, HoldersFresh,
         Versions, Entry, NoValue, HasKey, Writer, At, RemoteGet, Answered, LosesAnswer
<1> QED  BY <1>2, <1>3, <1>4 DEF RemoteGet, Misses

LEMMA UpdateStep ==
  ASSUME CacheInv, NEW k \in Keys, Update(k)
  PROVE  CacheInv'
  BY DEF CacheInv, CacheTypeOK, NothingNewer, RemoteFresh, HoldersFresh,
         Versions, Entry, Task, Steps, NoValue, HasKey, Writer, At,
         Update

LEMMA ServedStep ==
  ASSUME CacheInv, NEW t \in Tasks, Served(t)
  PROVE  CacheInv'
  BY DEF CacheInv, CacheTypeOK, NothingNewer, RemoteFresh, HoldersFresh,
         Versions, Entry, Task, Steps, NoValue, HasKey, Writer, At,
         Served, Ends, Rest

LEMMA ComputeStep ==
  ASSUME CacheInv, NEW t \in Tasks, Compute(t)
  PROVE  CacheInv'
<1> DEFINE k == task[t].key
<1>1. k \in Keys /\ version[k] \in Versions /\ floor[k] <= version[k] /\ "storing" \in Steps
  BY DEF CacheInv, CacheTypeOK, NothingNewer, Task, Steps, HasKey, Writer, At, Compute
<1>2. /\ task' \in [Tasks -> Task]
      /\ \A u \in Tasks : u # t => task'[u] = task[u]
      /\ task'[t].key = k /\ task'[t].since = task[t].since
      /\ task'[t].at = "storing" /\ task'[t].holds = version[k]
  BY <1>1, GoesOn DEF CacheInv, Compute
<1> QED  BY <1>1, <1>2 DEF CacheInv, CacheTypeOK, NothingNewer, RemoteFresh, HoldersFresh,
         Versions, Entry, NoValue, HasKey, Writer, At, Compute

LEMMA CallbackFailsStep ==
  ASSUME CacheInv, NEW t \in Tasks, CallbackFails(t)
  PROVE  CacheInv'
  BY DEF CacheInv, CacheTypeOK, NothingNewer, RemoteFresh, HoldersFresh,
         Versions, Entry, Task, Steps, NoValue, HasKey, Writer, At,
         CallbackFails, Ends, Rest

LEMMA StoreStep ==
  ASSUME CacheInv, NEW t \in Tasks, Store(t)
  PROVE  CacheInv'
<1> DEFINE k == task[t].key
           v == task[t].holds
<1>1. k \in Keys /\ v \in Versions /\ "writing" \in Steps /\ At(t, "storing")
  BY DEF CacheInv, CacheTypeOK, NothingNewer, Task, Steps, HasKey, At, Store
<1>2. /\ task' \in [Tasks -> Task]
      /\ \A u \in Tasks : u # t => task'[u] = task[u]
      /\ task'[t].key = k /\ task'[t].since = task[t].since
      /\ task'[t].at = "writing" /\ task'[t].holds = v
  BY <1>1, GoesOn DEF CacheInv, Store
<1> HIDE DEF k, v
<1>3. k = task[t].key /\ v = task[t].holds /\ memory' = [memory EXCEPT ![k] = v]
      /\ UNCHANGED <<version, remote, errors, floor, raced>>
  BY DEF k, v, Store
<1> QED  BY <1>1, <1>2, <1>3 DEF CacheInv, CacheTypeOK, NothingNewer, RemoteFresh, HoldersFresh,
         Versions, Entry, NoValue, HasKey, Writer, At

LEMMA SetStep ==
  ASSUME CacheInv, NEW t \in Tasks, NEW k \in Keys, Set(t, k)
  PROVE  CacheInv'
  BY DEF CacheInv, CacheTypeOK, NothingNewer, RemoteFresh, HoldersFresh,
         Versions, Entry, Task, Steps, NoValue, HasKey, Writer, At,
         Set, Idle, Starts

LEMMA RemoteSetStep ==
  ASSUME CacheInv, NEW t \in Tasks, RemoteSet(t)
  PROVE  CacheInv'
<1> DEFINE k == task[t].key
           new == [value |-> task[t].holds, life |-> Ttl]
<1>1. k \in Keys /\ new \in Entry /\ (k \notin raced => new.value >= floor[k])
  BY DEF CacheInv, CacheTypeOK, NothingNewer, HoldersFresh, Task, Entry, HasKey, Writer, At,
         RemoteSet
<1>2. /\ remote' \in [Keys -> Entry]
      /\ \A j \in Keys : remote'[j] = remote[j] \/ (j = k /\ remote'[j] = new)
  BY <1>1 DEF CacheInv, CacheTypeOK, RemoteSet
<1>3. /\ task' = [task EXCEPT ![t] = Rest]
      /\ errors' \in 0..MaxErrors
      /\ UNCHANGED <<version, memory, floor, raced>>
  BY DEF CacheInv, CacheTypeOK, RemoteSet, Ends, Answered, LosesAnswer
<1> HIDE DEF new
<1>4. CacheTypeOK' /\ NothingNewer'
  BY <1>2, <1>3 DEF CacheInv, CacheTypeOK, NothingNewer, Task, Rest, Steps, Versions, NoValue,
                    HasKey, Writer, At
<1>5. RemoteFresh'
  BY <1>1, <1>2, <1>3 DEF CacheInv, RemoteFresh
<1>6. HoldersFresh'
  BY <1>3 DEF CacheInv, CacheTypeOK, HoldersFresh, Rest, Writer, At
<1> QED  BY <1>4, <1>5, <1>6 DEF CacheInv

LEMMA DeleteStep ==
  ASSUME CacheInv, NEW t \in Tasks, NEW k \in Keys, Delete(t, k)
  PROVE  CacheInv'
  BY DEF CacheInv, CacheTypeOK, NothingNewer, RemoteFresh, HoldersFresh,
         Versions, Entry, Task, Steps, NoValue, HasKey, Writer, At,
         Delete, Idle, Starts

LEMMA ClearStep ==
  ASSUME CacheInv, NEW t \in Tasks, Clear(t)
  PROVE  CacheInv'
  BY DEF CacheInv, CacheTypeOK, NothingNewer, RemoteFresh, HoldersFresh,
         Versions, Entry, Task, Steps, NoValue, HasKey, Writer, At,
         Clear, Idle, Starts

LEMMA RemoteClearStep ==
  ASSUME CacheInv, NEW t \in Tasks, RemoteClear(t)
  PROVE  CacheInv'
  BY DEF CacheInv, CacheTypeOK, NothingNewer, RemoteFresh, HoldersFresh,
         Versions, Entry, Task, Steps, NoValue, HasKey, Writer, At,
         RemoteClear, Ends, Rest, Gone, Answered, LosesAnswer

LEMMA MemoryExpiresStep ==
  ASSUME CacheInv, NEW k \in Keys, MemoryExpires(k)
  PROVE  CacheInv'
  BY DEF CacheInv, CacheTypeOK, NothingNewer, RemoteFresh, HoldersFresh,
         Versions, Entry, Task, Steps, NoValue, HasKey, Writer, At,
         MemoryExpires

LEMMA TickStep ==
  ASSUME CacheInv, Tick
  PROVE  CacheInv'
  BY DEF CacheInv, CacheTypeOK, NothingNewer, RemoteFresh, HoldersFresh,
         Versions, Entry, Task, Steps, NoValue, HasKey, Writer, At,
         Tick, Gone

(* What delete does to the floor and to raced is the heart of the proof:   *)
(* it takes its key out of raced only when nobody else is at work on it.   *)
LEMMA RemoteDelStep ==
  ASSUME CacheInv, NEW t \in Tasks, RemoteDel(t)
  PROVE  CacheInv'
<1> DEFINE k == task[t].key
           v == task[t].holds
<1>1. k \in Keys /\ v \in Versions /\ v <= version[k]
  BY DEF CacheInv, CacheTypeOK, NothingNewer, Task, HasKey, Writer, At, RemoteDel
<1>2. CacheTypeOK'
  <2>1. remote' \in [Keys -> Entry] /\ errors' \in 0..MaxErrors /\ raced' \subseteq Keys
    BY <1>1 DEF CacheInv, CacheTypeOK, RemoteDel, Answered, LosesAnswer, Gone, Entry,
               Versions, NoValue
  <2>2. task' \in [Tasks -> Task] /\ floor' \in [Keys -> Versions]
    BY <1>1 DEF CacheInv, CacheTypeOK, RemoteDel, Ends, Rest, Task, Steps, Versions, NoValue
  <2> QED  BY <2>1, <2>2 DEF CacheInv, CacheTypeOK, RemoteDel
<1>3. /\ \A u \in Tasks : u # t => task'[u] = task[u]
      /\ task'[t] = Rest
      /\ \A j \in Keys : j # k => floor'[j] = floor[j] /\ remote'[j] = remote[j]
                              /\ (j \in raced' <=> j \in raced)
      /\ floor'[k] = (IF floor[k] < v THEN v ELSE floor[k])
      /\ floor[k] <= floor'[k]
      /\ version' = version
  BY <1>1 DEF CacheInv, CacheTypeOK, RemoteDel, Ends, Versions, Task
<1>4. k \notin raced' =>
        /\ remote'[k] = Gone
        /\ ~OlderWriter(k, v)
        /\ k \notin raced \/ Alone(t)
  BY <1>1 DEF CacheInv, CacheTypeOK, RemoteDel
<1>5. NothingNewer'
  BY <1>1, <1>3 DEF CacheInv, CacheTypeOK, NothingNewer, HasKey, Writer, At, Rest, Task, Versions
<1>6. RemoteFresh'
  BY <1>1, <1>3, <1>4 DEF CacheInv, RemoteFresh, Gone
<1>7. HoldersFresh'
  <2> SUFFICES ASSUME NEW u \in Tasks, task'[u].key \notin raced'
               PROVE  /\ Writer(u)' => task'[u].holds >= floor'[task'[u].key]
                      /\ At(u, "reply")' => task'[u].holds >= task'[u].since
    BY DEF HoldersFresh
  <2>1. CASE u = t
    BY <2>1, <1>3 DEF Rest, Writer, At
  <2>2. CASE u # t /\ task[u].key # k
    BY <2>2, <1>1, <1>3 DEF CacheInv, CacheTypeOK, NothingNewer, HoldersFresh, HasKey, Writer,
                          At, Task, Versions
  <2>3. CASE u # t /\ task[u].key = k
    <3>1. k \notin raced
      BY <2>3, <1>3, <1>4 DEF Alone
    <3>2. ~(Writer(u) /\ task[u].holds < v)
      BY <2>3, <1>3, <1>4 DEF OlderWriter
    <3>3. task[u].holds \in Int /\ floor[k] \in Int /\ v \in Int
      BY <1>1 DEF CacheInv, CacheTypeOK, Task, Versions
    <3> QED  BY <3>1, <3>2, <3>3, <2>3, <1>3 DEF CacheInv, HoldersFresh, Writer, At
  <2> QED  BY <2>1, <2>2, <2>3
<1> QED  BY <1>2, <1>5, <1>6, <1>7 DEF CacheInv

LEMMA CacheStep == CacheInv /\ [CacheNext]_cacheVars => CacheInv'
<1> SUFFICES ASSUME CacheInv, [CacheNext]_cacheVars PROVE CacheInv'
  OBVIOUS
<1>1. CASE UNCHANGED cacheVars
  BY <1>1 DEF cacheVars, CacheInv, CacheTypeOK, NothingNewer, RemoteFresh, HoldersFresh,
         Versions, Entry, Task, Steps, NoValue, HasKey, Writer, At
<1>2. ASSUME NEW t \in Tasks, NEW k \in Keys,
             \/ \E op \in {"get", "getOrSet"} : Get(t, op, k)
             \/ Set(t, k)
             \/ Delete(t, k)
      PROVE  CacheInv'
  BY <1>2, GetStep, SetStep, DeleteStep
<1>3. ASSUME NEW t \in Tasks, Proceed(t) PROVE CacheInv'
  BY <1>3, RemoteGetStep, ServedStep, ComputeStep, CallbackFailsStep, StoreStep,
     RemoteSetStep, RemoteDelStep, RemoteClearStep DEF Proceed
<1>4. ASSUME NEW t \in Tasks, Clear(t) PROVE CacheInv'
  BY <1>4, ClearStep
<1>5. ASSUME NEW k \in Keys, Update(k) \/ MemoryExpires(k) PROVE CacheInv'
  BY <1>5, UpdateStep, MemoryExpiresStep
<1>6. CASE Tick
  BY <1>6, TickStep
<1> QED  BY <1>1, <1>2, <1>3, <1>4, <1>5, <1>6 DEF CacheNext

-----------------------------------------------------------------------------
(* CacheService.delete: for any number of calls, keys, versions and lost   *)
(* answers, what it removed neither stays in Redis nor is about to be      *)
(* written, but for the keys in raced.                                     *)
THEOREM CacheCorrect == CacheSpec => []CacheInv
<1>1. CacheInit => CacheInv
  BY CacheInitCorrect
<1>2. CacheInv /\ [CacheNext]_cacheVars => CacheInv'
  BY CacheStep
<1> QED  BY <1>1, <1>2, PTL DEF CacheSpec

(* CacheService.get and getOrSet: a step that hands a value to the caller  *)
(* hands none that a delete removed which had returned before the call.    *)
THEOREM FreshServed == CacheSpec => ServedFresh
<1> DEFINE Fresh == \A t \in Tasks :
       At(t, "reply") /\ task'[t].at = "idle" /\ task[t].key \notin raced =>
         task[t].holds >= task[t].since
<1>1. CacheInv => Fresh
  BY DEF CacheInv, HoldersFresh
<1>2. CacheInv /\ [CacheNext]_cacheVars => [Fresh]_cacheVars
  BY <1>1
<1> QED  BY <1>2, CacheCorrect, PTL DEF CacheSpec, ServedFresh

(***************************************************************************)
(* Then MemoryCache beside RedisClient.  PairInv is inductive: its strings *)
(* do not depend on its structures, and the structures only need that a    *)
(* cache that is down has begun to shut down.  The hard parts are zPopMin, *)
(* which one implements by sorting scores and the other by ranking members,*)
(* and what the sorted sets answer: both follow from counting what comes   *)
(* before a member, which a bijection that keeps the order does not change.*)
(***************************************************************************)
HIDE CacheAssumption

(***************************************************************************)
(* Sequences in an order.  before[x] is the set of those before x.         *)
(***************************************************************************)
IsOrder(before) ==
  /\ before \in [DOMAIN before -> SUBSET DOMAIN before]
  /\ \A x \in DOMAIN before : x \notin before[x]
  /\ \A x, y \in DOMAIN before : x \in before[y] => before[x] \subseteq before[y]
  /\ \A x, y \in DOMAIN before : x = y \/ x \in before[y] \/ y \in before[x]

(* To count those before is to number the members from 0 *)
LEMMA Ranks ==
  ASSUME NEW b, IsOrder(b), IsFiniteSet(DOMAIN b)
  PROVE  /\ Cardinality(DOMAIN b) \in Nat
         /\ \A x \in DOMAIN b : Cardinality(b[x]) \in 0..(Cardinality(DOMAIN b) - 1)
         /\ \A x, y \in DOMAIN b : Cardinality(b[x]) = Cardinality(b[y]) => x = y
         /\ \A i \in 1..Cardinality(DOMAIN b) : \E x \in DOMAIN b : Cardinality(b[x]) = i - 1
<1> DEFINE S == DOMAIN b
           n == Cardinality(S)
           rank == [x \in S |-> Cardinality(b[x])]
<1>1. n \in Nat
  BY FS_CardinalityType
<1>2. ASSUME NEW x \in S
      PROVE  IsFiniteSet(b[x]) /\ Cardinality(b[x]) \in 0..(n - 1)
  <2>1. b[x] \in SUBSET S /\ b[x] # S
    BY DEF IsOrder
  <2>2. IsFiniteSet(b[x]) /\ Cardinality(b[x]) <= n /\ Cardinality(b[x]) # n
    BY <2>1, FS_Subset
  <2>3. Cardinality(b[x]) \in Nat
    BY <2>2, FS_CardinalityType
  <2> QED  BY <1>1, <2>2, <2>3
<1>3. ASSUME NEW x \in S, NEW y \in S, x \in b[y]
      PROVE  Cardinality(b[x]) # Cardinality(b[y])
  <2>1. b[x] \in SUBSET b[y] /\ b[x] # b[y]
    BY <1>3 DEF IsOrder
  <2> QED  BY <1>2, <2>1, FS_Subset
<1>4. \A x, y \in S : Cardinality(b[x]) = Cardinality(b[y]) => x = y
  BY <1>3 DEF IsOrder
<1>5. rank \in Injection(S, 0..(n - 1))
  BY <1>2, <1>4 DEF Injection, IsInjective
<1>6. IsFiniteSet(0..(n - 1)) /\ Cardinality(0..(n - 1)) = n
  BY <1>1, FS_Interval
<1>7. rank \in Surjection(S, 0..(n - 1))
  BY <1>5, <1>6, FS_Injection
<1>8. ASSUME NEW i \in 1..n PROVE \E x \in S : Cardinality(b[x]) = i - 1
  <2>1. i - 1 \in 0..(n - 1)
    BY <1>1
  <2> QED  BY <1>7, <2>1 DEF Surjection
<1> QED  BY <1>1, <1>2, <1>4, <1>8

LEMMA Ordered ==
  ASSUME NEW b, IsOrder(b), IsFiniteSet(DOMAIN b)
  PROVE  /\ Cardinality(DOMAIN b) \in Nat
         /\ InOrder(b) \in Seq(DOMAIN b)
         /\ Len(InOrder(b)) = Cardinality(DOMAIN b)
         /\ \A i \in 1..Cardinality(DOMAIN b) :
              InOrder(b)[i] \in DOMAIN b /\ Cardinality(b[InOrder(b)[i]]) = i - 1
         /\ \A x \in DOMAIN b : Cardinality(b[x]) + 1 \in 1..Cardinality(DOMAIN b)
                             /\ InOrder(b)[Cardinality(b[x]) + 1] = x
<1> DEFINE n == Cardinality(DOMAIN b)
           ith(i) == CHOOSE x \in DOMAIN b : Cardinality(b[x]) = i - 1
<1>1. n \in Nat /\ \A i \in 1..n : ith(i) \in DOMAIN b /\ Cardinality(b[ith(i)]) = i - 1
  BY Ranks
<1>2. InOrder(b) = [i \in 1..n |-> ith(i)]
  BY DEF InOrder
<1> HIDE DEF ith
<1>3. InOrder(b) \in [1..n -> DOMAIN b]
  BY <1>1, <1>2
<1>4. InOrder(b) \in Seq(DOMAIN b)
  BY <1>1, <1>3, SeqDef
<1>5. Len(InOrder(b)) = n
  BY <1>1, <1>2, <1>4, LenProperties
<1>6. ASSUME NEW x \in DOMAIN b
      PROVE  Cardinality(b[x]) + 1 \in 1..n /\ InOrder(b)[Cardinality(b[x]) + 1] = x
  <2>1. Cardinality(b[x]) \in 0..(n - 1)
    BY Ranks
  <2>2. Cardinality(b[x]) + 1 \in 1..n /\ Cardinality(b[x]) + 1 - 1 = Cardinality(b[x])
    BY <1>1, <2>1
  <2> QED  BY <1>1, <1>2, <2>2, Ranks
<1> QED  BY <1>1, <1>2, <1>4, <1>5, <1>6

KeepsOrder(g, b, c) ==
  /\ IsOrder(b) /\ IsFiniteSet(DOMAIN b)
  /\ c \in [DOMAIN c -> SUBSET DOMAIN c]
  /\ g \in Bijection(DOMAIN b, DOMAIN c)
  /\ \A x, y \in DOMAIN b : y \in b[x] <=> g[y] \in c[g[x]]

Follows(g, b, c) ==
  /\ IsOrder(c) /\ IsFiniteSet(DOMAIN c)
  /\ Cardinality(DOMAIN c) = Cardinality(DOMAIN b)
  /\ \A x \in DOMAIN b : Cardinality(c[g[x]]) = Cardinality(b[x])
  /\ \A i \in 1..Cardinality(DOMAIN b) : InOrder(c)[i] = g[InOrder(b)[i]]

(* A bijection that keeps the order takes the one sequence to the other    *)
LEMMA Carried ==
  ASSUME NEW b, NEW c, NEW g, KeepsOrder(g, b, c)
  PROVE  Follows(g, b, c)
<1> USE DEF KeepsOrder
<1>1. /\ g \in [DOMAIN b -> DOMAIN c]
      /\ \A x, y \in DOMAIN b : g[x] = g[y] => x = y
      /\ \A z \in DOMAIN c : \E x \in DOMAIN b : g[x] = z
  BY DEF Bijection, Injection, Surjection, IsInjective
<1>2. IsOrder(c)
  <2>1. \A z \in DOMAIN c : z \notin c[z]
    BY <1>1 DEF IsOrder
  <2>2. \A w, z \in DOMAIN c : w = z \/ w \in c[z] \/ z \in c[w]
    BY <1>1 DEF IsOrder
  <2>3. ASSUME NEW w \in DOMAIN c, NEW z \in DOMAIN c, w \in c[z], NEW v \in c[w]
        PROVE  v \in c[z]
    <3>1. PICK x \in DOMAIN b : g[x] = z
      BY <1>1
    <3>2. PICK y \in DOMAIN b : g[y] = w
      BY <1>1
    <3>3. PICK u \in DOMAIN b : g[u] = v
      BY <1>1, <2>3
    <3>4. y \in b[x] /\ u \in b[y]
      BY <2>3, <3>1, <3>2, <3>3
    <3>5. u \in b[x]
      BY <3>4 DEF IsOrder
    <3> QED  BY <3>1, <3>3, <3>5
  <2> QED  BY <2>1, <2>2, <2>3 DEF IsOrder
<1>3. IsFiniteSet(DOMAIN c) /\ Cardinality(DOMAIN c) = Cardinality(DOMAIN b)
  BY FS_Bijection DEF ExistsBijection
<1>4. ASSUME NEW x \in DOMAIN b PROVE Cardinality(c[g[x]]) = Cardinality(b[x])
  <2> DEFINE part == [y \in b[x] |-> g[y]]
  <2>1. b[x] \in SUBSET DOMAIN b /\ c[g[x]] \in SUBSET DOMAIN c
    BY <1>1 DEF IsOrder
  <2>2. part \in Bijection(b[x], c[g[x]])
    <3>1. part \in [b[x] -> c[g[x]]]
      BY <2>1
    <3>2. \A y, z \in b[x] : part[y] = part[z] => y = z
      BY <1>1, <2>1
    <3>3. \A w \in c[g[x]] : \E y \in b[x] : part[y] = w
      BY <1>1, <2>1
    <3> QED  BY <3>1, <3>2, <3>3 DEF Bijection, Injection, Surjection, IsInjective
  <2>3. IsFiniteSet(b[x])
    BY <2>1, FS_Subset
  <2> QED  BY <2>2, <2>3, FS_Bijection DEF ExistsBijection
<1>5. ASSUME NEW i \in 1..Cardinality(DOMAIN b) PROVE InOrder(c)[i] = g[InOrder(b)[i]]
  <2> DEFINE x == InOrder(b)[i]
             z == InOrder(c)[i]
  <2>1. x \in DOMAIN b /\ Cardinality(b[x]) = i - 1
    BY Ordered
  <2>2. z \in DOMAIN c /\ Cardinality(c[z]) = i - 1
    BY <1>2, <1>3, Ordered
  <2>3. g[x] \in DOMAIN c /\ Cardinality(c[g[x]]) = Cardinality(c[z])
    BY <1>1, <1>4, <2>1, <2>2
  <2> QED  BY <1>2, <1>3, <2>2, <2>3, Ranks
<1> QED  BY <1>2, <1>3, <1>4, <1>5 DEF Follows

USE PairAssumption

LEMMA SameCardinality ==
  \A S : Mem!Cardinality(S) = Cardinality(S) /\ Red!Cardinality(S) = Cardinality(S)
  BY DEF Mem!Cardinality, Red!Cardinality, Cardinality

LEMMA SameOrder == \A b : Mem!InOrder(b) = InOrder(b) /\ Red!InOrder(b) = InOrder(b)
  BY SameCardinality DEF Mem!InOrder, Red!InOrder, InOrder

LEMMA PairInitCorrect ==
  ASSUME PairInit
  PROVE  PairInv
<1> USE DEF PairInit, Mem!MemoryInit, Red!RedisInit, Mem!Nothing, Red!Nothing
<1>1. StringsInv
  BY DEF StringsInv, StringsTyped, FlagsTyped, TtlBounded, StringsForgotten, SameStrings,
         Mem!Has, Red!Has
<1>2. StructuresTyped
  BY FS_EmptySet DEF StructuresTyped, Numbered
<1>3. StructuresForgotten
  BY DEF StructuresForgotten
<1>4. Mapped /\ \A k \in SortedKeys \ clashed : Mirrored(k)
  BY DEF Mapped, Mirrored, Mem!FieldsOf, Mem!HasMap
<1> QED  BY <1>1, <1>2, <1>3, <1>4 DEF PairInv, StructuresInv

LEMMA BothSetStep ==
  ASSUME StringsInv, NEW k \in StringKeys, NEW v \in 1..MaxValue, NEW t \in Ttls \cup {NoTtl},
         BothSet(k, v, t)
  PROVE  StringsInv'
<1> DEFINE life == IF t = NoTtl THEN Red!Never ELSE Second * t
           entry == [value |-> v, life |-> Mem!Seconds(t)]
           stored == [value |-> v, life |-> life]
<1>1. entry \in Held /\ stored \in Held /\ Mem!Seconds(t) \in Nat /\ (t # NoTtl => entry = stored)
  BY DEF Held, Mem!Seconds, Red!Never
<1>2. UNCHANGED <<isShuttingDown, shutdownBegun, shuttingDown>>
  BY DEF BothSet, Mem!Set, Red!Set, Red!Sent, Mem!flags
<1>3. \/ isShuttingDown /\ UNCHANGED <<cache, ttls, cleared>>
      \/ /\ ~isShuttingDown
         /\ cache' = [j \in {k} \cup DOMAIN cache |-> IF j \in {k} THEN entry ELSE cache[j]]
         /\ ttls' = [j \in {k} \cup DOMAIN ttls |-> IF j \in {k} THEN Mem!Seconds(t) ELSE ttls[j]]
         /\ cleared' = cleared \ {k}
  BY DEF BothSet, Mem!Set, Mem!Guarded, Mem!strings, Mem!Over
<1>4. \/ shuttingDown /\ UNCHANGED strings
      \/ /\ ~shuttingDown
         /\ strings' = [j \in {k} \cup DOMAIN strings |-> IF j \in {k} THEN stored ELSE strings[j]]
  BY DEF BothSet, Red!Set, Red!Sent, Red!data, Red!Over
<1>5. apart' = IF t = NoTtl THEN apart \cup {k} ELSE apart \ {k}
  BY DEF BothSet
<1> HIDE DEF entry, stored
<1>6. StringsTyped'
  BY <1>1, <1>3, <1>4 DEF StringsInv, StringsTyped, Mem!Past
<1>7. FlagsTyped'
  BY <1>2 DEF StringsInv, FlagsTyped
<1>8. TtlBounded'
  <2>1. entry.life = Mem!Seconds(t)
    BY DEF entry
  <2> QED  BY <1>1, <1>3, <2>1 DEF StringsInv, TtlBounded, DeadlineKept, Mem!Has
<1>9. StringsForgotten'
  BY <1>2, <1>3 DEF StringsInv, StringsForgotten
<1>10. (Up => SameStrings)'
  BY <1>1, <1>2, <1>3, <1>4, <1>5 DEF StringsInv, FlagsTyped, Up, SameStrings, Mem!Has, Red!Has
<1> QED  BY <1>6, <1>7, <1>8, <1>9, <1>10 DEF StringsInv

LEMMA BothGetStep ==
  ASSUME StringsInv, NEW k \in StringKeys, BothGet(k)
  PROVE  StringsInv'
<1>1. UNCHANGED <<isShuttingDown, shutdownBegun, shuttingDown, cache, strings, apart>>
  BY DEF BothGet, Mem!Get, Mem!Guarded, Mem!strings, Mem!flags, redisVars, histories
<1>2. \/ UNCHANGED <<ttls, cleared>>
      \/ /\ ttls' = [j \in DOMAIN ttls \ ({k} \ DOMAIN cache) |-> ttls[j]]
         /\ cleared' = cleared \ ({k} \ DOMAIN cache)
  BY DEF BothGet, Mem!Get, Mem!Guarded, Mem!strings, Mem!Without
<1> QED  BY <1>1, <1>2 DEF StringsInv, StringsTyped, FlagsTyped, TtlBounded, DeadlineKept,
                StringsForgotten, Up, SameStrings, Mem!Has, Red!Has

LEMMA BothGetTtlStep ==
  ASSUME StringsInv, NEW k \in StringKeys, BothGetTtl(k)
  PROVE  StringsInv'
<1> DEFINE past == {j \in {k} \cap DOMAIN ttls : ttls[j] = Mem!Past}
<1>1. UNCHANGED <<isShuttingDown, shutdownBegun, shuttingDown, cache, strings, apart>>
  BY DEF BothGetTtl, Mem!GetTtl, Mem!Guarded, Mem!strings, Mem!flags, redisVars, histories
<1>2. \/ UNCHANGED <<ttls, cleared>>
      \/ /\ ttls' = [j \in DOMAIN ttls \ past |-> ttls[j]]
         /\ cleared' = cleared \ past
  BY DEF BothGetTtl, Mem!GetTtl, Mem!Guarded, Mem!strings, Mem!Without
<1> HIDE DEF past
<1> QED  BY <1>1, <1>2 DEF StringsInv, StringsTyped, FlagsTyped, TtlBounded, DeadlineKept,
                StringsForgotten, Up, SameStrings, Mem!Has, Red!Has

(* What setting a life or a value of an entry makes of it *)
LEMMA Lives ==
  ASSUME NEW e \in Held, NEW n \in Nat
  PROVE  /\ [e EXCEPT !.life = n] \in Held
         /\ [e EXCEPT !.life = n].life = n
  BY DEF Held

LEMMA BothSetTtlStep ==
  ASSUME StringsInv, NEW k \in StringKeys, NEW t \in Ttls, BothSetTtl(k, t)
  PROVE  StringsInv'
<1> DEFINE live == {j \in {k} : Mem!Truthy(j)}
           life == Second * t
<1>1. life \in Nat /\ t \in Nat /\ t <= life
  <2>1. \A m, n \in Nat \ {0} : m * n \in Nat /\ n <= m * n
    OBVIOUS
  <2> QED  BY <2>1
<1> HIDE DEF life
<1>2. UNCHANGED <<isShuttingDown, shutdownBegun, shuttingDown>>
  BY DEF BothSetTtl, Mem!SetTtl, Red!SetTtl, Red!Sent, Mem!flags
<1>3. \/ isShuttingDown /\ UNCHANGED <<cache, ttls, cleared>>
      \/ /\ ~isShuttingDown
         /\ cache' = [j \in live \cup DOMAIN cache |->
                        IF j \in live THEN [cache[j] EXCEPT !.life = life] ELSE cache[j]]
         /\ ttls' = [j \in live \cup DOMAIN ttls |-> IF j \in live THEN t ELSE ttls[j]]
         /\ cleared' = cleared \ live
  BY DEF BothSetTtl, Mem!SetTtl, Mem!Guarded, Mem!strings, Mem!Over, life
<1>4. \/ shuttingDown /\ UNCHANGED strings
      \/ /\ ~shuttingDown
         /\ strings' = [j \in DOMAIN strings |->
                          IF j \in {k} THEN [strings[j] EXCEPT !.life = life] ELSE strings[j]]
  BY DEF BothSetTtl, Red!SetTtl, Red!Sent, Red!data, life
<1>5. apart' = IF k \in DOMAIN cache /\ k \notin live THEN apart \cup {k} ELSE apart
  BY DEF BothSetTtl, Mem!Truthy, Mem!Has
<1>6. live \subseteq {k} \cap DOMAIN cache
  BY DEF Mem!Truthy, Mem!Has
<1> HIDE DEF live
<1>7. StringsTyped'
  BY <1>1, <1>3, <1>4, <1>6, Lives DEF StringsInv, StringsTyped, Mem!Past
<1>8. FlagsTyped' /\ StringsForgotten'
  BY <1>2, <1>3, <1>6 DEF StringsInv, FlagsTyped, StringsForgotten
<1>9. TtlBounded'
  <2>1. \A j \in live : cache[j] \in Held
    BY <1>6 DEF StringsInv, StringsTyped
  <2>2. \A j \in live : [cache[j] EXCEPT !.life = life].life = life
    BY <2>1, <1>1, Lives
  <2> QED  BY <1>1, <1>3, <1>6, <2>2 DEF StringsInv, TtlBounded, DeadlineKept, Mem!Has
<1>10. (Up => SameStrings)'
  BY <1>1, <1>2, <1>3, <1>4, <1>5, <1>6
     DEF StringsInv, FlagsTyped, Up, SameStrings, Mem!Has, Red!Has
<1> QED  BY <1>7, <1>8, <1>9, <1>10 DEF StringsInv

LEMMA BothIncrByStep ==
  ASSUME StringsInv, NEW k \in StringKeys, NEW n \in Int, BothIncrBy(k, n)
  PROVE  StringsInv'
<1> DEFINE entry == [value |-> Mem!Incremented(k, n), life |-> Mem!Never]
           stored == Red!Incremented(k, n)
<1>1. entry \in Held /\ stored \in Held
  <2>1. Mem!Incremented(k, n) \in Int /\ stored.value \in Int
    BY DEF StringsInv, StringsTyped, Held, Mem!Incremented, Red!Incremented, Mem!Has, Red!Has
  <2>2. stored \in [value : Int, life : Nat]
    BY DEF StringsInv, StringsTyped, Held, Red!Incremented, Red!Has, Red!Never
  <2> QED  BY <2>1, <2>2 DEF BothIncrBy, Held, Mem!Never
<1>2. UNCHANGED <<isShuttingDown, shutdownBegun, shuttingDown>>
  BY DEF BothIncrBy, Mem!IncrBy, Red!IncrBy, Red!Sent, Mem!flags
<1>3. \/ isShuttingDown /\ UNCHANGED <<cache, ttls, cleared>>
      \/ /\ ~isShuttingDown
         /\ cache' = [j \in {k} \cup DOMAIN cache |-> IF j \in {k} THEN entry ELSE cache[j]]
         /\ UNCHANGED <<ttls, cleared>>
  BY DEF BothIncrBy, Mem!IncrBy, Mem!Guarded, Mem!strings, Mem!Over
<1>4. \/ shuttingDown /\ UNCHANGED strings
      \/ /\ ~shuttingDown
         /\ strings' = [j \in {k} \cup DOMAIN strings |-> IF j \in {k} THEN stored ELSE strings[j]]
  BY DEF BothIncrBy, Red!IncrBy, Red!Sent, Red!data, Red!Over
<1>5. apart' = IF Red!Has(k) /\ strings[k].life # Red!Never THEN apart \cup {k} ELSE apart
  BY DEF BothIncrBy
<1>6. Up /\ k \notin apart' => entry = stored
  BY <1>5 DEF StringsInv, SameStrings, StringsTyped, Held, Mem!Incremented, Red!Incremented,
              Mem!Has, Red!Has, Mem!Never, Red!Never
<1>7. entry.life = Mem!Never
  OBVIOUS
<1> HIDE DEF entry, stored
<1>8. StringsTyped'
  BY <1>1, <1>3, <1>4 DEF StringsInv, StringsTyped, Mem!Past
<1>9. FlagsTyped' /\ StringsForgotten'
  BY <1>2, <1>3 DEF StringsInv, FlagsTyped, StringsForgotten
<1>10. TtlBounded'
  BY <1>3, <1>7 DEF StringsInv, TtlBounded, DeadlineKept, Mem!Has
<1>11. (Up => SameStrings)'
  BY <1>2, <1>3, <1>4, <1>5, <1>6 DEF StringsInv, FlagsTyped, Up, SameStrings, Mem!Has, Red!Has
<1> QED  BY <1>8, <1>9, <1>10, <1>11 DEF StringsInv

LEMMA BothDelStep ==
  ASSUME StringsInv, NEW K, BothDel(K)
  PROVE  StringsInv'
<1>1. UNCHANGED <<isShuttingDown, shutdownBegun, shuttingDown>> /\ apart' = apart \ K
  BY DEF BothDel, Mem!Del, Red!Del, Red!Sent, Mem!flags
<1>2. \/ isShuttingDown /\ UNCHANGED <<cache, ttls, cleared>>
      \/ /\ ~isShuttingDown
         /\ cache' = [j \in DOMAIN cache \ K |-> cache[j]]
         /\ ttls' = [j \in DOMAIN ttls \ K |-> ttls[j]]
         /\ cleared' = cleared \ K
  BY DEF BothDel, Mem!Del, Mem!strings, Mem!Without
<1>3. \/ shuttingDown /\ UNCHANGED strings
      \/ ~shuttingDown /\ strings' = [j \in DOMAIN strings \ K |-> strings[j]]
  BY DEF BothDel, Red!Del, Red!Sent, Red!data, Red!Without
<1>4. StringsTyped' /\ FlagsTyped' /\ StringsForgotten'
  BY <1>1, <1>2, <1>3 DEF StringsInv, StringsTyped, FlagsTyped, StringsForgotten
<1>5. TtlBounded'
  BY <1>2 DEF StringsInv, TtlBounded, DeadlineKept, Mem!Has
<1>6. (Up => SameStrings)'
  BY <1>1, <1>2, <1>3 DEF StringsInv, FlagsTyped, Up, SameStrings, Mem!Has, Red!Has
<1> QED  BY <1>4, <1>5, <1>6 DEF StringsInv

(* clear, and the two steps of gracefulShutdown, leave no entry whose      *)
(* deadline is not in cleared                                              *)
LEMMA EmptiedStep ==
  ASSUME StringsInv, cache' = Mem!Nothing, ttls' = ttls, cleared' = cleared \cup DOMAIN ttls,
         strings' \in {strings, Red!Nothing},
         FlagsTyped', Up' => Up /\ strings' = Red!Nothing
  PROVE  StringsInv'
  BY DEF StringsInv, StringsTyped, TtlBounded, DeadlineKept, StringsForgotten, SameStrings,
         Mem!Has, Red!Has, Mem!Nothing, Red!Nothing

LEMMA BothClearStep ==
  ASSUME StringsInv, BothClear
  PROVE  StringsInv'
<1>1. /\ cache' = Mem!Nothing /\ ttls' = ttls /\ cleared' = cleared \cup DOMAIN ttls
      /\ UNCHANGED <<isShuttingDown, shutdownBegun, shuttingDown>>
      /\ \/ shuttingDown /\ strings' = strings
         \/ ~shuttingDown /\ strings' = Red!Nothing
  BY DEF BothClear, Mem!Clear, Red!Clear, Red!data
<1> QED  BY <1>1, EmptiedStep DEF StringsInv, FlagsTyped, Up

LEMMA BothShutdownBeginsStep ==
  ASSUME StringsInv, BothShutdownBegins
  PROVE  StringsInv'
<1>1. /\ cache' = Mem!Nothing /\ ttls' = ttls /\ cleared' = cleared \cup DOMAIN ttls
      /\ shutdownBegun' = TRUE /\ UNCHANGED <<isShuttingDown, shuttingDown, strings>>
  BY DEF BothShutdownBegins, Mem!ShutdownBegins, Mem!Clear, redisVars
<1> QED  BY <1>1, EmptiedStep DEF StringsInv, FlagsTyped, Up

LEMMA BothShutdownEndsStep ==
  ASSUME StringsInv, BothShutdownEnds
  PROVE  StringsInv'
<1>1. /\ cache' = Mem!Nothing /\ ttls' = ttls /\ cleared' = cleared \cup DOMAIN ttls
      /\ shutdownBegun /\ shutdownBegun' = TRUE /\ isShuttingDown' = TRUE
      /\ shuttingDown' = TRUE /\ strings' = strings
  BY DEF BothShutdownEnds, Mem!ShutdownEnds, Red!GracefulShutdown, Red!data, StringsInv, FlagsTyped
<1> QED  BY <1>1, EmptiedStep DEF StringsInv, FlagsTyped, Up

(* The life of an entry that is left when time passes *)
Older(e) == IF e.life = Mem!Never THEN e ELSE [e EXCEPT !.life = @ - 1]

LEMMA OlderEntry ==
  ASSUME NEW e \in Held, e.life # 1
  PROVE  /\ Older(e) \in Held
         /\ Older(e).life = IF e.life = Mem!Never THEN Mem!Never ELSE e.life - 1
  BY DEF Held, Older, Mem!Never

LEMMA BothElapseStep ==
  ASSUME StringsInv, BothElapse
  PROVE  StringsInv'
<1>1. UNCHANGED <<isShuttingDown, shutdownBegun, shuttingDown, apart, cleared>>
  BY DEF BothElapse, Mem!Elapse, Red!Elapse, Mem!flags, histories
<1>2. cache' = [k \in {j \in DOMAIN cache : cache[j].life # 1} |-> Older(cache[k])]
  BY DEF BothElapse, Mem!Elapse, Older
<1>3. strings' = [k \in {j \in DOMAIN strings : strings[j].life # 1} |-> Older(strings[k])]
  BY DEF BothElapse, Red!Elapse, Older, Mem!Never, Red!Never
<1>4. ttls' = [k \in DOMAIN ttls |-> IF ttls[k] = Mem!Past THEN Mem!Past ELSE ttls[k] - 1]
  BY DEF BothElapse, Mem!Elapse
<1>5. StringsTyped'
  BY <1>2, <1>3, <1>4, OlderEntry DEF StringsInv, StringsTyped, Mem!Past
<1>6. FlagsTyped' /\ StringsForgotten'
  BY <1>1, <1>2 DEF StringsInv, FlagsTyped, StringsForgotten
<1>7. TtlBounded'
  <2> SUFFICES ASSUME NEW k \in DOMAIN ttls \ cleared, ttls'[k] > 0
               PROVE  k \in DOMAIN cache' /\ (cache'[k].life = Mem!Never \/ ttls'[k] <= cache'[k].life)
    BY <1>1, <1>4 DEF TtlBounded, DeadlineKept, Mem!Has
  <2>1. ttls[k] \in Int /\ ttls'[k] = ttls[k] - 1
    BY <1>4 DEF StringsInv, StringsTyped, Mem!Past
  <2>2. k \in DOMAIN cache /\ cache[k] \in Held /\ (cache[k].life = Mem!Never \/ ttls[k] <= cache[k].life)
    BY <2>1 DEF StringsInv, StringsTyped, TtlBounded, DeadlineKept, Mem!Has
  <2>3. cache[k].life # 1 /\ cache[k].life \in Nat
    BY <2>1, <2>2 DEF Held, Mem!Never
  <2> QED  BY <1>2, <2>1, <2>2, <2>3, OlderEntry
<1>8. (Up => SameStrings)'
  BY <1>1, <1>2, <1>3 DEF StringsInv, Up, SameStrings, Mem!Has, Red!Has
<1> QED  BY <1>5, <1>6, <1>7, <1>8 DEF StringsInv

(* The calls for hashes and sorted sets *)
LEMMA StructureCallStep ==
  ASSUME StringsInv, StructureCall
  PROVE  StringsInv'
<1>1. UNCHANGED <<cache, ttls, cleared, isShuttingDown, shutdownBegun, strings, shuttingDown, apart>>
  BY DEF StructureCall, BothHSet, BothHDel, BothZAdd, BothZPopMin, BothZRemRangeByScore,
         Mem!HSet, Mem!HDel, Mem!ZAdd, Mem!ZPopMin, Mem!ZRemRangeByScore, Mem!strings, Mem!flags,
         Red!HSet, Red!HDel, Red!ZAdd, Red!ZPopMin, Red!ZRemRangeByScore, Red!Sent, Red!data,
         histories
<1> QED  BY <1>1 DEF StringsInv, StringsTyped, FlagsTyped, TtlBounded, DeadlineKept, StringsForgotten,
                Up, SameStrings, Mem!Has, Red!Has

LEMMA StringsStep == StringsInv /\ [PairNext]_pairVars => StringsInv'
<1> SUFFICES ASSUME StringsInv, [PairNext]_pairVars PROVE StringsInv'
  OBVIOUS
<1>1. CASE StringCall
  <2>1. \A n \in {-1, 1} : n \in Int
    OBVIOUS
  <2> QED  BY <1>1, <2>1, BothSetStep, BothGetStep, BothGetTtlStep, BothSetTtlStep, BothIncrByStep
           DEF StringCall
<1>2. CASE StructureCall
  BY <1>2, StructureCallStep
<1>3. CASE SharedCall
  BY <1>3, BothDelStep, BothClearStep, BothShutdownBeginsStep, BothShutdownEndsStep, BothElapseStep
     DEF SharedCall
<1>4. CASE UNCHANGED pairVars
  BY <1>4 DEF pairVars, StringsInv, StringsTyped, FlagsTyped, TtlBounded, DeadlineKept, StringsForgotten,
              Up, SameStrings, Mem!Has, Red!Has
<1> QED  BY <1>1, <1>2, <1>3, <1>4 DEF PairNext

-----------------------------------------------------------------------------
(* A step that leaves the structures alone, whatever it does to the flags  *)
LEMMA StructuresKept ==
  ASSUME StructuresInv, Up' => Up,
         UNCHANGED <<hashCache, zSet, hashes, sortedSets, clashed, late, shutdownBegun>>
  PROVE  StructuresInv'
  BY DEF StructuresInv, StructuresTyped, StructuresForgotten, Mapped, Mirrored, Mem!FieldsOf,
         Mem!HasMap

LEMMA StringCallKeeps ==
  ASSUME StructuresInv, StringCall
  PROVE  StructuresInv'
<1>1. UNCHANGED <<hashCache, zSet, hashes, sortedSets, shutdownBegun, shuttingDown, clashed, late>>
  BY DEF StringCall, BothSet, BothGet, BothGetTtl, BothSetTtl, BothIncrBy,
         Mem!Set, Mem!Get, Mem!GetTtl, Mem!SetTtl, Mem!IncrBy, Mem!structures, Mem!flags,
         Red!Set, Red!SetTtl, Red!IncrBy, Red!Sent, Red!data, redisVars, histories
<1> QED  BY <1>1, StructuresKept DEF Up

(* A hash is stored or changed: the sorted sets are left alone *)
LEMMA OneHashChanged ==
  ASSUME StructuresInv, NEW k \in HashKeys, NEW fields,
         UNCHANGED <<zSet, sortedSets, shutdownBegun, shuttingDown, clashed>>,
         DOMAIN hashCache' \subseteq HashKeys, DOMAIN hashes' = HashKeys,
         late \subseteq late', shutdownBegun => DOMAIN hashCache' \subseteq DOMAIN hashCache \cup late',
         \A j \in HashKeys : Mem!FieldsOf(j)' = IF j = k THEN fields ELSE Mem!FieldsOf(j),
         Up => \A j \in HashKeys : hashes'[j] = IF j = k THEN fields ELSE hashes[j]
  PROVE  StructuresInv'
<1>1. StructuresTyped'
  BY DEF StructuresInv, StructuresTyped
<1>2. StructuresForgotten'
  BY DEF StructuresInv, StructuresForgotten
<1>3. (Up => Mapped)'
  BY DEF StructuresInv, Up, Mapped
<1> QED  BY <1>1, <1>2, <1>3 DEF StructuresInv, Mirrored, Up

LEMMA BothHSetStep ==
  ASSUME StructuresInv, NEW k \in HashKeys, NEW f, NEW v, BothHSet(k, f, v)
  PROVE  StructuresInv'
<1> DEFINE fields == Mem!Put(Mem!FieldsOf(k), f, v)
<1>1. /\ UNCHANGED <<zSet, sortedSets, shutdownBegun, shuttingDown, clashed>>
      /\ late' = IF shutdownBegun THEN late \cup {k} ELSE late
  BY DEF BothHSet, StoredLate, Mem!HSet, Red!HSet, Red!Sent, Red!data, Mem!flags
<1>2. hashCache' = Mem!Put(hashCache, k, fields)
  BY DEF BothHSet, Mem!HSet
<1>3. \/ shuttingDown /\ UNCHANGED hashes
      \/ hashes' = [hashes EXCEPT ![k] = Red!Put(hashes[k], f, v)]
  BY DEF BothHSet, Red!HSet, Red!Sent, Red!data
<1>4. Up => Red!Put(hashes[k], f, v) = fields
  BY DEF StructuresInv, Mapped, Mem!Put, Red!Put, Mem!Over, Red!Over
<1> HIDE DEF fields
<1>5. hashCache' = [j \in {k} \cup DOMAIN hashCache |-> IF j = k THEN fields ELSE hashCache[j]]
  BY <1>2 DEF Mem!Put, Mem!Over
<1>6. \A j \in HashKeys : Mem!FieldsOf(j)' = IF j = k THEN fields ELSE Mem!FieldsOf(j)
  BY <1>5 DEF Mem!FieldsOf, Mem!HasMap, Mem!Nothing
<1>7. /\ DOMAIN hashCache' \subseteq HashKeys /\ DOMAIN hashes' = HashKeys
      /\ late \subseteq late' /\ (shutdownBegun => DOMAIN hashCache' \subseteq DOMAIN hashCache \cup late')
  BY <1>1, <1>3, <1>5 DEF StructuresInv, StructuresTyped
<1>8. Up => \A j \in HashKeys : hashes'[j] = IF j = k THEN fields ELSE hashes[j]
  BY <1>3, <1>4 DEF StructuresInv, StructuresTyped, Up
<1> QED  BY <1>1, <1>6, <1>7, <1>8, OneHashChanged

LEMMA BothHDelStep ==
  ASSUME StructuresInv, NEW k \in HashKeys, NEW f, BothHDel(k, f)
  PROVE  StructuresInv'
<1> DEFINE fields == Mem!Without(Mem!FieldsOf(k), {f})
<1>1. UNCHANGED <<zSet, sortedSets, shutdownBegun, shuttingDown, clashed, late>>
  BY DEF BothHDel, Mem!HDel, Red!HDel, Red!Sent, Red!data, Mem!flags, histories
<1>2. hashCache' = IF k \in DOMAIN hashCache
                     THEN [hashCache EXCEPT ![k] = Mem!Without(hashCache[k], {f})] ELSE hashCache
  BY DEF BothHDel, Mem!HDel, Mem!HasMap
<1>3. \/ shuttingDown /\ UNCHANGED hashes
      \/ hashes' = [hashes EXCEPT ![k] = Red!Without(hashes[k], {f})]
  BY DEF BothHDel, Red!HDel, Red!Sent, Red!data
<1>4. Up => Red!Without(hashes[k], {f}) = fields
  BY DEF StructuresInv, Mapped, Mem!Without, Red!Without
<1>5. /\ k \in DOMAIN hashCache => fields = Mem!Without(hashCache[k], {f})
      /\ k \notin DOMAIN hashCache => fields = Mem!Nothing /\ Mem!FieldsOf(k) = Mem!Nothing
  <2>1. Mem!Without(Mem!Nothing, {f}) = Mem!Nothing
    BY DEF Mem!Without, Mem!Nothing
  <2> QED  BY <2>1 DEF Mem!FieldsOf, Mem!HasMap
<1> HIDE DEF fields
<1>6. DOMAIN hashCache' = DOMAIN hashCache
  BY <1>2
<1>7. ASSUME NEW j \in HashKeys
      PROVE  Mem!FieldsOf(j)' = IF j = k THEN fields ELSE Mem!FieldsOf(j)
  <2>1. Mem!FieldsOf(j)' = IF j \in DOMAIN hashCache THEN hashCache'[j] ELSE Mem!Nothing
    BY <1>6 DEF Mem!FieldsOf, Mem!HasMap, Mem!Nothing
  <2>2. j \in DOMAIN hashCache =>
          hashCache'[j] = IF j = k THEN Mem!Without(hashCache[k], {f}) ELSE hashCache[j]
    BY <1>2
  <2> QED  BY <1>5, <2>1, <2>2 DEF Mem!FieldsOf, Mem!HasMap
<1>8. /\ DOMAIN hashCache' \subseteq HashKeys /\ DOMAIN hashes' = HashKeys
      /\ late \subseteq late' /\ (shutdownBegun => DOMAIN hashCache' \subseteq DOMAIN hashCache \cup late')
  BY <1>1, <1>3, <1>6 DEF StructuresInv, StructuresTyped
<1>9. Up => \A j \in HashKeys : hashes'[j] = IF j = k THEN fields ELSE hashes[j]
  BY <1>3, <1>4 DEF StructuresInv, StructuresTyped, Up
<1> QED  BY <1>1, <1>7, <1>8, <1>9, OneHashChanged

(* del, clear and the shutdown *)
LEMMA NothingNumbered == Numbered(Mem!Nothing) /\ Numbered(Red!Nothing)
  BY FS_EmptySet DEF Numbered, Mem!Nothing, Red!Nothing

LEMMA BothDelKeeps ==
  ASSUME StructuresInv, FlagsTyped, NEW K, BothDel(K)
  PROVE  StructuresInv'
<1>1. /\ UNCHANGED <<isShuttingDown, shutdownBegun, shuttingDown, late>> /\ clashed' = clashed \ K
  BY DEF BothDel, Mem!Del, Red!Del, Red!Sent, Mem!flags
<1>2. \/ isShuttingDown /\ UNCHANGED <<hashCache, zSet>>
      \/ /\ hashCache' = [h \in DOMAIN hashCache \ K |-> hashCache[h]]
         /\ zSet' = [z \in SortedKeys |-> IF z \in K THEN Mem!Nothing ELSE zSet[z]]
  BY DEF BothDel, Mem!Del, Mem!structures, Mem!Without
<1>3. \/ shuttingDown /\ UNCHANGED <<hashes, sortedSets>>
      \/ /\ hashes' = [h \in HashKeys |-> IF h \in K THEN Red!Nothing ELSE hashes[h]]
         /\ sortedSets' = [z \in SortedKeys |-> IF z \in K THEN Red!Nothing ELSE sortedSets[z]]
  BY DEF BothDel, Red!Del, Red!Sent, Red!data
<1>4. StructuresTyped'
  BY <1>2, <1>3, NothingNumbered DEF StructuresInv, StructuresTyped
<1>5. Mem!Nothing = Red!Nothing /\ DOMAIN Mem!Nothing = {} /\ DOMAIN Red!Nothing = {}
  BY DEF Mem!Nothing, Red!Nothing
<1>6. (Up => Mapped)'
  <2> SUFFICES ASSUME Up', NEW h \in HashKeys PROVE Mem!FieldsOf(h)' = hashes'[h]
    BY DEF Mapped
  <2>1. Up /\ ~isShuttingDown /\ Mem!FieldsOf(h) = hashes[h]
    BY <1>1 DEF StructuresInv, FlagsTyped, Up, Mapped
  <2>2. Mem!FieldsOf(h)' = IF h \in K THEN Mem!Nothing ELSE Mem!FieldsOf(h)
    BY <1>2, <2>1 DEF Mem!FieldsOf, Mem!HasMap, Mem!Nothing
  <2> QED  BY <1>3, <1>5, <2>1, <2>2 DEF Up
<1>8. StructuresForgotten'
  BY <1>1, <1>2, <1>5 DEF StructuresInv, StructuresForgotten
<1>7. ASSUME Up', NEW k \in SortedKeys \ clashed' PROVE Mirrored(k)'
  BY <1>1, <1>2, <1>3, <1>5, <1>7 DEF StructuresInv, FlagsTyped, Up, Mirrored
<1> QED  BY <1>4, <1>6, <1>7, <1>8 DEF StructuresInv

LEMMA BothClearKeeps ==
  ASSUME StructuresInv, BothClear
  PROVE  StructuresInv'
<1>1. /\ hashCache' = Mem!Nothing
      /\ zSet' = [k \in SortedKeys |-> Mem!Nothing]
      /\ UNCHANGED <<shutdownBegun, shuttingDown>> /\ clashed' = {}
  BY DEF BothClear, Mem!Clear, Red!Clear
<1>2. \/ shuttingDown /\ UNCHANGED <<hashes, sortedSets>>
      \/ /\ hashes' = [k \in HashKeys |-> Red!Nothing]
         /\ sortedSets' = [k \in SortedKeys |-> Red!Nothing]
  BY DEF BothClear, Red!Clear, Red!data
<1>3. Mem!Nothing = Red!Nothing /\ DOMAIN Mem!Nothing = {} /\ DOMAIN Red!Nothing = {}
  BY DEF Mem!Nothing, Red!Nothing
<1>4. StructuresTyped'
  BY <1>1, <1>2, <1>3, NothingNumbered DEF StructuresInv, StructuresTyped
<1>5. (Up => Mapped)'
  BY <1>1, <1>2, <1>3 DEF Up, Mapped, Mem!FieldsOf, Mem!HasMap, Mem!Nothing, Red!Nothing
<1>6. StructuresForgotten'
  BY <1>1, <1>3 DEF StructuresForgotten
<1>7. ASSUME Up', NEW k \in SortedKeys PROVE Mirrored(k)'
  BY <1>1, <1>2, <1>3, <1>7 DEF Up, Mirrored
<1> QED  BY <1>4, <1>5, <1>6, <1>7 DEF StructuresInv

LEMMA ShutdownKeeps ==
  ASSUME StructuresInv, BothShutdownBegins \/ BothShutdownEnds
  PROVE  StructuresInv'
<1>1. ~Up' /\ UNCHANGED <<hashes, sortedSets>>
  BY DEF BothShutdownBegins, BothShutdownEnds, Mem!ShutdownBegins, Red!GracefulShutdown, Red!data,
         redisVars, Up
<1>2. \/ UNCHANGED <<hashCache, zSet, late>> /\ shutdownBegun
      \/ /\ hashCache' = Mem!Nothing
         /\ zSet' = [k \in SortedKeys |-> Mem!Nothing]
  BY DEF BothShutdownBegins, BothShutdownEnds, Mem!ShutdownBegins, Mem!ShutdownEnds, Mem!Clear,
         Mem!structures, histories
<1>3. DOMAIN Mem!Nothing = {}
  BY DEF Mem!Nothing
<1>4. StructuresTyped'
  BY <1>1, <1>2, <1>3, NothingNumbered DEF StructuresInv, StructuresTyped
<1>5. StructuresForgotten'
  BY <1>2, <1>3 DEF StructuresInv, StructuresForgotten
<1> QED  BY <1>1, <1>4, <1>5 DEF StructuresInv

LEMMA ElapseKeeps ==
  ASSUME StructuresInv, BothElapse
  PROVE  StructuresInv'
<1>1. UNCHANGED <<hashCache, zSet, hashes, sortedSets, shutdownBegun, shuttingDown, clashed, late>>
  BY DEF BothElapse, Mem!Elapse, Red!Elapse, Mem!structures, Mem!flags, histories
<1> QED  BY <1>1, StructuresKept DEF Up

-----------------------------------------------------------------------------
(* Sorted sets: with no clash the two keep being each other's inverse      *)
LEMMA NumberedPut ==
  ASSUME NEW f, Numbered(f), NEW x \in Int, NEW y \in Int
  PROVE  Numbered(Mem!Put(f, x, y)) /\ Numbered(Red!Put(f, x, y))
<1>1. IsFiniteSet({x} \cup DOMAIN f)
  <2>1. IsFiniteSet(DOMAIN f \cup {x})
    BY FS_AddElement DEF Numbered
  <2>2. DOMAIN f \cup {x} = {x} \cup DOMAIN f
    OBVIOUS
  <2> QED  BY <2>1, <2>2
<1> QED  BY <1>1 DEF Numbered, Mem!Put, Red!Put, Mem!Over, Red!Over

LEMMA NumberedWithout ==
  ASSUME NEW f, Numbered(f), NEW S
  PROVE  Numbered(Mem!Without(f, S)) /\ Numbered(Red!Without(f, S))
<1>1. IsFiniteSet(DOMAIN f \ S)
  BY FS_Subset DEF Numbered
<1> QED  BY <1>1 DEF Numbered, Mem!Without, Red!Without

LEMMA OneSetChanged ==
  ASSUME StructuresTyped, NEW k \in SortedKeys, NEW z, Numbered(z), NEW f, Numbered(f),
         UNCHANGED <<hashCache, hashes>>, zSet' = [zSet EXCEPT ![k] = z],
         UNCHANGED sortedSets \/ sortedSets' = [sortedSets EXCEPT ![k] = f]
  PROVE  StructuresTyped'
<1>1. /\ DOMAIN zSet' = SortedKeys /\ DOMAIN sortedSets' = SortedKeys
      /\ \A j \in SortedKeys :
           zSet'[j] \in {zSet[j], z} /\ sortedSets'[j] \in {sortedSets[j], f}
  BY DEF StructuresTyped
<1>2. ASSUME NEW j \in SortedKeys PROVE Numbered(zSet'[j]) /\ Numbered(sortedSets'[j])
  BY <1>1 DEF StructuresTyped
<1> QED  BY <1>1, <1>2 DEF StructuresTyped, Numbered

LEMMA BothZAddStep ==
  ASSUME StructuresInv, NEW k \in SortedKeys, NEW s \in Scores, NEW m \in Named, BothZAdd(k, s, m)
  PROVE  StructuresInv'
<1>1. /\ UNCHANGED <<hashCache, hashes, shutdownBegun, shuttingDown>>
      /\ late' = IF shutdownBegun THEN late \cup {k} ELSE late
  BY DEF BothZAdd, StoredLate, Mem!ZAdd, Red!ZAdd, Red!Sent, Red!data, Mem!flags
<1>2. zSet' = [zSet EXCEPT ![k] = Mem!Put(zSet[k], s, m)]
  BY DEF BothZAdd, Mem!ZAdd
<1>3. \/ shuttingDown /\ UNCHANGED sortedSets
      \/ sortedSets' = [sortedSets EXCEPT ![k] = Red!Put(sortedSets[k], m, s)]
  BY DEF BothZAdd, Red!ZAdd, Red!Sent, Red!data
<1>4. clashed \subseteq clashed' /\ (k \notin clashed' =>
        \A n \in DOMAIN sortedSets[k] : (n = m) <=> (sortedSets[k][n] = s))
  BY DEF BothZAdd
<1>5. StructuresTyped'
  <2>1. StructuresTyped /\ Numbered(zSet[k]) /\ Numbered(sortedSets[k]) /\ s \in Int /\ m \in Int
    BY DEF StructuresInv, StructuresTyped
  <2>2. Numbered(Mem!Put(zSet[k], s, m)) /\ Numbered(Red!Put(sortedSets[k], m, s))
    BY <2>1, NumberedPut
  <2> QED  BY <1>1, <1>2, <1>3, <2>1, <2>2, OneSetChanged
<1>6. (Up => Mapped)' /\ StructuresForgotten'
  <2>1. \A j \in SortedKeys : j # k => zSet'[j] = zSet[j]
    BY <1>2 DEF StructuresInv, StructuresTyped
  <2> QED  BY <1>1, <2>1 DEF StructuresInv, Up, Mapped, Mem!FieldsOf, Mem!HasMap, StructuresForgotten
<1>7. ASSUME Up', NEW j \in SortedKeys \ clashed' PROVE Mirrored(j)'
  <2>1. Up /\ Mirrored(j)
    BY <1>1, <1>4, <1>7 DEF StructuresInv, Up
  <2>2. CASE j # k
    <3>1. zSet'[j] = zSet[j] /\ sortedSets'[j] = sortedSets[j]
      BY <1>2, <1>3, <2>2 DEF StructuresInv, StructuresTyped
    <3> QED  BY <2>1, <3>1 DEF Mirrored
  <2>3. CASE j = k
    <3>1. /\ zSet'[k] = [x \in {s} \cup DOMAIN zSet[k] |-> IF x \in {s} THEN m ELSE zSet[k][x]]
          /\ sortedSets'[k] = [x \in {m} \cup DOMAIN sortedSets[k] |->
                                 IF x \in {m} THEN s ELSE sortedSets[k][x]]
      BY <1>2, <1>3, <2>1 DEF StructuresInv, StructuresTyped, Up, Mem!Put, Red!Put, Mem!Over, Red!Over
    <3> QED  BY <1>4, <1>7, <2>1, <2>3, <3>1 DEF Mirrored
  <2> QED  BY <2>2, <2>3
<1> QED  BY <1>5, <1>6, <1>7 DEF StructuresInv

(* Both take out the same pairs *)
LEMMA TakenOut ==
  ASSUME StructuresInv, NEW k \in SortedKeys, NEW S, NEW M,
         UNCHANGED <<hashCache, hashes, shutdownBegun, shuttingDown, clashed, late>>,
         zSet' = [zSet EXCEPT ![k] = Mem!Without(zSet[k], S)],
         \/ shuttingDown /\ UNCHANGED sortedSets
         \/ sortedSets' = [sortedSets EXCEPT ![k] = Red!Without(sortedSets[k], M)],
         Mirrored(k) => \A s \in DOMAIN zSet[k] : s \in S <=> zSet[k][s] \in M
  PROVE  StructuresInv'
<1>1. StructuresTyped'
  <2>1. StructuresTyped /\ Numbered(zSet[k]) /\ Numbered(sortedSets[k])
    BY DEF StructuresInv, StructuresTyped
  <2>2. Numbered(Mem!Without(zSet[k], S)) /\ Numbered(Red!Without(sortedSets[k], M))
    BY <2>1, NumberedWithout
  <2> QED  BY <2>1, <2>2, OneSetChanged
<1>2. (Up => Mapped)' /\ StructuresForgotten'
  <2>1. \A j \in SortedKeys : j # k => zSet'[j] = zSet[j]
    BY DEF StructuresInv, StructuresTyped
  <2>2. DOMAIN zSet'[k] \subseteq DOMAIN zSet[k]
    BY DEF StructuresInv, StructuresTyped, Mem!Without
  <2> QED  BY <2>1, <2>2 DEF StructuresInv, Up, Mapped, Mem!FieldsOf, Mem!HasMap, StructuresForgotten
<1>3. ASSUME Up', NEW j \in SortedKeys \ clashed' PROVE Mirrored(j)'
  <2>1. Up /\ Mirrored(j)
    BY <1>3 DEF StructuresInv, Up
  <2>2. CASE j # k
    <3>1. zSet'[j] = zSet[j] /\ sortedSets'[j] = sortedSets[j]
      BY <2>2 DEF StructuresInv, StructuresTyped
    <3> QED  BY <2>1, <3>1 DEF Mirrored
  <2>3. CASE j = k
    <3>1. /\ zSet'[k] = [x \in DOMAIN zSet[k] \ S |-> zSet[k][x]]
          /\ sortedSets'[k] = [x \in DOMAIN sortedSets[k] \ M |-> sortedSets[k][x]]
      BY <2>1 DEF StructuresInv, StructuresTyped, Up, Mem!Without, Red!Without
    <3> QED  BY <2>1, <2>3, <3>1 DEF Mirrored
  <2> QED  BY <2>2, <2>3
<1> QED  BY <1>1, <1>2, <1>3 DEF StructuresInv

LEMMA BothZRemRangeByScoreStep ==
  ASSUME StructuresInv, NEW k \in SortedKeys, NEW min \in Scores, NEW max \in Scores,
         BothZRemRangeByScore(k, min, max)
  PROVE  StructuresInv'
<1>1. /\ UNCHANGED <<hashCache, hashes, shutdownBegun, shuttingDown, clashed, late>>
      /\ zSet' = [zSet EXCEPT ![k] = Mem!Without(zSet[k], Mem!InRange(k, min, max))]
      /\ \/ shuttingDown /\ UNCHANGED sortedSets
         \/ sortedSets' = [sortedSets EXCEPT ![k] =
                             Red!Without(sortedSets[k], Red!InRange(k, min, max))]
  BY DEF BothZRemRangeByScore, Mem!ZRemRangeByScore, Red!ZRemRangeByScore, Red!Sent, Red!data,
         Mem!flags, histories
<1>2. Mirrored(k) => \A s \in DOMAIN zSet[k] :
                       s \in Mem!InRange(k, min, max) <=> zSet[k][s] \in Red!InRange(k, min, max)
  BY DEF Mirrored, Mem!InRange, Red!InRange, Red!Members
<1> QED  BY <1>1, <1>2, TakenOut

-----------------------------------------------------------------------------
(* What sorted sets answer *)
Lower(S) == [s \in S |-> {r \in S : r < s}]
Higher(S) == [s \in S |-> {r \in S : r > s}]
LowerMembers(k, M) == [m \in M |-> {n \in M : Red!Below(k, n, m)}]
HigherMembers(k, M) == [m \in M |-> {n \in M : Red!Below(k, m, n)}]
MembersAt(k, S) == {zSet[k][s] : s \in S}

LEMMA NumbersInOrder ==
  ASSUME NEW S, S \subseteq Int
  PROVE  IsOrder(Lower(S)) /\ IsOrder(Higher(S)) /\ DOMAIN Lower(S) = S /\ DOMAIN Higher(S) = S
<1>1. DOMAIN Lower(S) = S /\ \A s \in S : Lower(S)[s] = {r \in S : r < s}
  BY DEF Lower
<1>2. DOMAIN Higher(S) = S /\ \A s \in S : Higher(S)[s] = {r \in S : r > s}
  BY DEF Higher
<1>3. Lower(S) \in [S -> SUBSET S] /\ Higher(S) \in [S -> SUBSET S]
  BY DEF Lower, Higher
<1> QED  BY <1>1, <1>2, <1>3 DEF IsOrder

(* Scores and their members are in the same order, from the lowest and     *)
(* from the highest                                                        *)
LEMMA SamePlaces ==
  ASSUME NEW k, Numbered(zSet[k]), Numbered(sortedSets[k]), Mirrored(k),
         NEW S, S \subseteq DOMAIN zSet[k], NEW M, M = MembersAt(k, S)
  PROVE  /\ IsFiniteSet(S)
         /\ [s \in S |-> zSet[k][s]] \in Bijection(S, M)
         /\ \A s, r \in S : r \in Lower(S)[s] <=> zSet[k][r] \in LowerMembers(k, M)[zSet[k][s]]
         /\ \A s, r \in S : r \in Higher(S)[s] <=> zSet[k][r] \in HigherMembers(k, M)[zSet[k][s]]
<1> DEFINE z == zSet[k]
           f == sortedSets[k]
           member == [s \in S |-> z[s]]
<1>1. \A s \in S : z[s] \in DOMAIN f /\ f[z[s]] = s /\ s \in Int /\ z[s] \in Int /\ z[s] \in M
  BY DEF Mirrored, Numbered, MembersAt
<1>2. IsFiniteSet(S)
  BY FS_Subset DEF Numbered
<1>3. member \in Bijection(S, M)
  <2>1. member \in [S -> M] /\ \A t \in M : \E s \in S : member[s] = t
    BY <1>1 DEF MembersAt
  <2>2. \A s, r \in S : member[s] = member[r] => s = r
    BY <1>1
  <2> QED  BY <2>1, <2>2 DEF Bijection, Injection, Surjection, IsInjective
<1>4. ASSUME NEW s \in S, NEW r \in S PROVE r < s <=> Red!Below(k, z[r], z[s])
  <2>1. f[z[r]] = r /\ f[z[s]] = s /\ r \in Int /\ s \in Int /\ z[r] \in Int /\ z[s] \in Int
    BY <1>1
  <2>2. Red!Below(k, z[r], z[s]) <=> (r < s \/ (r = s /\ z[r] < z[s]))
    BY <2>1 DEF Red!Below
  <2>3. r = s => ~(z[r] < z[s])
    BY <2>1
  <2> QED  BY <2>2, <2>3
<1>5. \A s, r \in S : r \in Lower(S)[s] <=> z[r] \in LowerMembers(k, M)[z[s]]
  BY <1>1, <1>4 DEF Lower, LowerMembers
<1>6. \A s, r \in S : r \in Higher(S)[s] <=> z[r] \in HigherMembers(k, M)[z[s]]
  BY <1>1, <1>4 DEF Higher, HigherMembers
<1> QED  BY <1>2, <1>3, <1>5, <1>6

(* The i-th member from either end is the one of the i-th score            *)
LEMMA SameSequences ==
  ASSUME NEW k, Numbered(zSet[k]), Numbered(sortedSets[k]), Mirrored(k),
         NEW S, S \subseteq DOMAIN zSet[k], NEW M, M = MembersAt(k, S)
  PROVE  /\ Mem!Ascending(S) \in Seq(S) /\ Red!Ascending(k, M) \in Seq(M)
         /\ Len(Red!Ascending(k, M)) = Len(Mem!Ascending(S))
         /\ \A i \in 1..Len(Mem!Ascending(S)) :
              Red!Ascending(k, M)[i] = zSet[k][Mem!Ascending(S)[i]]
         /\ Mem!Descending(S) \in Seq(S) /\ Red!Descending(k, M) \in Seq(M)
         /\ Len(Red!Descending(k, M)) = Len(Mem!Descending(S))
         /\ \A i \in 1..Len(Mem!Descending(S)) :
              Red!Descending(k, M)[i] = zSet[k][Mem!Descending(S)[i]]
         /\ \A s \in S : Cardinality(LowerMembers(k, M)[zSet[k][s]]) = Cardinality(Lower(S)[s])
<1> DEFINE g == [s \in S |-> zSet[k][s]]
<1>1. /\ Mem!Ascending(S) = InOrder(Lower(S)) /\ Mem!Descending(S) = InOrder(Higher(S))
      /\ Red!Ascending(k, M) = InOrder(LowerMembers(k, M))
      /\ Red!Descending(k, M) = InOrder(HigherMembers(k, M))
  BY SameOrder DEF Mem!Ascending, Mem!Descending, Red!Ascending, Red!Descending,
                   Lower, Higher, LowerMembers, HigherMembers
<1>2. /\ IsFiniteSet(S) /\ S \subseteq Int /\ g \in Bijection(S, M)
      /\ \A s, r \in S : r \in Lower(S)[s] <=> g[r] \in LowerMembers(k, M)[g[s]]
      /\ \A s, r \in S : r \in Higher(S)[s] <=> g[r] \in HigherMembers(k, M)[g[s]]
  BY SamePlaces DEF Numbered
<1>3. /\ IsOrder(Lower(S)) /\ DOMAIN Lower(S) = S
      /\ IsOrder(Higher(S)) /\ DOMAIN Higher(S) = S
  BY <1>2, NumbersInOrder
<1>4. /\ LowerMembers(k, M) \in [M -> SUBSET M] /\ DOMAIN LowerMembers(k, M) = M
      /\ HigherMembers(k, M) \in [M -> SUBSET M] /\ DOMAIN HigherMembers(k, M) = M
  BY DEF LowerMembers, HigherMembers
<1> HIDE DEF g
<1>5. /\ IsOrder(LowerMembers(k, M)) /\ IsFiniteSet(M) /\ Cardinality(M) = Cardinality(S)
      /\ \A s \in S : Cardinality(LowerMembers(k, M)[g[s]]) = Cardinality(Lower(S)[s])
      /\ \A i \in 1..Cardinality(S) : InOrder(LowerMembers(k, M))[i] = g[InOrder(Lower(S))[i]]
  <2>1. KeepsOrder(g, Lower(S), LowerMembers(k, M))
    BY <1>2, <1>3, <1>4 DEF KeepsOrder
  <2>2. Follows(g, Lower(S), LowerMembers(k, M))
    BY <2>1, Carried
  <2> QED  BY <1>3, <1>4, <2>2 DEF Follows
<1>6. /\ IsOrder(HigherMembers(k, M))
      /\ \A i \in 1..Cardinality(S) : InOrder(HigherMembers(k, M))[i] = g[InOrder(Higher(S))[i]]
  <2>1. KeepsOrder(g, Higher(S), HigherMembers(k, M))
    BY <1>2, <1>3, <1>4 DEF KeepsOrder
  <2>2. Follows(g, Higher(S), HigherMembers(k, M))
    BY <2>1, Carried
  <2> QED  BY <1>3, <1>4, <2>2 DEF Follows
<1>7. /\ Cardinality(S) \in Nat
      /\ InOrder(Lower(S)) \in Seq(S) /\ Len(InOrder(Lower(S))) = Cardinality(S)
      /\ \A i \in 1..Cardinality(S) : InOrder(Lower(S))[i] \in S
  BY <1>2, <1>3, Ordered
<1>8. /\ InOrder(Higher(S)) \in Seq(S) /\ Len(InOrder(Higher(S))) = Cardinality(S)
      /\ \A i \in 1..Cardinality(S) : InOrder(Higher(S))[i] \in S
  BY <1>2, <1>3, Ordered
<1>9. /\ InOrder(LowerMembers(k, M)) \in Seq(M)
      /\ Len(InOrder(LowerMembers(k, M))) = Cardinality(S)
  BY <1>4, <1>5, Ordered
<1>10. /\ InOrder(HigherMembers(k, M)) \in Seq(M)
       /\ Len(InOrder(HigherMembers(k, M))) = Cardinality(S)
  BY <1>4, <1>5, <1>6, Ordered
<1>11. \A s \in S : g[s] = zSet[k][s]
  BY DEF g
<1>12. \A i \in 1..Cardinality(S) :
          /\ InOrder(LowerMembers(k, M))[i] = zSet[k][InOrder(Lower(S))[i]]
          /\ InOrder(HigherMembers(k, M))[i] = zSet[k][InOrder(Higher(S))[i]]
  BY <1>5, <1>6, <1>7, <1>8, <1>11
<1>13. \A s \in S : Cardinality(LowerMembers(k, M)[zSet[k][s]]) = Cardinality(Lower(S)[s])
  BY <1>5, <1>11
<1> QED  BY <1>1, <1>7, <1>8, <1>9, <1>10, <1>12, <1>13

LEMMA AllMembers ==
  ASSUME NEW k, Mirrored(k)
  PROVE  Red!Members(k) = MembersAt(k, DOMAIN zSet[k])
  BY DEF MembersAt, Mirrored, Red!Members

LEMMA MembersInRange ==
  ASSUME NEW k, Mirrored(k), NEW min, NEW max
  PROVE  Red!InRange(k, min, max) = MembersAt(k, Mem!InRange(k, min, max))
  BY DEF MembersAt, Mirrored, Red!Members, Red!InRange, Mem!InRange

(* The scores popped are those with fewer than n below them                *)
LEMMA Popped ==
  ASSUME NEW S, IsFiniteSet(S), S \subseteq Int, NEW n \in Nat, NEW s \in S
  PROVE  LET popped == Mem!Slice(Mem!Ascending(S), 0, n) IN
         s \in {popped[i] : i \in DOMAIN popped} <=> Cardinality(Lower(S)[s]) < n
<1> DEFINE A == Mem!Ascending(S)
           q == Mem!Position(n, Len(A))
           popped == Mem!Slice(A, 0, n)
<1>1. A = InOrder(Lower(S))
  BY SameOrder DEF Mem!Ascending, Lower
<1>2. IsOrder(Lower(S)) /\ DOMAIN Lower(S) = S
  BY NumbersInOrder
<1>3. /\ Cardinality(S) \in Nat /\ A \in Seq(S) /\ Len(A) = Cardinality(S)
      /\ \A i \in 1..Len(A) : A[i] \in S /\ Cardinality(Lower(S)[A[i]]) = i - 1
      /\ Cardinality(Lower(S)[s]) + 1 \in 1..Len(A) /\ A[Cardinality(Lower(S)[s]) + 1] = s
  BY <1>1, <1>2, Ordered
<1>4. popped = SubSeq(A, 1, q)
  <2>1. Mem!Position(0, Len(A)) = 0 /\ 0 + 1 = 1
    BY <1>3 DEF Mem!Position
  <2> QED  BY <2>1 DEF Mem!Slice
<1> HIDE DEF A
<1>5. q \in Nat /\ q <= Len(A) /\ q <= n /\ (q = n \/ q = Len(A))
  BY <1>3 DEF Mem!Position
<1> HIDE DEF q, popped
<1>6. /\ popped \in Seq(S) /\ Len(popped) = q
      /\ \A i \in 1..q : popped[i] = A[i]
  <2>1. \A i \in 1..q : A[i] \in S
    BY <1>3, <1>5
  <2>2. /\ SubSeq(A, 1, q) \in Seq(S)
        /\ Len(SubSeq(A, 1, q)) = IF 1 <= q THEN q - 1 + 1 ELSE 0
        /\ \A i \in 1..(q - 1 + 1) : SubSeq(A, 1, q)[i] = A[1 + i - 1]
    BY <1>5, <2>1, SubSeqProperties
  <2> QED  BY <1>4, <1>5, <2>2
<1>7. DOMAIN popped = 1..q
  BY <1>6, LenProperties
<1>8. ASSUME NEW i \in 1..q, popped[i] = s PROVE Cardinality(Lower(S)[s]) < n
  BY <1>3, <1>5, <1>6, <1>8
<1>9. ASSUME Cardinality(Lower(S)[s]) < n PROVE \E i \in 1..q : popped[i] = s
  <2> DEFINE i == Cardinality(Lower(S)[s]) + 1
  <2>1. i \in 1..q
    BY <1>3, <1>5, <1>9
  <2> QED  BY <1>3, <1>6, <2>1
<1> QED  BY <1>7, <1>8, <1>9 DEF popped, A

LEMMA BothZPopMinStep ==
  ASSUME StructuresInv, NEW k \in SortedKeys, NEW n \in Nat, BothZPopMin(k, n)
  PROVE  StructuresInv'
<1> DEFINE popped == Mem!Slice(Mem!Ascending(DOMAIN zSet[k]), 0, n)
           S == {popped[i] : i \in DOMAIN popped}
<1>1. /\ UNCHANGED <<hashCache, hashes, shutdownBegun, shuttingDown, clashed, late>>
      /\ zSet' = [zSet EXCEPT ![k] = Mem!Without(zSet[k], S)]
      /\ \/ shuttingDown /\ UNCHANGED sortedSets
         \/ sortedSets' = [sortedSets EXCEPT ![k] = Red!Without(sortedSets[k], Red!Lowest(k, n))]
  BY DEF BothZPopMin, Mem!ZPopMin, Red!ZPopMin, Red!Sent, Red!data, Mem!flags, histories
<1>2. Numbered(zSet[k]) /\ Numbered(sortedSets[k])
  BY DEF StructuresInv, StructuresTyped
<1>3. ASSUME Mirrored(k), NEW s \in DOMAIN zSet[k]
      PROVE  s \in S <=> zSet[k][s] \in Red!Lowest(k, n)
  <2> DEFINE T == DOMAIN zSet[k]
  <2>1. s \in S <=> Cardinality(Lower(T)[s]) < n
    BY <1>2, Popped DEF Numbered
  <2>2. Red!Members(k) = MembersAt(k, T) /\ zSet[k][s] \in Red!Members(k)
    BY <1>3, AllMembers DEF MembersAt
  <2>3. Cardinality(LowerMembers(k, Red!Members(k))[zSet[k][s]]) = Cardinality(Lower(T)[s])
    BY <1>2, <1>3, <2>2, SameSequences
  <2>4. LowerMembers(k, Red!Members(k))[zSet[k][s]]
          = {m \in Red!Members(k) : Red!Below(k, m, zSet[k][s])}
    BY <2>2 DEF LowerMembers
  <2>5. zSet[k][s] \in Red!Lowest(k, n)
          <=> Cardinality({m \in Red!Members(k) : Red!Below(k, m, zSet[k][s])}) < n
    BY <2>2, SameCardinality DEF Red!Lowest
  <2> HIDE DEF S
  <2> QED  BY <2>1, <2>3, <2>4, <2>5
<1> HIDE DEF S
<1>4. Mirrored(k) => \A s \in DOMAIN zSet[k] : s \in S <=> zSet[k][s] \in Red!Lowest(k, n)
  BY <1>3
<1>5. PICK M : M = Red!Lowest(k, n)
  OBVIOUS
<1>6. PICK R : R = S
  OBVIOUS
<1>7. /\ zSet' = [zSet EXCEPT ![k] = Mem!Without(zSet[k], R)]
      /\ \/ shuttingDown /\ UNCHANGED sortedSets
         \/ sortedSets' = [sortedSets EXCEPT ![k] = Red!Without(sortedSets[k], M)]
  BY <1>1, <1>5, <1>6
<1>8. Mirrored(k) => \A s \in DOMAIN zSet[k] : s \in R <=> zSet[k][s] \in M
  BY <1>4, <1>5, <1>6
<1>9. UNCHANGED <<hashCache, hashes, shutdownBegun, shuttingDown, clashed, late>>
  BY <1>1
<1> HIDE DEF popped
<1> QED  BY <1>7, <1>8, <1>9, TakenOut

LEMMA StructuresStep == StringsInv /\ StructuresInv /\ [PairNext]_pairVars => StructuresInv'
<1> SUFFICES ASSUME StringsInv, StructuresInv, [PairNext]_pairVars PROVE StructuresInv'
  OBVIOUS
<1>1. CASE StringCall
  BY <1>1, StringCallKeeps
<1>2. CASE StructureCall
  <2>1. \A n \in 1..2 : n \in Nat
    OBVIOUS
  <2> QED  BY <1>2, <2>1, BothHSetStep, BothHDelStep, BothZAddStep, BothZPopMinStep,
              BothZRemRangeByScoreStep DEF StructureCall
<1>3. CASE SharedCall
  BY <1>3, BothDelKeeps, BothClearKeeps, ShutdownKeeps, ElapseKeeps DEF SharedCall, StringsInv
<1>4. CASE UNCHANGED pairVars
  BY <1>4, StructuresKept DEF pairVars, Up
<1> QED  BY <1>1, <1>2, <1>3, <1>4 DEF PairNext

(* What zRange and zRevRange cut out of the two sequences *)
SlicesAgree(k, scores, members) ==
  \A i \in Int, j \in Int \ {-1} :
    Mem!MembersOf(k, Mem!Slice(scores, i, j + 1)) = Red!FromTo(members, i, j)

(* The one counts up to the first member it leaves out, the other to the   *)
(* last it takes; they differ where nothing is taken, and for -1           *)
LEMMA Positions ==
  ASSUME NEW l \in Nat, NEW i \in Int, NEW j \in Int \ {-1}
  PROVE  LET p == Mem!Position(i, l)
             q == Mem!Position(j + 1, l)
             first == IF Red!Place(i, l) < 0 THEN 0 ELSE Red!Place(i, l)
             last == IF Red!Place(j, l) >= l THEN l - 1 ELSE Red!Place(j, l)
         IN  /\ p \in 0..l /\ q \in 0..l
             /\ first \in Nat /\ last \in Int /\ last < l
             /\ p < q => first = p /\ last + 1 = q
             /\ p >= q => first > last
<1>1. Mem!Position(i, l) \in 0..l /\ Mem!Position(j + 1, l) \in 0..l
  BY DEF Mem!Position
<1>2. CASE i >= 0
  <2>1. CASE j >= 0
    BY <1>1, <1>2, <2>1 DEF Mem!Position, Red!Place
  <2>2. CASE j < -1
    BY <1>1, <1>2, <2>2 DEF Mem!Position, Red!Place
  <2> QED  BY <2>1, <2>2
<1>3. CASE i < 0
  <2>1. CASE j >= 0
    BY <1>1, <1>3, <2>1 DEF Mem!Position, Red!Place
  <2>2. CASE j < -1
    BY <1>1, <1>3, <2>2 DEF Mem!Position, Red!Place
  <2> QED  BY <2>1, <2>2
<1> QED  BY <1>2, <1>3

(* What SubSeq cuts out *)
LEMMA Cut ==
  ASSUME NEW S, NEW s \in Seq(S), NEW m \in Nat, NEW n \in Nat, m < n, n <= Len(s)
  PROVE  /\ DOMAIN SubSeq(s, m + 1, n) = 1..(n - m)
         /\ SubSeq(s, m + 1, n) = [x \in 1..(n - m) |-> s[m + x]]
<1>1. \A x \in (m + 1)..n : x \in 1..Len(s)
  BY LenProperties
<1>2. \A x \in (m + 1)..n : s[x] \in S
  BY <1>1, ElementOfSeq
<1>3. m + 1 \in Int /\ n \in Int /\ m + 1 <= n /\ n - (m + 1) + 1 = n - m
  OBVIOUS
<1> DEFINE A == SubSeq(s, m + 1, n)
<1>4. A \in Seq(S) /\ Len(A) = n - m /\ \A x \in 1..(n - m) : A[x] = s[m + 1 + x - 1]
  BY <1>2, <1>3, SubSeqProperties
<1> HIDE DEF A
<1>5. DOMAIN A = 1..(n - m) /\ A = [x \in 1..(n - m) |-> A[x]]
  BY <1>4, LenProperties
<1>6. \A x \in 1..(n - m) : A[x] = s[m + x]
  BY <1>4
<1> QED  BY <1>5, <1>6 DEF A

LEMMA SameSlices ==
  ASSUME NEW k, NEW S, NEW M, NEW scores \in Seq(S), NEW members \in Seq(M),
         Len(members) = Len(scores), \A x \in 1..Len(scores) : members[x] = zSet[k][scores[x]]
  PROVE  SlicesAgree(k, scores, members)
<1> SUFFICES ASSUME NEW i \in Int, NEW j \in Int \ {-1}
             PROVE  Mem!MembersOf(k, Mem!Slice(scores, i, j + 1)) = Red!FromTo(members, i, j)
  BY DEF SlicesAgree
<1> DEFINE l == Len(scores)
           p == Mem!Position(i, l)
           q == Mem!Position(j + 1, l)
           first == IF Red!Place(i, l) < 0 THEN 0 ELSE Red!Place(i, l)
           last == IF Red!Place(j, l) >= l THEN l - 1 ELSE Red!Place(j, l)
<1>1. /\ Mem!Slice(scores, i, j + 1) = SubSeq(scores, p + 1, q)
      /\ Red!FromTo(members, i, j) = SubSeq(members, first + 1, last + 1)
  BY DEF Mem!Slice, Red!FromTo
<1>2. l \in Nat
  BY LenProperties
<1>3. /\ p \in 0..l /\ q \in 0..l /\ first \in Nat /\ last \in Int
      /\ p < q => first = p /\ last + 1 = q
      /\ p >= q => first > last
  BY <1>2, Positions
<1> HIDE DEF p, q, first, last
<1>4. CASE p >= q
  <2>1. SubSeq(scores, p + 1, q) = <<>>
    BY <1>2, <1>3, <1>4, SubSeqEmpty
  <2>2. SubSeq(members, first + 1, last + 1) = <<>>
    BY <1>3, <1>4, SubSeqEmpty
  <2>3. Mem!MembersOf(k, <<>>) = <<>>
    BY DEF Mem!MembersOf
  <2> QED  BY <1>1, <2>1, <2>2, <2>3
<1>5. CASE p < q
  <2>1. p \in Nat /\ q \in Nat /\ q <= Len(scores) /\ q <= Len(members)
    BY <1>2, <1>3
  <2>2. /\ DOMAIN SubSeq(scores, p + 1, q) = 1..(q - p)
        /\ SubSeq(scores, p + 1, q) = [x \in 1..(q - p) |-> scores[p + x]]
    BY <1>5, <2>1, Cut
  <2>3. SubSeq(members, p + 1, q) = [x \in 1..(q - p) |-> members[p + x]]
    BY <1>5, <2>1, Cut
  <2>4. \A x \in 1..(q - p) : members[p + x] = zSet[k][scores[p + x]]
    BY <1>2, <2>1
  <2>5. Mem!MembersOf(k, SubSeq(scores, p + 1, q)) = [x \in 1..(q - p) |-> zSet[k][scores[p + x]]]
    BY <2>2 DEF Mem!MembersOf
  <2> QED  BY <1>1, <1>3, <1>5, <2>3, <2>4, <2>5
<1>6. p >= q \/ p < q
  BY <1>3
<1> QED  BY <1>4, <1>5, <1>6

LEMMA SameAnswers ==
  ASSUME NEW k, Numbered(zSet[k]), Numbered(sortedSets[k]), Mirrored(k), shuttingDown = FALSE
  PROVE  /\ \A i \in Int, j \in Int \ {-1} :
              /\ Mem!ZRange(k, i, j) = Red!ZRange(k, i, j)
              /\ Mem!ZRevRange(k, i, j) = Red!ZRevRange(k, i, j)
         /\ \A min, max \in Int :
              /\ Mem!ZRangeByScore(k, min, max) = Red!ZRangeByScore(k, min, max)
              /\ Mem!ZCount(k, min, max) = Red!ZCount(k, min, max)
<1>1. ASSUME NEW i \in Int, NEW j \in Int \ {-1}
      PROVE  /\ Mem!ZRange(k, i, j) = Red!ZRange(k, i, j)
             /\ Mem!ZRevRange(k, i, j) = Red!ZRevRange(k, i, j)
  <2> DEFINE S == DOMAIN zSet[k]
             M == MembersAt(k, S)
             up == Mem!Ascending(S)
             upMembers == Red!Ascending(k, M)
             down == Mem!Descending(S)
             downMembers == Red!Descending(k, M)
  <2>1. Red!Members(k) = M
    BY AllMembers
  <2> HIDE DEF S, M
  <2>2. S \subseteq DOMAIN zSet[k] /\ M = MembersAt(k, S)
    BY DEF S, M
  <2>3. /\ up \in Seq(S) /\ upMembers \in Seq(M) /\ Len(upMembers) = Len(up)
        /\ \A x \in 1..Len(up) : upMembers[x] = zSet[k][up[x]]
    BY <2>2, SameSequences
  <2>4. /\ down \in Seq(S) /\ downMembers \in Seq(M) /\ Len(downMembers) = Len(down)
        /\ \A x \in 1..Len(down) : downMembers[x] = zSet[k][down[x]]
    BY <2>2, SameSequences
  <2> HIDE DEF up, upMembers, down, downMembers
  <2>5. SlicesAgree(k, up, upMembers)
    BY <2>3, SameSlices
  <2>6. SlicesAgree(k, down, downMembers)
    BY <2>4, SameSlices
  <2> QED  BY <2>1, <2>5, <2>6 DEF SlicesAgree, Mem!ZRange, Red!ZRange, Mem!ZRevRange, Red!ZRevRange,
                                 Red!Reply, up, upMembers, down, downMembers, S
<1>2. ASSUME NEW min \in Int, NEW max \in Int
      PROVE  /\ Mem!ZRangeByScore(k, min, max) = Red!ZRangeByScore(k, min, max)
             /\ Mem!ZCount(k, min, max) = Red!ZCount(k, min, max)
  <2> DEFINE S == Mem!InRange(k, min, max)
             M == Red!InRange(k, min, max)
             A == Mem!Ascending(S)
             B == Red!Ascending(k, M)
  <2>1. S \subseteq DOMAIN zSet[k] /\ M = MembersAt(k, S)
    BY MembersInRange DEF Mem!InRange
  <2> HIDE DEF S, M
  <2>2. /\ A \in Seq(S) /\ B \in Seq(M) /\ Len(B) = Len(A)
        /\ \A x \in 1..Len(A) : B[x] = zSet[k][A[x]]
    BY <2>1, SameSequences
  <2> HIDE DEF A, B
  <2>3. DOMAIN A = 1..Len(A) /\ B = [x \in 1..Len(A) |-> B[x]]
    BY <2>2, LenProperties
  <2>4. Mem!MembersOf(k, A) = B
    BY <2>2, <2>3 DEF Mem!MembersOf
  <2> QED  BY <2>2, <2>4 DEF Mem!ZRangeByScore, Red!ZRangeByScore, Mem!ZCount, Red!ZCount, Red!Reply,
                                 S, M, A, B
<1> QED  BY <1>1, <1>2

-----------------------------------------------------------------------------
(* MemoryCache and RedisClient, given any calls in any order: what the two *)
(* hold stays as PairInv says, for any number of keys, fields and scores.  *)
THEOREM PairCorrect == PairSpec => []PairInv
<1>1. PairInit => PairInv
  BY PairInitCorrect
<1>2. PairInv /\ [PairNext]_pairVars => PairInv'
  BY StringsStep, StructuresStep DEF PairInv
<1> QED  BY <1>1, <1>2, PTL DEF PairSpec

(* ICache: after any calls the two hold the same strings and give the      *)
(* answers that ImplementationsAgree lists alike, with its exceptions; the *)
(* ranges for indices from either end.                                     *)
THEOREM CachesAgree == PairSpec => []ImplementationsAgree
<1>1. PairInv => PairTypeOK
  BY DEF PairInv, StringsInv, StringsTyped, Held, PairTypeOK
<1>2. PairInv /\ Up => SameStrings /\ SameHashes
  <2>0. PairInv /\ Up => SameStrings
    BY DEF PairInv, StringsInv
  <2> SUFFICES ASSUME PairInv, Up, NEW k \in HashKeys
               PROVE  SameFields(k) \/ BothFieldless(k)
    BY <2>0 DEF SameHashes
  <2>1. Mem!FieldsOf(k) = hashes[k] /\ ~shuttingDown
    BY DEF PairInv, StringsInv, StructuresInv, Mapped, Up
  <2>2. Mem!Nothing = Red!Nothing /\ DOMAIN Red!Nothing = {}
    BY DEF Mem!Nothing, Red!Nothing
  <2>3. CASE hashes[k] = Red!Nothing
    BY <2>1, <2>2, <2>3 DEF BothFieldless, Mem!HGetAll, Mem!HKeys, Red!HGetAll, Red!HKeys,
                            Red!Reply, Mem!FieldsOf, Mem!HasMap
  <2>4. CASE hashes[k] # Red!Nothing
    BY <2>1, <2>2, <2>4 DEF SameFields, Mem!HGetAll, Mem!HKeys, Red!HGetAll, Red!HKeys,
                            Red!Reply, Mem!FieldsOf, Mem!HasMap
  <2> QED  BY <2>1, <2>3, <2>4
<1>3. PairInv /\ Up => SameSorted
  <2> SUFFICES ASSUME PairInv, Up PROVE SameSorted
    OBVIOUS
  <2> SUFFICES ASSUME NEW k \in SortedKeys \ clashed
               PROVE  /\ \A start \in Indices, stop \in Indices \ {-1} :
                           /\ Mem!ZRange(k, start, stop) = Red!ZRange(k, start, stop)
                           /\ Mem!ZRevRange(k, start, stop) = Red!ZRevRange(k, start, stop)
                      /\ \A min, max \in Scores :
                           /\ Mem!ZRangeByScore(k, min, max) = Red!ZRangeByScore(k, min, max)
                           /\ Mem!ZCount(k, min, max) = Red!ZCount(k, min, max)
    BY DEF SameSorted
  <2>1. Numbered(zSet[k]) /\ Numbered(sortedSets[k]) /\ Mirrored(k) /\ shuttingDown = FALSE
    BY DEF PairInv, StringsInv, FlagsTyped, StructuresInv, StructuresTyped, Up
  <2>2. Indices \subseteq Int /\ Scores \subseteq Int
    <3>1. \A i \in Nat : -i \in Int
      OBVIOUS
    <3>2. Scores \subseteq Int /\ Reach \subseteq Nat
      OBVIOUS
    <3>3. ASSUME NEW x \in Indices PROVE x \in Int
      <4>1. CASE x \in Reach
        BY <3>2, <4>1
      <4>2. ASSUME NEW i \in Reach, x = -i PROVE x \in Int
        BY <3>1, <3>2, <4>2
      <4> QED  BY <4>1, <4>2 DEF Indices
    <3> QED  BY <3>2, <3>3
  <2> QED  BY <2>1, <2>2, SameAnswers
<1>4. PairInv => ImplementationsAgree
  BY <1>1, <1>2, <1>3 DEF ImplementationsAgree
<1> QED  BY <1>4, PairCorrect, PTL

(* MemoryCache.getTtl never reports more life than the entry has. *)
THEOREM TtlsHonest == PairSpec => []TtlHonest
<1>1. ASSUME PairInv, NEW k \in DOMAIN ttls \ cleared, Mem!Reports(k)
      PROVE  \/ Mem!Reported(k) = 0
             \/ Mem!Has(k) /\ (cache[k].life = Mem!Never \/ ttls[k] <= cache[k].life)
  <2>1. ttls[k] \in Int /\ ttls[k] >= 0 /\ DeadlineKept(k)
    BY <1>1 DEF PairInv, StringsInv, StringsTyped, TtlBounded, Mem!Reports, Mem!Past
  <2>2. CASE ttls[k] > 0
    BY <2>1, <2>2 DEF DeadlineKept
  <2>3. CASE ttls[k] = 0
    <3>1. \A n \in Nat \ {0} : (0 + n - 1) \div n = 0
      OBVIOUS
    <3> QED  BY <2>3, <3>1 DEF Mem!Reported
  <2> QED  BY <2>1, <2>2, <2>3
<1>2. PairInv => TtlHonest
  BY <1>1 DEF TtlHonest
<1> QED  BY <1>2, PairCorrect, PTL

(* MemoryCache.gracefulShutdown: a cache that is down holds no string, and *)
(* from its clear on no hash or sorted set that was only stored before it. *)
THEOREM ShutdownsForget == PairSpec => []ShutdownForgets
<1>1. PairInv => ShutdownForgets
  BY DEF PairInv, StringsInv, StructuresInv, ShutdownForgets
<1> QED  BY <1>1, PairCorrect, PTL
=============================================================================
