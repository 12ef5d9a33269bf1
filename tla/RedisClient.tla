---------------------------- MODULE RedisClient ----------------------------
(***************************************************************************)
(* RedisClient and the keys Redis keeps for it: each method is one command *)
(* unless the client is shutting down.  Here the connection answers every  *)
(* command; CacheService has the ones it loses, which every method logs    *)
(* and answers with null.                                                  *)
(***************************************************************************)
EXTENDS Entries, Sequences

CONSTANTS
  Keys, SortedKeys, HashKeys, Second,
  NoTtl,  \* no EX: the key does not expire
  Null

VARIABLES
  strings,      \* key -> [value, life]
  hashes,       \* key -> field -> value
  sortedSets,   \* key -> member -> score
  shuttingDown

data == <<strings, hashes, sortedSets>>

Never == 0

RedisInit ==
  /\ strings = Nothing
  /\ hashes = [k \in HashKeys |-> Nothing]
  /\ sortedSets = [k \in SortedKeys |-> Nothing]
  /\ shuttingDown = FALSE

(* What a method with `if (this.shuttingDown || !key) return` does, and    *)
(* what it answers where the command has an answer                         *)
Reply(answer) == IF shuttingDown THEN Null ELSE answer
Sent(command) ==
  /\ \/ shuttingDown /\ UNCHANGED data
     \/ ~shuttingDown /\ command
  /\ UNCHANGED shuttingDown

-----------------------------------------------------------------------------
Has(k) == k \in DOMAIN strings

(* set and mset *)
Set(K, v, t) ==
  Sent(/\ strings' = Over([k \in K |-> [value |-> v, life |->
                             IF t = NoTtl THEN Never ELSE Second * t]], strings)
       /\ UNCHANGED <<hashes, sortedSets>>)

(* del and mdel: whatever the key holds *)
Del(K) ==
  Sent(/\ strings' = Without(strings, K)
       /\ hashes' = [k \in HashKeys |-> IF k \in K THEN Nothing ELSE hashes[k]]
       /\ sortedSets' = [k \in SortedKeys |-> IF k \in K THEN Nothing ELSE sortedSets[k]])

(* setTtl and msetTtl: EXPIRE; only strings are given a ttl here *)
SetTtl(K, t) ==
  Sent(/\ strings' = [k \in DOMAIN strings |->
                        IF k \in K THEN [strings[k] EXCEPT !.life = Second * t] ELSE strings[k]]
       /\ UNCHANGED <<hashes, sortedSets>>)

(* incrby and mincrby: INCRBY keeps the expiry of the key *)
Incremented(k, n) ==
  IF Has(k) THEN [strings[k] EXCEPT !.value = @ + n] ELSE [value |-> n, life |-> Never]
IncrBy(K, n) ==
  Sent(/\ strings' = Over([k \in K |-> Incremented(k, n)], strings)
       /\ UNCHANGED <<hashes, sortedSets>>)

-----------------------------------------------------------------------------
HSet(k, f, v) ==
  Sent(hashes' = [hashes EXCEPT ![k] = Put(@, f, v)] /\ UNCHANGED <<strings, sortedSets>>)

HDel(k, f) ==
  Sent(hashes' = [hashes EXCEPT ![k] = Without(@, {f})] /\ UNCHANGED <<strings, sortedSets>>)

(* A hash without fields is no key; hgetAll makes null of its {} *)
HGetAll(k) == Reply(IF hashes[k] = Nothing THEN Null ELSE hashes[k])
HKeys(k) == Reply(DOMAIN hashes[k])

(* One score for a member; members of one score are in their own order *)
Below(k, m, n) ==
  \/ sortedSets[k][m] < sortedSets[k][n]
  \/ sortedSets[k][m] = sortedSets[k][n] /\ m < n
Ascending(k, M) == InOrder([m \in M |-> {n \in M : Below(k, n, m)}])
Descending(k, M) == InOrder([m \in M |-> {n \in M : Below(k, m, n)}])
Members(k) == DOMAIN sortedSets[k]
InRange(k, min, max) == {m \in Members(k) : min <= sortedSets[k][m] /\ sortedSets[k][m] <= max}

(* ZRANGE: an index below 0 counts from the end, where -1 is the last *)
Place(i, n) == IF i < 0 THEN n + i ELSE i
FromTo(s, start, stop) ==
  LET n == Len(s)
      first == IF Place(start, n) < 0 THEN 0 ELSE Place(start, n)
      last == IF Place(stop, n) >= n THEN n - 1 ELSE Place(stop, n)
  IN SubSeq(s, first + 1, last + 1)
Lowest(k, n) == {m \in Members(k) : Cardinality({o \in Members(k) : Below(k, o, m)}) < n}

ZAdd(k, score, member) ==
  Sent(/\ sortedSets' = [sortedSets EXCEPT ![k] = Put(@, member, score)]
       /\ UNCHANGED <<strings, hashes>>)

ZPopMin(k, n) ==
  Sent(/\ sortedSets' = [sortedSets EXCEPT ![k] = Without(@, Lowest(k, n))]
       /\ UNCHANGED <<strings, hashes>>)

ZRemRangeByScore(k, min, max) ==
  Sent(/\ sortedSets' = [sortedSets EXCEPT ![k] = Without(@, InRange(k, min, max))]
       /\ UNCHANGED <<strings, hashes>>)

ZCount(k, min, max) == Reply(Len(Ascending(k, InRange(k, min, max))))
ZRange(k, start, stop) == Reply(FromTo(Ascending(k, Members(k)), start, stop))
ZRevRange(k, start, stop) == Reply(FromTo(Descending(k, Members(k)), start, stop))
ZRangeByScore(k, min, max) == Reply(Ascending(k, InRange(k, min, max)))

-----------------------------------------------------------------------------
(* clear and reset: FLUSHDB, refused only by a closed connection *)
Clear ==
  \/ shuttingDown /\ UNCHANGED <<data, shuttingDown>>
  \/ /\ ~shuttingDown
     /\ strings' = Nothing
     /\ hashes' = [k \in HashKeys |-> Nothing]
     /\ sortedSets' = [k \in SortedKeys |-> Nothing]
     /\ UNCHANGED shuttingDown

GracefulShutdown ==
  /\ shuttingDown' = TRUE
  /\ UNCHANGED data

(* Redis expires its keys *)
Elapse ==
  /\ strings' = [k \in {j \in DOMAIN strings : strings[j].life # 1} |->
                   IF strings[k].life = Never THEN strings[k]
                   ELSE [strings[k] EXCEPT !.life = @ - 1]]
  /\ UNCHANGED <<hashes, sortedSets, shuttingDown>>
=============================================================================
