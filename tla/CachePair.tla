----------------------------- MODULE CachePair -----------------------------
(***************************************************************************)
(* The two implementations of ICache, MemoryCache and RedisClient, given   *)
(* the same calls one after the other, as CacheService gives them set, del *)
(* and clear: what one holds the other should hold, and for as long.       *)
(*                                                                         *)
(* Each kind of value has its keys.  Values are numbers, as for incrby.    *)
(***************************************************************************)
EXTENDS Integers, FiniteSets

CONSTANTS
  StringKeys, SortedKeys, HashKeys,
  Second, DefaultTtl, NoTtl, Null,
  Ttls,     \* the seconds a caller gives
  Fields,
  Scores,   \* a set of numbers
  Reach,    \* how far from either end zRange is asked for
  Named,    \* the members of sorted sets: numbers, for Redis's order
  MaxValue  \* bound: values of strings

ASSUME PairAssumption ==
  /\ Second \in Nat \ {0} /\ DefaultTtl \in Nat \ {0} /\ MaxValue \in Nat
  /\ Ttls \subseteq Nat \ {0} /\ NoTtl \notin Ttls
  /\ IsFiniteSet(Scores) /\ Scores \subseteq Int /\ Named \subseteq Int
  /\ Reach \subseteq Nat

VARIABLES
  cache, ttls, hashCache, zSet, isShuttingDown, shutdownBegun, cleared,
  strings, hashes, sortedSets, shuttingDown,
  apart,    \* history: keys whose expiry the two take differently
  clashed,  \* history: sorted sets in which a score or a member was used again
  late      \* history: hashes and sorted sets stored after the shutdown began

Mem == INSTANCE MemoryCache WITH Keys <- StringKeys
Red == INSTANCE RedisClient WITH Keys <- StringKeys

pairVars == <<cache, ttls, hashCache, zSet, isShuttingDown, shutdownBegun, cleared,
              strings, hashes, sortedSets, shuttingDown, apart, clashed, late>>

PairInit ==
  /\ Mem!MemoryInit
  /\ Red!RedisInit
  /\ apart = {}
  /\ clashed = {}
  /\ late = {}

redisVars == <<strings, hashes, sortedSets, shuttingDown>>
histories == <<apart, clashed, late>>

-----------------------------------------------------------------------------
(* A set without a ttl: 15000 seconds in memory, for good in Redis *)
BothSet(k, v, t) ==
  /\ Mem!Set({k}, v, t)
  /\ Red!Set({k}, v, t)
  /\ apart' = IF t = NoTtl THEN apart \cup {k} ELSE apart \ {k}
  /\ UNCHANGED <<clashed, late>>

BothGet(k) == Mem!Get({k}) /\ UNCHANGED <<redisVars, histories>>

BothGetTtl(k) == Mem!GetTtl({k}) /\ UNCHANGED <<redisVars, histories>>

(* MemoryCache does not prolong a 0 *)
BothSetTtl(k, t) ==
  /\ Mem!SetTtl({k}, t)
  /\ Red!SetTtl({k}, t)
  /\ apart' = IF Mem!Has(k) /\ ~Mem!Truthy(k) THEN apart \cup {k} ELSE apart
  /\ UNCHANGED <<clashed, late>>

(* MemoryCache takes the expiry away from the key *)
BothIncrBy(k, n) ==
  /\ \A v \in {Mem!Incremented(k, n), Red!Incremented(k, n).value} : 0 <= v /\ v <= MaxValue
  /\ Mem!IncrBy({k}, n)
  /\ Red!IncrBy({k}, n)
  /\ apart' = IF Red!Has(k) /\ strings[k].life # Red!Never THEN apart \cup {k} ELSE apart
  /\ UNCHANGED <<clashed, late>>

StringCall ==
  \E k \in StringKeys :
    \/ \E v \in 1..MaxValue, t \in Ttls \cup {NoTtl} : BothSet(k, v, t)
    \/ BothGet(k)
    \/ BothGetTtl(k)
    \/ \E t \in Ttls : BothSetTtl(k, t)
    \/ \E n \in {-1, 1} : BothIncrBy(k, n)

-----------------------------------------------------------------------------
StoredLate(k) == late' = IF shutdownBegun THEN late \cup {k} ELSE late

BothHSet(k, f, v) ==
  /\ Mem!HSet(k, f, v)
  /\ Red!HSet(k, f, v)
  /\ StoredLate(k)
  /\ UNCHANGED <<apart, clashed>>

BothHDel(k, f) == Mem!HDel(k, f) /\ Red!HDel(k, f) /\ UNCHANGED histories

(* MemoryCache has one member for a score, Redis one score for a member *)
BothZAdd(k, score, member) ==
  /\ Mem!ZAdd(k, score, member)
  /\ Red!ZAdd(k, score, member)
  /\ clashed' = IF \E m \in DOMAIN sortedSets[k] : (m = member) # (sortedSets[k][m] = score)
                THEN clashed \cup {k} ELSE clashed
  /\ StoredLate(k)
  /\ UNCHANGED apart

BothZPopMin(k, n) == Mem!ZPopMin(k, n) /\ Red!ZPopMin(k, n) /\ UNCHANGED histories

BothZRemRangeByScore(k, min, max) ==
  /\ Mem!ZRemRangeByScore(k, min, max)
  /\ Red!ZRemRangeByScore(k, min, max)
  /\ UNCHANGED histories

StructureCall ==
  \/ \E k \in HashKeys, f \in Fields :
       (\E v \in 1..MaxValue : BothHSet(k, f, v)) \/ BothHDel(k, f)
  \/ \E k \in SortedKeys :
       \/ \E s \in Scores, m \in Named : BothZAdd(k, s, m)
       \/ \E n \in 1..2 : BothZPopMin(k, n)
       \/ \E min, max \in Scores : BothZRemRangeByScore(k, min, max)

-----------------------------------------------------------------------------
BothDel(K) ==
  /\ Mem!Del(K)
  /\ Red!Del(K)
  /\ apart' = apart \ K
  /\ clashed' = clashed \ K
  /\ UNCHANGED late

BothClear ==
  /\ Mem!Clear /\ UNCHANGED <<isShuttingDown, shutdownBegun>>
  /\ Red!Clear
  /\ apart' = {}
  /\ clashed' = {}
  /\ UNCHANGED late

BothShutdownBegins == Mem!ShutdownBegins /\ UNCHANGED <<redisVars, histories>>
BothShutdownEnds == Mem!ShutdownEnds /\ Red!GracefulShutdown /\ UNCHANGED histories

BothElapse ==
  /\ DOMAIN cache \cup DOMAIN ttls \cup DOMAIN strings # {}
  /\ Mem!Elapse
  /\ Red!Elapse
  /\ UNCHANGED histories

SharedCall ==
  \/ \E k \in StringKeys \cup SortedKeys \cup HashKeys : BothDel({k})
  \/ BothClear
  \/ BothShutdownBegins
  \/ BothShutdownEnds
  \/ BothElapse

PairNext == StringCall \/ StructureCall \/ SharedCall

PairSpec == PairInit /\ [][PairNext]_pairVars

-----------------------------------------------------------------------------
PairTypeOK ==
  /\ \A k \in DOMAIN cache : k \in StringKeys /\ cache[k].value \in 0..MaxValue /\ cache[k].life \in Nat
  /\ DOMAIN ttls \subseteq StringKeys /\ \A k \in DOMAIN ttls : ttls[k] >= Mem!Past
  /\ \A k \in DOMAIN strings : k \in StringKeys /\ strings[k].value \in 0..MaxValue

Up == ~shutdownBegun /\ ~shuttingDown

SameStrings ==
  \A k \in StringKeys \ apart :
    /\ Mem!Has(k) <=> Red!Has(k)
    /\ Mem!Has(k) => cache[k] = strings[k]

SameFields(k) == Mem!HGetAll(k) = Red!HGetAll(k) /\ Mem!HKeys(k) = Red!HKeys(k)

(* null and {}, null and [] *)
BothFieldless(k) ==
  /\ Mem!HGetAll(k) \in {Null, Mem!Nothing} /\ Red!HGetAll(k) = Null
  /\ Mem!HKeys(k) \in {Null, {}} /\ Red!HKeys(k) = {}

SameHashes == \A k \in HashKeys : SameFields(k) \/ BothFieldless(k)

Indices == Reach \cup {-i : i \in Reach}

SameSorted ==
  \A k \in SortedKeys \ clashed :
    /\ \A start \in Indices, stop \in Indices \ {-1} :
         /\ Mem!ZRange(k, start, stop) = Red!ZRange(k, start, stop)
         /\ Mem!ZRevRange(k, start, stop) = Red!ZRevRange(k, start, stop)
    /\ \A min, max \in Scores :
         /\ Mem!ZRangeByScore(k, min, max) = Red!ZRangeByScore(k, min, max)
         /\ Mem!ZCount(k, min, max) = Red!ZCount(k, min, max)

(* ICache has two implementations.  After the same calls, and until one is *)
(* shut down, they hold the same strings for the same time and give the    *)
(* same answers to hgetAll, hkeys, zCount, zRange, zRevRange and           *)
(* zRangeByScore, except                                                   *)
(*   - for a string after set without a ttl, incrby of a key that expires, *)
(*     or setTtl of a 0 (apart);                                           *)
(*   - for a sorted set in which a score or a member was used again        *)
(*     (clashed);                                                          *)
(*   - for a hash without fields: hgetAll is null or {} in memory and null *)
(*     in Redis, hkeys null or [] in memory and [] in Redis;               *)
(*   - for a stop of -1: memory answers no members, Redis all to the last. *)
(* Not compared are getTtl, which the two report differently, what zPopMin *)
(* returns, hget and hmget, and the types of the values.                   *)
ImplementationsAgree == PairTypeOK /\ (Up => SameStrings /\ SameHashes /\ SameSorted)

(* MemoryCache.getTtl keeps its deadlines apart from the library's timers: *)
(* it never reports more life than the entry has, and none for an entry    *)
(* that is gone, unless a clear removed it and left the deadline behind.   *)
TtlHonest ==
  \A k \in DOMAIN ttls \ cleared :
    Mem!Reports(k) =>
      \/ Mem!Reported(k) = 0
      \/ Mem!Has(k) /\ (cache[k].life = Mem!Never \/ ttls[k] <= cache[k].life)

StringsForgotten == isShuttingDown => DOMAIN cache = {}
StructuresForgotten ==
  shutdownBegun =>
    DOMAIN hashCache \cup {k \in SortedKeys : DOMAIN zSet[k] # {}} \subseteq late

(* MemoryCache.gracefulShutdown: once the cache is down it holds no string, *)
(* although calls may store between its clear and its flag.  Hashes and    *)
(* sorted sets that are stored then, or later, stay and are served, for    *)
(* hset and zAdd do not look at the flag; but from the clear on the cache  *)
(* holds none that was only stored before it.                              *)
ShutdownForgets == StringsForgotten /\ StructuresForgotten

-----------------------------------------------------------------------------
(* The inductive invariant the proofs of these three rest on.              *)
Held == [value : 0..MaxValue, life : Nat]

StringsTyped ==
  /\ cache \in [DOMAIN cache -> Held] /\ DOMAIN cache \subseteq StringKeys
  /\ strings \in [DOMAIN strings -> Held] /\ DOMAIN strings \subseteq StringKeys
  /\ ttls \in [DOMAIN ttls -> Int] /\ DOMAIN ttls \subseteq StringKeys
  /\ \A k \in DOMAIN ttls : ttls[k] >= Mem!Past

FlagsTyped ==
  /\ {isShuttingDown, shutdownBegun, shuttingDown} \subseteq BOOLEAN
  /\ isShuttingDown => shutdownBegun

Numbered(f) == IsFiniteSet(DOMAIN f) /\ DOMAIN f \subseteq Int /\ f \in [DOMAIN f -> Int]

StructuresTyped ==
  /\ DOMAIN hashCache \subseteq HashKeys /\ DOMAIN hashes = HashKeys
  /\ DOMAIN zSet = SortedKeys /\ DOMAIN sortedSets = SortedKeys
  /\ \A k \in SortedKeys : Numbered(zSet[k]) /\ Numbered(sortedSets[k])

(* An entry whose deadline is ahead is there, and lives as long *)
DeadlineKept(k) ==
  ttls[k] > 0 => Mem!Has(k) /\ (cache[k].life = Mem!Never \/ ttls[k] <= cache[k].life)
TtlBounded == \A k \in DOMAIN ttls \ cleared : DeadlineKept(k)

(* The members by score and the scores by member are inverses *)
Mirrored(k) ==
  /\ \A s \in DOMAIN zSet[k] :
       zSet[k][s] \in DOMAIN sortedSets[k] /\ sortedSets[k][zSet[k][s]] = s
  /\ \A m \in DOMAIN sortedSets[k] :
       sortedSets[k][m] \in DOMAIN zSet[k] /\ zSet[k][sortedSets[k][m]] = m

(* The same fields, whether or not there is a map for them *)
Mapped == \A k \in HashKeys : Mem!FieldsOf(k) = hashes[k]

StringsInv == StringsTyped /\ FlagsTyped /\ TtlBounded /\ StringsForgotten /\ (Up => SameStrings)
StructuresInv ==
  /\ StructuresTyped
  /\ StructuresForgotten
  /\ Up => Mapped /\ \A k \in SortedKeys \ clashed : Mirrored(k)
PairInv == StringsInv /\ StructuresInv
=============================================================================
