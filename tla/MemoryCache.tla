---------------------------- MODULE MemoryCache ----------------------------
(***************************************************************************)
(* MemoryCache: strings in the memory-cache library, whose timers drop an  *)
(* entry when its life ends, deadlines of its own (ttls) to report what is *)
(* left, and maps of its own for hashes and sorted sets.                   *)
(*                                                                         *)
(* Time is relative: a life or a deadline is what is left of it, counted   *)
(* in units of which Second make a second.  The methods for several keys   *)
(* run those for one without a pause, so each is written for a set of keys.*)
(* A Buffer for a key is the string it converts to.                        *)
(***************************************************************************)
EXTENDS Entries, Sequences

CONSTANTS
  Keys,        \* of strings
  SortedKeys,  \* of sorted sets
  Second,      \* the units of time in a second
  DefaultTtl,  \* seconds: set reads DEFAULT_CACHE_TTL as 15000 of them
  NoTtl,       \* the ttl of a set without one
  Null

VARIABLES
  cache,           \* key -> [value, life]
  ttls,            \* key -> what is left until its deadline, < 0 when past
  hashCache,       \* key -> field -> value, for the keys with a map
  zSet,            \* key -> score -> member
  isShuttingDown,
  shutdownBegun,   \* gracefulShutdown awaits its clear
  cleared          \* history: keys whose entry a clear removed

strings == <<cache, ttls, cleared>>
structures == <<hashCache, zSet>>
flags == <<isShuttingDown, shutdownBegun>>

Never == 0  \* the life of an entry without a timer
Past == -1
Seconds(t) == Second * (IF t = NoTtl THEN DefaultTtl ELSE t)

MemoryInit ==
  /\ cache = Nothing
  /\ ttls = Nothing
  /\ hashCache = Nothing
  /\ zSet = [k \in SortedKeys |-> Nothing]
  /\ isShuttingDown = FALSE
  /\ shutdownBegun = FALSE
  /\ cleared = {}

(* What a method with `if (this.isShuttingDown) return null` does *)
Guarded(A) ==
  \/ isShuttingDown /\ UNCHANGED strings
  \/ ~isShuttingDown /\ A

-----------------------------------------------------------------------------
Has(k) == k \in DOMAIN cache

(* get and mget: a miss forgets the deadline *)
Get(K) ==
  /\ Guarded(/\ ttls' = Without(ttls, K \ DOMAIN cache)
             /\ cleared' = cleared \ (K \ DOMAIN cache)
             /\ UNCHANGED cache)
  /\ UNCHANGED <<structures, flags>>

(* set and mset; a ttl of 0 throws in the library and stores nothing *)
Set(K, v, t) ==
  /\ Guarded(/\ cache' = Over([k \in K |-> [value |-> v, life |-> Seconds(t)]], cache)
             /\ ttls' = Over([k \in K |-> Seconds(t)], ttls)
             /\ cleared' = cleared \ K)
  /\ UNCHANGED <<structures, flags>>

(* mutant: the deadline is kept *)
DelEntryOnly(K) ==
  /\ \/ isShuttingDown /\ UNCHANGED <<strings, structures>>
     \/ /\ ~isShuttingDown
        /\ cache' = Without(cache, K)
        /\ hashCache' = Without(hashCache, K)
        /\ zSet' = [z \in SortedKeys |-> IF z \in K THEN Nothing ELSE zSet[z]]
        /\ UNCHANGED <<ttls, cleared>>
  /\ UNCHANGED flags

(* del and mdel *)
Del(K) ==
  /\ \/ isShuttingDown /\ UNCHANGED <<strings, structures>>
     \/ /\ ~isShuttingDown
        /\ cache' = Without(cache, K)
        /\ ttls' = Without(ttls, K)
        /\ cleared' = cleared \ K
        /\ hashCache' = Without(hashCache, K)
        /\ zSet' = [z \in SortedKeys |-> IF z \in K THEN Nothing ELSE zSet[z]]
  /\ UNCHANGED flags

(* setTtl and msetTtl: nothing for a key without a value, or whose value is *)
(* 0; the deadline is recorded in milliseconds                             *)
Truthy(k) == Has(k) /\ cache[k].value # 0
SetTtl(K, t) ==
  LET live == {k \in K : Truthy(k)} IN
  /\ Guarded(/\ cache' = Over([k \in live |-> [cache[k] EXCEPT !.life = Second * t]], cache)
             /\ ttls' = Over([k \in live |-> t], ttls)
             /\ cleared' = cleared \ live)
  /\ UNCHANGED <<structures, flags>>

(* getTtl and mgetTtl: a deadline that is past is forgotten *)
GetTtl(K) ==
  LET past == {k \in K \cap DOMAIN ttls : ttls[k] = Past} IN
  /\ Guarded(/\ ttls' = Without(ttls, past)
             /\ cleared' = cleared \ past
             /\ UNCHANGED cache)
  /\ UNCHANGED <<structures, flags>>

(* What getTtl answers, in seconds *)
Reports(k) == ~isShuttingDown /\ k \in DOMAIN ttls /\ ttls[k] # Past
Reported(k) == (ttls[k] + Second - 1) \div Second

Incremented(k, n) == (IF Has(k) THEN cache[k].value ELSE 0) + n

(* incrby and mincrby put without a time: the entry never expires *)
IncrBy(K, n) ==
  /\ Guarded(/\ cache' = Over([k \in K |-> [value |-> Incremented(k, n), life |-> Never]], cache)
             /\ UNCHANGED <<ttls, cleared>>)
  /\ UNCHANGED <<structures, flags>>

-----------------------------------------------------------------------------
(* The methods of hashes and sorted sets do not look at isShuttingDown *)
HasMap(k) == k \in DOMAIN hashCache
FieldsOf(k) == IF HasMap(k) THEN hashCache[k] ELSE Nothing

HSet(k, f, v) ==
  /\ hashCache' = Put(hashCache, k, Put(FieldsOf(k), f, v))
  /\ UNCHANGED <<strings, zSet, flags>>

(* The map stays when its last field goes *)
HDel(k, f) ==
  /\ hashCache' = IF HasMap(k) THEN [hashCache EXCEPT ![k] = Without(@, {f})] ELSE hashCache
  /\ UNCHANGED <<strings, zSet, flags>>

HGetAll(k) == IF HasMap(k) THEN hashCache[k] ELSE Null
HKeys(k) == IF HasMap(k) THEN DOMAIN hashCache[k] ELSE Null

(* One member for a score *)
ZAdd(k, score, member) ==
  /\ zSet' = [zSet EXCEPT ![k] = Put(@, score, member)]
  /\ UNCHANGED <<strings, hashCache, flags>>

InRange(k, min, max) == {s \in DOMAIN zSet[k] : min <= s /\ s <= max}
Ascending(S) == InOrder([s \in S |-> {r \in S : r < s}])
Descending(S) == InOrder([s \in S |-> {r \in S : r > s}])

(* Array.slice: an index below 0 counts from the end *)
Position(i, n) == IF i >= n THEN n ELSE IF i >= 0 THEN i ELSE IF n + i >= 0 THEN n + i ELSE 0
Slice(s, from, to) == SubSeq(s, Position(from, Len(s)) + 1, Position(to, Len(s)))
MembersOf(k, scores) == [i \in DOMAIN scores |-> zSet[k][scores[i]]]

(* mutant: the scores are sorted as zRevRange sorts them *)
ZPopMax(k, n) ==
  LET popped == Slice(Descending(DOMAIN zSet[k]), 0, n) IN
  /\ zSet' = [zSet EXCEPT ![k] = Without(@, {popped[i] : i \in DOMAIN popped})]
  /\ UNCHANGED <<strings, hashCache, flags>>

ZPopMin(k, n) ==
  LET popped == Slice(Ascending(DOMAIN zSet[k]), 0, n) IN
  /\ zSet' = [zSet EXCEPT ![k] = Without(@, {popped[i] : i \in DOMAIN popped})]
  /\ UNCHANGED <<strings, hashCache, flags>>

ZRemRangeByScore(k, min, max) ==
  /\ zSet' = [zSet EXCEPT ![k] = Without(@, InRange(k, min, max))]
  /\ UNCHANGED <<strings, hashCache, flags>>

ZCount(k, min, max) == Len(Ascending(InRange(k, min, max)))

(* A stop of -1 makes slice end at 0 *)
ZRange(k, start, stop) == MembersOf(k, Slice(Ascending(DOMAIN zSet[k]), start, stop + 1))
ZRevRange(k, start, stop) == MembersOf(k, Slice(Descending(DOMAIN zSet[k]), start, stop + 1))
ZRangeByScore(k, min, max) == MembersOf(k, Ascending(InRange(k, min, max)))

-----------------------------------------------------------------------------
(* clear and reset leave ttls as it is *)
Clear ==
  /\ cache' = Nothing
  /\ cleared' = cleared \cup (DOMAIN ttls)
  /\ hashCache' = Nothing
  /\ zSet' = [k \in SortedKeys |-> Nothing]
  /\ UNCHANGED ttls

(* gracefulShutdown up to its await, which lets other calls in *)
ShutdownBegins ==
  /\ ~shutdownBegun
  /\ Clear
  /\ shutdownBegun' = TRUE
  /\ UNCHANGED isShuttingDown

(* mutant: clear is taken to have emptied the cache *)
ShutdownKeepsCache ==
  /\ shutdownBegun /\ ~isShuttingDown
  /\ isShuttingDown' = TRUE
  /\ UNCHANGED <<strings, structures, shutdownBegun>>

ShutdownEnds ==
  /\ shutdownBegun /\ ~isShuttingDown
  /\ cache' = Nothing
  /\ cleared' = cleared \cup DOMAIN ttls
  /\ isShuttingDown' = TRUE
  /\ UNCHANGED <<ttls, structures, shutdownBegun>>

(* The library's timers, and Date.now() *)
Elapse ==
  /\ cache' = [k \in {j \in DOMAIN cache : cache[j].life # 1} |->
                 IF cache[k].life = Never THEN cache[k] ELSE [cache[k] EXCEPT !.life = @ - 1]]
  /\ ttls' = [k \in DOMAIN ttls |-> IF ttls[k] = Past THEN Past ELSE ttls[k] - 1]
  /\ UNCHANGED <<cleared, structures, flags>>
=============================================================================
