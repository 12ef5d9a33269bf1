---------------------------- MODULE CacheService ----------------------------
(***************************************************************************)
(* CacheService over its two caches: the memory of the process, which it   *)
(* only writes (the line of get that reads it is commented out), and Redis *)
(* through RedisClient, which logs an error and answers null.  Every await *)
(* is the end of a step.  One connection would keep its commands in order; *)
(* here they may overtake each other, like those of several processes.     *)
(*                                                                         *)
(* What is cached has versions.  Its owner changes it and then calls       *)
(* delete, so a value older than the last delete is stale.                 *)
(***************************************************************************)
EXTENDS Integers

CONSTANTS
  Keys,
  NoKey,       \* of a call that is for every key, or of no call
  Tasks,       \* calls that run at the same time
  Ttl,         \* the life of what is set, in ticks: ttl = 6000
  MaxVersion,  \* bound: versions of what is cached
  MaxErrors    \* bound: commands that Redis does not answer

ASSUME CacheAssumption ==
  /\ NoKey \notin Keys
  /\ Ttl \in Nat \ {0}
  /\ MaxVersion \in Nat \ {0}
  /\ MaxErrors \in Nat

VARIABLES
  version,  \* of the data behind each key
  memory,   \* the version memoryCache holds
  remote,   \* the version Redis holds, and the ticks it has left
  task,
  errors,
  floor,    \* history: the version at the last delete that has returned
  raced     \* history: keys whose last delete met an older writer or an error

cacheVars == <<version, memory, remote, task, errors, floor, raced>>

NoValue == 0
Versions == 0..MaxVersion
Gone == [value |-> NoValue, life |-> 0]
Entry == [value : Versions, life : 0..Ttl]

Steps == {"idle", "reading", "reply", "computing", "storing", "writing",
          "removing", "flushing"}
Task == [op : {"none", "get", "getOrSet", "set", "delete", "clear"},
         key : Keys \cup {NoKey},
         at : Steps,
         holds : Versions,  \* the value it has in hand, or the version it deletes
         since : Versions]  \* history: floor when it started
Rest == [op |-> "none", key |-> NoKey, at |-> "idle", holds |-> NoValue, since |-> 0]

CacheInit ==
  /\ version = [k \in Keys |-> 1]
  /\ memory = [k \in Keys |-> NoValue]
  /\ remote = [k \in Keys |-> Gone]
  /\ task = [t \in Tasks |-> Rest]
  /\ errors = 0
  /\ floor = [k \in Keys |-> 0]
  /\ raced = {}

At(t, step) == task[t].at = step
Idle(t) == At(t, "idle")
Ends(t) == task' = [task EXCEPT ![t] = Rest]
Starts(t, op, k, step, v) ==
  task' = [task EXCEPT ![t] =
             [op |-> op, key |-> k, at |-> step, holds |-> v, since |->
                IF k = NoKey THEN 0 ELSE floor[k]]]
Goes(t, step, v) == task' = [task EXCEPT ![t] = [@ EXCEPT !.at = step, !.holds = v]]

Answered == UNCHANGED errors
LosesAnswer == errors < MaxErrors /\ errors' = errors + 1

-----------------------------------------------------------------------------
(* What is cached changes; the owner's next call is delete *)
Update(k) ==
  /\ version[k] < MaxVersion
  /\ version' = [version EXCEPT ![k] = @ + 1]
  /\ UNCHANGED <<memory, remote, task, errors, floor, raced>>

Get(t, op, k) ==
  /\ Idle(t)
  /\ Starts(t, op, k, "reading", NoValue)
  /\ UNCHANGED <<version, memory, remote, errors, floor, raced>>

(* No value: get returns null, and getOrSet calls its callback *)
Misses(t) ==
  IF task[t].op = "getOrSet" THEN Goes(t, "computing", NoValue) ELSE Ends(t)

(* mutant: get tries the memory first *)
MemoryThenRemoteGet(t) ==
  LET k == task[t].key
      found == IF memory[k] # NoValue THEN memory[k] ELSE remote[k].value IN
  /\ At(t, "reading")
  /\ IF found = NoValue THEN Misses(t) ELSE Goes(t, "reply", found)
  /\ Answered
  /\ UNCHANGED <<version, memory, remote, floor, raced>>

RemoteGet(t) ==
  LET found == remote[task[t].key].value IN
  /\ At(t, "reading")
  /\ \/ Answered /\ IF found = NoValue THEN Misses(t) ELSE Goes(t, "reply", found)
     \/ LosesAnswer /\ Misses(t)
  /\ UNCHANGED <<version, memory, remote, floor, raced>>

(* mutant: what was read is set again, in both caches *)
ServedAndStored(t) ==
  /\ At(t, "reply")
  /\ memory' = [memory EXCEPT ![task[t].key] = task[t].holds]
  /\ remote' = [remote EXCEPT ![task[t].key] = [value |-> task[t].holds, life |-> Ttl]]
  /\ Ends(t)
  /\ UNCHANGED <<version, errors, floor, raced>>

Served(t) ==
  /\ At(t, "reply")
  /\ memory' = [memory EXCEPT ![task[t].key] = task[t].holds]
  /\ Ends(t)
  /\ UNCHANGED <<version, remote, errors, floor, raced>>

(* The callback of getOrSet reads the data, some time before it resolves *)
Compute(t) ==
  /\ At(t, "computing")
  /\ Goes(t, "storing", version[task[t].key])
  /\ UNCHANGED <<version, memory, remote, errors, floor, raced>>

CallbackFails(t) ==
  /\ At(t, "computing")
  /\ Ends(t)
  /\ UNCHANGED <<version, memory, remote, errors, floor, raced>>

(* set: the memory at once, Redis when the command gets there *)
Store(t) ==
  /\ At(t, "storing")
  /\ memory' = [memory EXCEPT ![task[t].key] = task[t].holds]
  /\ Goes(t, "writing", task[t].holds)
  /\ UNCHANGED <<version, remote, errors, floor, raced>>

Set(t, k) ==
  /\ Idle(t)
  /\ memory' = [memory EXCEPT ![k] = version[k]]
  /\ Starts(t, "set", k, "writing", version[k])
  /\ UNCHANGED <<version, remote, errors, floor, raced>>

(* mutant: the command has no EX *)
RemoteSetForGood(t) ==
  /\ At(t, "writing")
  /\ remote' = [remote EXCEPT ![task[t].key] = [value |-> task[t].holds, life |-> 0]]
  /\ Answered
  /\ Ends(t)
  /\ UNCHANGED <<version, memory, floor, raced>>

RemoteSet(t) ==
  LET written == [remote EXCEPT ![task[t].key] = [value |-> task[t].holds, life |-> Ttl]] IN
  /\ At(t, "writing")
  /\ \/ Answered /\ remote' = written
     \/ LosesAnswer /\ remote' \in {remote, written}
  /\ Ends(t)
  /\ UNCHANGED <<version, memory, floor, raced>>

Delete(t, k) ==
  /\ Idle(t)
  /\ memory' = [memory EXCEPT ![k] = NoValue]
  /\ Starts(t, "delete", k, "removing", version[k])
  /\ UNCHANGED <<version, remote, errors, floor, raced>>

Writer(t) == At(t, "storing") \/ At(t, "writing")
OlderWriter(k, v) == \E t \in Tasks : Writer(t) /\ task[t].key = k /\ task[t].holds < v
Alone(t) == \A u \in Tasks \ {t} : task[u].key # task[t].key

(* delete returns whether Redis removed the key or not *)
RemoteDel(t) ==
  LET k == task[t].key
      v == task[t].holds
      removed == [remote EXCEPT ![k] = Gone] IN
  /\ At(t, "removing")
  /\ \/ /\ Answered
        /\ remote' = removed
        /\ raced' = IF OlderWriter(k, v) THEN raced \cup {k}
                    ELSE IF Alone(t) THEN raced \ {k} ELSE raced
     \/ /\ LosesAnswer
        /\ remote' \in {remote, removed}
        /\ raced' = raced \cup {k}
  /\ floor' = [floor EXCEPT ![k] = IF @ < v THEN v ELSE @]
  /\ Ends(t)
  /\ UNCHANGED <<version, memory>>

Clear(t) ==
  /\ Idle(t)
  /\ memory' = [k \in Keys |-> NoValue]
  /\ Starts(t, "clear", NoKey, "flushing", NoValue)
  /\ UNCHANGED <<version, remote, errors, floor, raced>>

RemoteClear(t) ==
  LET emptied == [k \in Keys |-> Gone] IN
  /\ At(t, "flushing")
  /\ \/ Answered /\ remote' = emptied
     \/ LosesAnswer /\ remote' \in {remote, emptied}
  /\ Ends(t)
  /\ UNCHANGED <<version, memory, floor, raced>>

(* MemoryCache's entries expire by themselves, at any time as nothing here *)
(* reads them                                                              *)
MemoryExpires(k) ==
  /\ memory[k] # NoValue
  /\ memory' = [memory EXCEPT ![k] = NoValue]
  /\ UNCHANGED <<version, remote, task, errors, floor, raced>>

Tick ==
  /\ \E k \in Keys : remote[k].life > 0
  /\ remote' = [k \in Keys |->
       IF remote[k].life = 1 THEN Gone
       ELSE IF remote[k].life = 0 THEN remote[k]
       ELSE [remote[k] EXCEPT !.life = @ - 1]]
  /\ UNCHANGED <<version, memory, task, errors, floor, raced>>

Proceed(t) ==
  \/ RemoteGet(t)
  \/ Served(t)
  \/ Compute(t)
  \/ CallbackFails(t)
  \/ Store(t)
  \/ RemoteSet(t)
  \/ RemoteDel(t)
  \/ RemoteClear(t)

CacheNext ==
  \/ \E t \in Tasks :
       \/ \E k \in Keys :
            \/ \E op \in {"get", "getOrSet"} : Get(t, op, k)
            \/ Set(t, k)
            \/ Delete(t, k)
       \/ Clear(t)
       \/ Proceed(t)
  \/ \E k \in Keys : Update(k) \/ MemoryExpires(k)
  \/ Tick

CacheSpec == CacheInit /\ [][CacheNext]_cacheVars

-----------------------------------------------------------------------------
CacheTypeOK ==
  /\ version \in [Keys -> Versions]
  /\ memory \in [Keys -> Versions]
  /\ remote \in [Keys -> Entry]
  /\ task \in [Tasks -> Task]
  /\ errors \in 0..MaxErrors
  /\ floor \in [Keys -> Versions]
  /\ raced \subseteq Keys

HasKey(t) == At(t, "idle") \/ At(t, "flushing") \/ task[t].key \in Keys

NothingNewer ==
  /\ \A k \in Keys : floor[k] <= version[k]
  /\ \A t \in Tasks :
       /\ HasKey(t)
       /\ Writer(t) \/ At(t, "removing") => task[t].holds <= version[task[t].key]
       /\ At(t, "reading") \/ At(t, "reply") => task[t].since <= floor[task[t].key]

RemoteFresh ==
  \A k \in Keys \ raced : remote[k].value = NoValue \/ remote[k].value >= floor[k]

HoldersFresh ==
  \A t \in Tasks : task[t].key \notin raced =>
    /\ Writer(t) => task[t].holds >= floor[task[t].key]
    /\ At(t, "reply") => task[t].holds >= task[t].since

(* CacheService.delete: once it has returned, neither Redis nor a call     *)
(* that is about to write it has an older value, unless the delete met     *)
(* such a writer or an error.  getOrSet is what makes this hard: it holds  *)
(* a value across awaits.                                                  *)
CacheInv == CacheTypeOK /\ NothingNewer /\ RemoteFresh /\ HoldersFresh

(* CacheService.get and getOrSet serve nothing that a delete removed which *)
(* had returned before they were called, except for a key whose last       *)
(* delete met a call that was about to write an older value, or lost its   *)
(* del to an error (raced): getOrSet then serves what it should not until  *)
(* that value expires, which is StaleExpires.                              *)
ServedFresh ==
  [][\A t \in Tasks :
       At(t, "reply") /\ task'[t].at = "idle" /\ task[t].key \notin raced =>
         task[t].holds >= task[t].since]_cacheVars

(* A stale value that a race or a lost del left in Redis goes at last,     *)
(* because every set gives it a ttl and reads do not prolong it.           *)
Stale(k) == remote[k].value # NoValue /\ remote[k].value < floor[k]
StaleExpires == \A k \in Keys : Stale(k) ~> ~Stale(k)
=============================================================================
