---------------------------- MODULE RequestProofs ----------------------------
(***************************************************************************)
(* A write is executed at most once and keeps the contract of RemoteCall.  *)
(***************************************************************************)
EXTENDS RequestInvariant, TLAPS

LEMMA CallsOnTheWire ==
  ASSUME TypeOK, NEW m \in wire
  PROVE  m.call \in Calls /\ m.attempt \in 1..MaxAttempts /\ m = Attempt(m.call, m.attempt)
BY DEF TypeOK, Attempt

LEMMA StepType == TypeOK /\ [Next]_vars => TypeOK'
<1> SUFFICES ASSUME TypeOK, [Next]_vars PROVE TypeOK'
  OBVIOUS
<1> USE DEF TypeOK
<1>1. ASSUME NEW c \in Calls, Start(c) PROVE TypeOK'
  BY <1>1, AttemptsAssumption DEF Start, Transmit, Attempt
<1>2. ASSUME NEW m \in wire, NEW s \in Statuses, Serve(m, s) \/ Refuse(m, s) PROVE TypeOK'
  BY <1>2, CallsOnTheWire DEF Serve, Refuse, Reply
<1>3. ASSUME NEW c \in Calls, TimeOut(c) PROVE TypeOK'
  BY <1>3 DEF TimeOut, GiveUp
<1>4. ASSUME NEW c \in Calls, NEW s \in Statuses, Resolve(c, s) PROVE TypeOK'
  BY <1>4 DEF Resolve
<1>5. ASSUME NEW c \in Calls, NEW s \in Statuses, Retry(c, s) PROVE TypeOK'
  <2>1. attempt[c] + 1 \in 1..MaxAttempts
    BY <1>5, AttemptsAssumption DEF Retry, Retries, MayRepeat
  <2> QED BY <1>5, <2>1 DEF Retry, Transmit, Attempt
<1>6. ASSUME NEW c \in Calls, NEW s \in Statuses, Throw(c, s) PROVE TypeOK'
  BY <1>6, StatusesAssumption DEF Throw
<1>7. CASE UNCHANGED vars
  BY <1>7 DEF vars
<1> QED
  BY <1>1, <1>2, <1>3, <1>4, <1>5, <1>6, <1>7 DEF Next, Server, Client

(* Only reads are transmitted again *)
LEMMA StepWrites == TypeOK /\ WritesInv /\ [Next]_vars => WritesInv'
<1> SUFFICES ASSUME TypeOK, WritesInv, [Next]_vars, NEW c \in Writes PROVE SentOnce(c)'
  BY DEF WritesInv
<1>0. SentOnce(c) /\ c \in Calls
  BY DEF WritesInv, Calls
<1> USE <1>0 DEF SentOnce, OnItsWay, Replied
<1>1. ASSUME NEW d \in Calls, Start(d) PROVE SentOnce(c)'
  <2>1. CASE d = c
    <3>1. \A m \in wire' : m.call = c => m = Attempt(c, 1)
      BY <1>1, <2>1 DEF Start, Transmit
    <3> QED BY <1>1, <2>1, <3>1 DEF Start, Transmit, TypeOK
  <2>2. CASE d # c
    <3>1. \A m : m.call = c => (m \in wire' <=> m \in wire)
      BY <1>1, <2>2 DEF Start, Transmit, Attempt
    <3>2. UNCHANGED <<replies, executed>> /\ state'[c] = state[c] /\ attempt'[c] = attempt[c]
      BY <1>1, <2>2 DEF Start, Transmit, TypeOK
    <3> QED BY <3>1, <3>2
  <2> QED BY <2>1, <2>2
<1>2. ASSUME NEW m \in wire, NEW s \in Statuses, Serve(m, s) \/ Refuse(m, s) PROVE SentOnce(c)'
  <2>1. /\ m.call \in Calls
        /\ UNCHANGED <<state, attempt>>
        /\ wire' = wire \ {m}
        /\ replies' = replies \cup {Reply(m.call, m.attempt, s)}
        /\ \/ executed' = [executed EXCEPT ![m.call] = @ + 1]
           \/ executed' = executed /\ ~Succeeds(s)
    BY <1>2, CallsOnTheWire DEF Serve, Refuse, Succeeds
  <2>2. CASE m.call = c
    <3>1. state[c] # "new" /\ ~Replied(c) /\ executed[c] = 0
      BY <2>2
    <3>2. \A n \in wire' : n.call # c
      BY <2>1, <2>2
    <3>3. Replied(c)' /\ \A p \in replies' : p.call = c => p = Reply(c, m.attempt, s)
      <4>1. Reply(c, m.attempt, s).call = c /\ Reply(c, m.attempt, s) \in replies'
        BY <2>1, <2>2 DEF Reply
      <4> QED BY <2>1, <2>2, <3>1, <4>1
    <3>4. executed'[c] = 1 \/ (executed'[c] = 0 /\ ~Succeeds(s))
      BY <2>1, <2>2, <3>1 DEF TypeOK
    <3>5. \A p \in replies' : p.call = c => p.status = s
      BY <3>3 DEF Reply
    <3> QED BY <2>1, <3>1, <3>2, <3>3, <3>4, <3>5
  <2>3. CASE m.call # c
    <3>1. /\ OnItsWay(c)' <=> OnItsWay(c)
          /\ \A p : p.call = c => (p \in replies' <=> p \in replies)
      BY <2>1, <2>3 DEF Reply
    <3>2. executed'[c] = executed[c]
      BY <2>1, <2>3 DEF TypeOK
    <3> QED BY <2>1, <3>1, <3>2
  <2> QED BY <2>2, <2>3
<1>3. ASSUME NEW d \in Calls, NEW s \in Statuses,
             TimeOut(d) \/ Resolve(d, s) \/ Throw(d, s)
      PROVE  SentOnce(c)'
  <2>1. /\ UNCHANGED <<attempt, wire, replies, executed>>
        /\ state'[c] = state[c] \/ (state[c] = "waiting" /\ state'[c] \in {"answered", "failed"})
    BY <1>3 DEF TimeOut, GiveUp, Resolve, Throw, Receives, TypeOK
  <2> QED BY <2>1
<1>4. ASSUME NEW d \in Calls, NEW s \in Statuses, Retry(d, s) PROVE SentOnce(c)'
  <2>1. d # c
    BY <1>4, CallsAssumption DEF Retry, Retries, allowedMethods
  <2>2. \A m : m.call = c => (m \in wire' <=> m \in wire)
    BY <1>4, <2>1 DEF Retry, Transmit, Attempt
  <2>3. UNCHANGED <<state, replies, executed>> /\ attempt'[c] = attempt[c]
    BY <1>4, <2>1 DEF Retry, Transmit, TypeOK
  <2> QED BY <2>2, <2>3
<1>5. ASSUME NEW d \in Calls, TimeOut(d) PROVE SentOnce(c)'
  <2>1. /\ UNCHANGED <<attempt, wire, replies, executed>>
        /\ state'[c] = state[c] \/ (state[c] = "waiting" /\ state'[c] = "failed")
    BY <1>5 DEF TimeOut, GiveUp, TypeOK
  <2> QED BY <2>1
<1>6. CASE UNCHANGED vars
  BY <1>6 DEF vars
<1> QED
  BY <1>1, <1>2, <1>3, <1>4, <1>5, <1>6 DEF Next, Server, Client

LEMMA Inductive == Spec => [](TypeOK /\ WritesInv)
<1>1. Init => TypeOK /\ WritesInv
  BY AttemptsAssumption
     DEF Init, TypeOK, WritesInv, SentOnce, OnItsWay, Replied, NoStatus, Calls
<1>2. TypeOK /\ WritesInv /\ [Next]_vars => (TypeOK /\ WritesInv)'
  BY StepType, StepWrites
<1> QED BY <1>1, <1>2, PTL DEF Spec

(* Every call keeps to MaxAttempts, and what is on its way and what comes  *)
(* back belongs to one of its attempts.                                    *)
THEOREM CallsTyped == Spec => []TypeOK
BY Inductive, PTL

(* The only request of a write is in one place: not sent yet, on its way,  *)
(* or replied to.                                                          *)
THEOREM WritesInOnePlace == Spec => []WritesInv
BY Inductive, PTL

(* A read that failed with a status worth a retry used all its attempts,   *)
(* whatever came back before and however late                              *)
THEOREM ReadsUseAllAttempts == Spec => []ReadsRetried
<1> DEFINE EndedInv == \A c \in Calls : thrown[c] # NoStatus => state[c] = "failed"
<1>1. Init => TypeOK /\ EndedInv /\ ReadsRetried
  BY AttemptsAssumption DEF Init, TypeOK, ReadsRetried, NoStatus, Calls, allowedResponseStatuses
<1>2. TypeOK /\ EndedInv /\ ReadsRetried /\ [Next]_vars => (TypeOK /\ EndedInv /\ ReadsRetried)'
  <2> SUFFICES ASSUME TypeOK, EndedInv, ReadsRetried, [Next]_vars
               PROVE  EndedInv' /\ ReadsRetried'
    BY StepType
  <2>0. Reads \subseteq Calls /\ NoStatus \notin allowedResponseStatuses
    BY DEF Calls, NoStatus, allowedResponseStatuses
  <2>1. ASSUME UNCHANGED <<attempt, thrown>>,
               \A c \in Calls : state[c] = "failed" => state'[c] = "failed"
        PROVE  EndedInv' /\ ReadsRetried'
    BY <2>1 DEF ReadsRetried
  <2>2. ASSUME NEW d \in Calls, state[d] # "failed",
               attempt' \in [Calls -> 0..MaxAttempts],
               \A c \in Calls \ {d} : attempt'[c] = attempt[c] /\ state'[c] = state[c],
               UNCHANGED thrown
        PROVE  EndedInv' /\ ReadsRetried'
    BY <2>0, <2>2 DEF ReadsRetried
  <2>3. CASE Server \/ UNCHANGED vars
    BY <2>1, <2>3 DEF Server, Serve, Refuse, vars
  <2>4. ASSUME NEW c \in Calls, Start(c) PROVE EndedInv' /\ ReadsRetried'
    BY <2>2, <2>4, AttemptsAssumption DEF Start, Transmit, TypeOK
  <2>5. ASSUME NEW c \in Calls, TimeOut(c) PROVE EndedInv' /\ ReadsRetried'
    BY <2>1, <2>5 DEF TimeOut, GiveUp, TypeOK
  <2>6. ASSUME NEW c \in Calls, NEW s \in Statuses, Resolve(c, s)
        PROVE  EndedInv' /\ ReadsRetried'
    BY <2>1, <2>6 DEF Resolve, Receives, TypeOK
  <2>7. ASSUME NEW c \in Calls, NEW s \in Statuses, Retry(c, s)
        PROVE  EndedInv' /\ ReadsRetried'
    BY <2>2, <2>7, AttemptsAssumption DEF Retry, Retries, MayRepeat, Receives, Transmit, TypeOK
  <2>8. ASSUME NEW c \in Calls, NEW s \in Statuses, Throw(c, s)
        PROVE  EndedInv' /\ ReadsRetried'
    <3>1. c \in Reads /\ s \in allowedResponseStatuses => attempt[c] = MaxAttempts
      BY <2>8, AttemptsAssumption DEF Throw, Retries, MayRepeat, allowedMethods, TypeOK
    <3>2. EndedInv'
      BY <2>8 DEF Throw, TypeOK
    <3>3. ReadsRetried'
      BY <2>0, <2>8, <3>1 DEF Throw, TypeOK, ReadsRetried
    <3> QED BY <3>2, <3>3
  <2> QED
    BY <2>3, <2>4, <2>5, <2>6, <2>7, <2>8 DEF Next, Client
<1>3. Spec => [](TypeOK /\ EndedInv /\ ReadsRetried)
  <2> HIDE DEF EndedInv
  <2> QED BY <1>1, <1>2, PTL DEF Spec
<1> QED BY <1>3, PTL

(* No post reaches the server's state twice, with any number of calls,     *)
(* attempts and statuses                                                   *)
THEOREM WritesOnce == Spec => []WrittenOnce
<1>1. TypeOK /\ WritesInv => WrittenOnce
  BY DEF WritesInv, SentOnce, WrittenOnce
<1> QED BY <1>1, Inductive, PTL

-----------------------------------------------------------------------------
(* RequestController's writes implement RemoteCall                         *)
THEOREM ImplementsContract == Spec => KeepsContract
<1> DEFINE once == [c \in Writes |-> executed[c]]
           seen == [c \in Writes |-> Outcome(c)]
<1> USE DEF Outcome
<1>1. Init => Contract!Init
  BY DEF Init, Contract!Init, Calls
<1>2. TypeOK /\ WritesInv /\ [Next]_vars => [Contract!Next]_<<once, seen>>
  <2> SUFFICES ASSUME TypeOK, WritesInv, [Next]_vars
               PROVE  Contract!Next \/ (once' = once /\ seen' = seen)
    OBVIOUS
  <2>0. Writes \subseteq Calls
    BY DEF Calls
  <2>1. ASSUME UNCHANGED <<executed, state>> PROVE once' = once /\ seen' = seen
    BY <2>1
  <2>2. ASSUME NEW d \in Calls, Start(d) PROVE once' = once /\ seen' = seen
    BY <2>0, <2>2 DEF Start, TypeOK
  <2>3. ASSUME NEW m \in wire, NEW s \in Statuses, Serve(m, s)
        PROVE  Contract!Next \/ (once' = once /\ seen' = seen)
    <3>1. m.call \in Calls /\ seen' = seen
          /\ executed' = [executed EXCEPT ![m.call] = @ + 1]
      BY <2>3, CallsOnTheWire DEF Serve
    <3>2. CASE m.call \in Writes
      <4>1. executed[m.call] = 0
        BY <3>2 DEF WritesInv, SentOnce, OnItsWay
      <4>2. once' = [once EXCEPT ![m.call] = 1] /\ once[m.call] = 0
        BY <2>0, <3>1, <3>2, <4>1 DEF TypeOK
      <4> QED BY <3>1, <3>2, <4>2 DEF Contract!Next, Contract!Execute
    <3>3. CASE m.call \notin Writes
      <4>1. once' = once
        BY <2>0, <3>1, <3>3 DEF TypeOK
      <4> QED BY <3>1, <4>1
    <3> QED BY <3>2, <3>3
  <2>4. ASSUME NEW d \in Calls, NEW s \in Statuses, Resolve(d, s)
        PROVE  Contract!Next \/ (once' = once /\ seen' = seen)
    <3>1. state[d] = "waiting" /\ state' = [state EXCEPT ![d] = "answered"] /\ once' = once
      BY <2>4 DEF Resolve, Receives
    <3>2. CASE d \in Writes
      <4>1. executed[d] = 1
        BY <2>4, <3>2 DEF Resolve, Receives, Reply, WritesInv, SentOnce
      <4>2. seen' = [seen EXCEPT ![d] = "answered"] /\ seen[d] = "pending" /\ once[d] = 1
        BY <2>0, <3>1, <3>2, <4>1 DEF TypeOK
      <4> QED BY <3>1, <3>2, <4>2 DEF Contract!Next, Contract!Answer
    <3>3. CASE d \notin Writes
      <4>1. seen' = seen
        BY <2>0, <3>1, <3>3 DEF TypeOK
      <4> QED BY <3>1, <4>1
    <3> QED BY <3>2, <3>3
  <2>5. ASSUME NEW d \in Calls, state[d] = "waiting", UNCHANGED executed,
               state' = [state EXCEPT ![d] = "failed"]
        PROVE  Contract!Next \/ (once' = once /\ seen' = seen)
    <3>1. CASE d \in Writes
      <4>1. seen' = [seen EXCEPT ![d] = "failed"] /\ seen[d] = "pending" /\ once' = once
        BY <2>0, <2>5, <3>1 DEF TypeOK
      <4> QED BY <3>1, <4>1 DEF Contract!Next, Contract!Fail
    <3>2. CASE d \notin Writes
      BY <2>0, <2>5, <3>2 DEF TypeOK
    <3> QED BY <3>1, <3>2
  <2>6. ASSUME NEW d \in Calls, Client(d)
        PROVE  Contract!Next \/ (once' = once /\ seen' = seen)
    BY <2>1, <2>4, <2>5, <2>6 DEF Client, TimeOut, GiveUp, Retry, Throw, Receives
  <2>7. CASE Server
    BY <2>1, <2>3, <2>7 DEF Server, Refuse
  <2> QED
    BY <2>1, <2>2, <2>6, <2>7 DEF Next, vars
<1>3. KeepsContract <=> Contract!Init /\ [][Contract!Next]_<<once, seen>>
  BY DEF KeepsContract, Contract!Spec
<1> QED
  BY <1>1, <1>2, <1>3, Inductive, PTL DEF Spec
=============================================================================
