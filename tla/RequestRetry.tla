---------------------------- MODULE RequestRetry ----------------------------
(***************************************************************************)
(* Calls to a remote API through src/core/RequestController: one attempt   *)
(* after another by AxiosRetry.request, each given up after 15 seconds,    *)
(* while the server goes on with what it received.                         *)
(***************************************************************************)
EXTENDS Naturals

CONSTANTS
  Reads,        \* calls of RequestController.get
  Writes,       \* calls of RequestController.post, put and delete
  MaxAttempts,  \* retryConfig.maxAttempts
  Statuses      \* the HTTP statuses the server answers with

Calls == Reads \cup Writes

ASSUME CallsAssumption == Reads \cap Writes = {}
ASSUME AttemptsAssumption == MaxAttempts \in Nat \ {0}
ASSUME StatusesAssumption == Statuses \subseteq Nat

VARIABLES
  state,     \* of a call: "new", "waiting", "answered" or "failed"
  attempt,   \* the attempt a call is in
  thrown,    \* the status in the details of the error makeError built
  wire,      \* attempts the server has not received yet
  replies,   \* answers on their way back
  executed   \* how often a call took effect at the server

vars == <<state, attempt, thrown, wire, replies, executed>>

(* An error that isApiRequestError rejects carries no status *)
NoStatus == 0

allowedResponseStatuses == {204, 408, 413, 429, 500, 502, 503, 504}

(* axios resolves with these, and throws on any other *)
Succeeds(status) == 200 <= status /\ status < 300

AllMethods(c) == TRUE             \* mutant: the method is not compared
allowedMethods(c) == c \in Reads

OneLess(n) == n + 1 < MaxAttempts \* mutant: an attempt too few
OneMore(n) == n <= MaxAttempts    \* mutant: an attempt too many
MayRepeat(n) == n < MaxAttempts

Retries(c, status) ==
  /\ MayRepeat(attempt[c])
  /\ allowedMethods(c)
  /\ status \in allowedResponseStatuses

Attempt(c, n) == [call |-> c, attempt |-> n]
Reply(c, n, s) == [call |-> c, attempt |-> n, status |-> s]

TypeOK ==
  /\ state \in [Calls -> {"new", "waiting", "answered", "failed"}]
  /\ attempt \in [Calls -> 0..MaxAttempts]
  /\ thrown \in [Calls -> Nat]
  /\ wire \subseteq [call : Calls, attempt : 1..MaxAttempts]
  /\ replies \subseteq [call : Calls, attempt : 1..MaxAttempts, status : Statuses]
  /\ executed \in [Calls -> Nat]

Init ==
  /\ state = [c \in Calls |-> "new"]
  /\ attempt = [c \in Calls |-> 0]
  /\ thrown = [c \in Calls |-> NoStatus]
  /\ wire = {}
  /\ replies = {}
  /\ executed = [c \in Calls |-> 0]

(* axios.request sends the request, for the n-th time *)
Transmit(c, n) ==
  /\ attempt' = [attempt EXCEPT ![c] = n]
  /\ wire' = wire \cup {Attempt(c, n)}

Start(c) ==
  /\ state[c] = "new"
  /\ state' = [state EXCEPT ![c] = "waiting"]
  /\ Transmit(c, 1)
  /\ UNCHANGED <<thrown, replies, executed>>

(* The server executes a request it received and answers as it likes;      *)
(* nothing but an executed request is answered with success                *)
Serve(m, s) ==
  /\ m \in wire
  /\ wire' = wire \ {m}
  /\ replies' = replies \cup {Reply(m.call, m.attempt, s)}
  /\ executed' = [executed EXCEPT ![m.call] = @ + 1]
  /\ UNCHANGED <<state, attempt, thrown>>

Refuse(m, s) ==
  /\ m \in wire
  /\ ~(200 <= s /\ s < 300)
  /\ wire' = wire \ {m}
  /\ replies' = replies \cup {Reply(m.call, m.attempt, s)}
  /\ UNCHANGED <<state, attempt, thrown, executed>>

(* The reply the caller is waiting for; it no longer listens for others *)
Receives(c, s) ==
  /\ state[c] = "waiting"
  /\ Reply(c, attempt[c], s) \in replies

Resolve(c, s) ==
  /\ Receives(c, s)
  /\ Succeeds(s)
  /\ state' = [state EXCEPT ![c] = "answered"]
  /\ UNCHANGED <<attempt, thrown, wire, replies, executed>>

(* The loop goes round at once, without waiting *)
Retry(c, s) ==
  /\ Receives(c, s)
  /\ ~Succeeds(s)
  /\ Retries(c, s)
  /\ Transmit(c, attempt[c] + 1)
  /\ UNCHANGED <<state, thrown, replies, executed>>

Throw(c, s) ==
  /\ Receives(c, s)
  /\ ~Succeeds(s)
  /\ ~Retries(c, s)
  /\ state' = [state EXCEPT ![c] = "failed"]
  /\ thrown' = [thrown EXCEPT ![c] = s]
  /\ UNCHANGED <<attempt, wire, replies, executed>>

(* mutant: the error is caught and the call resolves with nothing *)
GiveUpQuietly(c) ==
  /\ state[c] = "waiting"
  /\ state' = [state EXCEPT ![c] = "answered"]
  /\ UNCHANGED <<attempt, thrown, wire, replies, executed>>

(* 15 seconds are over, or the connection is refused or lost: the error    *)
(* has no response and is never retried                                    *)
GiveUp(c) ==
  /\ state[c] = "waiting"
  /\ state' = [state EXCEPT ![c] = "failed"]
  /\ UNCHANGED <<attempt, thrown, wire, replies, executed>>

WaitForEver(c) == FALSE  \* mutant: no timeout is configured
TimeOut(c) == GiveUp(c)

Server == \E m \in wire, s \in Statuses : Serve(m, s) \/ Refuse(m, s)
Client(c) ==
  \/ TimeOut(c)
  \/ \E s \in Statuses : Resolve(c, s) \/ Retry(c, s) \/ Throw(c, s)

Next == Server \/ \E c \in Calls : Start(c) \/ Client(c)

Spec == Init /\ [][Next]_vars

(* Node runs the callback of a reply or of the timer of 15 seconds; the    *)
(* server owes nothing                                                     *)
FairSpec == Spec /\ \A c \in Calls : WF_vars(Client(c))

-----------------------------------------------------------------------------
(* A post is never repeated: whatever the server answers and however late, *)
(* a charge or a payout is started at most once for one call.              *)
WrittenOnce == \A c \in Writes : executed[c] <= 1

(* A read that failed with a status worth a retry was tried as often as    *)
(* RequestController allows.                                               *)
ReadsRetried ==
  \A c \in Reads : thrown[c] \in allowedResponseStatuses => attempt[c] = MaxAttempts

(* Every call ends, also when the server never answers.                    *)
Settles ==
  \A c \in Calls : state[c] = "waiting" ~> state[c] \in {"answered", "failed"}

(* The writes keep the contract WalletService's steps are built on.        *)
Outcome(c) == IF state[c] \in {"answered", "failed"} THEN state[c] ELSE "pending"
Contract == INSTANCE RemoteCall WITH
  Calls <- Writes,
  executed <- [c \in Writes |-> executed[c]],
  outcome <- [c \in Writes |-> Outcome(c)]
KeepsContract == Contract!Spec
=============================================================================
