-------------------------- MODULE RequestInvariant --------------------------
(***************************************************************************)
(* Why a write takes effect at most once: it is sent once, and its only    *)
(* request is in one place.                                                *)
(***************************************************************************)
EXTENDS RequestRetry

OnItsWay(c) == \E m \in wire : m.call = c
Replied(c) == \E p \in replies : p.call = c

SentOnce(c) ==
  /\ attempt[c] <= 1
  /\ executed[c] <= 1
  /\ \A m \in wire : m.call = c => m = Attempt(c, 1)
  /\ state[c] = "new" => ~OnItsWay(c) /\ ~Replied(c) /\ attempt[c] = 0
  /\ OnItsWay(c) => ~Replied(c) /\ executed[c] = 0
  /\ ~Replied(c) => executed[c] = 0
  /\ \A p \in replies : p.call = c /\ Succeeds(p.status) => executed[c] = 1
  /\ state[c] = "waiting" => attempt[c] = 1

WritesInv == \A c \in Writes : SentOnce(c)
=============================================================================
