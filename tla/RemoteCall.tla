----------------------------- MODULE RemoteCall -----------------------------
(***************************************************************************)
(* What a caller may rely on when it posts to Paystack: the post takes     *)
(* effect at most once; an answer means that it did; a failure means       *)
(* nothing, for it may have taken effect already or may do so later.       *)
(***************************************************************************)
EXTENDS Naturals

CONSTANT Calls

VARIABLES
  executed,  \* how often a call took effect
  outcome    \* what the caller saw of it

Init ==
  /\ executed = [c \in Calls |-> 0]
  /\ outcome = [c \in Calls |-> "pending"]

Execute(c) ==
  /\ executed[c] = 0
  /\ executed' = [executed EXCEPT ![c] = 1]
  /\ UNCHANGED outcome

Answer(c) ==
  /\ outcome[c] = "pending"
  /\ executed[c] = 1
  /\ outcome' = [outcome EXCEPT ![c] = "answered"]
  /\ UNCHANGED executed

Fail(c) ==
  /\ outcome[c] = "pending"
  /\ outcome' = [outcome EXCEPT ![c] = "failed"]
  /\ UNCHANGED executed

Next == \E c \in Calls : Execute(c) \/ Answer(c) \/ Fail(c)

Spec == Init /\ [][Next]_<<executed, outcome>>
=============================================================================
