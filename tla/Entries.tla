------------------------------ MODULE Entries ------------------------------
(***************************************************************************)
(* What the two caches do with their maps, as functions, and the order of  *)
(* the members of a sorted set.  The order is defined by counting and not  *)
(* by a sort, for the proofs have the theorems of finite sets to work with.*)
(***************************************************************************)
EXTENDS Integers, FiniteSets

Nothing == [x \in {} |-> x]
Without(f, S) == [x \in DOMAIN f \ S |-> f[x]]

(* The entries of new, and those of f that new does not replace *)
Over(new, f) ==
  [x \in DOMAIN new \cup DOMAIN f |-> IF x \in DOMAIN new THEN new[x] ELSE f[x]]
Put(f, k, v) == Over([x \in {k} |-> v], f)

(* The domain of before as a sequence, where before[x] is the set of those *)
(* that come before x: the i-th has i - 1 before it                        *)
InOrder(before) ==
  [i \in 1..Cardinality(DOMAIN before) |->
     CHOOSE x \in DOMAIN before : Cardinality(before[x]) = i - 1]
=============================================================================
