------------------------------ MODULE MCCaches ------------------------------
(***************************************************************************)
(* CacheService and CachePair in one run.  They have no variable in common *)
(* and the methods for strings none with those for hashes and sorted sets, *)
(* so a behavior is about one of the three and leaves the others alone.    *)
(***************************************************************************)
EXTENDS CachePair, CacheService

VARIABLE focus

vars == <<cacheVars, pairVars, focus>>

Init == CacheInit /\ PairInit /\ focus \in {"service", "strings", "structures"}

Next ==
  /\ \/ focus = "service" /\ CacheNext /\ UNCHANGED pairVars
     \/ focus = "strings" /\ (StringCall \/ SharedCall) /\ UNCHANGED cacheVars
     \/ focus = "structures" /\ (StructureCall \/ SharedCall) /\ UNCHANGED cacheVars
  /\ UNCHANGED focus

Spec == Init /\ [][Next]_vars /\ WF_vars(focus = "service" /\ Tick /\ UNCHANGED <<pairVars, focus>>)
=============================================================================
