--------------------------- MODULE MC_ProofVerifier ---------------------------
(***************************************************************************)
(* A small instance of ProofVerifier: p1 with two threads and p2 with one  *)
(* share a durable guard, p3 with two keeps its guard in memory.  x1 is    *)
(* genuine; y1 is x1 with another key_id, so that its signature does not   *)
(* verify; x2 is genuine and bound to another policy.                      *)
(***************************************************************************)
EXTENDS ProofVerifier, TLC

CONSTANTS p1, p2, p3, t1, t2, t3, t4, t5, x1, y1, x2, pA, pB, i1, i2

MCHome == t1 :> p1 @@ t2 :> p1 @@ t3 :> p2 @@ t4 :> p3 @@ t5 :> p3
MCPolicyOf == x1 :> pA @@ y1 :> pA @@ x2 :> pB
MCIdOf == x1 :> i1 @@ y1 :> i1 @@ x2 :> i2

\* two threads of one process
MCHomeThreads == t1 :> p1 @@ t2 :> p1
Symmetry == Permutations({t1, t2}) \union Permutations({t4, t5})
=============================================================================
