---------------------------- MODULE MC_ProofEngine ----------------------------
(***************************************************************************)
(* A small instance of ProofEngine: two processes on one archive.  The     *)
(* first rule of pA raises at instant 0 and misses at 1, its second        *)
(* allows; pW is outside its window at instant 0 and allows at 1; c2       *)
(* violates the context schema.                                            *)
(***************************************************************************)
EXTENDS ProofEngine, TLC

CONSTANTS pA, pW, c1, c2, w1, w2, t1, t2

MCPolicy == {pA, pW}
MCContext == {c1, c2}
MCTime == 0..1
MCNumRules == pA :> 2 @@ pW :> 1
MCFires ==
  [p \in MCPolicy |-> [c \in MCContext |-> [t \in MCTime |-> [i \in 1..2 |->
     IF p = pA THEN IF i = 2 THEN "match" ELSE IF t = 0 THEN "throw" ELSE "miss"
     ELSE IF t = 0 THEN "miss" ELSE "match"]]]]
\* the rule of pW calls ELAPSED_SINCE
MCElapsed == {<<pW, 1>>}
MCRuleVerdict == [p \in MCPolicy |-> [i \in 1..2 |-> "ALLOW"]]
NoDirectives == [from |-> Absent, until |-> Absent, unresolved |-> Absent,
                 onExpiry |-> Absent, timed |-> FALSE]
MCWindow == [p \in MCPolicy |->
               IF p = pW THEN [NoDirectives EXCEPT !.from = 1] ELSE NoDirectives]
MCHome == t1 :> w1 @@ t2 :> w2
=============================================================================
