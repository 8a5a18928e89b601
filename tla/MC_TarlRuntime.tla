--------------------------- MODULE MC_TarlRuntime ---------------------------
(***************************************************************************)
(* A small instance of TarlRuntime.  Three policies disagree about the     *)
(* contexts: pA has two rules, of which the second always raises; pB reads *)
(* the clock; pW has a time window.                                        *)
(***************************************************************************)
EXTENDS TarlRuntime, TLC

CONSTANTS pA, pB, pW, c1, c2, t1, t2

MCPolicy == {pA, pB, pW}
MCContext == {c1, c2}
MCCaller == {t1, t2}
MCTime == 0..1
MCNumRules == pA :> 2 @@ pB :> 1 @@ pW :> 1

\* pA allows c1 by its first rule and raises on c2; pB denies c1 and
\* matches c2 only at instant 0; pW matches everything.
MCFires ==
  [p \in MCPolicy |-> [c \in MCContext |-> [t \in MCTime |-> [i \in 1..2 |->
     CASE p = pA /\ i = 1 -> IF c = c1 THEN "match" ELSE "miss"
       [] p = pA /\ i = 2 -> "throw"
       [] p = pB          -> IF c = c1 \/ t = 0 THEN "match" ELSE "miss"
       [] OTHER           -> "match"]]]]

\* the rule of pB calls ELAPSED_SINCE
MCElapsed == {<<pB, 1>>}

MCRuleVerdict == [p \in MCPolicy |-> [i \in 1..2 |->
                    IF p = pB THEN "DENY" ELSE "ALLOW"]]

NoDirectives == [from |-> Absent, until |-> Absent, unresolved |-> Absent,
                 onExpiry |-> Absent, timed |-> FALSE]

\* pW is valid at instant 1 only
MCWindow == [p \in MCPolicy |->
               IF p = pW THEN [NoDirectives EXCEPT !.from = 1] ELSE NoDirectives]

MCTexts == {pB}
\* A trusted clock that shows 0, and None when it rejects an assertion.
MCRejecting == {0, Absent}
Symmetry == Permutations(MCCaller)
=============================================================================
