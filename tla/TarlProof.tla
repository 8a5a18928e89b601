------------------------------ MODULE TarlProof ------------------------------
(***************************************************************************)
(* Proof certificates (TarlProof of utf/tarl/spec.py) and the consistency  *)
(* check of their trace (utf/tarl/verifier.py).  Hashes and signatures are *)
(* ideal: a policy or context hash is the policy or the context itself.    *)
(***************************************************************************)
EXTENDS TarlPolicy, Sequences

\* An entry of the trace; rule = 0 for one that is not about a rule (a schema
\* violation).
Entry == [rule : 0..MaxRules, matched : BOOLEAN, verdict : Verdict]

\* rule = 0 stands for rule_index -1; at is evaluated_at, to the second.
Certificate ==
  [policy : Policy, context : Context, rule : 0..MaxRules,
   verdict : Verdict, at : Time, trace : Seq(Entry)]

\* _check_trace()
CheckTrace(x) ==
  IF x.rule = 0
  THEN /\ x.verdict # "ALLOW"
       /\ \A i \in DOMAIN x.trace : ~x.trace[i].matched
  ELSE /\ Len(x.trace) = x.rule
       /\ \A i \in DOMAIN x.trace : /\ x.trace[i].rule = i
                                    /\ x.trace[i].matched <=> i = x.rule
       /\ x.trace[x.rule].verdict = x.verdict

\* ReplayGuard.proof_id(): context hash, timestamp and signature, which covers
\* everything else.
ProofId(x) == x
=============================================================================
