----------------------------- MODULE ProofEngine -----------------------------
(***************************************************************************)
(* evaluate_with_proof() of utf/tarl/runtime.py, with required audit, on   *)
(* top of the audit archive: the rules are evaluated one after the other,  *)
(* the trace becomes a certificate, the certificate is stored, and a       *)
(* decision whose certificate cannot be stored is downgraded to DENY.      *)
(* The active policy is read once, at the start, and the cache is not      *)
(* used, so any policy may be the one a call evaluates.  The throw         *)
(* counters, which no decision reads, are left out.                        *)
(***************************************************************************)
EXTENDS TarlProof, FiniteSets

CONSTANTS
  Process, Thread, Home,   \* as in AuditArchive
  MaxStores, MaxFaults,    \* bounds, as in AuditArchive
  HostTimes,               \* what a read of the host clock can return
  ClockReads,              \* what self._now() can return
  RequireAudit             \* set_require_audit()

ASSUME EngineAssumption ==
  /\ Home \in [Thread -> Process]
  /\ MaxStores \in Nat /\ MaxFaults \in Nat
  /\ Policy # {} /\ Context # {} /\ Time # {}
  /\ HostTimes \subseteq Time
  /\ ClockReads \subseteq Time \union {Absent}
  /\ RequireAudit \in BOOLEAN
  /\ Absent \notin Thread \union Certificate

VARIABLES
  rows, pending, tx, lock, reads, pc, proof, prev, acked, overdue, writers,
  readers, stores, faults,
  phase,     \* where each thread is in evaluate_with_proof()
  rule,      \* the rule it evaluates next
  now,       \* its trusted_now
  draft,     \* the certificate under construction, or stored
  ans,       \* its decision: to be returned, or returned
  told,      \* history: certificates of the decisions returned
  cut        \* history: certificates a crash found in _persist()

Archive == INSTANCE AuditArchive WITH Proof <- Certificate, None <- Absent

storeVars  == <<rows, pending, tx, lock, reads, pc, proof, prev, acked, overdue,
                writers, readers, stores, faults>>
engineVars == <<phase, rule, now, draft, ans, told, cut>>
vars == <<storeVars, engineVars>>

Idle(t) == phase[t] \in {"idle", "done"}

NoDraft == [policy  |-> CHOOSE p \in Policy : TRUE,
            context |-> CHOOSE c \in Context : TRUE,
            rule |-> 0, verdict |-> "DENY",
            at |-> CHOOSE instant \in Time : TRUE, trace |-> <<>>]

Init ==
  /\ Archive!Init
  /\ phase = [t \in Thread |-> "idle"]
  /\ rule = [t \in Thread |-> 1]
  /\ now = [t \in Thread |-> Absent]
  /\ draft = [t \in Thread |-> NoDraft]
  /\ ans = [t \in Thread |-> DefaultDeny]
  /\ told = {} /\ cut = {}

-----------------------------------------------------------------------------
(* evaluate_with_proof()                                                   *)

\* _generate_proof(): the decision and the trace become a certificate.
Certify(t, c, p, decision, index, trace) ==
  \E instant \in HostTimes :
    /\ draft' = [draft EXCEPT ![t] =
                   [policy |-> p, context |-> c, rule |-> index,
                    verdict |-> decision.verdict, at |-> instant, trace |-> trace]]
    /\ ans' = [ans EXCEPT ![t] = decision]
    /\ phase' = [phase EXCEPT ![t] = "certified"]
    /\ rule' = [rule EXCEPT ![t] = 1]
    /\ now' = [now EXCEPT ![t] = Absent]

SchemaViolation == [rule |-> 0, matched |-> FALSE, verdict |-> "DENY"]

\* The schema and the window of the policy decide before any rule.
Begin(t, c, p, instant) ==
  /\ Idle(t)
  /\ stores < MaxStores
  /\ IF c \in Malformed
     THEN Certify(t, c, p, SchemaDecision, 0, <<SchemaViolation>>)
     ELSE IF OutsideWindow(p, instant)
     THEN Certify(t, c, p, ExpiryDecision(p), 0, <<>>)
     ELSE /\ phase' = [phase EXCEPT ![t] = "rules"]
          /\ \E trusted \in ClockReads : now' = [now EXCEPT ![t] = trusted]
          /\ draft' = [draft EXCEPT ![t] =
                         [NoDraft EXCEPT !.policy = p, !.context = c]]
          /\ UNCHANGED <<rule, ans>>
  /\ UNCHANGED <<storeVars, told, cut>>

\* What a rule that is decisive leaves in the certificate: the index of a
\* rule that raised is not recorded.
MutDecidedBy(i, outcome) == i   \* mutant: it is recorded
DecidedBy(i, outcome) == IF outcome = "throw" THEN 0 ELSE i

\* One turn of the loop over the rules: the first rule that matches or raises
\* ends it; after the last rule the default is DENY.
EvaluateRule(t) ==
  LET d == draft[t]
      i == rule[t]
  IN /\ phase[t] = "rules"
     /\ IF i \notin Rules(d.policy)
        THEN Certify(t, d.context, d.policy, DefaultDeny, 0, d.trace)
        ELSE \E instant \in RuleInstants(d.policy, i, now[t], HostTimes) :
               LET outcome == Fires[d.policy][d.context][instant][i]
                   out == [j \in 1..i |-> IF j < i THEN "miss" ELSE outcome]
                   trace == Append(d.trace,
                              [rule |-> i, matched |-> outcome = "match",
                               verdict |-> RuleVerdict[d.policy][i]])
               IN IF outcome = "miss"
                  THEN /\ rule' = [rule EXCEPT ![t] = i + 1]
                       /\ draft' = [draft EXCEPT ![t].trace = trace]
                       /\ UNCHANGED <<phase, now, ans>>
                  ELSE Certify(t, d.context, d.policy, DecisionOf(d.policy, out, i),
                               DecidedBy(i, outcome), trace)
     /\ UNCHANGED <<storeVars, told, cut>>

\* _persist() calls TarlAuditArchive.store() ...
Persist(t) ==
  /\ phase[t] = "certified"
  /\ Archive!ReadHead(t, draft[t])
  /\ phase' = [phase EXCEPT ![t] = "storing"]
  /\ UNCHANGED <<rule, now, draft, ans, told, cut>>

\* ... which goes through its steps ...
StoreStep(t) ==
  /\ Archive!Step(t) \/ Archive!DiskFull(t)
  /\ UNCHANGED engineVars

\* Mutants: a failure to store is ignored although audit is required; a
\* success is taken for a failure.
MutDowngrades(t) == FALSE
MutAlwaysDowngrades(t) == RequireAudit
Downgrades(t) == pc[t] = "raised" /\ RequireAudit

\* ... and the decision is returned, or replaced by a DENY.
Return(t) ==
  /\ phase[t] = "storing" /\ pc[t] \in {"stored", "raised"}
  /\ phase' = [phase EXCEPT ![t] = "done"]
  /\ IF Downgrades(t)
     THEN ans' = [ans EXCEPT ![t] = DefaultDeny] /\ UNCHANGED told
     ELSE told' = told \union {draft[t]} /\ UNCHANGED ans
  /\ UNCHANGED <<storeVars, rule, now, draft, cut>>

\* The process dies with the calls its threads have under way.
Crash(p) ==
  /\ Archive!Crash(p)
  /\ phase' = [t \in Thread |-> IF Home[t] = p THEN "idle" ELSE phase[t]]
  /\ cut' = cut \union {draft[t] : t \in {u \in Thread : Home[u] = p /\ phase[u] = "storing"}}
  /\ rule' = [t \in Thread |-> IF Home[t] = p THEN 1 ELSE rule[t]]
  /\ now' = [t \in Thread |-> IF Home[t] = p THEN Absent ELSE now[t]]
  /\ UNCHANGED <<draft, ans, told>>

CloseArchive(p) == Archive!Close(p) /\ UNCHANGED engineVars

QueryArchive(p) ==
  /\ Archive!BeginRead(p) \/ Archive!EndRead(p)
  /\ UNCHANGED engineVars

-----------------------------------------------------------------------------

Next ==
  \/ \E t \in Thread, c \in Context, p \in Policy :
       \E instant \in UNION {Instants(n, HostTimes) : n \in ClockReads} : Begin(t, c, p, instant)
  \/ \E t \in Thread : EvaluateRule(t) \/ Persist(t) \/ StoreStep(t) \/ Return(t)
  \/ \E p \in Process : Crash(p) \/ CloseArchive(p) \/ QueryArchive(p)

Spec == Init /\ [][Next]_vars

-----------------------------------------------------------------------------
(* Properties                                                              *)

TypeOK ==
  /\ Archive!TypeOK
  /\ phase \in [Thread -> {"idle", "rules", "certified", "storing", "done"}]
  /\ rule \in [Thread -> 1..(MaxRules + 1)]
  /\ now \in [Thread -> Time \union {Absent}]
  /\ draft \in [Thread -> Certificate]
  /\ ans \in [Thread -> Decision]
  /\ told \subseteq Certificate /\ cut \subseteq Certificate

\* With required audit nobody is told anything but DENY before the very
\* certificate of that decision is in the archive, and it stays there whatever
\* other threads and processes, full disks and crashes do: _persist() and
\* store() fail closed together.
AuditBeforeEffect ==
  \A t \in Thread :
    RequireAudit /\ phase[t] = "done" /\ ans[t].verdict # "DENY" =>
      /\ \E i \in DOMAIN rows : rows[i].proof = draft[t]
      /\ draft[t].verdict = ans[t].verdict
      /\ Justified(draft[t].policy, draft[t].context, ans[t])

\* A record is the certificate of a decision that was given, is being given,
\* or that a crash kept from the caller: a call that got the audit DENY
\* instead left nothing behind.  The exception is a certificate whose COMMIT
\* timed out, which a later commit publishes; that takes a second process that
\* uses the file, if only to read it at length.
RecordsAreAnswers ==
  \A i \in DOMAIN rows :
    \/ rows[i].proof \in told \union cut
    \/ \E t \in Thread : phase[t] = "storing" /\ draft[t] = rows[i].proof
    \/ /\ rows[i].proof \in overdue
       /\ \E p, q \in writers \union readers : p # q

\* The archive can be audited: the trace of every certificate in it passes
\* the verifier's check and leads to the recorded verdict, except that a
\* schema or an expiry that allows is not accepted.
RecordsVerify ==
  \A i \in DOMAIN rows :
    LET x == rows[i].proof
    IN /\ CheckTrace(x) \/ (x.rule = 0 /\ x.verdict = "ALLOW")
       /\ \E k \in {x.rule, Len(x.trace)} :
            Justified(x.policy, x.context, [verdict |-> x.verdict, rule |-> k])
=============================================================================
