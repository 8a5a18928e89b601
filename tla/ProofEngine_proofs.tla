-------------------------- MODULE ProofEngine_proofs --------------------------
(***************************************************************************)
(* Proofs about evaluate_with_proof() on top of the audit archive, for any *)
(* policies, clocks, processes, threads and bounds.                        *)
(*                                                                         *)
(* Every step of the engine is a step of the archive or leaves it alone,   *)
(* so what AuditArchive_proofs establishes for any certificates holds of   *)
(* the archive the engine writes.                                          *)
(***************************************************************************)
EXTENDS ProofEngine, TLAPS

Store == INSTANCE AuditArchive_proofs WITH Proof <- Certificate, None <- Absent

Phases == {"idle", "rules", "certified", "storing", "done"}

EngineTypes ==
  /\ phase \in [Thread -> Phases]
  /\ rule \in [Thread -> 1..(MaxRules + 1)]
  /\ now \in [Thread -> Time \union {Absent}]
  /\ draft \in [Thread -> Certificate]
  /\ ans \in [Thread -> Decision]
  /\ told \subseteq Certificate /\ cut \subseteq Certificate

\* x can be audited: this is what RecordsVerify says of each record.
Auditable(x) ==
  /\ CheckTrace(x) \/ (x.rule = 0 /\ x.verdict = "ALLOW")
  /\ \E k \in {x.rule, Len(x.trace)} :
       Justified(x.policy, x.context, [verdict |-> x.verdict, rule |-> k])

\* x is a certificate of the decision d, and d is one the engine may give.
Fits(x, d) ==
  /\ x.verdict = d.verdict
  /\ Justified(x.policy, x.context, d)
  /\ Auditable(x)

\* The first n entries of a trace: rules that were evaluated and missed.
Misses(x, n) ==
  /\ Len(x.trace) = n
  /\ \A i \in 1..n : /\ x.trace[i].rule = i
                     /\ ~x.trace[i].matched
                     /\ Missed(x.policy, x.context, i)

\* The loop over the rules has written down the misses so far.
Walk ==
  \A t \in Thread :
    IF phase[t] = "rules"
    THEN /\ rule[t] <= NumRules[draft[t].policy] + 1
         /\ Misses(draft[t], rule[t] - 1)
    ELSE rule[t] = 1

LocalInv == EngineTypes /\ Walk

-----------------------------------------------------------------------------
(* Certificates                                                            *)

LEMMA ClockTypes ==
  /\ \A n \in Time \union {Absent} : Instants(n, HostTimes) \subseteq Time
  /\ UNION {Instants(n, HostTimes) : n \in ClockReads} \subseteq Time
  /\ \A p, i : \A n \in Time \union {Absent} :
       RuleInstants(p, i, n, HostTimes) \subseteq Time
BY EngineAssumption DEF Instants, RuleInstants

LEMMA NoDraftType == NoDraft \in Certificate
<1>1. /\ (CHOOSE p \in Policy : TRUE) \in Policy
      /\ (CHOOSE c \in Context : TRUE) \in Context
      /\ (CHOOSE instant \in Time : TRUE) \in Time
  BY EngineAssumption
<1>2. 0 \in 0..MaxRules /\ <<>> \in Seq(Entry) /\ "DENY" \in Verdict
  BY PolicyAssumption DEF Verdict
<1> QED
  BY <1>1, <1>2 DEF NoDraft, Certificate

LEMMA RuleTypes ==
  ASSUME NEW p \in Policy
  PROVE  /\ NumRules[p] \in Nat /\ NumRules[p] <= MaxRules
         /\ Rules(p) \subseteq 1..MaxRules
         /\ \A i \in Rules(p) : RuleVerdict[p][i] \in Verdict
BY PolicyAssumption DEF Rules

\* A schema violation is recorded as one entry that is about no rule.
LEMMA SchemaFits ==
  ASSUME NEW x \in Certificate, x.context \in Malformed, x.rule = 0,
         x.verdict = SchemaDecision.verdict, x.trace = <<SchemaViolation>>
  PROVE  Fits(x, SchemaDecision)
<1>1. SchemaDecision = [verdict |-> x.verdict, rule |-> 0]
  BY DEF SchemaDecision
<1>2. Justified(x.policy, x.context, SchemaDecision)
  BY DEF Justified
<1>3. \A i \in DOMAIN x.trace : ~x.trace[i].matched
  BY DEF SchemaViolation
<1> QED
  BY <1>1, <1>2, <1>3 DEF Fits, Auditable, CheckTrace

LEMMA ExpiryFits ==
  ASSUME NEW x \in Certificate, NEW instant \in Time,
         OutsideWindow(x.policy, instant), x.rule = 0,
         x.verdict = ExpiryDecision(x.policy).verdict, x.trace = <<>>
  PROVE  Fits(x, ExpiryDecision(x.policy))
<1>1. ExpiryDecision(x.policy) = [verdict |-> x.verdict, rule |-> 0]
  BY DEF ExpiryDecision
<1>2. Justified(x.policy, x.context, ExpiryDecision(x.policy))
  BY DEF Justified
<1>3. \A i \in DOMAIN x.trace : ~x.trace[i].matched
  OBVIOUS
<1> QED
  BY <1>1, <1>2, <1>3 DEF Fits, Auditable, CheckTrace

\* No rule matched: every entry of the trace is a miss.
LEMMA DefaultFits ==
  ASSUME NEW x \in Certificate, Misses(x, NumRules[x.policy]), x.rule = 0,
         x.verdict = "DENY"
  PROVE  Fits(x, DefaultDeny)
<1>1. DefaultDeny = [verdict |-> x.verdict, rule |-> 0]
  BY DEF DefaultDeny
<1>2. Justified(x.policy, x.context, DefaultDeny)
  BY DEF Justified, MatchJustified, Misses, Rules
<1>3. \A i \in DOMAIN x.trace : ~x.trace[i].matched
  <2>1. x.trace \in Seq(Entry)
    BY DEF Certificate
  <2> QED
    BY <2>1 DEF Misses
<1> QED
  BY <1>1, <1>2, <1>3 DEF Fits, Auditable, CheckTrace

\* Rule i ended the loop: the trace lists the misses before it and then i.
EndedBy(x, i, outcome) ==
  /\ i \in Rules(x.policy)
  /\ Seen(x.policy, x.context, i, outcome)
  /\ Len(x.trace) = i
  /\ \A j \in 1..(i - 1) : /\ x.trace[j].rule = j
                           /\ ~x.trace[j].matched
                           /\ Missed(x.policy, x.context, j)
  /\ x.trace[i].rule = i
  /\ x.trace[i].matched <=> outcome = "match"
  /\ x.trace[i].verdict = RuleVerdict[x.policy][i]
  /\ x.rule = DecidedBy(i, outcome)

\* The decision of rule i of policy p.
DecisionBy(p, i, outcome) ==
  [verdict |-> IF outcome = "throw" THEN "DENY" ELSE RuleVerdict[p][i],
   rule    |-> i]

LEMMA DecisiveFits ==
  ASSUME NEW x \in Certificate, NEW i, NEW outcome \in {"match", "throw"},
         EndedBy(x, i, outcome),
         x.verdict = DecisionBy(x.policy, i, outcome).verdict
  PROVE  Fits(x, DecisionBy(x.policy, i, outcome))
<1> DEFINE d == DecisionBy(x.policy, i, outcome)
<1>0. /\ d.rule = i /\ d.verdict = x.verdict
      /\ x.verdict = IF outcome = "throw" THEN "DENY" ELSE RuleVerdict[x.policy][i]
      /\ d = [verdict |-> x.verdict, rule |-> i]
  BY DEF DecisionBy
<1> HIDE DEF d
<1>1. /\ i \in Rules(x.policy) /\ x.rule = DecidedBy(i, outcome)
      /\ Seen(x.policy, x.context, i, outcome)
      /\ \A j \in 1..(i - 1) : Missed(x.policy, x.context, j)
  BY DEF EndedBy
<1>2. /\ i \in Nat /\ i # 0 /\ Len(x.trace) = i /\ DOMAIN x.trace = 1..i
      /\ \A j \in 1..i : j = i \/ j \in 1..(i - 1)
  <2>1. x.trace \in Seq(Entry) /\ x.policy \in Policy
    BY DEF Certificate
  <2>2. i \in Nat /\ i # 0
    BY <1>1, <2>1, RuleTypes
  <2> QED
    BY <2>1, <2>2 DEF EndedBy
<1>3. /\ \A j \in DOMAIN x.trace : x.trace[j].rule = j
      /\ x.trace[i].verdict = RuleVerdict[x.policy][i]
  BY <1>2 DEF EndedBy
<1>4. CASE outcome = "match"
  <2>1. x.rule = i /\ d.verdict = RuleVerdict[x.policy][i] /\ x.trace[x.rule].verdict = x.verdict
    BY <1>0, <1>1, <1>3, <1>4 DEF DecidedBy
  <2>2. MatchJustified(x.policy, x.context, d)
    BY <1>0, <1>1, <1>4, <2>1 DEF MatchJustified
  <2>3. \A j \in DOMAIN x.trace : x.trace[j].matched <=> j = i
    BY <1>2, <1>4 DEF EndedBy
  <2>4. CheckTrace(x)
    BY <1>2, <1>3, <2>1, <2>3 DEF CheckTrace
  <2> QED
    BY <1>0, <2>1, <2>2, <2>4 DEF Fits, Auditable, Justified, d
<1>5. CASE outcome = "throw"
  <2>1. x.rule = 0 /\ x.verdict = "DENY"
    BY <1>0, <1>1, <1>5 DEF DecidedBy
  <2>2. ThrowJustified(x.policy, x.context, d)
    BY <1>0, <1>1, <1>5, <2>1 DEF ThrowJustified
  <2>3. \A j \in DOMAIN x.trace : ~x.trace[j].matched
    BY <1>2, <1>5 DEF EndedBy
  <2>4. CheckTrace(x)
    BY <2>1, <2>3 DEF CheckTrace
  <2>5. Justified(x.policy, x.context, d)
    BY <2>2 DEF Justified
  <2> QED
    BY <1>0, <1>2, <2>4, <2>5 DEF Fits, Auditable, d
<1> QED
  BY <1>4, <1>5

-----------------------------------------------------------------------------
(* What the steps before _persist() do                                     *)

\* The call of t gets the certificate x of the decision d.
CertifiesAs(t, x, d) ==
  /\ Fits(x, d)
  /\ draft' = [draft EXCEPT ![t] = x]
  /\ ans' = [ans EXCEPT ![t] = d]
  /\ phase' = [phase EXCEPT ![t] = "certified"]
  /\ rule' = [rule EXCEPT ![t] = 1]
  /\ now' = [now EXCEPT ![t] = Absent]

Certifies(t) == \E x \in Certificate, d \in Decision : CertifiesAs(t, x, d)

Starts(t) ==
  /\ phase' = [phase EXCEPT ![t] = "rules"]
  /\ \E n \in Time \union {Absent} : now' = [now EXCEPT ![t] = n]
  /\ \E x \in Certificate : Misses(x, 0) /\ draft' = [draft EXCEPT ![t] = x]
  /\ UNCHANGED <<rule, ans>>

GoesOn(t) ==
  /\ rule' = [rule EXCEPT ![t] = rule[t] + 1]
  /\ \E x \in Certificate :
       /\ rule[t] <= NumRules[x.policy]
       /\ Misses(x, rule[t])
       /\ draft' = [draft EXCEPT ![t] = x]
  /\ UNCHANGED <<phase, now, ans>>

LEMMA CertifyGives ==
  ASSUME NEW t, NEW c \in Context, NEW p \in Policy, NEW d \in Decision,
         NEW k \in 0..MaxRules, NEW tr \in Seq(Entry),
         Certify(t, c, p, d, k, tr)
  PROVE  \E x \in Certificate :
           /\ x.policy = p /\ x.context = c /\ x.rule = k
           /\ x.verdict = d.verdict /\ x.trace = tr
           /\ Fits(x, d) => CertifiesAs(t, x, d)
<1>1. PICK instant \in HostTimes :
         /\ draft' = [draft EXCEPT ![t] =
                        [policy |-> p, context |-> c, rule |-> k,
                         verdict |-> d.verdict, at |-> instant, trace |-> tr]]
         /\ ans' = [ans EXCEPT ![t] = d]
         /\ phase' = [phase EXCEPT ![t] = "certified"]
         /\ rule' = [rule EXCEPT ![t] = 1]
         /\ now' = [now EXCEPT ![t] = Absent]
  BY DEF Certify
<1> DEFINE x == [policy |-> p, context |-> c, rule |-> k,
                 verdict |-> d.verdict, at |-> instant, trace |-> tr]
<1>2. x \in Certificate
  <2>1. instant \in Time /\ d.verdict \in Verdict
    BY EngineAssumption DEF Decision
  <2> QED
    BY <2>1 DEF Certificate
<1>3. /\ x.policy = p /\ x.context = c /\ x.rule = k
      /\ x.verdict = d.verdict /\ x.trace = tr
  OBVIOUS
<1> HIDE DEF x
<1>4. draft' = [draft EXCEPT ![t] = x]
  BY <1>1 DEF x
<1>5. Fits(x, d) => CertifiesAs(t, x, d)
  BY <1>1, <1>4 DEF CertifiesAs
<1> QED
  BY <1>2, <1>3, <1>5

LEMMA BeginStep ==
  ASSUME NEW t \in Thread, NEW c \in Context, NEW p \in Policy,
         NEW instant \in Time, Begin(t, c, p, instant)
  PROVE  /\ Idle(t)
         /\ Certifies(t) \/ Starts(t)
         /\ UNCHANGED <<storeVars, told, cut>>
<1>1. Idle(t) /\ UNCHANGED <<storeVars, told, cut>>
  BY DEF Begin
<1>2. CASE c \in Malformed
  <2>1. Certify(t, c, p, SchemaDecision, 0, <<SchemaViolation>>)
    BY <1>2 DEF Begin
  <2>2. SchemaDecision \in Decision
    BY PolicyAssumption DEF SchemaDecision, Decision
  <2>3. SchemaViolation \in Entry /\ 0 \in 0..MaxRules
    BY PolicyAssumption DEF SchemaViolation, Entry, Verdict
  <2> DEFINE tr == <<SchemaViolation>>
  <2>4. tr \in Seq(Entry) /\ Certify(t, c, p, SchemaDecision, 0, tr)
    BY <2>1, <2>3
  <2> HIDE DEF tr
  <2>5. PICK x \in Certificate :
          /\ x.context = c /\ x.rule = 0
          /\ x.verdict = SchemaDecision.verdict /\ x.trace = tr
          /\ Fits(x, SchemaDecision) => CertifiesAs(t, x, SchemaDecision)
    BY <2>2, <2>3, <2>4, CertifyGives
  <2>6. CertifiesAs(t, x, SchemaDecision)
    BY <1>2, <2>5, SchemaFits DEF tr
  <2> QED
    BY <1>1, <2>2, <2>6 DEF Certifies
<1>3. CASE c \notin Malformed /\ OutsideWindow(p, instant)
  <2>1. Certify(t, c, p, ExpiryDecision(p), 0, <<>>)
    BY <1>3 DEF Begin
  <2>2. ExpiryDecision(p) \in Decision
    <3>1. Window[p].onExpiry \in Verdict \union {Absent} /\ 0 \in 0..MaxRules
      BY PolicyAssumption DEF Directives
    <3> QED
      BY <3>1 DEF ExpiryDecision, Decision, Verdict
  <2> DEFINE tr == <<>>
  <2>3. tr \in Seq(Entry) /\ Certify(t, c, p, ExpiryDecision(p), 0, tr) /\ 0 \in 0..MaxRules
    BY <2>1, PolicyAssumption
  <2> HIDE DEF tr
  <2>4. PICK x \in Certificate :
          /\ x.policy = p /\ x.rule = 0
          /\ x.verdict = ExpiryDecision(p).verdict /\ x.trace = tr
          /\ Fits(x, ExpiryDecision(p)) => CertifiesAs(t, x, ExpiryDecision(p))
    BY <2>2, <2>3, CertifyGives
  <2>5. CertifiesAs(t, x, ExpiryDecision(p))
    BY <1>3, <2>4, ExpiryFits DEF tr
  <2> QED
    BY <1>1, <2>2, <2>5 DEF Certifies
<1>4. CASE c \notin Malformed /\ ~OutsideWindow(p, instant)
  <2> DEFINE x == [NoDraft EXCEPT !.policy = p, !.context = c]
  <2>1. x \in Certificate /\ x.trace = <<>>
    BY NoDraftType DEF Certificate, NoDraft
  <2> HIDE DEF x
  <2>2. Misses(x, 0)
    BY <2>1 DEF Misses
  <2>3. /\ phase' = [phase EXCEPT ![t] = "rules"]
        /\ \E n \in ClockReads : now' = [now EXCEPT ![t] = n]
        /\ draft' = [draft EXCEPT ![t] = x]
        /\ UNCHANGED <<rule, ans>>
    BY <1>4 DEF Begin, x
  <2>4. Starts(t)
    BY <2>1, <2>2, <2>3, EngineAssumption DEF Starts
  <2> QED
    BY <1>1, <2>4
<1> QED
  BY <1>2, <1>3, <1>4

LEMMA RuleStep ==
  ASSUME LocalInv, NEW t \in Thread, EvaluateRule(t)
  PROVE  /\ phase[t] = "rules"
         /\ Certifies(t) \/ GoesOn(t)
         /\ UNCHANGED <<storeVars, told, cut>>
<1> DEFINE d == draft[t]
           i == rule[t]
<1>1. phase[t] = "rules" /\ UNCHANGED <<storeVars, told, cut>>
  BY DEF EvaluateRule
<1>2. /\ d \in Certificate /\ i \in Nat /\ i >= 1
      /\ i <= NumRules[d.policy] + 1 /\ Misses(d, i - 1)
  BY <1>1, PolicyAssumption DEF LocalInv, EngineTypes, Walk
<1>3. d.policy \in Policy /\ d.context \in Context /\ d.trace \in Seq(Entry)
  BY <1>2 DEF Certificate
<1>4. CASE i \notin Rules(d.policy)
  <2>1. Certify(t, d.context, d.policy, DefaultDeny, 0, d.trace)
    BY <1>4 DEF EvaluateRule
  <2>2. i - 1 = NumRules[d.policy]
    BY <1>2, <1>3, <1>4, RuleTypes DEF Rules
  <2>3. DefaultDeny \in Decision /\ 0 \in 0..MaxRules
    BY PolicyAssumption DEF DefaultDeny, Decision, Verdict
  <2> HIDE DEF d
  <2>4. PICK x \in Certificate :
          /\ x.policy = d.policy /\ x.context = d.context /\ x.rule = 0
          /\ x.verdict = DefaultDeny.verdict /\ x.trace = d.trace
          /\ Fits(x, DefaultDeny) => CertifiesAs(t, x, DefaultDeny)
    BY <1>3, <2>1, <2>3, CertifyGives
  <2>5. Misses(x, NumRules[x.policy]) /\ x.verdict = "DENY"
    BY <1>2, <2>2, <2>4 DEF Misses, DefaultDeny
  <2>6. CertifiesAs(t, x, DefaultDeny)
    BY <2>4, <2>5, DefaultFits
  <2> QED
    BY <1>1, <2>3, <2>6 DEF Certifies
<1>5. CASE i \in Rules(d.policy)
  <2>1. PICK instant \in RuleInstants(d.policy, i, now[t], HostTimes) :
          LET outcome == Fires[d.policy][d.context][instant][i]
              out == [j \in 1..i |-> IF j < i THEN "miss" ELSE outcome]
              trace == Append(d.trace,
                         [rule |-> i, matched |-> outcome = "match",
                          verdict |-> RuleVerdict[d.policy][i]])
          IN IF outcome = "miss"
             THEN /\ rule' = [rule EXCEPT ![t] = i + 1]
                  /\ draft' = [draft EXCEPT ![t].trace = trace]
                  /\ UNCHANGED <<phase, now, ans>>
             ELSE Certify(t, d.context, d.policy, DecisionOf(d.policy, out, i),
                          DecidedBy(i, outcome), trace)
    BY <1>5 DEF EvaluateRule
  <2> DEFINE outcome == Fires[d.policy][d.context][instant][i]
             last == [rule |-> i, matched |-> outcome = "match",
                      verdict |-> RuleVerdict[d.policy][i]]
             trace == Append(d.trace, last)
  <2>2. instant \in Time
    BY ClockTypes DEF LocalInv, EngineTypes
  <2>3. /\ i \in 1..MaxRules /\ RuleVerdict[d.policy][i] \in Verdict
        /\ i <= NumRules[d.policy]
    BY <1>3, <1>5, RuleTypes DEF Rules
  <2>4. outcome \in Outcome
    BY <1>3, <2>2, <2>3, PolicyAssumption
  <2>5. Seen(d.policy, d.context, i, outcome)
    BY <2>2 DEF Seen
  <2>6. last \in Entry
    <3>1. i \in 0..MaxRules
      BY <2>3, PolicyAssumption
    <3> QED
      BY <2>3, <3>1 DEF Entry
  <2>7. last.rule = i /\ last.verdict = RuleVerdict[d.policy][i]
    OBVIOUS
  <2>8. last.matched <=> outcome = "match"
    BY Zenon
  <2> HIDE DEF last
  <2>9. /\ trace \in Seq(Entry) /\ Len(trace) = i /\ trace[i] = last
        /\ \A j \in 1..(i - 1) : trace[j] = d.trace[j]
    <3>1. Len(d.trace) = i - 1
      BY <1>2 DEF Misses
    <3> QED
      BY <1>2, <1>3, <2>6, <3>1
  <2>10. \A j \in 1..(i - 1) : /\ trace[j].rule = j
                               /\ ~trace[j].matched
                               /\ Missed(d.policy, d.context, j)
    BY <1>2, <2>9 DEF Misses
  <2> HIDE DEF trace, outcome
  <2>11. CASE outcome = "miss"
    <3> DEFINE x == [draft[t] EXCEPT !.trace = trace]
    <3>1. /\ rule' = [rule EXCEPT ![t] = i + 1]
          /\ draft' = [draft EXCEPT ![t].trace = trace]
          /\ UNCHANGED <<phase, now, ans>>
      BY <2>1, <2>11 DEF outcome, trace, last
    <3>2. draft' = [draft EXCEPT ![t] = x]
      BY <3>1
    <3>3. /\ x \in Certificate /\ x.policy = d.policy /\ x.context = d.context
          /\ x.trace = trace
      BY <1>2, <2>9 DEF Certificate
    <3> HIDE DEF x
    <3>4. Missed(d.policy, d.context, i) /\ ~last.matched
      BY <2>5, <2>8, <2>11 DEF Missed
    <3>5. \A j \in 1..i : j = i \/ j \in 1..(i - 1)
      BY <1>2
    <3>6. Misses(x, i)
      BY <2>7, <2>9, <2>10, <3>3, <3>4, <3>5 DEF Misses
    <3>7. GoesOn(t)
      BY <2>3, <3>1, <3>2, <3>3, <3>6 DEF GoesOn
    <3> QED
      BY <1>1, <3>7
  <2>12. CASE outcome # "miss"
    <3> DEFINE e == DecisionBy(d.policy, i, outcome)
    <3>1. outcome \in {"match", "throw"}
      BY <2>4, <2>12 DEF Outcome
    <3>2. ASSUME NEW out, out = [j \in 1..i |-> IF j < i THEN "miss" ELSE outcome]
          PROVE  DecisionOf(d.policy, out, i) = e
      <4>1. out[i] = outcome
        BY <1>2, <3>2
      <4> QED
        BY <4>1 DEF DecisionOf, DecisionBy
    <3>3. Certify(t, d.context, d.policy, e, DecidedBy(i, outcome), trace)
      BY <2>1, <2>12, <3>2 DEF outcome, trace, last
    <3>4. e \in Decision /\ DecidedBy(i, outcome) \in 0..MaxRules
      BY <2>3, PolicyAssumption DEF Decision, Verdict, DecidedBy, DecisionBy
    <3> HIDE DEF e, d, i
    <3>5. PICK x \in Certificate :
            /\ x.policy = d.policy /\ x.context = d.context
            /\ x.rule = DecidedBy(i, outcome)
            /\ x.verdict = e.verdict /\ x.trace = trace
            /\ Fits(x, e) => CertifiesAs(t, x, e)
      BY <1>3, <2>9, <3>3, <3>4, CertifyGives
    <3>6. EndedBy(x, i, outcome)
      BY <1>5, <2>5, <2>7, <2>8, <2>9, <2>10, <3>5 DEF EndedBy
    <3>7. e = DecisionBy(x.policy, i, outcome)
      BY <3>5 DEF e
    <3>8. Fits(x, e)
      BY <3>1, <3>5, <3>6, <3>7, DecisiveFits
    <3> QED
      BY <1>1, <3>4, <3>5, <3>8 DEF Certifies
  <2> QED
    BY <2>11, <2>12
<1> QED
  BY <1>4, <1>5

-----------------------------------------------------------------------------
(* The steps of the engine, and its local state                            *)

\* A step before _persist(): it touches nothing the archive reads.
Prepares(t) ==
  /\ phase[t] \notin {"certified", "storing"}
  /\ \/ Certifies(t)
     \/ phase[t] # "rules" /\ Starts(t)
     \/ phase[t] = "rules" /\ GoesOn(t)
  /\ UNCHANGED <<storeVars, told, cut>>

LEMMA StepCases ==
  ASSUME LocalInv, Next
  PROVE  \/ \E t \in Thread : Prepares(t) \/ Persist(t) \/ StoreStep(t) \/ Return(t)
         \/ \E p \in Process : Crash(p) \/ CloseArchive(p) \/ QueryArchive(p)
<1>1. ASSUME NEW t \in Thread, NEW c \in Context, NEW p \in Policy,
             NEW instant \in UNION {Instants(n, HostTimes) : n \in ClockReads},
             Begin(t, c, p, instant)
      PROVE  Prepares(t)
  <2>1. instant \in Time
    BY ClockTypes
  <2> QED
    BY <1>1, <2>1, BeginStep DEF Prepares, Idle
<1>2. ASSUME NEW t \in Thread, EvaluateRule(t)
      PROVE  Prepares(t)
  BY <1>2, RuleStep DEF Prepares
<1> QED
  BY <1>1, <1>2 DEF Next

LEMMA LocalInit == Init => LocalInv
<1> SUFFICES ASSUME Init
             PROVE  LocalInv
  OBVIOUS
<1>1. 1 \in 1..(MaxRules + 1)
  BY PolicyAssumption
<1>2. DefaultDeny \in Decision
  BY PolicyAssumption DEF DefaultDeny, Decision, Verdict
<1> QED
  BY <1>1, <1>2, NoDraftType DEF Init, LocalInv, EngineTypes, Phases, Walk

LEMMA LocalStep == LocalInv /\ [Next]_vars => LocalInv'
<1> SUFFICES ASSUME LocalInv, [Next]_vars
             PROVE  LocalInv'
  OBVIOUS
<1>0. 1 \in 1..(MaxRules + 1) /\ Absent \in Time \union {Absent}
  BY PolicyAssumption
<1>1. ASSUME NEW t \in Thread, Prepares(t)
      PROVE  LocalInv'
  <2>1. told' = told /\ cut' = cut
    BY <1>1 DEF Prepares
  <2>2. CASE Certifies(t)
    <3>1. PICK x \in Certificate, d \in Decision : CertifiesAs(t, x, d)
      BY <2>2 DEF Certifies
    <3>2. EngineTypes'
      BY <1>0, <2>1, <3>1 DEF CertifiesAs, LocalInv, EngineTypes, Phases
    <3>3. ASSUME NEW u \in Thread
          PROVE  IF phase'[u] = "rules"
                 THEN /\ rule'[u] <= NumRules[draft'[u].policy] + 1
                      /\ Misses(draft'[u], rule'[u] - 1)
                 ELSE rule'[u] = 1
      <4>1. CASE u = t
        BY <3>1, <4>1 DEF CertifiesAs, LocalInv, EngineTypes
      <4>2. CASE u # t
        BY <3>1, <4>2 DEF CertifiesAs, LocalInv, EngineTypes, Walk
      <4> QED
        BY <4>1, <4>2
    <3>4. Walk'
      BY <3>3 DEF Walk
    <3> QED
      BY <3>2, <3>4 DEF LocalInv
  <2>3. CASE Starts(t) /\ phase[t] # "rules"
    <3>1. PICK x \in Certificate : Misses(x, 0) /\ draft' = [draft EXCEPT ![t] = x]
      BY <2>3 DEF Starts
    <3>2. PICK n \in Time \union {Absent} : now' = [now EXCEPT ![t] = n]
      BY <2>3 DEF Starts
    <3>3. phase' = [phase EXCEPT ![t] = "rules"] /\ rule' = rule /\ ans' = ans
      BY <2>3 DEF Starts
    <3>4. EngineTypes'
      BY <2>1, <3>1, <3>2, <3>3 DEF LocalInv, EngineTypes, Phases
    <3>5. ASSUME NEW u \in Thread
          PROVE  IF phase'[u] = "rules"
                 THEN /\ rule'[u] <= NumRules[draft'[u].policy] + 1
                      /\ Misses(draft'[u], rule'[u] - 1)
                 ELSE rule'[u] = 1
      <4>1. CASE u = t
        <5>1. rule'[t] = 1 /\ draft'[t] = x
          BY <2>3, <3>1, <3>3 DEF LocalInv, EngineTypes, Walk
        <5>2. NumRules[x.policy] \in Nat
          BY RuleTypes DEF Certificate
        <5> QED
          BY <3>1, <3>3, <4>1, <5>1, <5>2 DEF LocalInv, EngineTypes
      <4>2. CASE u # t
        BY <3>1, <3>3, <4>2 DEF LocalInv, EngineTypes, Walk
      <4> QED
        BY <4>1, <4>2
    <3>6. Walk'
      BY <3>5 DEF Walk
    <3> QED
      BY <3>4, <3>6 DEF LocalInv
  <2>4. CASE GoesOn(t) /\ phase[t] = "rules"
    <3>1. PICK x \in Certificate : /\ rule[t] <= NumRules[x.policy]
                                   /\ Misses(x, rule[t])
                                   /\ draft' = [draft EXCEPT ![t] = x]
      BY <2>4 DEF GoesOn
    <3>2. /\ rule' = [rule EXCEPT ![t] = rule[t] + 1]
          /\ phase' = phase /\ now' = now /\ ans' = ans
      BY <2>4 DEF GoesOn
    <3>3. NumRules[x.policy] \in Nat /\ NumRules[x.policy] <= MaxRules
      BY RuleTypes DEF Certificate
    <3>4. rule[t] \in Nat /\ rule[t] + 1 \in 1..(MaxRules + 1)
      BY <3>1, <3>3, PolicyAssumption DEF LocalInv, EngineTypes
    <3>5. EngineTypes'
      BY <2>1, <3>1, <3>2, <3>4 DEF LocalInv, EngineTypes
    <3>6. ASSUME NEW u \in Thread
          PROVE  IF phase'[u] = "rules"
                 THEN /\ rule'[u] <= NumRules[draft'[u].policy] + 1
                      /\ Misses(draft'[u], rule'[u] - 1)
                 ELSE rule'[u] = 1
      <4>1. CASE u = t
        <5>1. rule'[t] = rule[t] + 1 /\ draft'[t] = x /\ phase'[t] = "rules"
          BY <2>4, <3>1, <3>2 DEF LocalInv, EngineTypes
        <5>2. rule'[t] <= NumRules[x.policy] + 1 /\ rule'[t] - 1 = rule[t]
          BY <3>1, <3>3, <3>4, <5>1
        <5> QED
          BY <3>1, <4>1, <5>1, <5>2
      <4>2. CASE u # t
        BY <3>1, <3>2, <4>2 DEF LocalInv, EngineTypes, Walk
      <4> QED
        BY <4>1, <4>2
    <3>7. Walk'
      BY <3>6 DEF Walk
    <3> QED
      BY <3>5, <3>7 DEF LocalInv
  <2> QED
    BY <1>1, <2>2, <2>3, <2>4 DEF Prepares
<1>2. ASSUME NEW t \in Thread, phase[t] # "rules",
             NEW f \in Phases, f # "rules", phase' = [phase EXCEPT ![t] = f],
             NEW d \in Decision, ans' = ans \/ ans' = [ans EXCEPT ![t] = d],
             told' \subseteq Certificate, UNCHANGED <<rule, now, draft, cut>>
      PROVE  LocalInv'
  BY <1>2 DEF LocalInv, EngineTypes, Walk
<1>3. ASSUME NEW t \in Thread, Persist(t)
      PROVE  LocalInv'
  <2>1. ans[t] \in Decision /\ told \subseteq Certificate
    BY DEF LocalInv, EngineTypes
  <2> QED
    BY <1>2, <1>3, <2>1 DEF Persist, Phases
<1>4. ASSUME NEW t \in Thread, Return(t)
      PROVE  LocalInv'
  <2>1. draft[t] \in Certificate /\ told \subseteq Certificate
    BY DEF LocalInv, EngineTypes
  <2>2. DefaultDeny \in Decision
    BY PolicyAssumption DEF DefaultDeny, Decision, Verdict
  <2>3. /\ phase[t] # "rules" /\ phase' = [phase EXCEPT ![t] = "done"]
        /\ ans' = ans \/ ans' = [ans EXCEPT ![t] = DefaultDeny]
        /\ told' \subseteq Certificate
        /\ UNCHANGED <<rule, now, draft, cut>>
    BY <1>4, <2>1 DEF Return
  <2> QED
    BY <1>2, <2>2, <2>3 DEF Phases
<1>5. ASSUME NEW p \in Process, Crash(p)
      PROVE  LocalInv'
  <2>1. told' \subseteq Certificate /\ cut' \subseteq Certificate
    BY <1>5 DEF Crash, LocalInv, EngineTypes
  <2>2. EngineTypes'
    BY <1>0, <1>5, <2>1 DEF Crash, LocalInv, EngineTypes, Phases
  <2>3. Walk'
    BY <1>5 DEF Crash, LocalInv, EngineTypes, Walk
  <2> QED
    BY <2>2, <2>3 DEF LocalInv
<1>6. ASSUME UNCHANGED engineVars
      PROVE  LocalInv'
  BY <1>6 DEF engineVars, LocalInv, EngineTypes, Walk
<1>7. ASSUME NEW t \in Thread, StoreStep(t)
      PROVE  LocalInv'
  BY <1>6, <1>7 DEF StoreStep
<1>8. ASSUME NEW p \in Process, CloseArchive(p) \/ QueryArchive(p)
      PROVE  LocalInv'
  BY <1>6, <1>8 DEF CloseArchive, QueryArchive
<1>9. CASE UNCHANGED vars
  BY <1>6, <1>9 DEF vars
<1> QED
  BY <1>1, <1>3, <1>4, <1>5, <1>7, <1>8, <1>9, StepCases

LEMMA LocalInvariant == Spec => []LocalInv
BY LocalInit, LocalStep, PTL DEF Spec

-----------------------------------------------------------------------------
(* The archive under the engine                                            *)

LEMMA StoreAssumption == Store!ArchiveAssumption
BY EngineAssumption DEF Store!ArchiveAssumption

\* The two instances of AuditArchive have the same definitions.
LEMMA SameInit == Archive!Init <=> Store!Init
BY DEF Archive!Init, Store!Init, Archive!Genesis, Store!Genesis

LEMMA SameRead ==
  ASSUME NEW t, NEW x
  PROVE  Archive!ReadHead(t, x) <=> Store!ReadHead(t, x)
<1>1. \A p : Archive!ReadBlocked(p) <=> Store!ReadBlocked(p)
  BY DEF Archive!ReadBlocked, Store!ReadBlocked, Archive!Others, Store!Others
<1>2. \A p : Archive!HeadOf(Archive!Visible(p)) = Store!HeadOf(Store!Visible(p))
  BY DEF Archive!HeadOf, Store!HeadOf, Archive!Genesis, Store!Genesis,
         Archive!Visible, Store!Visible, Archive!Last, Store!Last
<1>3. \A p : Archive!AfterRead(p) = Store!AfterRead(p)
  BY DEF Archive!AfterRead, Store!AfterRead
<1>4. \A how : Archive!End(t, how) <=> Store!End(t, how)
  BY DEF Archive!End, Store!End
<1>5. Archive!Hold(t) <=> Store!Hold(t)
  BY DEF Archive!Hold, Store!Hold
<1> QED
  BY <1>1, <1>2, <1>3, <1>4, <1>5
     DEF Archive!ReadHead, Store!ReadHead, Archive!Unlocked, Store!Unlocked

LEMMA SameStep ==
  ASSUME NEW t
  PROVE  /\ Archive!Step(t) <=> Store!Step(t)
         /\ Archive!DiskFull(t) <=> Store!DiskFull(t)
<1> USE DEF Archive!End, Store!End, Archive!InsertBlocked, Store!InsertBlocked,
            Archive!CommitBlocked, Store!CommitBlocked, Archive!Others, Store!Others,
            Archive!localVars, Store!localVars, Archive!historyVars, Store!historyVars,
            Archive!countVars, Store!countVars
<1>1. Archive!Insert(t) <=> Store!Insert(t)
  BY DEF Archive!Insert, Store!Insert, Archive!EntryHash, Store!EntryHash
<1>2. Archive!InsertTimesOut(t) <=> Store!InsertTimesOut(t)
  BY DEF Archive!InsertTimesOut, Store!InsertTimesOut,
         Archive!AfterBusyInsert, Store!AfterBusyInsert
<1>3. Archive!Commit(t) <=> Store!Commit(t)
  BY DEF Archive!Commit, Store!Commit
<1>4. Archive!CommitTimesOut(t) <=> Store!CommitTimesOut(t)
  BY DEF Archive!CommitTimesOut, Store!CommitTimesOut
<1>5. Archive!DiskFull(t) <=> Store!DiskFull(t)
  BY DEF Archive!DiskFull, Store!DiskFull
<1> QED
  BY <1>1, <1>2, <1>3, <1>4, <1>5 DEF Archive!Step, Store!Step

LEMMA SameProcessStep ==
  ASSUME NEW p
  PROVE  /\ Archive!Crash(p) <=> Store!Crash(p)
         /\ Archive!Close(p) <=> Store!Close(p)
         /\ Archive!BeginRead(p) <=> Store!BeginRead(p)
         /\ Archive!EndRead(p) <=> Store!EndRead(p)
<1> USE DEF Archive!localVars, Store!localVars, Archive!historyVars, Store!historyVars,
            Archive!countVars, Store!countVars
<1>1. Archive!Crash(p) <=> Store!Crash(p)
  BY DEF Archive!Crash, Store!Crash
<1>2. Archive!Close(p) <=> Store!Close(p)
  BY DEF Archive!Close, Store!Close, Archive!Unlocked, Store!Unlocked
<1>3. Archive!BeginRead(p) <=> Store!BeginRead(p)
  BY DEF Archive!BeginRead, Store!BeginRead, Archive!ReadBlocked, Store!ReadBlocked,
         Archive!Others, Store!Others, Archive!AfterRead, Store!AfterRead,
         Archive!Unlocked, Store!Unlocked
<1>4. Archive!EndRead(p) <=> Store!EndRead(p)
  BY DEF Archive!EndRead, Store!EndRead, Archive!fileVars, Store!fileVars
<1> QED
  BY <1>1, <1>2, <1>3, <1>4

LEMMA ArchiveStep == LocalInv /\ [Next]_vars => [Archive!Next]_(Archive!vars)
<1> SUFFICES ASSUME LocalInv, [Next]_vars
             PROVE  Archive!Next \/ UNCHANGED Archive!vars
  OBVIOUS
<1>1. ASSUME UNCHANGED storeVars
      PROVE  UNCHANGED Archive!vars
  BY <1>1 DEF storeVars, Archive!vars, Archive!fileVars, Archive!localVars,
              Archive!historyVars, Archive!countVars
<1>2. ASSUME NEW t \in Thread, Prepares(t) \/ Return(t)
      PROVE  UNCHANGED storeVars
  BY <1>2 DEF Prepares, Return
<1>3. ASSUME NEW t \in Thread, Persist(t)
      PROVE  Archive!Next
  <2>1. draft[t] \in Certificate /\ Archive!ReadHead(t, draft[t])
    BY <1>3 DEF Persist, LocalInv, EngineTypes
  <2> QED
    BY <2>1 DEF Archive!Next
<1>4. ASSUME NEW t \in Thread, StoreStep(t)
      PROVE  Archive!Next
  BY <1>4 DEF StoreStep, Archive!Next
<1>5. ASSUME NEW p \in Process, Crash(p) \/ CloseArchive(p) \/ QueryArchive(p)
      PROVE  Archive!Next
  BY <1>5 DEF Crash, CloseArchive, QueryArchive, Archive!Next
<1>6. CASE UNCHANGED vars
  BY <1>1, <1>6 DEF vars
<1> QED
  BY <1>1, <1>2, <1>3, <1>4, <1>5, <1>6, StepCases

\* The engine drives the archive as the archive's specification says: the
\* certificates it stores are just some calls of store(), so all that holds of
\* the archive for any callers holds of the one evaluate_with_proof() writes.
THEOREM EngineUsesArchive == Spec => Archive!Spec
<1>1. Init => Archive!Init
  BY DEF Init
<1> QED
  BY <1>1, ArchiveStep, LocalInvariant, PTL DEF Spec, Archive!Spec

LEMMA SameNext == [Archive!Next]_(Archive!vars) => [Store!Next]_(Store!vars)
<1>1. Archive!Next => Store!Next
  BY SameRead, SameStep, SameProcessStep DEF Archive!Next, Store!Next
<1>2. UNCHANGED Archive!vars => UNCHANGED Store!vars
  BY DEF Archive!vars, Archive!fileVars, Archive!localVars, Archive!historyVars,
         Archive!countVars, Store!vars, Store!fileVars, Store!localVars,
         Store!historyVars, Store!countVars
<1> QED
  BY <1>1, <1>2

LEMMA StoreSpec == Archive!Spec => Store!Spec
BY SameInit, SameNext, PTL DEF Archive!Spec, Store!Spec

LEMMA StoreInvariant ==
  Spec => [](Store!Inv1 /\ Store!AckedOK /\ Store!SoleWriterExact /\ Store!LinksBack)
BY EngineUsesArchive, StoreSpec, StoreAssumption, Store!Inv1Invariant,
   Store!AckedInvariant, Store!SoleWriterArchiveExact, Store!ChainNeverTampered, PTL

\* What the archive promises, it promises to the engine: whatever calls of
\* evaluate_with_proof() write to it, no record is ever tampered with, the
\* archive holds the certificates whose store() returned and besides at most
\* ones whose COMMIT timed out (none while one process uses the file), and
\* while one process writes the chain verifies.
THEOREM EngineArchiveSound ==
  Spec => [](Archive!LinksBack /\ Archive!SoleWriterExact)
<1>1. Store!LinksBack => Archive!LinksBack
  BY DEF Store!LinksBack, Archive!LinksBack, Store!Tampered, Archive!Tampered,
         Store!EntryHash, Archive!EntryHash, Store!Genesis, Archive!Genesis
<1>2. Store!SoleWriterExact => Archive!SoleWriterExact
  BY DEF Store!SoleWriterExact, Archive!SoleWriterExact, Store!ChainValid,
         Archive!ChainValid, Store!Rewrites, Archive!Rewrites, Store!Tampered,
         Archive!Tampered, Store!EntryHash, Archive!EntryHash, Store!Genesis,
         Archive!Genesis
<1> QED
  BY <1>1, <1>2, StoreInvariant, PTL

\* ... and so is its durability: the log of the engine's certificates only
\* grows, and what was acknowledged stays in it.
THEOREM EngineArchiveDurable == Spec => Store!AppendOnlyDurable
BY EngineUsesArchive, StoreSpec, StoreAssumption, Store!ArchiveImplementsLog, PTL

\* Type correctness of the engine and of the archive under it.
THEOREM TypeCorrect == Spec => []TypeOK
<1>1. LocalInv /\ Store!Inv1 => TypeOK
  <2>1. Store!Inv1 => Archive!TypeOK
    BY DEF Store!Inv1, Store!TypeOK, Archive!TypeOK, Store!Records, Archive!Records
  <2> QED
    BY <2>1 DEF LocalInv, EngineTypes, Phases, TypeOK
<1> QED
  BY <1>1, LocalInvariant, StoreInvariant, PTL

-----------------------------------------------------------------------------
(* A call and its store()                                                  *)

\* Only a call in _persist() is inside store(), with its certificate.
Calls ==
  \A t \in Thread :
    /\ Store!Active(t) => phase[t] = "storing"
    /\ phase[t] = "storing" => proof[t] = draft[t]

\* What a call is about to return fits its certificate, and the certificate
\* of what it has returned, unless it returned DENY, was acknowledged.
Answers ==
  \A t \in Thread :
    /\ phase[t] \in {"certified", "storing"} => Fits(draft[t], ans[t])
    /\ phase[t] = "storing" /\ pc[t] = "stored" => draft[t] \in acked
    /\ phase[t] = "done" /\ RequireAudit /\ ans[t].verdict # "DENY"
         => Fits(draft[t], ans[t]) /\ draft[t] \in acked

\* store() has returned to these threads, and they have not returned yet.
Stored == {t \in Thread : phase[t] = "storing" /\ pc[t] = "stored"}

\* An acknowledged certificate belongs to an answer given, about to be given,
\* or cut off.
Tells == acked \subseteq told \union cut \union {draft[t] : t \in Stored}

CallInv == Calls /\ Answers /\ Tells

LEMMA StoreStepMoves ==
  ASSUME NEW t \in Thread, StoreStep(t)
  PROVE  /\ Store!Active(t)
         /\ \E how \in {"commit", "stored", "raised"} :
              /\ pc' = [pc EXCEPT ![t] = how]
              /\ acked' = IF how = "stored" THEN acked \union {proof[t]} ELSE acked
         /\ proof' = proof
<1> USE DEF Store!Active, Store!End, Store!localVars, Store!historyVars
<1>1. Store!Step(t) \/ Store!DiskFull(t)
  BY SameStep DEF StoreStep
<1>2. CASE Store!Insert(t)
  BY <1>2 DEF Store!Insert
<1>3. CASE Store!InsertTimesOut(t)
  BY <1>3 DEF Store!InsertTimesOut
<1>4. CASE Store!Commit(t)
  BY <1>4 DEF Store!Commit
<1>5. CASE Store!CommitTimesOut(t)
  BY <1>5 DEF Store!CommitTimesOut
<1>6. CASE Store!DiskFull(t)
  BY <1>6 DEF Store!DiskFull
<1> QED
  BY <1>1, <1>2, <1>3, <1>4, <1>5, <1>6 DEF Store!Step

LEMMA PersistMoves ==
  ASSUME NEW t \in Thread, Persist(t)
  PROVE  /\ pc' = [pc EXCEPT ![t] = "raised"] \/ pc' = [pc EXCEPT ![t] = "insert"]
         /\ proof' = [proof EXCEPT ![t] = draft[t]]
         /\ UNCHANGED <<rows, pending, acked>>
<1>1. Store!ReadHead(t, draft[t])
  BY SameRead DEF Persist
<1> QED
  BY <1>1, Zenon DEF Store!ReadHead, Store!End

LEMMA CallInit == Init => CallInv
BY SameInit DEF Init, Store!Init, CallInv, Calls, Answers, Tells, Store!Active

LEMMA CallStep == Store!Inv1 /\ LocalInv /\ CallInv /\ [Next]_vars => CallInv'
<1> SUFFICES ASSUME Store!TypeOK, LocalInv, EngineTypes, CallInv, [Next]_vars
             PROVE  CallInv'
  BY DEF Store!Inv1, LocalInv
<1>0. pc \in [Thread -> {"idle", "insert", "commit", "stored", "raised"}]
  BY DEF Store!TypeOK
<1>1. ASSUME NEW t \in Thread, Prepares(t)
      PROVE  CallInv'
  <2>1. /\ phase[t] \notin {"certified", "storing"}
        /\ UNCHANGED <<pc, proof, acked, told>>
    BY <1>1 DEF Prepares, storeVars
  <2>2. \A u \in Thread : u # t => /\ phase'[u] = phase[u]
                                   /\ draft'[u] = draft[u]
                                   /\ ans'[u] = ans[u]
    <3>1. CASE Certifies(t)
      BY <3>1 DEF Certifies, CertifiesAs, EngineTypes
    <3>2. CASE Starts(t)
      BY <3>2 DEF Starts, EngineTypes
    <3>3. CASE GoesOn(t)
      BY <3>3 DEF GoesOn, EngineTypes
    <3> QED
      BY <1>1, <3>1, <3>2, <3>3 DEF Prepares
  <2>3. \/ phase'[t] = "certified" /\ Fits(draft'[t], ans'[t])
        \/ phase'[t] = "rules"
    <3>1. CASE Certifies(t)
      BY <3>1 DEF Certifies, CertifiesAs, EngineTypes
    <3>2. CASE Starts(t)
      BY <3>2 DEF Starts, EngineTypes
    <3>3. CASE phase[t] = "rules" /\ GoesOn(t)
      BY <3>3 DEF GoesOn
    <3> QED
      BY <1>1, <3>1, <3>2, <3>3 DEF Prepares
  <2>4. Calls'
    BY <2>1, <2>2, <2>3 DEF CallInv, Calls, Store!Active
  <2>5. Answers'
    BY <2>1, <2>2, <2>3, Zenon DEF CallInv, Answers
  <2>6. Stored' = Stored /\ \A u \in Stored : draft'[u] = draft[u]
    BY <2>1, <2>2, <2>3 DEF Stored
  <2>7. Tells'
    <3>1. told' = told /\ cut' = cut /\ acked' = acked
      BY <1>1, <2>1 DEF Prepares
    <3> QED
      BY <2>6, <3>1 DEF CallInv, Tells
  <2> QED
    BY <2>4, <2>5, <2>7 DEF CallInv
<1>2. ASSUME NEW t \in Thread, Persist(t)
      PROVE  CallInv'
  <2>1. /\ phase[t] = "certified" /\ phase' = [phase EXCEPT ![t] = "storing"]
        /\ UNCHANGED <<draft, ans, told, cut>>
    BY <1>2 DEF Persist
  <2>2. /\ pc' = [pc EXCEPT ![t] = "raised"] \/ pc' = [pc EXCEPT ![t] = "insert"]
        /\ proof' = [proof EXCEPT ![t] = draft[t]]
        /\ acked' = acked
    BY <1>2, PersistMoves
  <2>3. Calls'
    BY <1>0, <2>1, <2>2 DEF CallInv, Calls, EngineTypes, Store!TypeOK, Store!Active
  <2>4. Answers'
    BY <1>0, <2>1, <2>2 DEF CallInv, Answers, EngineTypes
  <2>5. Stored' = Stored
    BY <1>0, <2>1, <2>2 DEF Stored, EngineTypes
  <2>6. Tells'
    BY <2>1, <2>2, <2>5 DEF CallInv, Tells
  <2> QED
    BY <2>3, <2>4, <2>6 DEF CallInv
<1>3. ASSUME NEW t \in Thread, StoreStep(t)
      PROVE  CallInv'
  <2>1. UNCHANGED <<phase, draft, ans, told, cut>>
    BY <1>3 DEF StoreStep, engineVars
  <2>2. PICK how \in {"commit", "stored", "raised"} :
          /\ pc' = [pc EXCEPT ![t] = how]
          /\ acked' = IF how = "stored" THEN acked \union {proof[t]} ELSE acked
    BY <1>3, StoreStepMoves
  <2>3. Store!Active(t) /\ proof' = proof
    BY <1>3, StoreStepMoves
  <2>4. phase[t] = "storing" /\ proof[t] = draft[t]
    BY <2>3 DEF CallInv, Calls
  <2>5. Calls'
    BY <1>0, <2>1, <2>2, <2>3, <2>4 DEF CallInv, Calls, Store!Active
  <2>6. Answers'
    BY <1>0, <2>1, <2>2, <2>4 DEF CallInv, Answers
  <2>7. Tells'
    <3>1. t \notin Stored
      BY <2>3 DEF Stored, Store!Active
    <3>2. Stored' = IF how = "stored" THEN Stored \union {t} ELSE Stored
      BY <1>0, <2>1, <2>2, <2>4, <3>1 DEF Stored
    <3> QED
      BY <2>1, <2>2, <2>4, <3>2 DEF CallInv, Tells
  <2> QED
    BY <2>5, <2>6, <2>7 DEF CallInv
<1>4. ASSUME NEW t \in Thread, Return(t)
      PROVE  CallInv'
  <2>1. /\ phase[t] = "storing" /\ pc[t] \in {"stored", "raised"}
        /\ phase' = [phase EXCEPT ![t] = "done"]
        /\ UNCHANGED <<pc, proof, acked, draft, cut>>
    BY <1>4 DEF Return, storeVars
  <2>2. IF Downgrades(t)
        THEN ans' = [ans EXCEPT ![t] = DefaultDeny] /\ told' = told
        ELSE told' = told \union {draft[t]} /\ ans' = ans
    BY <1>4 DEF Return
  <2>3. Calls'
    BY <2>1 DEF CallInv, Calls, EngineTypes, Store!Active
  <2>4. \A u \in Thread : u # t => phase'[u] = phase[u] /\ ans'[u] = ans[u]
    BY <2>1, <2>2 DEF EngineTypes
  <2>5. RequireAudit /\ ans'[t].verdict # "DENY" =>
          Fits(draft[t], ans'[t]) /\ draft[t] \in acked
    <3>1. CASE Downgrades(t)
      BY <2>2, <3>1 DEF EngineTypes, DefaultDeny
    <3>2. CASE ~Downgrades(t)
      BY <2>1, <2>2, <3>2 DEF Downgrades, CallInv, Answers
    <3> QED
      BY <3>1, <3>2
  <2>6. Answers'
    <3>1. phase'[t] = "done"
      BY <2>1 DEF EngineTypes
    <3> QED
      BY <2>1, <2>4, <2>5, <3>1 DEF CallInv, Answers
  <2>7. Tells'
    <3>1. Stored' = Stored \ {t}
      BY <2>1 DEF Stored, EngineTypes
    <3>2. Downgrades(t) => t \notin Stored
      BY DEF Downgrades, Stored
    <3> QED
      BY <2>1, <2>2, <3>1, <3>2 DEF CallInv, Tells
  <2> QED
    BY <2>3, <2>6, <2>7 DEF CallInv
<1>5. ASSUME NEW p \in Process, Crash(p)
      PROVE  CallInv'
  <2>1. /\ pc' = [t \in Thread |-> IF Home[t] = p THEN "idle" ELSE pc[t]]
        /\ UNCHANGED <<proof, acked>>
    BY <1>5 DEF Crash, Archive!Crash, Archive!localVars, Archive!historyVars
  <2>2. /\ phase' = [t \in Thread |-> IF Home[t] = p THEN "idle" ELSE phase[t]]
        /\ cut' = cut \union
             {draft[t] : t \in {u \in Thread : Home[u] = p /\ phase[u] = "storing"}}
        /\ UNCHANGED <<draft, ans, told>>
    BY <1>5 DEF Crash
  <2>3. Calls'
    BY <2>1, <2>2 DEF CallInv, Calls, Store!Active
  <2>4. Answers'
    BY <2>1, <2>2 DEF CallInv, Answers
  <2>5. Stored' = {t \in Stored : Home[t] # p}
    BY <2>1, <2>2 DEF Stored
  <2>6. \A t \in Stored \ Stored' : draft[t] \in cut'
    BY <2>2, <2>5 DEF Stored
  <2>7. Tells'
    BY <2>1, <2>2, <2>5, <2>6 DEF CallInv, Tells
  <2> QED
    BY <2>3, <2>4, <2>7 DEF CallInv
<1>6. ASSUME UNCHANGED <<pc, proof, acked, phase, draft, ans, told, cut>>
      PROVE  CallInv'
  BY <1>6 DEF CallInv, Calls, Answers, Tells, Stored, Store!Active
<1>7. ASSUME NEW p \in Process, CloseArchive(p) \/ QueryArchive(p)
      PROVE  CallInv'
  BY <1>6, <1>7 DEF CloseArchive, QueryArchive, engineVars, Archive!Close,
                    Archive!BeginRead, Archive!EndRead, Archive!localVars,
                    Archive!historyVars
<1>8. CASE UNCHANGED vars
  BY <1>6, <1>8 DEF vars, storeVars, engineVars
<1> QED
  BY <1>1, <1>2, <1>3, <1>4, <1>5, <1>7, <1>8, StepCases

LEMMA CallInvariant == Spec => []CallInv
BY CallInit, CallStep, LocalInvariant, StoreInvariant, PTL DEF Spec

\* With required audit, a decision other than DENY is returned only when its
\* own certificate is in the archive, which keeps it: through the stores of
\* other threads and processes, full disks and crashes.
THEOREM AuditedBeforeEffect == Spec => []AuditBeforeEffect
<1>1. CallInv /\ Store!AckedOK => AuditBeforeEffect
  <2> SUFFICES ASSUME Answers, Store!AckedOK, NEW t \in Thread, RequireAudit,
                      phase[t] = "done", ans[t].verdict # "DENY"
               PROVE  /\ \E i \in DOMAIN rows : rows[i].proof = draft[t]
                      /\ draft[t].verdict = ans[t].verdict
                      /\ Justified(draft[t].policy, draft[t].context, ans[t])
    BY DEF CallInv, AuditBeforeEffect
  <2>1. Fits(draft[t], ans[t]) /\ draft[t] \in acked
    BY DEF Answers
  <2>2. draft[t] \in {rows[i].proof : i \in DOMAIN rows}
    BY <2>1 DEF Store!AckedOK, Store!ProofsOf
  <2> QED
    BY <2>1, <2>2 DEF Fits
<1> QED
  BY <1>1, CallInvariant, StoreInvariant, PTL

\* A record in the archive is the certificate of an answer that was given, is
\* about to be, or that a crash cut off; otherwise its COMMIT timed out, and
\* that takes a second process that uses the file.
THEOREM OnlyAnswersAreRecorded == Spec => []RecordsAreAnswers
<1>1. CallInv /\ Store!SoleWriterExact => RecordsAreAnswers
  <2> SUFFICES ASSUME Tells, Store!SoleWriterExact, NEW i \in DOMAIN rows
               PROVE  \/ rows[i].proof \in told \union cut
                      \/ \E t \in Thread : phase[t] = "storing" /\ draft[t] = rows[i].proof
                      \/ /\ rows[i].proof \in overdue
                         /\ \E p, q \in writers \union readers : p # q
    BY DEF CallInv, RecordsAreAnswers
  <2>1. CASE rows[i].proof \in acked
    BY <2>1 DEF Tells, Stored
  <2>2. CASE rows[i].proof \in overdue
    BY <2>2 DEF Store!SoleWriterExact
  <2> QED
    BY <2>1, <2>2 DEF Store!SoleWriterExact
<1> QED
  BY <1>1, CallInvariant, StoreInvariant, PTL

-----------------------------------------------------------------------------
(* What is in the archive can be audited                                   *)

AllAuditable(s) == \A i \in DOMAIN s : Auditable(s[i].proof)

Audits ==
  /\ AllAuditable(rows)
  /\ \A p \in Process : AllAuditable(pending[p])

LEMMA AppendAuditable ==
  ASSUME NEW s \in Seq(Store!Records), AllAuditable(s),
         NEW r, Auditable(r.proof)
  PROVE  AllAuditable(Append(s, r))
<1>1. ASSUME NEW i \in DOMAIN Append(s, r)
      PROVE  Auditable(Append(s, r)[i].proof)
  <2>1. CASE i \in DOMAIN s
    <3>1. Append(s, r)[i] = s[i]
      BY <2>1
    <3> QED
      BY <2>1, <3>1 DEF AllAuditable
  <2>2. CASE i \notin DOMAIN s
    <3>1. Append(s, r)[i] = r
      BY <2>2
    <3> QED
      BY <3>1
  <2> QED
    BY <2>1, <2>2
<1> QED
  BY <1>1 DEF AllAuditable

LEMMA ConcatAuditable ==
  ASSUME NEW s \in Seq(Store!Records), AllAuditable(s),
         NEW u \in Seq(Store!Records), AllAuditable(u)
  PROVE  AllAuditable(s \o u)
<1>1. ASSUME NEW i \in DOMAIN (s \o u)
      PROVE  Auditable((s \o u)[i].proof)
  <2>1. CASE i \in DOMAIN s
    <3>1. (s \o u)[i] = s[i]
      BY <2>1
    <3> QED
      BY <2>1, <3>1 DEF AllAuditable
  <2>2. CASE i \notin DOMAIN s
    <3>1. (s \o u)[i] = u[i - Len(s)] /\ i - Len(s) \in DOMAIN u
      BY <2>2
    <3> QED
      BY <3>1 DEF AllAuditable
  <2> QED
    BY <2>1, <2>2
<1> QED
  BY <1>1 DEF AllAuditable

LEMMA AuditInit == Init => Audits
BY SameInit DEF Init, Store!Init, Audits, AllAuditable

LEMMA AuditStep ==
  Store!Inv1 /\ LocalInv /\ CallInv /\ Audits /\ [Next]_vars => Audits'
<1> SUFFICES ASSUME Store!TypeOK, LocalInv, CallInv, Audits, [Next]_vars
             PROVE  Audits'
  BY DEF Store!Inv1
<1> USE EngineAssumption
<1>0. AllAuditable(<<>>)
  BY DEF AllAuditable
<1>1. ASSUME UNCHANGED <<rows, pending>>
      PROVE  Audits'
  BY <1>1 DEF Audits
<1>2. ASSUME NEW p \in Process, rows' = rows,
             pending' = [pending EXCEPT ![p] = <<>>]
      PROVE  Audits'
  BY <1>0, <1>2 DEF Audits, Store!TypeOK
<1>3. ASSUME NEW t \in Thread, Store!Insert(t)
      PROVE  Audits'
  <2> DEFINE r == [proof |-> proof[t], prev |-> prev[t],
                   entry |-> Store!EntryHash(prev[t], proof[t])]
  <2>1. /\ rows' = rows
        /\ pending' = [pending EXCEPT ![Home[t]] = Append(pending[Home[t]], r)]
    BY <1>3 DEF Store!Insert
  <2>2. phase[t] = "storing" /\ proof[t] = draft[t]
    BY <1>3 DEF Store!Insert, Store!Active, CallInv, Calls
  <2>3. r.proof = draft[t] /\ Auditable(draft[t])
    BY <2>2 DEF CallInv, Answers, Fits
  <2> HIDE DEF r
  <2>4. Home[t] \in Process /\ pending[Home[t]] \in Seq(Store!Records)
    BY DEF Store!TypeOK
  <2>5. AllAuditable(Append(pending[Home[t]], r))
    BY <2>3, <2>4, AppendAuditable DEF Audits
  <2> QED
    BY <2>1, <2>4, <2>5 DEF Audits, Store!TypeOK
<1>4. ASSUME NEW t \in Thread, Store!Commit(t)
      PROVE  Audits'
  <2>1. /\ rows' = rows \o pending[Home[t]]
        /\ pending' = [pending EXCEPT ![Home[t]] = <<>>]
    BY <1>4 DEF Store!Commit
  <2>2. AllAuditable(rows \o pending[Home[t]])
    <3>1. Home[t] \in Process
      OBVIOUS
    <3> QED
      BY <3>1, ConcatAuditable DEF Audits, Store!TypeOK
  <2> QED
    BY <1>0, <2>1, <2>2 DEF Audits, Store!TypeOK
<1>5. ASSUME NEW t \in Thread, StoreStep(t)
      PROVE  Audits'
  <2>1. Store!Step(t) \/ Store!DiskFull(t)
    BY <1>5, SameStep DEF StoreStep
  <2>2. CASE Store!InsertTimesOut(t) \/ Store!CommitTimesOut(t)
    BY <1>1, <2>2 DEF Store!InsertTimesOut, Store!CommitTimesOut
  <2>3. CASE Store!DiskFull(t)
    <3>1. /\ Home[t] \in Process /\ rows' = rows
          /\ pending' = [pending EXCEPT ![Home[t]] = <<>>]
      BY <2>3 DEF Store!DiskFull
    <3> QED
      BY <1>2, <3>1
  <2> QED
    BY <1>3, <1>4, <2>1, <2>2, <2>3 DEF Store!Step
<1>6. ASSUME NEW t \in Thread, Persist(t)
      PROVE  Audits'
  BY <1>1, <1>6, PersistMoves
<1>7. ASSUME NEW t \in Thread, Prepares(t) \/ Return(t)
      PROVE  Audits'
  BY <1>1, <1>7 DEF Prepares, Return, storeVars
<1>8. ASSUME NEW p \in Process, Crash(p) \/ CloseArchive(p)
      PROVE  Audits'
  BY <1>2, <1>8 DEF Crash, CloseArchive, Archive!Crash, Archive!Close
<1>9. ASSUME NEW p \in Process, QueryArchive(p)
      PROVE  Audits'
  BY <1>1, <1>9 DEF QueryArchive, Archive!BeginRead, Archive!EndRead, Archive!fileVars
<1>10. CASE UNCHANGED vars
  BY <1>1, <1>10 DEF vars, storeVars
<1> QED
  BY <1>5, <1>6, <1>7, <1>8, <1>9, <1>10, StepCases

\* Every record in the archive passes the verifier's check of its trace and
\* its verdict is one its policy justifies, whatever was stored, lost or
\* rolled back before.
THEOREM ArchivedRecordsVerify == Spec => []RecordsVerify
<1>1. Audits => RecordsVerify
  BY DEF Audits, AllAuditable, Auditable, RecordsVerify
<1> QED
  BY <1>1, AuditInit, AuditStep, CallInvariant, LocalInvariant, StoreInvariant,
     PTL DEF Spec
=============================================================================
