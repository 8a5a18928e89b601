-------------------------- MODULE TarlRuntime_proofs --------------------------
(***************************************************************************)
(* Proofs about the cached decision engine, for any policies, contexts,    *)
(* callers, clocks, cache size and bounds.                                 *)
(***************************************************************************)
EXTENDS TarlRuntime, FiniteSetTheorems, WellFoundedInduction, TLAPS

-----------------------------------------------------------------------------
(* First match wins                                                        *)

LEMMA LeastElement ==
  ASSUME NEW S \in SUBSET Nat, S # {}
  PROVE  \E m \in S : \A k \in S : m <= k
<1> DEFINE R == OpToRel(<, Nat)
<1>1. \A x, y \in Nat : x < y => <<x, y>> \in R
  BY DEF OpToRel
<1>2. IsWellFoundedOn(R, Nat)
  BY NatLessThanWellFounded
<1> HIDE DEF R
<1>3. PICK m \in S : \A k \in S : <<k, m>> \notin R
  BY <1>2, WFMin, Zenon
<1>4. \A k \in S : ~(k < m)
  BY <1>1, <1>3
<1>5. \A k \in S : k \in Nat /\ m \in Nat
  BY <1>3
<1> QED
  BY <1>3, <1>4, <1>5

\* Unless every rule misses, exactly one rule is the first that does not.
LEMMA SomeRuleDecides ==
  ASSUME NEW p \in Policy, NEW outcomes, NEW k \in Rules(p), outcomes[k] # "miss"
  PROVE  \E i \in Rules(p) : Decides(p, outcomes, i)
<1> USE PolicyAssumption
<1> DEFINE S == {i \in Rules(p) : outcomes[i] # "miss"}
<1>1. S \in SUBSET Nat /\ k \in S
  BY DEF Rules
<1> HIDE DEF S
<1>2. PICK m \in S : \A j \in S : m <= j
  BY <1>1, LeastElement
<1>3. m \in Rules(p) /\ outcomes[m] # "miss"
  BY DEF S
<1>4. ASSUME NEW j \in 1..(m - 1)
      PROVE  outcomes[j] = "miss"
  <2>1. j \in Rules(p) /\ ~(m <= j)
    BY <1>3 DEF Rules
  <2> QED
    BY <1>2, <2>1 DEF S
<1> QED
  BY <1>3, <1>4 DEF Decides

\* FirstMatch() answers with a decision of the rule that decides, or DENY.
LEMMA FirstMatchCases ==
  ASSUME NEW p \in Policy, NEW outcomes
  PROVE  \/ /\ FirstMatch(p, outcomes) = DefaultDeny
            /\ \A i \in Rules(p) : outcomes[i] = "miss"
         \/ \E i \in Rules(p) : /\ Decides(p, outcomes, i)
                                /\ FirstMatch(p, outcomes) = DecisionOf(p, outcomes, i)
<1>1. CASE \E i \in Rules(p) : Decides(p, outcomes, i)
  <2> DEFINE d == CHOOSE i \in Rules(p) : Decides(p, outcomes, i)
  <2>1. d \in Rules(p) /\ Decides(p, outcomes, d)
    BY <1>1, Zenon
  <2>2. FirstMatch(p, outcomes) = DecisionOf(p, outcomes, d)
    BY <1>1, Zenon DEF FirstMatch
  <2> QED
    BY <2>1, <2>2, Zenon
<1>2. CASE ~ \E i \in Rules(p) : Decides(p, outcomes, i)
  <2>1. FirstMatch(p, outcomes) = DefaultDeny
    BY <1>2, Zenon DEF FirstMatch
  <2>2. \A i \in Rules(p) : outcomes[i] = "miss"
    BY <1>2, SomeRuleDecides, Zenon
  <2> QED
    BY <2>1, <2>2, Zenon
<1> QED
  BY <1>1, <1>2, Zenon

LEMMA DefaultDenyType == DefaultDeny \in Decision
BY PolicyAssumption DEF DefaultDeny, Decision, Verdict

LEMMA FirstMatchType ==
  ASSUME NEW p \in Policy, NEW outcomes
  PROVE  FirstMatch(p, outcomes) \in Decision
<1> USE PolicyAssumption
<1>1. ASSUME NEW i \in Rules(p)
      PROVE  DecisionOf(p, outcomes, i) \in Decision
  <2>1. i \in 1..MaxRules /\ i \in 0..MaxRules
    BY DEF Rules
  <2>2. RuleVerdict[p][i] \in Verdict /\ "DENY" \in Verdict
    BY <2>1 DEF Verdict
  <2> QED
    BY <2>1, <2>2 DEF DecisionOf, Decision
<1>2. \/ FirstMatch(p, outcomes) = DefaultDeny
      \/ \E i \in Rules(p) : FirstMatch(p, outcomes) = DecisionOf(p, outcomes, i)
  BY FirstMatchCases, Zenon
<1> QED
  BY <1>1, <1>2, DefaultDenyType, Zenon

\* When no rule raised, the first match is what the rules say.
LEMMA FirstMatchJustified ==
  ASSUME NEW p \in Policy, NEW c \in Context, NEW outcomes,
         \A i \in Rules(p) : outcomes[i] \in Outcome /\ Seen(p, c, i, outcomes[i]),
         FirstMatch(p, outcomes).rule # 0 => outcomes[FirstMatch(p, outcomes).rule] # "throw"
  PROVE  MatchJustified(p, c, FirstMatch(p, outcomes))
<1> USE PolicyAssumption
<1>1. CASE /\ FirstMatch(p, outcomes) = DefaultDeny
           /\ \A i \in Rules(p) : outcomes[i] = "miss"
  <2>1. \A i \in Rules(p) : Missed(p, c, i)
    BY <1>1 DEF Missed
  <2> QED
    BY <1>1, <2>1, Zenon DEF MatchJustified
<1>2. ASSUME NEW i \in Rules(p), Decides(p, outcomes, i),
             FirstMatch(p, outcomes) = DecisionOf(p, outcomes, i)
      PROVE  MatchJustified(p, c, FirstMatch(p, outcomes))
  <2> DEFINE d == FirstMatch(p, outcomes)
  <2>1. d.rule = i /\ i # 0
    BY <1>2 DEF DecisionOf, Rules
  <2>2. outcomes[i] = "match"
    BY <1>2, <2>1 DEF Decides, Outcome
  <2>3. d.verdict = RuleVerdict[p][i]
    BY <1>2, <2>2 DEF DecisionOf
  <2>4. \A j \in 1..(i - 1) : Missed(p, c, j)
    <3>1. \A j \in 1..(i - 1) : j \in Rules(p) /\ outcomes[j] = "miss"
      BY <1>2 DEF Decides, Rules
    <3>2. ASSUME NEW j \in 1..(i - 1)
          PROVE  Missed(p, c, j)
      <4>1. j \in Rules(p) /\ outcomes[j] = "miss"
        BY <3>1
      <4>2. Seen(p, c, j, outcomes[j])
        BY <4>1
      <4> QED
        BY <4>1, <4>2 DEF Missed
    <3> QED
      BY <3>2
  <2>5. Seen(p, c, i, "match")
    BY <2>2
  <2> HIDE DEF d
  <2>6. /\ d.rule \in Rules(p)
        /\ d.verdict = RuleVerdict[p][d.rule]
        /\ Seen(p, c, d.rule, "match")
        /\ \A j \in 1..(d.rule - 1) : Missed(p, c, j)
    BY <2>1, <2>3, <2>4, <2>5
  <2>7. MatchJustified(p, c, d)
    BY <2>6 DEF MatchJustified
  <2> QED
    BY <2>7 DEF d
<1> QED
  BY <1>1, <1>2, FirstMatchCases, Zenon

\* Whatever the rules do, the first match is an answer the engine may give.
LEMMA FirstMatchAnswers ==
  ASSUME NEW p \in Policy, NEW c \in Context, NEW outcomes,
         \A i \in Rules(p) : outcomes[i] \in Outcome /\ Seen(p, c, i, outcomes[i])
  PROVE  Justified(p, c, FirstMatch(p, outcomes))
<1> USE PolicyAssumption
<1> DEFINE d == FirstMatch(p, outcomes)
<1>1. CASE d.rule # 0 => outcomes[d.rule] # "throw"
  BY <1>1, FirstMatchJustified, Zenon DEF Justified
<1>2. CASE ~(d.rule # 0 => outcomes[d.rule] # "throw")
  <2>1. PICK i \in Rules(p) : Decides(p, outcomes, i) /\ d = DecisionOf(p, outcomes, i)
    BY <1>2, FirstMatchCases DEF DefaultDeny
  <2>2. d.rule = i /\ outcomes[i] = "throw"
    BY <1>2, <2>1 DEF DecisionOf
  <2>3. d.verdict = "DENY"
    BY <2>1, <2>2 DEF DecisionOf
  <2>4. \A j \in 1..(i - 1) : j \in Rules(p) /\ outcomes[j] = "miss"
    BY <2>1 DEF Decides, Rules
  <2>5. ASSUME NEW j \in 1..(i - 1)
        PROVE  Missed(p, c, j)
    <3>1. Seen(p, c, j, outcomes[j])
      BY <2>4
    <3> QED
      BY <2>4, <3>1 DEF Missed
  <2>6. Seen(p, c, i, "throw")
    BY <2>2
  <2> HIDE DEF d
  <2>7. /\ d.rule \in Rules(p)
        /\ Seen(p, c, d.rule, "throw")
        /\ \A j \in 1..(d.rule - 1) : Missed(p, c, j)
    BY <2>2, <2>5, <2>6
  <2>8. Justified(p, c, d)
    BY <2>3, <2>7 DEF ThrowJustified, Justified
  <2> QED
    BY <2>8 DEF d
<1> QED
  BY <1>1, <1>2

-----------------------------------------------------------------------------
(* Type correctness                                                        *)

Places == {"idle", "probe", "fetch", "submit", "wait", "store", "promote",
           "evict", "pop", "done", "refused", "raised"}

LEMMA EarlyAnswerType ==
  ASSUME NEW c \in Context, NEW p \in Policy, NEW t, NEW d \in EarlyAnswer(c, p, t)
  PROVE  d \in Decision
<1> USE PolicyAssumption
<1>1. SchemaDecision \in Decision
  BY DEF SchemaDecision, Decision
<1>2. ExpiryDecision(p) \in Decision
  <2>1. Window[p].onExpiry \in Verdict \union {Absent}
    BY DEF Directives
  <2>2. "ESCALATE" \in Verdict
    BY DEF Verdict
  <2> QED
    BY <2>1, <2>2 DEF ExpiryDecision, Decision
<1>3. d \in {SchemaDecision, ExpiryDecision(p), DefaultDeny}
  BY DEF EarlyAnswer
<1> QED
  BY <1>1, <1>2, <1>3, DefaultDenyType

\* What every action that only moves a call along leaves to be checked.
LEMMA CallTyped ==
  ASSUME TypeOK, NEW t \in Caller, NEW where \in Places,
         pc' = [pc EXCEPT ![t] = where],
         ans' \in [Caller -> Decision],
         older' \subseteq Context \X Context,
         UNCHANGED <<policy, cached, entry, ctx, pol, calls,
                     now, out, swap, swaps, asked, clean, mixed, robbed>>,
         faults' \in Nat
  PROVE  TypeOK'
BY DEF TypeOK, Places

LEMMA MoveToEndType ==
  ASSUME TypeOK, NEW c \in Context
  PROVE  MoveToEnd(c) \subseteq Context \X Context
BY DEF TypeOK, MoveToEnd

LEMMA InitType == Init => TypeOK
<1> SUFFICES ASSUME Init
             PROVE  TypeOK
  OBVIOUS
<1> USE PolicyAssumption, RuntimeAssumption
<1>1. ctx \in [Caller -> Context]
  <2>1. (CHOOSE c \in Context : TRUE) \in Context
    BY Zenon
  <2> QED
    BY <2>1 DEF Init
<1>2. entry \in [Context -> Decision] /\ ans \in [Caller -> Decision]
  BY DefaultDenyType DEF Init, EmptyCache
<1>3. out \in [Caller -> [1..MaxRules -> Outcome \union {"pending"}]]
  BY DEF Init, Pending
<1> QED
  BY <1>1, <1>2, <1>3 DEF Init, TypeOK

LEMMA BeginType ==
  ASSUME TypeOK, NEW t \in Caller, NEW c \in Context,
         NEW x \in Texts \union {Absent}, NEW instant, Begin(t, c, x, instant)
  PROVE  TypeOK'
<1> USE PolicyAssumption, RuntimeAssumption
<1> DEFINE p == IF x = Absent THEN policy ELSE x
           early == EarlyAnswer(c, p, instant)
<1>1. p \in Policy
  BY DEF TypeOK
<1> HIDE DEF p
<1>2. \/ /\ UNCHANGED ans
         /\ \E w \in Places : pc' = [pc EXCEPT ![t] = w]
      \/ /\ pc' = [pc EXCEPT ![t] = "done"]
         /\ \E d \in early : ans' = [ans EXCEPT ![t] = d]
  <2>1. CASE early = {}
    <3>1. UNCHANGED ans /\ pc' = [pc EXCEPT ![t] = IF IsTemporallyConstrained(p)
                                          THEN "submit" ELSE "probe"]
      BY <2>1, Zenon DEF Begin, p
    <3>2. (IF IsTemporallyConstrained(p) THEN "submit" ELSE "probe") \in Places
      BY DEF Places
    <3> QED
      BY <3>1, <3>2, Zenon
  <2>2. CASE early # {}
    BY <2>2, Zenon DEF Begin, p
  <2> QED
    BY <2>1, <2>2
<1>3. pc' \in [Caller -> Places] /\ ans' \in [Caller -> Decision]
  <2>0. pc \in [Caller -> Places] /\ ans \in [Caller -> Decision] /\ "done" \in Places
    BY DEF TypeOK, Places
  <2>1. ASSUME UNCHANGED ans, NEW w \in Places, pc' = [pc EXCEPT ![t] = w]
        PROVE  pc' \in [Caller -> Places] /\ ans' \in [Caller -> Decision]
    BY <2>0, <2>1
  <2>2. ASSUME pc' = [pc EXCEPT ![t] = "done"], NEW d \in early,
               ans' = [ans EXCEPT ![t] = d]
        PROVE  pc' \in [Caller -> Places] /\ ans' \in [Caller -> Decision]
    <3>1. d \in Decision
      BY <1>1, EarlyAnswerType
    <3> QED
      BY <2>0, <2>2, <3>1
  <2> QED
    BY <1>2, <2>1, <2>2
<1>4. /\ calls' = calls + 1
      /\ ctx' = [ctx EXCEPT ![t] = c]
      /\ pol' = [pol EXCEPT ![t] = p]
      /\ asked' = [asked EXCEPT ![t] = {p}]
      /\ clean' = [u \in Caller |->
                     IF u = t THEN p = policy /\ ~mixed /\ swap # "clear"
                     ELSE clean[u] /\ (p = policy \/ ~InFlight(u))]
      /\ mixed' = (mixed \/ ~(p = policy))
      /\ UNCHANGED <<policy, cached, older, entry, now, out,
                     swap, swaps, faults>>
      /\ robbed' \subseteq robbed
  BY DEF Begin, p, runtimeVars, cacheVars, localVars, swapVars
<1>5. clean' \in [Caller -> BOOLEAN] /\ mixed' \in BOOLEAN
  <2>1. clean \in [Caller -> BOOLEAN] /\ mixed \in BOOLEAN
    BY DEF TypeOK
  <2>2. \A u \in Caller : (IF u = t THEN p = policy /\ ~mixed /\ swap # "clear"
                           ELSE clean[u] /\ (p = policy \/ ~InFlight(u))) \in BOOLEAN
    BY <2>1
  <2> QED
    BY <1>4, <2>1, <2>2
<1> QED
  BY <1>1, <1>3, <1>4, <1>5 DEF TypeOK, Places

LEMMA CollectType ==
  ASSUME TypeOK, NEW t \in Caller, Collect(t)
  PROVE  TypeOK'
<1> USE PolicyAssumption, RuntimeAssumption
<1> DEFINE d == FirstMatch(pol[t], out[t])
           threw == d.rule # 0 /\ out[t][d.rule] = "throw"
           w == IF Cacheable(pol[t], threw) THEN "store" ELSE "done"
<1>1. d \in Decision
  BY FirstMatchType DEF TypeOK
<1>2. /\ ans' = [ans EXCEPT ![t] = d]
      /\ pc' = [pc EXCEPT ![t] = w]
      /\ out' = [out EXCEPT ![t] = Pending]
      /\ now' = [now EXCEPT ![t] = Absent]
      /\ UNCHANGED <<policy, cached, older, entry, ctx, pol, calls, swap,
                     swaps, asked, clean, mixed, faults, robbed>>
  BY DEF Collect, runtimeVars, cacheVars, callVars, swapVars, historyVars
<1>3. w \in Places
  BY DEF Places
<1> HIDE DEF d, threw, w
<1>4. out' \in [Caller -> [1..MaxRules -> Outcome \union {"pending"}]]
  <2>1. Pending \in [1..MaxRules -> Outcome \union {"pending"}]
    BY DEF Pending
  <2> QED
    BY <1>2, <2>1 DEF TypeOK
<1>5. pc' \in [Caller -> Places] /\ ans' \in [Caller -> Decision]
      /\ now' \in [Caller -> Time \union {Absent}]
  BY <1>1, <1>2, <1>3 DEF TypeOK, Places
<1> QED
  BY <1>2, <1>4, <1>5 DEF TypeOK, Places

LEMMA CacheStepType ==
  ASSUME TypeOK, NEW t \in Caller,
         Probe(t) \/ Fetch(t) \/ Store(t) \/ Promote(t) \/ Evict(t) \/ Pop(t)
  PROVE  TypeOK'
<1> USE PolicyAssumption, RuntimeAssumption
<1>0. /\ ctx[t] \in Context
      /\ \A where \in {"submit", "fetch", "done", "raised", "promote", "evict", "pop"} :
           where \in Places
  BY DEF TypeOK, Places
<1>1. CASE Probe(t)
  <2>1. /\ ans' \in [Caller -> Decision]
        /\ older' \subseteq Context \X Context
        /\ faults' \in Nat
        /\ UNCHANGED <<policy, cached, entry, ctx, pol, calls,
                       now, out, swap, swaps, asked, clean, mixed, robbed>>
    BY <1>1 DEF Probe, runtimeVars, cacheVars, callVars, localVars, swapVars,
                historyVars, TypeOK
  <2>2. \/ pc' = [pc EXCEPT ![t] = "fetch"]
        \/ pc' = [pc EXCEPT ![t] = "submit"]
    BY <1>1, Zenon DEF Probe
  <2> QED
    BY <1>0, <2>1, <2>2, CallTyped
<1>2. CASE Fetch(t)
  <2>1. /\ faults' \in Nat
        /\ UNCHANGED <<policy, cached, entry, ctx, pol, calls,
                       now, out, swap, swaps, asked, clean, mixed, robbed>>
    BY <1>2 DEF Fetch, callVars, localVars, swapVars, historyVars, TypeOK
  <2>2. \/ /\ pc' = [pc EXCEPT ![t] = "done"]
           /\ ans' = [ans EXCEPT ![t] = entry[ctx[t]]]
           /\ older' = MoveToEnd(ctx[t])
        \/ pc' = [pc EXCEPT ![t] = "raised"] /\ UNCHANGED <<ans, older>>
    BY <1>2, Zenon DEF Fetch
  <2>3. ans' \in [Caller -> Decision] /\ older' \subseteq Context \X Context
    <3>1. entry[ctx[t]] \in Decision /\ MoveToEnd(ctx[t]) \subseteq Context \X Context
      BY <1>0, MoveToEndType DEF TypeOK
    <3> QED
      BY <2>2, <3>1 DEF TypeOK
  <2> QED
    BY <1>0, <2>1, <2>2, <2>3, CallTyped
<1>3. CASE Store(t)
  <2>1. /\ pc' = [pc EXCEPT ![t] = "promote"]
        /\ cached' = cached \union {ctx[t]}
        /\ older' \in {older, MoveToEnd(ctx[t])}
        /\ entry' = [entry EXCEPT ![ctx[t]] = ans[t]]
        /\ UNCHANGED <<policy, ctx, pol, calls, now, out, ans,
                       swap, swaps, asked, clean, mixed, faults, robbed>>
    BY <1>3 DEF Store, callVars, localVars, swapVars, historyVars
  <2>2. MoveToEnd(ctx[t]) \subseteq Context \X Context
    BY <1>0, MoveToEndType
  <2>3. /\ pc' \in [Caller -> Places]
        /\ cached' \subseteq Context
        /\ older' \subseteq Context \X Context
        /\ entry' \in [Context -> Decision]
    BY <1>0, <2>1, <2>2 DEF TypeOK, Places
  <2> QED
    BY <2>1, <2>3 DEF TypeOK, Places
<1>4. CASE Promote(t)
  <2>1. UNCHANGED <<policy, cached, entry, ctx, pol, calls,
                    now, out, ans, swap, swaps, asked, clean, mixed,
                    robbed>>
    BY <1>4 DEF Promote, callVars, localVars, swapVars
  <2>2. \/ /\ pc' = [pc EXCEPT ![t] = "evict"]
           /\ older' = MoveToEnd(ctx[t])
           /\ UNCHANGED faults
        \/ /\ pc' = [pc EXCEPT ![t] = "raised"]
           /\ faults' = faults + 1
           /\ UNCHANGED older
    BY <1>4, Zenon DEF Promote
  <2>3. /\ faults' \in Nat
        /\ older' \subseteq Context \X Context
        /\ ans' \in [Caller -> Decision]
    <3>1. MoveToEnd(ctx[t]) \subseteq Context \X Context
      BY <1>0, MoveToEndType
    <3>2. faults \in Nat /\ faults + 1 \in Nat
      BY DEF TypeOK
    <3>3. older \subseteq Context \X Context /\ ans' \in [Caller -> Decision]
      BY <2>1 DEF TypeOK
    <3> QED
      BY <2>2, <3>1, <3>2, <3>3, Zenon
  <2> QED
    BY <1>0, <2>1, <2>2, <2>3, CallTyped
<1>5. CASE Evict(t)
  <2>1. /\ ans' \in [Caller -> Decision]
        /\ older' \subseteq Context \X Context
        /\ faults' \in Nat
        /\ UNCHANGED <<policy, cached, entry, ctx, pol, calls, now, out, swap,
                       swaps, asked, clean, mixed, robbed>>
    BY <1>5 DEF Evict, runtimeVars, cacheVars, callVars, localVars, swapVars,
                historyVars, TypeOK
  <2>2. \/ pc' = [pc EXCEPT ![t] = "pop"]
        \/ pc' = [pc EXCEPT ![t] = "done"]
    BY <1>5, Zenon DEF Evict
  <2> QED
    BY <1>0, <2>1, <2>2, CallTyped
<1>6. CASE Pop(t)
  <2>1. UNCHANGED <<policy, ctx, pol, calls, now, out, ans, swap, swaps, asked,
                    clean, mixed, faults>>
    BY <1>6 DEF Pop, callVars, localVars, swapVars, historyVars
  <2>2. \/ pc' = [pc EXCEPT ![t] = "done"] /\ Forget(Oldest)
        \/ pc' = [pc EXCEPT ![t] = "raised"] /\ UNCHANGED cacheVars
    BY <1>6, Zenon DEF Pop
  <2>5. robbed' \subseteq Caller
    BY <1>6 DEF Pop, TypeOK
  <2>3. /\ cached' \subseteq Context
        /\ older' \subseteq Context \X Context
        /\ entry' \in [Context -> Decision]
    <3>1. CASE Forget(Oldest)
      <4>1. /\ cached' \subseteq cached /\ older' \subseteq older
            /\ entry' = [entry EXCEPT ![Oldest] = DefaultDeny]
        BY <3>1 DEF Forget
      <4> QED
        BY <4>1, DefaultDenyType DEF TypeOK
    <3>2. CASE UNCHANGED cacheVars
      BY <3>2 DEF cacheVars, TypeOK
    <3> QED
      BY <2>2, <3>1, <3>2
  <2>4. pc' \in [Caller -> Places]
    BY <1>0, <2>2 DEF TypeOK, Places
  <2> QED
    BY <2>1, <2>3, <2>4, <2>5 DEF TypeOK, Places
<1> QED
  BY <1>1, <1>2, <1>3, <1>4, <1>5, <1>6

LEMMA WorkType ==
  ASSUME TypeOK, NEW t \in Caller,
         Submit(t) \/ \E i \in 1..MaxRules : RunRule(t, i)
  PROVE  TypeOK'
<1> USE PolicyAssumption, RuntimeAssumption
<1>1. CASE Submit(t)
  <2>1. PICK trusted \in ClockReads : now' = [now EXCEPT ![t] = trusted]
    BY <1>1 DEF Submit
  <2>2. now' \in [Caller -> Time \union {Absent}]
    BY <2>1 DEF TypeOK
  <2>3. /\ pc' = [pc EXCEPT ![t] = "wait"]
        /\ UNCHANGED <<runtimeVars, callVars, out, ans, swapVars, historyVars>>
    BY <1>1 DEF Submit
  <2> QED
    BY <2>2, <2>3 DEF TypeOK, runtimeVars, cacheVars, callVars, swapVars,
                      historyVars
<1>2. ASSUME NEW i \in 1..MaxRules, RunRule(t, i)
      PROVE  TypeOK'
  <2>1. PICK instant \in RuleInstants(pol[t], i, now[t], HostTimes) :
          out' = [out EXCEPT ![t][i] = Fires[pol[t]][ctx[t]][instant][i]]
    BY <1>2 DEF RunRule
  <2>2. instant \in Time
    BY DEF RuleInstants, Instants, TypeOK
  <2>3. Fires[pol[t]][ctx[t]][instant][i] \in Outcome
    BY <2>2 DEF TypeOK
  <2>4. out' \in [Caller -> [1..MaxRules -> Outcome \union {"pending"}]]
    BY <2>1, <2>3 DEF TypeOK
  <2> QED
    BY <1>2, <2>4 DEF RunRule, TypeOK, runtimeVars, cacheVars, callVars,
                      swapVars, historyVars
<1> QED
  BY <1>1, <1>2

LEMMA SwapType ==
  ASSUME TypeOK, (\E p \in Policy : SwapPolicy(p)) \/ ClearCache
  PROVE  TypeOK'
<1>1. ASSUME NEW p \in Policy, SwapPolicy(p)
      PROVE  TypeOK'
  <2>1. asked' \in [Caller -> SUBSET Policy]
    BY <1>1 DEF SwapPolicy, TypeOK
  <2> QED
    BY <1>1, <2>1 DEF SwapPolicy, TypeOK, cacheVars, callVars, localVars
<1>2. CASE ClearCache
  <2>1. entry' \in [Context -> Decision]
    BY <1>2, DefaultDenyType DEF ClearCache, Emptied, EmptyCache
  <2>2. mixed' \in BOOLEAN
    BY <1>2, Zenon DEF ClearCache
  <2>3. cached' = {} /\ older' = {} /\ swap' = "idle"
    BY <1>2 DEF ClearCache, Emptied
  <2>4. UNCHANGED <<policy, pc, ctx, pol, calls, now, out, ans,
                    swaps, asked, clean, faults>>
    BY <1>2 DEF ClearCache, callVars, localVars
  <2>5. robbed' \subseteq Caller
    BY <1>2 DEF ClearCache, TypeOK
  <2> QED
    BY <2>1, <2>2, <2>3, <2>4, <2>5 DEF TypeOK
<1> QED
  BY <1>1, <1>2

LEMMA RefuseType ==
  ASSUME TypeOK, NEW t \in Caller, NEW c \in Context, Refuse(t, c)
  PROVE  TypeOK'
<1>1. /\ pc' = [pc EXCEPT ![t] = "refused"] /\ ctx' = [ctx EXCEPT ![t] = c]
      /\ calls' = calls + 1 /\ robbed' \subseteq robbed
      /\ UNCHANGED <<policy, cached, older, entry, pol, now, out, ans, swap,
                     swaps, asked, clean, mixed, faults>>
  BY DEF Refuse, runtimeVars, cacheVars, localVars, swapVars
<1> QED
  BY <1>1 DEF TypeOK

LEMMA TypeStep == TypeOK /\ [Next]_vars => TypeOK'
<1> SUFFICES ASSUME TypeOK, [Next]_vars
             PROVE  TypeOK'
  OBVIOUS
<1>1. CASE \E t \in Caller, c \in Context, x \in Texts \union {Absent} :
             \E instant \in UNION {Instants(n, HostTimes) : n \in ClockReads} :
               Begin(t, c, x, instant)
  BY <1>1, BeginType
<1>2. ASSUME NEW t \in Caller, Step(t)
      PROVE  TypeOK'
  BY <1>2, CacheStepType, CollectType, WorkType DEF Step
<1>3. CASE (\E p \in Policy : SwapPolicy(p)) \/ ClearCache
  BY <1>3, SwapType
<1>4. CASE \E t \in Caller, c \in Context : Refuse(t, c)
  BY <1>4, RefuseType
<1>5. CASE UNCHANGED vars
  BY <1>5 DEF vars, runtimeVars, cacheVars, callVars, localVars, swapVars,
              historyVars, TypeOK
<1> QED
  BY <1>1, <1>2, <1>3, <1>4, <1>5 DEF Next

\* Every variable of the runtime keeps its type.
THEOREM TypeCorrect == Spec => []TypeOK
BY InitType, TypeStep, PTL DEF Spec

-----------------------------------------------------------------------------
(* What is in the cache                                                    *)

\* The rules of a call have outcomes only while it waits for them, each seen
\* at some instant.
OutOK ==
  \A t \in Caller, i \in 1..MaxRules :
    out[t][i] # "pending" =>
      pc[t] = "wait" /\ Seen(pol[t], ctx[t], i, out[t][i])

\* A call about to store its decision may store it.
StoreOK ==
  \A t \in Caller :
    pc[t] = "store" =>
      /\ ~IsTemporallyConstrained(pol[t])
      /\ MatchJustified(pol[t], ctx[t], ans[t])

CacheInv == TypeOK /\ OutOK /\ StoreOK /\ CacheJustified

LEMMA InitCache == Init => OutOK /\ StoreOK /\ CacheJustified
BY DEF Init, OutOK, StoreOK, CacheJustified, Pending

\* Steps that neither fill the cache nor start or finish an evaluation.
LEMMA CacheKept ==
  ASSUME CacheInv, cached' \subseteq cached,
         \A c \in cached' : entry'[c] = entry[c],
         UNCHANGED <<out, pol, ctx>>,
         \A t \in Caller : pc'[t] = pc[t] \/ (pc[t] # "wait" /\ pc'[t] # "store"),
         \A t \in Caller : pc'[t] = "store" => ans'[t] = ans[t]
  PROVE  OutOK' /\ StoreOK' /\ CacheJustified'
<1>1. OutOK'
  BY DEF CacheInv, OutOK, Seen
<1>2. StoreOK'
  BY DEF CacheInv, StoreOK, MatchJustified, Seen, Missed
<1>3. CacheJustified'
  BY DEF CacheInv, CacheJustified, MatchJustified, Seen, Missed
<1> QED
  BY <1>1, <1>2, <1>3

LEMMA CacheStep == CacheInv /\ [Next]_vars => OutOK' /\ StoreOK' /\ CacheJustified'
<1> SUFFICES ASSUME CacheInv, [Next]_vars
             PROVE  OutOK' /\ StoreOK' /\ CacheJustified'
  OBVIOUS
<1> USE PolicyAssumption, RuntimeAssumption
<1>0. TypeOK
  BY DEF CacheInv
<1>1. ASSUME NEW t \in Caller, NEW c \in Context, NEW x \in Texts \union {Absent},
             NEW instant, Begin(t, c, x, instant)
      PROVE  OutOK' /\ StoreOK' /\ CacheJustified'
  <2>1. /\ ~InFlight(t)
        /\ UNCHANGED <<cached, entry, out>>
        /\ \A u \in Caller \ {t} : /\ pc'[u] = pc[u] /\ ctx'[u] = ctx[u]
                                   /\ pol'[u] = pol[u] /\ ans'[u] = ans[u]
        /\ pc'[t] \in {"submit", "probe", "done"}
    <3>1. /\ ~InFlight(t)
          /\ UNCHANGED <<cached, entry, out>>
          /\ \A u \in Caller \ {t} : ctx'[u] = ctx[u] /\ pol'[u] = pol[u]
      BY <1>0, <1>1 DEF Begin, runtimeVars, cacheVars, localVars, TypeOK
    <3>2. \/ UNCHANGED ans /\ \E w \in {"submit", "probe"} : pc' = [pc EXCEPT ![t] = w]
          \/ pc' = [pc EXCEPT ![t] = "done"] /\ \E d : ans' = [ans EXCEPT ![t] = d]
      BY <1>1 DEF Begin
    <3>3. /\ \A u \in Caller \ {t} : pc'[u] = pc[u] /\ ans'[u] = ans[u]
          /\ pc'[t] \in {"submit", "probe", "done"}
      BY <1>0, <3>2 DEF TypeOK
    <3> QED
      BY <3>1, <3>3
  <2>2. OutOK'
    <3>1. \A i \in 1..MaxRules : out[t][i] = "pending"
      BY <2>1 DEF CacheInv, OutOK, InFlight
    <3> SUFFICES ASSUME NEW u \in Caller, NEW i \in 1..MaxRules, out[u][i] # "pending"
                 PROVE  pc'[u] = "wait" /\ Seen(pol'[u], ctx'[u], i, out[u][i])
      BY <2>1, Zenon DEF OutOK
    <3>2. pc[u] = "wait" /\ Seen(pol[u], ctx[u], i, out[u][i])
      BY DEF CacheInv, OutOK
    <3> QED
      BY <2>1, <3>1, <3>2
  <2>3. StoreOK'
    <3> SUFFICES ASSUME NEW u \in Caller, pc'[u] = "store"
                 PROVE  /\ ~IsTemporallyConstrained(pol'[u])
                        /\ MatchJustified(pol'[u], ctx'[u], ans'[u])
      BY Zenon DEF StoreOK
    <3>1. u # t
      BY <2>1
    <3>2. pc[u] = "store" /\ ctx'[u] = ctx[u] /\ pol'[u] = pol[u] /\ ans'[u] = ans[u]
      BY <2>1, <3>1
    <3> QED
      BY <3>2 DEF CacheInv, StoreOK
  <2>4. CacheJustified'
    BY <2>1 DEF CacheInv, CacheJustified
  <2> QED
    BY <2>2, <2>3, <2>4
<1>2. ASSUME NEW t \in Caller,
             Probe(t) \/ Fetch(t) \/ Submit(t) \/ Promote(t) \/ Evict(t) \/ Pop(t)
      PROVE  OutOK' /\ StoreOK' /\ CacheJustified'
  <2>1. UNCHANGED <<out, pol, ctx>>
    BY <1>2 DEF Probe, Fetch, Submit, Promote, Evict, Pop, callVars, localVars
  <2>2. /\ cached' \subseteq cached
        /\ \A c \in cached' : entry'[c] = entry[c]
    <3>1. CASE Forget(Oldest)
      BY <1>0, <3>1 DEF Forget, TypeOK
    <3>2. CASE UNCHANGED <<cached, entry>>
      BY <3>2
    <3>3. Forget(Oldest) \/ UNCHANGED <<cached, entry>>
      <4>1. Pop(t) => Forget(Oldest) \/ UNCHANGED cacheVars
        BY Zenon DEF Pop
      <4>2. Probe(t) \/ Fetch(t) \/ Submit(t) \/ Promote(t) \/ Evict(t)
              => UNCHANGED <<cached, entry>>
        BY DEF Probe, Fetch, Submit, Promote, Evict, runtimeVars, cacheVars
      <4> QED
        BY <1>2, <4>1, <4>2 DEF cacheVars
    <3> QED
      BY <3>1, <3>2, <3>3
  <2>3. /\ pc[t] \in {"probe", "fetch", "submit", "promote", "evict", "pop"}
        /\ \E w \in Places \ {"store"} : pc' = [pc EXCEPT ![t] = w]
        /\ UNCHANGED ans \/ \E d : ans' = [ans EXCEPT ![t] = d]
    BY <1>2 DEF Probe, Fetch, Submit, Promote, Evict, Pop, Places
  <2>4. /\ \A u \in Caller : pc'[u] = pc[u] \/ (pc[u] # "wait" /\ pc'[u] # "store")
        /\ \A u \in Caller : pc'[u] = "store" => ans'[u] = ans[u]
    BY <1>0, <2>3 DEF TypeOK
  <2> QED
    BY <2>1, <2>2, <2>4, CacheKept
<1>3. ASSUME NEW t \in Caller, NEW i \in 1..MaxRules, RunRule(t, i)
      PROVE  OutOK' /\ StoreOK' /\ CacheJustified'
  <2>1. PICK instant \in RuleInstants(pol[t], i, now[t], HostTimes) :
          out' = [out EXCEPT ![t][i] = Fires[pol[t]][ctx[t]][instant][i]]
    BY <1>3 DEF RunRule
  <2>2. instant \in Time
    BY <1>0 DEF RuleInstants, Instants, TypeOK
  <2>3. /\ pc[t] = "wait"
        /\ UNCHANGED <<cached, entry, pc, ctx, pol, ans>>
    BY <1>3 DEF RunRule, runtimeVars, cacheVars, callVars
  <2>4. OutOK'
    <3> SUFFICES ASSUME NEW u \in Caller, NEW j \in 1..MaxRules, out'[u][j] # "pending"
                 PROVE  pc[u] = "wait" /\ Seen(pol[u], ctx[u], j, out'[u][j])
      BY <2>3 DEF OutOK, Seen
    <3>1. CASE u = t /\ j = i
      <4>1. out'[u][j] = Fires[pol[t]][ctx[t]][instant][i]
        BY <1>0, <2>1, <3>1 DEF TypeOK
      <4> QED
        BY <2>2, <2>3, <3>1, <4>1 DEF Seen
    <3>2. CASE ~(u = t /\ j = i)
      <4>1. out'[u][j] = out[u][j]
        BY <1>0, <2>1, <3>2 DEF TypeOK
      <4> QED
        BY <4>1 DEF CacheInv, OutOK
    <3> QED
      BY <3>1, <3>2
  <2>5. StoreOK' /\ CacheJustified'
    BY <2>3, Zenon DEF CacheInv, StoreOK, CacheJustified
  <2> QED
    BY <2>4, <2>5
<1>4. ASSUME NEW t \in Caller, Collect(t)
      PROVE  OutOK' /\ StoreOK' /\ CacheJustified'
  <2> DEFINE d == FirstMatch(pol[t], out[t])
             threw == d.rule # 0 /\ out[t][d.rule] = "throw"
  <2>1. /\ pc[t] = "wait"
        /\ \A i \in Rules(pol[t]) : out[t][i] # "pending"
        /\ ans' = [ans EXCEPT ![t] = d]
        /\ pc' = [pc EXCEPT ![t] = IF Cacheable(pol[t], threw) THEN "store" ELSE "done"]
        /\ out' = [out EXCEPT ![t] = Pending]
        /\ UNCHANGED <<cached, entry, ctx, pol>>
    BY <1>4 DEF Collect, runtimeVars, cacheVars, callVars
  <2>2. OutOK'
    <3> SUFFICES ASSUME NEW u \in Caller, NEW j \in 1..MaxRules, out'[u][j] # "pending"
                 PROVE  pc'[u] = "wait" /\ Seen(pol[u], ctx[u], j, out'[u][j])
      BY <2>1 DEF OutOK, Seen
    <3>1. u # t
      BY <1>0, <2>1 DEF Pending, TypeOK
    <3>2. out'[u][j] = out[u][j] /\ pc'[u] = pc[u]
      BY <1>0, <2>1, <3>1 DEF TypeOK
    <3> QED
      BY <3>2 DEF CacheInv, OutOK
  <2>3. StoreOK'
    <3> SUFFICES ASSUME NEW u \in Caller, pc'[u] = "store"
                 PROVE  /\ ~IsTemporallyConstrained(pol[u])
                        /\ MatchJustified(pol[u], ctx[u], ans'[u])
      BY <2>1, Zenon DEF StoreOK
    <3>1. CASE u = t
      <4>1. Cacheable(pol[t], threw)
        BY <1>0, <2>1, <3>1 DEF TypeOK
      <4>2. /\ ~IsTemporallyConstrained(pol[t])
            /\ d.rule # 0 => out[t][d.rule] # "throw"
        BY <4>1, Zenon DEF Cacheable
      <4>3. \A i \in Rules(pol[t]) :
              out[t][i] \in Outcome /\ Seen(pol[t], ctx[t], i, out[t][i])
        <5>1. Rules(pol[t]) \subseteq 1..MaxRules
          BY <1>0 DEF Rules, TypeOK
        <5>2. \A i \in 1..MaxRules : out[t][i] \in Outcome \union {"pending"}
          BY <1>0 DEF TypeOK
        <5> QED
          BY <2>1, <5>1, <5>2 DEF CacheInv, OutOK
      <4>4. MatchJustified(pol[t], ctx[t], d)
        <5>1. pol[t] \in Policy /\ ctx[t] \in Context
          BY <1>0 DEF TypeOK
        <5> QED
          BY <4>2, <4>3, <5>1, FirstMatchJustified
      <4>5. ans'[t] = d
        BY <1>0, <2>1 DEF TypeOK
      <4> QED
        BY <3>1, <4>2, <4>4, <4>5
    <3>2. CASE u # t
      <4>1. pc[u] = "store" /\ ans'[u] = ans[u]
        BY <1>0, <2>1, <3>2 DEF TypeOK
      <4> QED
        BY <4>1 DEF CacheInv, StoreOK
    <3> QED
      BY <3>1, <3>2
  <2>4. CacheJustified'
    BY <2>1 DEF CacheInv, CacheJustified
  <2> QED
    BY <2>2, <2>3, <2>4
<1>5. ASSUME NEW t \in Caller, Store(t)
      PROVE  OutOK' /\ StoreOK' /\ CacheJustified'
  <2>1. /\ pc[t] = "store"
        /\ pc' = [pc EXCEPT ![t] = "promote"]
        /\ cached' = cached \union {ctx[t]}
        /\ entry' = [entry EXCEPT ![ctx[t]] = ans[t]]
        /\ UNCHANGED <<out, pol, ctx, ans>>
    BY <1>5 DEF Store, callVars, localVars
  <2>2. OutOK' /\ StoreOK'
    <3>1. \A u \in Caller : u # t => pc'[u] = pc[u]
      BY <1>0, <2>1 DEF TypeOK
    <3>2. pc'[t] = "promote"
      BY <1>0, <2>1 DEF TypeOK
    <3>3. OutOK'
      <4> SUFFICES ASSUME NEW u \in Caller, NEW i \in 1..MaxRules, out[u][i] # "pending"
                   PROVE  pc'[u] = "wait" /\ Seen(pol[u], ctx[u], i, out[u][i])
        BY <2>1, Zenon DEF OutOK
      <4>1. pc[u] = "wait" /\ Seen(pol[u], ctx[u], i, out[u][i])
        BY DEF CacheInv, OutOK
      <4> QED
        BY <2>1, <3>1, <4>1
    <3>4. StoreOK'
      <4> SUFFICES ASSUME NEW u \in Caller, pc'[u] = "store"
                   PROVE  /\ ~IsTemporallyConstrained(pol[u])
                          /\ MatchJustified(pol[u], ctx[u], ans[u])
        BY <2>1, Zenon DEF StoreOK
      <4> QED
        BY <3>1, <3>2 DEF CacheInv, StoreOK
    <3> QED
      BY <3>3, <3>4
  <2>3. CacheJustified'
    <3> SUFFICES ASSUME NEW c \in cached'
                 PROVE  \E p \in Policy :
                          ~IsTemporallyConstrained(p) /\ MatchJustified(p, c, entry'[c])
      BY DEF CacheJustified, MatchJustified, Seen, Missed
    <3>1. CASE c = ctx[t]
      <4>1. entry'[c] = ans[t] /\ pol[t] \in Policy
        BY <1>0, <2>1, <3>1 DEF TypeOK
      <4> QED
        BY <2>1, <3>1, <4>1 DEF CacheInv, StoreOK
    <3>2. CASE c # ctx[t]
      <4>1. c \in cached /\ entry'[c] = entry[c]
        BY <1>0, <2>1, <3>2 DEF TypeOK
      <4> QED
        BY <4>1 DEF CacheInv, CacheJustified
    <3> QED
      BY <3>1, <3>2
  <2> QED
    BY <2>2, <2>3
<1>6. CASE (\E p \in Policy : SwapPolicy(p)) \/ ClearCache \/ UNCHANGED vars
  <2>1. UNCHANGED <<out, pol, ctx, pc, ans>>
    BY <1>6 DEF SwapPolicy, ClearCache, vars, callVars, localVars
  <2>2. cached' = {} \/ UNCHANGED <<cached, entry>>
    BY <1>6 DEF SwapPolicy, ClearCache, Emptied, vars, runtimeVars, cacheVars
  <2> QED
    BY <2>1, <2>2, CacheKept
<1>7. ASSUME NEW t \in Caller, NEW c \in Context, Refuse(t, c)
      PROVE  OutOK' /\ StoreOK' /\ CacheJustified'
  <2>1. /\ ~InFlight(t)
        /\ pc' = [pc EXCEPT ![t] = "refused"] /\ ctx' = [ctx EXCEPT ![t] = c]
        /\ UNCHANGED <<cached, entry, out, pol, ans>>
    BY <1>7 DEF Refuse, runtimeVars, cacheVars, localVars
  <2>2. /\ pc'[t] = "refused"
        /\ \A u \in Caller \ {t} : pc'[u] = pc[u] /\ ctx'[u] = ctx[u]
    BY <1>0, <2>1 DEF TypeOK
  <2>3. OutOK'
    <3> SUFFICES ASSUME NEW u \in Caller, NEW i \in 1..MaxRules, out[u][i] # "pending"
                 PROVE  pc'[u] = "wait" /\ Seen(pol[u], ctx'[u], i, out[u][i])
      BY <2>1, Zenon DEF OutOK
    <3>1. pc[u] = "wait" /\ Seen(pol[u], ctx[u], i, out[u][i])
      BY DEF CacheInv, OutOK
    <3>2. u # t
      BY <2>1, <3>1 DEF InFlight
    <3> QED
      BY <2>2, <3>1, <3>2
  <2>4. StoreOK'
    <3> SUFFICES ASSUME NEW u \in Caller, pc'[u] = "store"
                 PROVE  /\ ~IsTemporallyConstrained(pol[u])
                        /\ MatchJustified(pol[u], ctx'[u], ans[u])
      BY <2>1, Zenon DEF StoreOK
    <3>1. pc[u] = "store" /\ ctx'[u] = ctx[u]
      BY <2>2
    <3> QED
      BY <3>1 DEF CacheInv, StoreOK
  <2>5. CacheJustified'
    BY <2>1 DEF CacheInv, CacheJustified
  <2> QED
    BY <2>3, <2>4, <2>5
<1> QED
  BY <1>1, <1>2, <1>3, <1>4, <1>5, <1>6, <1>7 DEF Next, Step

\* The cache holds only what the rules of some policy without temporal
\* directives say of the very context it is filed under: no decision taken
\* because a rule raised, or because of a clock directive, is ever cached,
\* whatever calls and set_policy() interleave.
THEOREM CacheHoldsRuleDecisions == Spec => []CacheJustified
<1>1. Init => CacheInv
  BY InitType, InitCache DEF CacheInv
<1>2. CacheInv /\ [Next]_vars => CacheInv'
  BY TypeStep, CacheStep DEF CacheInv
<1>3. CacheInv => CacheJustified
  BY DEF CacheInv
<1> QED
  BY <1>1, <1>2, <1>3, PTL DEF Spec

-----------------------------------------------------------------------------
(* Answers are current                                                     *)

EntriesFrom(P) == \A c \in cached : \E p \in P : MatchJustified(p, c, entry[c])

Holding == {"store", "promote", "evict", "pop"}

\* A call that fills the cache holds a decision of its rules.
AnsOK ==
  \A t \in Caller : pc[t] \in Holding => MatchJustified(pol[t], ctx[t], ans[t])

\* All a clean call can see comes from the policies it may be answered from:
\* the cache, and what the calls under way with it may yet put there.
ViewOK ==
  \A t \in Caller :
    InFlight(t) /\ clean[t] =>
      /\ policy \in asked[t]
      /\ EntriesFrom(asked[t])
      /\ \A u \in Caller : InFlight(u) => pol[u] \in asked[t]

\* The cache is the active policy's, unless it is known to be mixed or is
\* about to be cleared.
OwnOK ==
  ~mixed /\ swap # "clear" =>
    /\ EntriesFrom({policy})
    /\ \A u \in Caller : InFlight(u) => pol[u] = policy

AnswerInv == CacheInv /\ AnsOK /\ ViewOK /\ OwnOK /\ AnswerIsCurrent

LEMMA InitAnswer == Init => AnsOK /\ ViewOK /\ OwnOK /\ AnswerIsCurrent
BY DEF Init, AnsOK, Holding, ViewOK, OwnOK, AnswerIsCurrent, InFlight, EntriesFrom

\* What a call in the middle of its evaluation leaves of the views.
LEMMA ViewKept ==
  ASSUME ViewOK, OwnOK,
         UNCHANGED <<policy, swap, pol, asked, clean, mixed>>,
         cached' \subseteq cached, \A c \in cached' : entry'[c] = entry[c],
         \A u \in Caller : InFlight(u)' => InFlight(u)
  PROVE  ViewOK' /\ OwnOK'
<1>1. ASSUME NEW P, EntriesFrom(P)
      PROVE  \A c \in cached' : \E p \in P : MatchJustified(p, c, entry'[c])
  BY <1>1 DEF EntriesFrom
<1>2. ViewOK'
  <2> SUFFICES ASSUME NEW t \in Caller, InFlight(t)', clean[t]
               PROVE  /\ policy \in asked[t]
                      /\ \A c \in cached' : \E p \in asked[t] : MatchJustified(p, c, entry'[c])
                      /\ \A u \in Caller : InFlight(u)' => pol[u] \in asked[t]
    BY Zenon DEF ViewOK, EntriesFrom
  <2>1. InFlight(t)
    OBVIOUS
  <2> QED
    BY <1>1, <2>1 DEF ViewOK
<1>3. OwnOK'
  <2> SUFFICES ASSUME ~mixed, swap # "clear"
               PROVE  /\ \A c \in cached' : \E p \in {policy} : MatchJustified(p, c, entry'[c])
                      /\ \A u \in Caller : InFlight(u)' => pol[u] = policy
    BY Zenon DEF OwnOK, EntriesFrom
  <2>1. EntriesFrom({policy}) /\ \A u \in Caller : InFlight(u) => pol[u] = policy
    BY DEF OwnOK
  <2> QED
    BY <1>1, <2>1
<1> QED
  BY <1>2, <1>3

\* What a step of one call leaves of the answers, given what it does itself.
LEMMA AnswerKept ==
  ASSUME TypeOK, AnsOK, AnswerIsCurrent, NEW t \in Caller, NEW w \in Places,
         pc' = [pc EXCEPT ![t] = w],
         \A u \in Caller \ {t} : ans'[u] = ans[u],
         UNCHANGED <<ctx, pol, asked, clean>>,
         w \in Holding => MatchJustified(pol[t], ctx[t], ans'[t]),
         w = "done" /\ clean[t] => \E p \in asked[t] : Justified(p, ctx[t], ans'[t])
  PROVE  AnsOK' /\ AnswerIsCurrent'
<1>0. pc'[t] = w /\ \A u \in Caller \ {t} : pc'[u] = pc[u]
  BY DEF TypeOK
<1>1. AnsOK'
  <2> SUFFICES ASSUME NEW u \in Caller, pc'[u] \in Holding
               PROVE  MatchJustified(pol[u], ctx[u], ans'[u])
    BY Zenon DEF AnsOK, Holding
  <2>1. CASE u = t
    BY <1>0, <2>1
  <2>2. CASE u # t
    <3>1. pc[u] \in Holding /\ ans'[u] = ans[u]
      BY <1>0, <2>2
    <3> QED
      BY <3>1 DEF AnsOK
  <2> QED
    BY <2>1, <2>2
<1>2. AnswerIsCurrent'
  <2> SUFFICES ASSUME NEW u \in Caller, pc'[u] = "done", clean[u]
               PROVE  \E p \in asked[u] : Justified(p, ctx[u], ans'[u])
    BY Zenon DEF AnswerIsCurrent
  <2>1. CASE u = t
    BY <1>0, <2>1
  <2>2. CASE u # t
    <3>1. pc[u] = "done" /\ ans'[u] = ans[u]
      BY <1>0, <2>2
    <3> QED
      BY <3>1 DEF AnswerIsCurrent
  <2> QED
    BY <2>1, <2>2
<1> QED
  BY <1>1, <1>2

\* The decisions taken before the cache is consulted are justified.
LEMMA EarlyAnswers ==
  ASSUME NEW c \in Context, NEW p \in Policy, NEW instant \in Time,
         NEW d \in EarlyAnswer(c, p, instant)
  PROVE  Justified(p, c, d)
<1>1. CASE c \in Malformed
  BY <1>1 DEF EarlyAnswer, Justified
<1>2. CASE c \notin Malformed /\ OutsideWindow(p, instant)
  <2>1. d = ExpiryDecision(p)
    BY <1>2, Zenon DEF EarlyAnswer
  <2> QED
    BY <1>2, <2>1, Zenon DEF Justified
<1>3. CASE c \notin Malformed /\ ~OutsideWindow(p, instant)
  <2>1. NumRules[p] = 0 /\ d = DefaultDeny
    BY <1>3 DEF EarlyAnswer
  <2>2. Rules(p) = {}
    BY <2>1 DEF Rules
  <2>3. MatchJustified(p, c, d)
    BY <2>1, <2>2 DEF MatchJustified
  <2> QED
    BY <2>3, Zenon DEF Justified
<1> QED
  BY <1>1, <1>2, <1>3

LEMMA BeginAnswer ==
  ASSUME AnswerInv, NEW t \in Caller, NEW c \in Context,
         NEW x \in Texts \union {Absent}, NEW instant \in Time, Begin(t, c, x, instant)
  PROVE  AnsOK' /\ ViewOK' /\ OwnOK' /\ AnswerIsCurrent'
<1> USE PolicyAssumption, RuntimeAssumption
<1> DEFINE p == IF x = Absent THEN policy ELSE x
           early == EarlyAnswer(c, p, instant)
<1>0. TypeOK /\ AnsOK /\ ViewOK /\ OwnOK /\ AnswerIsCurrent
  BY DEF AnswerInv, CacheInv
<1>1. p \in Policy
  BY <1>0 DEF TypeOK
<1>2. \/ /\ UNCHANGED ans
         /\ \E w \in {"submit", "probe"} : pc' = [pc EXCEPT ![t] = w]
      \/ /\ pc' = [pc EXCEPT ![t] = "done"]
         /\ \E d \in early : ans' = [ans EXCEPT ![t] = d]
  <2>1. CASE early = {}
    <3>1. UNCHANGED ans /\ pc' = [pc EXCEPT ![t] = IF IsTemporallyConstrained(p)
                                          THEN "submit" ELSE "probe"]
      BY <2>1, Zenon DEF Begin
    <3> HIDE DEF p
    <3> QED
      BY <3>1
  <2>2. CASE early # {}
    BY <2>2, Zenon DEF Begin
  <2> QED
    BY <2>1, <2>2
<1>3. /\ ~InFlight(t)
      /\ ctx' = [ctx EXCEPT ![t] = c]
      /\ pol' = [pol EXCEPT ![t] = p]
      /\ asked' = [asked EXCEPT ![t] = {p}]
      /\ clean' = [u \in Caller |->
                     IF u = t THEN p = policy /\ ~mixed /\ swap # "clear"
                     ELSE clean[u] /\ (p = policy \/ ~InFlight(u))]
      /\ mixed' = (mixed \/ ~(p = policy))
      /\ UNCHANGED <<policy, cached, entry, swap>>
  BY DEF Begin, runtimeVars, cacheVars, swapVars
<1> HIDE DEF p
<1>4. /\ ctx'[t] = c /\ pol'[t] = p /\ asked'[t] = {p}
      /\ clean'[t] => p = policy /\ ~mixed /\ swap # "clear"
  BY <1>0, <1>3 DEF TypeOK
<1>5. ASSUME NEW u \in Caller \ {t}
      PROVE  /\ ctx'[u] = ctx[u] /\ pol'[u] = pol[u] /\ asked'[u] = asked[u]
             /\ pc'[u] = pc[u] /\ ans'[u] = ans[u]
             /\ clean'[u] => clean[u] /\ (p = policy \/ ~InFlight(u))
  <2>1. ctx'[u] = ctx[u] /\ pol'[u] = pol[u] /\ asked'[u] = asked[u]
    BY <1>0, <1>3 DEF TypeOK
  <2>2. pc'[u] = pc[u] /\ ans'[u] = ans[u]
    BY <1>0, <1>2 DEF TypeOK
  <2>3. clean'[u] => clean[u] /\ (p = policy \/ ~InFlight(u))
    BY <1>3
  <2> QED
    BY <2>1, <2>2, <2>3
<1>6. \/ pc'[t] \in {"submit", "probe"}
      \/ pc'[t] = "done" /\ \E d \in early : ans'[t] = d
  BY <1>0, <1>2 DEF TypeOK
<1>7. AnsOK'
  <2> SUFFICES ASSUME NEW u \in Caller, pc'[u] \in Holding
               PROVE  MatchJustified(pol'[u], ctx'[u], ans'[u])
    BY Zenon DEF AnsOK, Holding
  <2>1. u # t
    BY <1>6 DEF Holding
  <2>2. pc[u] \in Holding /\ ctx'[u] = ctx[u] /\ pol'[u] = pol[u] /\ ans'[u] = ans[u]
    BY <1>5, <2>1
  <2> QED
    BY <1>0, <2>2 DEF AnsOK
<1>8. AnswerIsCurrent'
  <2> SUFFICES ASSUME NEW u \in Caller, pc'[u] = "done", clean'[u]
               PROVE  \E q \in asked'[u] : Justified(q, ctx'[u], ans'[u])
    BY Zenon DEF AnswerIsCurrent
  <2>1. CASE u = t
    <3>1. PICK d \in early : ans'[t] = d
      BY <1>6, <2>1
    <3>2. Justified(p, c, d)
      BY <1>1, EarlyAnswers
    <3> QED
      BY <1>4, <2>1, <3>1, <3>2
  <2>2. CASE u # t
    <3>1. /\ ctx'[u] = ctx[u] /\ asked'[u] = asked[u] /\ pc[u] = "done"
          /\ ans'[u] = ans[u] /\ clean[u]
      BY <1>5, <2>2
    <3> QED
      BY <1>0, <3>1 DEF AnswerIsCurrent
  <2> QED
    BY <2>1, <2>2
<1>9. OwnOK'
  <2>0. policy' = policy /\ swap' = swap /\ cached' = cached /\ entry' = entry
    BY <1>3
  <2> SUFFICES ASSUME ~mixed', swap # "clear"
               PROVE  /\ EntriesFrom({policy})
                      /\ \A u \in Caller : InFlight(u)' => pol'[u] = policy
    BY <2>0 DEF OwnOK, EntriesFrom
  <2>1. p = policy /\ ~mixed
    BY <1>3
  <2>2. EntriesFrom({policy}) /\ \A u \in Caller : InFlight(u) => pol[u] = policy
    BY <1>0, <2>1 DEF OwnOK
  <2>3. ASSUME NEW u \in Caller, InFlight(u)'
        PROVE  pol'[u] = policy
    <3>1. CASE u = t
      BY <1>4, <2>1, <3>1
    <3>2. CASE u # t
      BY <1>5, <2>2, <2>3, <3>2 DEF InFlight
    <3> QED
      BY <3>1, <3>2
  <2> QED
    BY <2>2, <2>3
<1>10. ViewOK'
  <2> SUFFICES ASSUME NEW u \in Caller, InFlight(u)', clean'[u]
               PROVE  /\ policy \in asked'[u]
                      /\ EntriesFrom(asked'[u])
                      /\ \A v \in Caller : InFlight(v)' => pol'[v] \in asked'[u]
    BY <1>3, Zenon DEF ViewOK, EntriesFrom
  <2>1. CASE u = t
    <3>1. p = policy /\ ~mixed /\ swap # "clear" /\ asked'[u] = {policy}
      BY <1>4, <2>1
    <3>2. EntriesFrom({policy}) /\ \A v \in Caller : InFlight(v) => pol[v] = policy
      BY <1>0, <3>1 DEF OwnOK
    <3>3. ASSUME NEW v \in Caller, InFlight(v)'
          PROVE  pol'[v] = policy
      <4>1. CASE v = t
        BY <1>4, <3>1, <4>1
      <4>2. CASE v # t
        BY <1>5, <3>2, <3>3, <4>2 DEF InFlight
      <4> QED
        BY <4>1, <4>2
    <3> QED
      BY <3>1, <3>2, <3>3
  <2>2. CASE u # t
    <3>1. InFlight(u) /\ clean[u] /\ p = policy /\ asked'[u] = asked[u]
      BY <1>5, <2>2 DEF InFlight
    <3>2. /\ policy \in asked[u]
          /\ EntriesFrom(asked[u])
          /\ \A v \in Caller : InFlight(v) => pol[v] \in asked[u]
      BY <1>0, <3>1 DEF ViewOK
    <3>3. ASSUME NEW v \in Caller, InFlight(v)'
          PROVE  pol'[v] \in asked[u]
      <4>1. CASE v = t
        BY <1>4, <3>1, <3>2, <4>1
      <4>2. CASE v # t
        BY <1>5, <3>2, <3>3, <4>2 DEF InFlight
      <4> QED
        BY <4>1, <4>2
    <3> QED
      BY <3>1, <3>2, <3>3
  <2> QED
    BY <2>1, <2>2
<1> QED
  BY <1>7, <1>8, <1>9, <1>10

\* A clean call may be answered from the policy it captured.
LEMMA OwnPolicyAsked ==
  ASSUME ViewOK, NEW t \in Caller, InFlight(t), clean[t]
  PROVE  pol[t] \in asked[t]
BY DEF ViewOK

\* The steps of one call that neither start it nor change what others see,
\* except by taking entries out of the cache.
LEMMA MiddleAnswer ==
  ASSUME AnswerInv, StoreOK', NEW t \in Caller,
         \/ Probe(t) \/ Fetch(t) \/ Submit(t) \/ Collect(t) \/ Promote(t)
         \/ Evict(t) \/ Pop(t) \/ (\E i \in 1..MaxRules : RunRule(t, i))
  PROVE  AnsOK' /\ ViewOK' /\ OwnOK' /\ AnswerIsCurrent'
<1> USE PolicyAssumption, RuntimeAssumption
<1>0. /\ TypeOK /\ OutOK /\ AnsOK /\ ViewOK /\ OwnOK /\ AnswerIsCurrent
      /\ pol[t] \in Policy /\ ctx[t] \in Context
  BY DEF AnswerInv, CacheInv, TypeOK
<1>1. UNCHANGED <<policy, swap, pol, ctx, asked, clean, mixed>>
  BY DEF Probe, Fetch, Submit, Collect, Promote, Evict, Pop, RunRule,
         runtimeVars, callVars, swapVars, historyVars
<1>2. cached' \subseteq cached /\ \A c \in cached' : entry'[c] = entry[c]
  <2>1. CASE Pop(t)
    <3>1. Forget(Oldest) \/ UNCHANGED cacheVars
      BY <2>1, Zenon DEF Pop
    <3> QED
      BY <1>0, <3>1 DEF Forget, cacheVars, TypeOK
  <2>2. CASE ~Pop(t)
    BY <2>2 DEF Probe, Fetch, Submit, Collect, Promote, Evict, RunRule,
                runtimeVars, cacheVars
  <2> QED
    BY <2>1, <2>2
<1>3. InFlight(t)
  BY DEF Probe, Fetch, Submit, Collect, Promote, Evict, Pop, RunRule, InFlight
<1>4. \/ UNCHANGED <<pc, ans>>
      \/ \E w \in Places :
           /\ pc' = [pc EXCEPT ![t] = w]
           /\ \A u \in Caller \ {t} : ans'[u] = ans[u]
           /\ w \in Holding => MatchJustified(pol[t], ctx[t], ans'[t])
           /\ w = "done" /\ clean[t] =>
                \E p \in asked[t] : Justified(p, ctx[t], ans'[t])
  <2>1. CASE Probe(t)
    <3>1. UNCHANGED ans /\ \E w \in {"fetch", "submit"} : pc' = [pc EXCEPT ![t] = w]
      BY <2>1 DEF Probe
    <3>2. \A w \in {"fetch", "submit"} : w \in Places /\ w \notin Holding /\ w # "done"
      BY DEF Places, Holding
    <3> QED
      BY <3>1, <3>2
  <2>2. CASE Fetch(t)
    <3>1. \/ pc' = [pc EXCEPT ![t] = "raised"] /\ UNCHANGED ans
          \/ /\ pc' = [pc EXCEPT ![t] = "done"]
             /\ ctx[t] \in cached
             /\ ans' = [ans EXCEPT ![t] = entry[ctx[t]]]
      BY <2>2, Zenon DEF Fetch
    <3>2. CASE pc' = [pc EXCEPT ![t] = "raised"] /\ UNCHANGED ans
      BY <3>2 DEF Places, Holding
    <3>3. CASE /\ pc' = [pc EXCEPT ![t] = "done"]
               /\ ctx[t] \in cached
               /\ ans' = [ans EXCEPT ![t] = entry[ctx[t]]]
      <4>1. ans'[t] = entry[ctx[t]] /\ \A u \in Caller \ {t} : ans'[u] = ans[u]
        BY <1>0, <3>3 DEF TypeOK
      <4>2. ASSUME clean[t]
            PROVE  \E p \in asked[t] : Justified(p, ctx[t], ans'[t])
        <5>1. PICK p \in asked[t] : MatchJustified(p, ctx[t], entry[ctx[t]])
          BY <1>0, <1>3, <3>3, <4>2 DEF ViewOK, EntriesFrom
        <5>2. Justified(p, ctx[t], entry[ctx[t]])
          BY <5>1, Zenon DEF Justified
        <5> QED
          BY <4>1, <5>2
      <4>3. "done" \in Places /\ "done" \notin Holding
        BY DEF Places, Holding
      <4> QED
        BY <3>3, <4>1, <4>2, <4>3
    <3> QED
      BY <3>1, <3>2, <3>3
  <2>3. CASE Submit(t)
    BY <2>3 DEF Submit, Places, Holding
  <2>4. CASE Collect(t)
    <3> DEFINE d == FirstMatch(pol[t], out[t])
    <3>1. \E w \in {"store", "done"} : pc' = [pc EXCEPT ![t] = w]
      BY <2>4 DEF Collect
    <3>2. ans' = [ans EXCEPT ![t] = d]
      BY <2>4 DEF Collect
    <3>3. \A i \in Rules(pol[t]) :
            out[t][i] \in Outcome /\ Seen(pol[t], ctx[t], i, out[t][i])
      <4>1. \A i \in Rules(pol[t]) : out[t][i] # "pending"
        BY <2>4 DEF Collect
      <4>2. Rules(pol[t]) \subseteq 1..MaxRules
        BY <1>0 DEF Rules
      <4>3. \A i \in 1..MaxRules : out[t][i] \in Outcome \union {"pending"}
        BY <1>0 DEF TypeOK
      <4> QED
        BY <1>0, <4>1, <4>2, <4>3 DEF OutOK
    <3>4. Justified(pol[t], ctx[t], d)
      BY <1>0, <3>3, FirstMatchAnswers
    <3> HIDE DEF d
    <3>5. ans'[t] = d /\ \A u \in Caller \ {t} : ans'[u] = ans[u]
      BY <1>0, <3>2 DEF TypeOK
    <3>6. ASSUME pc' = [pc EXCEPT ![t] = "store"]
          PROVE  MatchJustified(pol[t], ctx[t], ans'[t])
      <4>1. pc'[t] = "store"
        BY <1>0, <3>6 DEF TypeOK
      <4>2. MatchJustified(pol'[t], ctx'[t], ans'[t])
        BY <4>1, Zenon DEF StoreOK
      <4> QED
        BY <1>1, <4>2
    <3>7. clean[t] => pol[t] \in asked[t]
      BY <1>0, <1>3, OwnPolicyAsked
    <3>8. "store" \in Places /\ "done" \in Places /\ "done" \notin Holding
      BY DEF Places, Holding
    <3> QED
      BY <3>1, <3>4, <3>5, <3>6, <3>7, <3>8
  <2>5. CASE Promote(t)
    <3>1. /\ UNCHANGED ans /\ pc[t] = "promote"
          /\ \E w \in {"evict", "raised"} : pc' = [pc EXCEPT ![t] = w]
      BY <2>5 DEF Promote
    <3>2. MatchJustified(pol[t], ctx[t], ans[t])
      BY <1>0, <3>1 DEF AnsOK, Holding
    <3>3. \A w \in {"evict", "raised"} : w \in Places /\ w # "done"
      BY DEF Places
    <3> QED
      BY <3>1, <3>2, <3>3
  <2>6. CASE Evict(t) \/ Pop(t)
    <3>1. /\ UNCHANGED ans /\ pc[t] \in {"evict", "pop"}
          /\ \E w \in {"pop", "done", "raised"} : pc' = [pc EXCEPT ![t] = w]
      BY <2>6 DEF Evict, Pop
    <3>2. MatchJustified(pol[t], ctx[t], ans[t])
      BY <1>0, <3>1 DEF AnsOK, Holding
    <3>3. Justified(pol[t], ctx[t], ans[t])
      BY <3>2, Zenon DEF Justified
    <3>4. clean[t] => pol[t] \in asked[t]
      BY <1>0, <1>3, OwnPolicyAsked
    <3>5. \A w \in {"pop", "done", "raised"} : w \in Places
      BY DEF Places
    <3> QED
      BY <3>1, <3>2, <3>3, <3>4, <3>5
  <2>7. CASE \E i \in 1..MaxRules : RunRule(t, i)
    BY <2>7 DEF RunRule
  <2> QED
    BY <2>1, <2>2, <2>3, <2>4, <2>5, <2>6, <2>7
<1>5. AnsOK' /\ AnswerIsCurrent'
  <2>1. CASE UNCHANGED <<pc, ans>>
    BY <1>0, <1>1, <2>1, Zenon DEF AnsOK, AnswerIsCurrent
  <2>2. CASE ~UNCHANGED <<pc, ans>>
    BY <1>0, <1>1, <1>4, <2>2, AnswerKept
  <2> QED
    BY <2>1, <2>2
<1>6. \A u \in Caller : InFlight(u)' => InFlight(u)
  <2>1. CASE UNCHANGED <<pc, ans>>
    BY <2>1 DEF InFlight
  <2>2. CASE ~UNCHANGED <<pc, ans>>
    BY <1>0, <1>3, <1>4, <2>2 DEF InFlight, TypeOK
  <2> QED
    BY <2>1, <2>2
<1> QED
  BY <1>0, <1>1, <1>2, <1>5, <1>6, ViewKept

LEMMA StoreAnswer ==
  ASSUME AnswerInv, NEW t \in Caller, Store(t)
  PROVE  AnsOK' /\ ViewOK' /\ OwnOK' /\ AnswerIsCurrent'
<1>0. /\ TypeOK /\ StoreOK /\ AnsOK /\ ViewOK /\ OwnOK /\ AnswerIsCurrent
      /\ ctx[t] \in Context
  BY DEF AnswerInv, CacheInv, TypeOK
<1>1. /\ pc[t] = "store"
      /\ pc' = [pc EXCEPT ![t] = "promote"]
      /\ cached' = cached \union {ctx[t]}
      /\ entry' = [entry EXCEPT ![ctx[t]] = ans[t]]
      /\ UNCHANGED <<policy, pol, ctx, ans, swap, asked, clean, mixed>>
  BY DEF Store, callVars, swapVars, historyVars
<1>2. MatchJustified(pol[t], ctx[t], ans[t])
  BY <1>0, <1>1 DEF StoreOK
<1>3. AnsOK' /\ AnswerIsCurrent'
  <2>1. "promote" \in Places /\ "promote" # "done"
    BY DEF Places
  <2> QED
    BY <1>0, <1>1, <1>2, <2>1, AnswerKept
<1>4. InFlight(t) /\ \A u \in Caller : InFlight(u)' => InFlight(u)
  BY <1>0, <1>1 DEF InFlight, TypeOK
<1>5. ASSUME NEW P, EntriesFrom(P), pol[t] \in P
      PROVE  \A c \in cached' : \E p \in P : MatchJustified(p, c, entry'[c])
  <2> SUFFICES ASSUME NEW c \in cached'
               PROVE  \E p \in P : MatchJustified(p, c, entry'[c])
    OBVIOUS
  <2>1. CASE c = ctx[t]
    <3>1. entry'[c] = ans[t]
      BY <1>0, <1>1, <2>1 DEF TypeOK
    <3> QED
      BY <1>2, <1>5, <2>1, <3>1
  <2>2. CASE c # ctx[t]
    <3>1. c \in cached /\ entry'[c] = entry[c]
      BY <1>0, <1>1, <2>2 DEF TypeOK
    <3> QED
      BY <1>5, <3>1 DEF EntriesFrom
  <2> QED
    BY <2>1, <2>2
<1>6. /\ policy' = policy /\ pol' = pol /\ swap' = swap /\ asked' = asked
      /\ clean' = clean /\ mixed' = mixed
  BY <1>1
<1>7. ViewOK'
  <2> SUFFICES ASSUME NEW u \in Caller, InFlight(u)', clean[u]
               PROVE  /\ policy \in asked[u]
                      /\ \A c \in cached' : \E p \in asked[u] : MatchJustified(p, c, entry'[c])
                      /\ \A v \in Caller : InFlight(v)' => pol[v] \in asked[u]
    BY <1>6, Zenon DEF ViewOK, EntriesFrom
  <2>1. /\ policy \in asked[u] /\ EntriesFrom(asked[u])
        /\ \A v \in Caller : InFlight(v) => pol[v] \in asked[u]
    BY <1>0, <1>4 DEF ViewOK
  <2> QED
    BY <1>4, <1>5, <2>1
<1>8. OwnOK'
  <2> SUFFICES ASSUME ~mixed, swap # "clear"
               PROVE  /\ \A c \in cached' : \E p \in {policy} : MatchJustified(p, c, entry'[c])
                      /\ \A v \in Caller : InFlight(v)' => pol[v] = policy
    BY <1>6 DEF OwnOK, EntriesFrom
  <2>1. EntriesFrom({policy}) /\ \A v \in Caller : InFlight(v) => pol[v] = policy
    BY <1>0 DEF OwnOK
  <2> QED
    BY <1>4, <1>5, <2>1
<1> QED
  BY <1>3, <1>7, <1>8

LEMMA SwapAnswer ==
  ASSUME AnswerInv, (\E p \in Policy : SwapPolicy(p)) \/ ClearCache
  PROVE  AnsOK' /\ ViewOK' /\ OwnOK' /\ AnswerIsCurrent'
<1>0. TypeOK /\ AnsOK /\ ViewOK /\ OwnOK /\ AnswerIsCurrent
  BY DEF AnswerInv, CacheInv
<1>1. UNCHANGED <<pc, ctx, pol, ans, clean>>
  BY DEF SwapPolicy, ClearCache, callVars
<1>2. AnsOK'
  BY <1>0, <1>1, Zenon DEF AnsOK
<1>3. ASSUME NEW p \in Policy, SwapPolicy(p)
      PROVE  ViewOK' /\ OwnOK' /\ AnswerIsCurrent'
  <2>1. /\ swap' = "clear" /\ policy' = p
        /\ UNCHANGED <<cached, entry, mixed>>
    BY <1>3 DEF SwapPolicy, cacheVars
  <2>2. \A t \in Caller : asked'[t] = IF InFlight(t) THEN asked[t] \union {p} ELSE asked[t]
    BY <1>3 DEF SwapPolicy
  <2>3. AnswerIsCurrent'
    <3> SUFFICES ASSUME NEW t \in Caller, pc[t] = "done", clean[t]
                 PROVE  \E q \in asked'[t] : Justified(q, ctx[t], ans[t])
      BY <1>1, Zenon DEF AnswerIsCurrent
    <3>1. asked[t] \subseteq asked'[t]
      BY <2>2
    <3> QED
      BY <1>0, <3>1 DEF AnswerIsCurrent
  <2>4. ViewOK'
    <3> SUFFICES ASSUME NEW t \in Caller, InFlight(t), clean[t]
                 PROVE  /\ p \in asked'[t]
                        /\ EntriesFrom(asked'[t])
                        /\ \A u \in Caller : InFlight(u) => pol[u] \in asked'[t]
      BY <1>1, <2>1 DEF ViewOK, EntriesFrom, InFlight
    <3>1. asked'[t] = asked[t] \union {p}
      BY <2>2
    <3> QED
      BY <1>0, <3>1 DEF ViewOK, EntriesFrom
  <2>5. OwnOK'
    BY <2>1 DEF OwnOK
  <2> QED
    BY <2>3, <2>4, <2>5
<1>4. CASE ClearCache
  <2>1. /\ cached' = {}
        /\ UNCHANGED <<policy, asked>>
        /\ mixed' = (\E t \in Caller : InFlight(t) /\ pol[t] # policy)
    BY <1>4 DEF ClearCache, Emptied
  <2>2. ViewOK'
    BY <1>0, <1>1, <2>1 DEF ViewOK, EntriesFrom, InFlight
  <2>3. OwnOK'
    BY <1>1, <2>1 DEF OwnOK, EntriesFrom, InFlight
  <2>4. AnswerIsCurrent'
    <3> SUFFICES ASSUME NEW t \in Caller, pc[t] = "done", clean[t]
                 PROVE  \E q \in asked'[t] : Justified(q, ctx[t], ans[t])
      BY <1>1, Zenon DEF AnswerIsCurrent
    <3>1. asked'[t] = asked[t]
      BY <2>1
    <3> QED
      BY <1>0, <3>1 DEF AnswerIsCurrent
  <2> QED
    BY <1>2, <2>2, <2>3, <2>4
<1>5. CASE \E p \in Policy : SwapPolicy(p)
  <2>1. PICK p \in Policy : SwapPolicy(p)
    BY <1>5
  <2> QED
    BY <1>2, <1>3, <2>1
<1> QED
  BY <1>2, <1>4, <1>5, Zenon

LEMMA AnswerStep ==
  AnswerInv /\ [Next]_vars => AnsOK' /\ ViewOK' /\ OwnOK' /\ AnswerIsCurrent'
<1> SUFFICES ASSUME AnswerInv, [Next]_vars
             PROVE  AnsOK' /\ ViewOK' /\ OwnOK' /\ AnswerIsCurrent'
  OBVIOUS
<1>1. ASSUME NEW t \in Caller, NEW c \in Context, NEW x \in Texts \union {Absent},
             NEW instant \in UNION {Instants(n, HostTimes) : n \in ClockReads},
             Begin(t, c, x, instant)
      PROVE  AnsOK' /\ ViewOK' /\ OwnOK' /\ AnswerIsCurrent'
  <2>1. instant \in Time
    BY RuntimeAssumption DEF Instants
  <2> QED
    BY <1>1, <2>1, BeginAnswer
<1>2. ASSUME NEW t \in Caller, Step(t)
      PROVE  AnsOK' /\ ViewOK' /\ OwnOK' /\ AnswerIsCurrent'
  <2>1. StoreOK'
    BY CacheStep DEF AnswerInv
  <2> QED
    BY <1>2, <2>1, MiddleAnswer, StoreAnswer DEF Step
<1>3. CASE (\E p \in Policy : SwapPolicy(p)) \/ ClearCache
  BY <1>3, SwapAnswer
<1>4. CASE UNCHANGED vars
  <2>1. UNCHANGED <<policy, cached, entry, pc, ctx, pol, ans, swap, asked, clean, mixed>>
    BY <1>4 DEF vars, runtimeVars, cacheVars, callVars, swapVars, historyVars
  <2>2. /\ policy' = policy /\ cached' = cached /\ entry' = entry /\ pc' = pc
        /\ ctx' = ctx /\ pol' = pol /\ ans' = ans /\ swap' = swap
        /\ asked' = asked /\ clean' = clean /\ mixed' = mixed
    BY <2>1
  <2>3. \A u \in Caller : InFlight(u)' => InFlight(u)
    BY <2>2 DEF InFlight
  <2>4. AnsOK' /\ AnswerIsCurrent'
    BY <2>2 DEF AnswerInv, AnsOK, AnswerIsCurrent
  <2> QED
    BY <2>1, <2>3, <2>4, ViewKept DEF AnswerInv
<1>5. ASSUME NEW t \in Caller, NEW c \in Context, Refuse(t, c)
      PROVE  AnsOK' /\ ViewOK' /\ OwnOK' /\ AnswerIsCurrent'
  <2>1. /\ ~InFlight(t)
        /\ pc' = [pc EXCEPT ![t] = "refused"] /\ ctx' = [ctx EXCEPT ![t] = c]
        /\ UNCHANGED <<policy, swap, pol, asked, clean, mixed, cached, entry, ans>>
    BY <1>5 DEF Refuse, runtimeVars, cacheVars, localVars, swapVars
  <2>2. TypeOK /\ AnsOK /\ ViewOK /\ OwnOK /\ AnswerIsCurrent
    BY DEF AnswerInv, CacheInv
  <2>3. /\ pc'[t] = "refused"
        /\ \A u \in Caller \ {t} : pc'[u] = pc[u] /\ ctx'[u] = ctx[u]
    BY <2>1, <2>2 DEF TypeOK
  <2>4. \A u \in Caller : InFlight(u)' => InFlight(u)
    BY <2>3 DEF InFlight
  <2>5. ViewOK' /\ OwnOK'
    BY <2>1, <2>2, <2>4, ViewKept
  <2>6. AnsOK'
    <3> SUFFICES ASSUME NEW u \in Caller, pc'[u] \in Holding
                 PROVE  MatchJustified(pol[u], ctx'[u], ans[u])
      BY <2>1, Zenon DEF AnsOK, Holding
    <3>1. pc[u] \in Holding /\ ctx'[u] = ctx[u]
      BY <2>3 DEF Holding
    <3> QED
      BY <2>2, <3>1 DEF AnsOK
  <2>7. AnswerIsCurrent'
    <3> SUFFICES ASSUME NEW u \in Caller, pc'[u] = "done", clean[u]
                 PROVE  \E p \in asked[u] : Justified(p, ctx'[u], ans[u])
      BY <2>1, Zenon DEF AnswerIsCurrent
    <3>1. pc[u] = "done" /\ ctx'[u] = ctx[u]
      BY <2>3
    <3> QED
      BY <2>2, <3>1 DEF AnswerIsCurrent
  <2> QED
    BY <2>5, <2>6, <2>7
<1> QED
  BY <1>1, <1>2, <1>3, <1>4, <1>5 DEF Next

\* However calls interleave with each other and with set_policy(), a call that
\* evaluates the active policy and meets no decision of another policy is
\* answered by a policy that was active while it ran, from the cache or not.
THEOREM AnswersAreCurrent == Spec => []AnswerIsCurrent
<1>1. Init => AnswerInv
  BY InitType, InitCache, InitAnswer DEF AnswerInv, CacheInv
<1>2. AnswerInv /\ [Next]_vars => AnswerInv'
  BY TypeStep, CacheStep, AnswerStep DEF AnswerInv, CacheInv
<1>3. AnswerInv => AnswerIsCurrent
  BY DEF AnswerInv
<1> QED
  BY <1>1, <1>2, <1>3, PTL DEF Spec

-----------------------------------------------------------------------------
(* The size of the cache.  An eviction removes a key because the keys are  *)
(* in a strict order, which has a first element while there is a key.      *)

StrictOrder(R, S) ==
  /\ R \subseteq S \X S
  /\ \A x \in S : <<x, x>> \notin R
  /\ \A x, y, z \in S : <<x, y>> \in R /\ <<y, z>> \in R => <<x, z>> \in R

OrderOK == StrictOrder(older, cached)

\* The calls between "self._cache[key] = value" and the end of put().
Filling == {t \in Caller : pc[t] \in {"promote", "evict", "pop"}}

LEMMA MinimalElement ==
  ASSUME NEW S, S # {}, IsFiniteSet(S), NEW R, StrictOrder(R, S)
  PROVE  \E m \in S : \A x \in S : <<x, m>> \notin R
<1> DEFINE Before(c) == {x \in S : <<x, c>> \in R}
           Sizes == {Cardinality(Before(c)) : c \in S}
<1>1. \A c \in S : Before(c) \subseteq S
  OBVIOUS
<1>2. \A c \in S : IsFiniteSet(Before(c)) /\ Cardinality(Before(c)) \in Nat
  BY <1>1, FS_Subset, FS_CardinalityType
<1>3. Sizes \in SUBSET Nat /\ Sizes # {}
  BY <1>2
<1>4. PICK m \in S : \A c \in S : Cardinality(Before(m)) <= Cardinality(Before(c))
  <2>1. PICK k \in Sizes : \A n \in Sizes : k <= n
    BY <1>3, LeastElement
  <2> QED
    BY <2>1
<1>5. ASSUME NEW x \in S, <<x, m>> \in R
      PROVE  FALSE
  <2>1. Before(x) \subseteq Before(m)
    BY <1>5 DEF StrictOrder
  <2>2. x \in Before(m) /\ x \notin Before(x)
    BY <1>5 DEF StrictOrder
  <2> HIDE DEF Before
  <2>3. Cardinality(Before(x)) <= Cardinality(Before(m))
        /\ Cardinality(Before(m)) # Cardinality(Before(x))
    BY <1>2, <2>1, <2>2, FS_Subset
  <2> QED
    BY <1>2, <1>4, <2>3
<1> QED
  BY <1>4, <1>5

\* move_to_end(), also of a key that is about to be added.
LEMMA MoveKeepsOrder ==
  ASSUME OrderOK, NEW c
  PROVE  StrictOrder(MoveToEnd(c), cached \union {c})
<1>1. \A x, y : <<x, y>> \in MoveToEnd(c) <=>
                  \/ <<x, y>> \in older /\ x # c /\ y # c
                  \/ x \in cached /\ x # c /\ y = c
  BY DEF MoveToEnd, OrderOK, StrictOrder
<1>2. MoveToEnd(c) \subseteq (cached \union {c}) \X (cached \union {c})
  BY DEF MoveToEnd, OrderOK, StrictOrder
<1>3. \A x \in cached \union {c} : <<x, x>> \notin MoveToEnd(c)
  BY <1>1 DEF OrderOK, StrictOrder
<1>4. ASSUME NEW x \in cached \union {c}, NEW y \in cached \union {c},
             NEW z \in cached \union {c},
             <<x, y>> \in MoveToEnd(c), <<y, z>> \in MoveToEnd(c)
      PROVE  <<x, z>> \in MoveToEnd(c)
  BY <1>1, <1>4 DEF OrderOK, StrictOrder
<1> QED
  BY <1>2, <1>3, <1>4 DEF StrictOrder

LEMMA OldestCached ==
  ASSUME OrderOK, IsFiniteSet(cached), cached # {}
  PROVE  Oldest \in cached
<1>1. \E c \in cached : \A x \in cached : <<x, c>> \notin older
  BY MinimalElement DEF OrderOK
<1> QED
  BY <1>1, Zenon DEF Oldest

SizeInv ==
  /\ TypeOK /\ OrderOK
  /\ IsFiniteSet(cached) /\ IsFiniteSet(Filling)
  /\ Cardinality(cached) <= CacheSize + faults + Cardinality(Filling)

LEMMA SizeInit == Init => SizeInv
<1> SUFFICES ASSUME Init
             PROVE  SizeInv
  OBVIOUS
<1>1. cached = {} /\ older = {} /\ Filling = {} /\ faults = 0
  BY DEF Init, Filling
<1> QED
  BY <1>1, InitType, FS_EmptySet, RuntimeAssumption DEF SizeInv, OrderOK, StrictOrder

LEMMA SizeStep == SizeInv /\ [Next]_vars => SizeInv'
<1> SUFFICES ASSUME SizeInv, [Next]_vars
             PROVE  SizeInv'
  OBVIOUS
<1>0. /\ TypeOK' /\ pc \in [Caller -> Places]
      /\ CacheSize \in Nat /\ faults \in Nat
      /\ Cardinality(cached) \in Nat /\ Cardinality(Filling) \in Nat
      /\ OrderOK /\ IsFiniteSet(cached) /\ IsFiniteSet(Filling)
      /\ Cardinality(cached) <= CacheSize + faults + Cardinality(Filling)
  BY TypeStep, RuntimeAssumption, FS_CardinalityType DEF SizeInv, TypeOK, Places
<1>1. ASSUME cached' = cached, StrictOrder(older', cached), faults' = faults,
             Filling' = Filling
      PROVE  SizeInv'
  BY <1>0, <1>1 DEF SizeInv, OrderOK
<1>2. ASSUME NEW t \in Caller, pc[t] \notin {"promote", "evict", "pop"},
             NEW f, f \notin {"promote", "evict", "pop"}, pc' = [pc EXCEPT ![t] = f]
      PROVE  Filling' = Filling
  BY <1>0, <1>2 DEF Filling
<1>3. ASSUME NEW t \in Caller, pc[t] \in {"promote", "evict", "pop"},
             NEW f, f \notin {"promote", "evict", "pop"}, pc' = [pc EXCEPT ![t] = f]
      PROVE  /\ IsFiniteSet(Filling')
             /\ Cardinality(Filling') = Cardinality(Filling) - 1
  <2>1. Filling' = Filling \ {t} /\ t \in Filling
    BY <1>0, <1>3 DEF Filling
  <2> QED
    BY <1>0, <2>1, FS_RemoveElement
<1>4. ASSUME NEW t \in Caller, NEW c \in Context, NEW x \in Texts \union {Absent},
             NEW instant, Begin(t, c, x, instant)
      PROVE  SizeInv'
  <2>1. /\ pc[t] \notin {"promote", "evict", "pop"}
        /\ UNCHANGED <<cached, older, faults>>
        /\ \/ pc' = [pc EXCEPT ![t] = "submit"]
           \/ pc' = [pc EXCEPT ![t] = "probe"]
           \/ pc' = [pc EXCEPT ![t] = "done"]
    BY <1>4 DEF Begin, InFlight, runtimeVars, cacheVars
  <2>2. Filling' = Filling
    BY <1>2, <2>1
  <2> QED
    BY <1>0, <1>1, <2>1, <2>2 DEF OrderOK
<1>5. ASSUME NEW t \in Caller,
             \/ Probe(t) \/ Submit(t) \/ Collect(t)
             \/ \E i \in 1..MaxRules : RunRule(t, i)
      PROVE  SizeInv'
  <2>1. UNCHANGED <<cached, older, faults>>
    BY <1>5 DEF Probe, Submit, Collect, RunRule, runtimeVars, cacheVars, historyVars
  <2>2. \/ pc' = pc
        \/ /\ pc[t] \notin {"promote", "evict", "pop"}
           /\ \E f \in {"fetch", "submit", "wait", "store", "done"} :
                pc' = [pc EXCEPT ![t] = f]
    <3>1. CASE Probe(t)
      BY <3>1 DEF Probe
    <3>2. CASE Submit(t)
      BY <3>2 DEF Submit
    <3>3. CASE Collect(t)
      BY <3>3 DEF Collect
    <3>4. CASE \E i \in 1..MaxRules : RunRule(t, i)
      BY <3>4 DEF RunRule
    <3> QED
      BY <1>5, <3>1, <3>2, <3>3, <3>4
  <2>3. Filling' = Filling
    <3>1. CASE pc' = pc
      BY <3>1 DEF Filling
    <3> QED
      BY <1>2, <2>2, <3>1
  <2> QED
    BY <1>0, <1>1, <2>1, <2>3 DEF OrderOK
<1>6. ASSUME NEW t \in Caller, Fetch(t)
      PROVE  SizeInv'
  <2>1. /\ pc[t] = "fetch" /\ cached' = cached /\ faults' = faults
        /\ \/ pc' = [pc EXCEPT ![t] = "done"] /\ ctx[t] \in cached
              /\ older' = MoveToEnd(ctx[t])
           \/ pc' = [pc EXCEPT ![t] = "raised"] /\ older' = older
    BY <1>6 DEF Fetch, historyVars
  <2>2. StrictOrder(older', cached)
    <3>1. CASE ctx[t] \in cached /\ older' = MoveToEnd(ctx[t])
      <4>1. cached \union {ctx[t]} = cached
        BY <3>1
      <4> QED
        BY <1>0, <3>1, <4>1, MoveKeepsOrder
    <3>2. CASE older' = older
      BY <1>0, <3>2 DEF OrderOK
    <3> QED
      BY <2>1, <3>1, <3>2
  <2>3. Filling' = Filling
    BY <1>2, <2>1
  <2> QED
    BY <1>1, <2>1, <2>2, <2>3
<1>7. ASSUME NEW t \in Caller, Store(t)
      PROVE  SizeInv'
  <2>1. /\ pc[t] = "store" /\ pc' = [pc EXCEPT ![t] = "promote"]
        /\ cached' = cached \union {ctx[t]} /\ faults' = faults
        /\ older' = IF ctx[t] \in cached THEN older ELSE MoveToEnd(ctx[t])
    BY <1>7 DEF Store, historyVars
  <2>2. Filling' = Filling \union {t} /\ t \notin Filling
    BY <1>0, <2>1 DEF Filling
  <2>3. IsFiniteSet(Filling') /\ Cardinality(Filling') = Cardinality(Filling) + 1
    BY <1>0, <2>2, FS_AddElement
  <2>4. IsFiniteSet(cached') /\ Cardinality(cached') <= Cardinality(cached) + 1
    BY <1>0, <2>1, FS_AddElement
  <2>5. StrictOrder(older', cached')
    <3>1. CASE ctx[t] \in cached
      <4>1. cached' = cached
        BY <2>1, <3>1
      <4> QED
        BY <1>0, <2>1, <3>1, <4>1 DEF OrderOK
    <3>2. CASE ctx[t] \notin cached
      BY <1>0, <2>1, <3>2, MoveKeepsOrder
    <3> QED
      BY <3>1, <3>2
  <2>6. Cardinality(cached') \in Nat
    BY <2>4, FS_CardinalityType
  <2>7. Cardinality(cached') <= CacheSize + faults' + Cardinality(Filling')
    BY <1>0, <2>1, <2>3, <2>4, <2>6
  <2> QED
    BY <1>0, <2>3, <2>4, <2>5, <2>7 DEF SizeInv, OrderOK
<1>8. ASSUME NEW t \in Caller, Promote(t)
      PROVE  SizeInv'
  <2>1. pc[t] = "promote" /\ cached' = cached
    BY <1>8 DEF Promote
  <2>2. CASE ctx[t] \in cached
    <3>1. /\ pc' = [pc EXCEPT ![t] = "evict"] /\ faults' = faults
          /\ older' = MoveToEnd(ctx[t])
      BY <1>8, <2>2 DEF Promote
    <3>2. Filling' = Filling
      BY <1>0, <2>1, <3>1 DEF Filling
    <3>3. cached \union {ctx[t]} = cached
      BY <2>2
    <3> QED
      BY <1>0, <1>1, <2>1, <3>1, <3>2, <3>3, MoveKeepsOrder
  <2>3. CASE ctx[t] \notin cached
    <3>1. /\ pc' = [pc EXCEPT ![t] = "raised"] /\ faults' = faults + 1
          /\ older' = older
      BY <1>8, <2>3 DEF Promote
    <3>2. IsFiniteSet(Filling') /\ Cardinality(Filling') = Cardinality(Filling) - 1
      BY <1>3, <2>1, <3>1
    <3>3. Cardinality(cached) <= CacheSize + faults' + Cardinality(Filling')
      BY <1>0, <3>1, <3>2
    <3> QED
      BY <1>0, <2>1, <3>1, <3>2, <3>3 DEF SizeInv, OrderOK
  <2> QED
    BY <2>2, <2>3
<1>9. ASSUME NEW t \in Caller, Evict(t)
      PROVE  SizeInv'
  <2>1. pc[t] = "evict" /\ UNCHANGED <<cached, older, faults>>
    BY <1>9 DEF Evict, runtimeVars, cacheVars, historyVars
  <2>2. CASE Overfull
    <3>1. pc' = [pc EXCEPT ![t] = "pop"]
      BY <1>9, <2>2 DEF Evict
    <3>2. Filling' = Filling
      BY <1>0, <2>1, <3>1 DEF Filling
    <3> QED
      BY <1>0, <1>1, <2>1, <3>2 DEF OrderOK
  <2>3. CASE ~Overfull
    <3>1. pc' = [pc EXCEPT ![t] = "done"]
      BY <1>9, <2>3 DEF Evict
    <3>2. IsFiniteSet(Filling')
      BY <1>3, <2>1, <3>1
    <3>3. Cardinality(cached) <= CacheSize /\ Cardinality(Filling') \in Nat
      BY <1>0, <2>3, <3>2, FS_CardinalityType DEF Overfull
    <3>4. Cardinality(cached) <= CacheSize + faults + Cardinality(Filling')
      BY <1>0, <3>3
    <3> QED
      BY <1>0, <2>1, <3>2, <3>4 DEF SizeInv, OrderOK
  <2> QED
    BY <2>2, <2>3
<1>10. ASSUME NEW t \in Caller, Pop(t)
       PROVE  SizeInv'
  <2>1. pc[t] = "pop" /\ faults' = faults
    BY <1>10 DEF Pop, historyVars
  <2>2. \/ pc' = [pc EXCEPT ![t] = "done"]
        \/ pc' = [pc EXCEPT ![t] = "raised"]
    BY <1>10, Zenon DEF Pop
  <2>3. IsFiniteSet(Filling') /\ Cardinality(Filling') = Cardinality(Filling) - 1
    BY <1>3, <2>1, <2>2
  <2>4. CASE cached # {}
    <3>1. /\ cached' = cached \ {Oldest}
          /\ older' = {e \in older : Oldest \notin {e[1], e[2]}}
      BY <1>10, <2>4 DEF Pop, Forget
    <3>2. Oldest \in cached
      BY <1>0, <2>4, OldestCached
    <3>3. IsFiniteSet(cached') /\ Cardinality(cached') = Cardinality(cached) - 1
      BY <1>0, <3>1, <3>2, FS_RemoveElement
    <3>4. StrictOrder(older', cached')
      BY <1>0, <3>1 DEF OrderOK, StrictOrder
    <3>5. Cardinality(cached') <= CacheSize + faults + Cardinality(Filling')
      BY <1>0, <2>3, <3>3
    <3> QED
      BY <1>0, <2>1, <2>3, <3>3, <3>4, <3>5 DEF SizeInv, OrderOK
  <2>5. CASE cached = {}
    <3>1. cached' = {} /\ older' = older
      BY <1>10, <2>5 DEF Pop, cacheVars
    <3>2. Cardinality(cached') = 0 /\ Cardinality(Filling') \in Nat
      BY <2>3, <3>1, FS_EmptySet, FS_CardinalityType
    <3>3. Cardinality(cached') <= CacheSize + faults + Cardinality(Filling')
      BY <1>0, <3>2
    <3> QED
      BY <1>0, <2>1, <2>3, <2>5, <3>1, <3>3 DEF SizeInv, OrderOK
  <2> QED
    BY <2>4, <2>5
<1>11. ASSUME NEW p \in Policy, SwapPolicy(p)
       PROVE  SizeInv'
  <2>1. UNCHANGED <<cached, older, faults, pc>>
    BY <1>11 DEF SwapPolicy, cacheVars
  <2>2. Filling' = Filling
    BY <2>1 DEF Filling
  <2> QED
    BY <1>0, <1>1, <2>1, <2>2 DEF OrderOK
<1>12. CASE ClearCache
  <2>1. cached' = {} /\ older' = {} /\ faults' = faults /\ Filling' = Filling
    BY <1>12 DEF ClearCache, Emptied, Filling
  <2>2. Cardinality(cached') = 0 /\ IsFiniteSet(cached')
    BY <2>1, FS_EmptySet
  <2>3. Cardinality(cached') <= CacheSize + faults + Cardinality(Filling)
    BY <1>0, <2>2
  <2> QED
    BY <1>0, <2>1, <2>2, <2>3 DEF SizeInv, OrderOK, StrictOrder
<1>13. CASE UNCHANGED vars
  <2>1. UNCHANGED <<cached, older, faults, pc>>
    BY <1>13 DEF vars, runtimeVars, cacheVars, historyVars
  <2>2. Filling' = Filling
    BY <2>1 DEF Filling
  <2> QED
    BY <1>0, <1>1, <2>1, <2>2 DEF OrderOK
<1>14. ASSUME NEW t \in Caller, NEW c \in Context, Refuse(t, c)
       PROVE  SizeInv'
  <2>1. /\ pc[t] \notin {"promote", "evict", "pop"}
        /\ UNCHANGED <<cached, older, faults>>
        /\ pc' = [pc EXCEPT ![t] = "refused"]
    BY <1>14 DEF Refuse, InFlight, runtimeVars, cacheVars
  <2>2. Filling' = Filling
    BY <1>2, <2>1
  <2> QED
    BY <1>0, <1>1, <2>1, <2>2 DEF OrderOK
<1> QED
  BY <1>4, <1>5, <1>6, <1>7, <1>8, <1>9, <1>10, <1>11, <1>12, <1>13, <1>14 DEF Next, Step

\* The cache exceeds maxsize at most by the insertions under way and those
\* that failed half-way, however calls interleave with each other and with
\* set_policy(): an eviction always finds the oldest key.
THEOREM CacheStaysBounded == Spec => []CacheBounded
<1>1. SizeInv => CacheBounded
  BY DEF SizeInv, Filling, CacheBounded
<1> QED
  BY <1>1, SizeInit, SizeStep, PTL DEF Spec

-----------------------------------------------------------------------------
(* Why a call raises                                                       *)

\* The key a call is about to use is there, unless somebody else has removed
\* keys since the call began.
Holds(t) ==
  /\ pc[t] # "raised"
  /\ pc[t] \in {"fetch", "promote"} => ctx[t] \in cached
  /\ pc[t] = "pop" => cached # {}

RobbedOK == \A t \in Caller : t \in robbed \/ Holds(t)

LEMMA RobbedInit == Init => RobbedOK
BY DEF Init, RobbedOK, Holds

LEMMA RobbedStep == TypeOK /\ RobbedOK /\ [Next]_vars => RobbedOK'
<1> SUFFICES ASSUME TypeOK, RobbedOK, [Next]_vars
             PROVE  RobbedOK'
  OBVIOUS
<1>0. pc \in [Caller -> Places] /\ ctx \in [Caller -> Context]
  BY DEF TypeOK, Places
\* A step of t that removes nothing leaves the others what they hold.
<1>1. ASSUME NEW t \in Caller, NEW f, pc' = [pc EXCEPT ![t] = f],
             \A u \in Caller \ {t} : ctx'[u] = ctx[u],
             cached \subseteq cached', robbed \ {t} \subseteq robbed',
             \/ t \in robbed'
             \/ /\ f # "raised"
                /\ f \in {"fetch", "promote"} => ctx'[t] \in cached'
                /\ f = "pop" => cached' # {}
      PROVE  RobbedOK'
  <2> SUFFICES ASSUME NEW u \in Caller, u \notin robbed'
               PROVE  /\ pc'[u] # "raised"
                      /\ pc'[u] \in {"fetch", "promote"} => ctx'[u] \in cached'
                      /\ pc'[u] = "pop" => cached' # {}
    BY DEF RobbedOK, Holds
  <2>1. CASE u = t
    BY <1>0, <1>1, <2>1
  <2>2. CASE u # t
    <3>1. pc'[u] = pc[u] /\ ctx'[u] = ctx[u] /\ u \notin robbed
      BY <1>0, <1>1, <2>2
    <3>2. Holds(u)
      BY <3>1 DEF RobbedOK
    <3> QED
      BY <1>1, <3>1, <3>2 DEF Holds
  <2> QED
    BY <2>1, <2>2
<1>2. ASSUME NEW t \in Caller, NEW c \in Context, NEW x \in Texts \union {Absent},
             NEW instant, Begin(t, c, x, instant)
      PROVE  RobbedOK'
  <2>1. /\ ctx' = [ctx EXCEPT ![t] = c] /\ cached' = cached /\ robbed' = robbed \ {t}
        /\ \/ pc' = [pc EXCEPT ![t] = "submit"]
           \/ pc' = [pc EXCEPT ![t] = "probe"]
           \/ pc' = [pc EXCEPT ![t] = "done"]
    BY <1>2 DEF Begin, runtimeVars, cacheVars
  <2>2. \A u \in Caller \ {t} : ctx'[u] = ctx[u]
    BY <1>0, <2>1
  <2> QED
    BY <1>1, <2>1, <2>2
<1>3. ASSUME NEW t \in Caller, NEW c \in Context, Refuse(t, c)
      PROVE  RobbedOK'
  <2>1. /\ ctx' = [ctx EXCEPT ![t] = c] /\ cached' = cached /\ robbed' = robbed \ {t}
        /\ pc' = [pc EXCEPT ![t] = "refused"]
    BY <1>3 DEF Refuse, runtimeVars, cacheVars
  <2>2. \A u \in Caller \ {t} : ctx'[u] = ctx[u]
    BY <1>0, <2>1
  <2> QED
    BY <1>1, <2>1, <2>2
<1>4. ASSUME NEW t \in Caller, Probe(t)
      PROVE  RobbedOK'
  <2>1. /\ UNCHANGED <<robbed, ctx, cached>>
        /\ pc' = [pc EXCEPT ![t] = IF ctx[t] \in cached THEN "fetch" ELSE "submit"]
    BY <1>4 DEF Probe, historyVars, callVars, runtimeVars, cacheVars
  <2>2. \/ pc' = [pc EXCEPT ![t] = "fetch"] /\ ctx'[t] \in cached'
        \/ pc' = [pc EXCEPT ![t] = "submit"]
    BY <2>1
  <2> QED
    BY <1>1, <2>1, <2>2
<1>5. ASSUME NEW t \in Caller, Fetch(t)
      PROVE  RobbedOK'
  <2>1. /\ pc[t] = "fetch" /\ UNCHANGED <<robbed, ctx, cached>>
        /\ pc' = [pc EXCEPT ![t] = IF ctx[t] \in cached THEN "done" ELSE "raised"]
    BY <1>5 DEF Fetch, historyVars, callVars
  <2>2. t \notin robbed => ctx[t] \in cached
    BY <2>1 DEF RobbedOK, Holds
  <2> QED
    BY <1>1, <2>1, <2>2
<1>6. ASSUME NEW t \in Caller, Submit(t) \/ Collect(t)
      PROVE  RobbedOK'
  <2>1. /\ UNCHANGED <<robbed, ctx, cached>>
        /\ \/ pc' = [pc EXCEPT ![t] = "wait"]
           \/ pc' = [pc EXCEPT ![t] = "store"]
           \/ pc' = [pc EXCEPT ![t] = "done"]
    BY <1>6 DEF Submit, Collect, historyVars, callVars, runtimeVars, cacheVars
  <2> QED
    BY <1>1, <2>1
<1>7. ASSUME NEW t \in Caller, Store(t)
      PROVE  RobbedOK'
  <2>1. /\ UNCHANGED <<robbed, ctx>> /\ cached' = cached \union {ctx[t]}
        /\ pc' = [pc EXCEPT ![t] = "promote"]
    BY <1>7 DEF Store, historyVars, callVars
  <2> QED
    BY <1>1, <2>1
<1>8. ASSUME NEW t \in Caller, Promote(t)
      PROVE  RobbedOK'
  <2>1. /\ pc[t] = "promote" /\ UNCHANGED <<robbed, ctx, cached>>
        /\ pc' = [pc EXCEPT ![t] = IF ctx[t] \in cached THEN "evict" ELSE "raised"]
    BY <1>8 DEF Promote, callVars
  <2>2. t \notin robbed => ctx[t] \in cached
    BY <2>1 DEF RobbedOK, Holds
  <2> QED
    BY <1>1, <2>1, <2>2
<1>9. ASSUME NEW t \in Caller, Evict(t)
      PROVE  RobbedOK'
  <2>1. /\ UNCHANGED <<robbed, ctx, cached>>
        /\ pc' = [pc EXCEPT ![t] = IF Overfull THEN "pop" ELSE "done"]
    BY <1>9 DEF Evict, historyVars, callVars, runtimeVars, cacheVars
  <2>2. Overfull => cached # {}
    BY FS_EmptySet, RuntimeAssumption DEF Overfull
  <2>3. \/ pc' = [pc EXCEPT ![t] = "pop"] /\ cached' # {}
        \/ pc' = [pc EXCEPT ![t] = "done"]
    BY <2>1, <2>2
  <2> QED
    BY <1>1, <2>1, <2>3
<1>10. ASSUME NEW t \in Caller, Pop(t)
       PROVE  RobbedOK'
  <2>1. pc[t] = "pop" /\ UNCHANGED ctx
    BY <1>10 DEF Pop, callVars
  <2>2. CASE cached # {}
    <3>1. /\ pc' = [pc EXCEPT ![t] = "done"]
          /\ robbed' = robbed \union {u \in Caller \ {t} : InFlight(u)}
      BY <1>10, <2>2 DEF Pop
    <3> SUFFICES ASSUME NEW u \in Caller, u \notin robbed'
                 PROVE  pc'[u] \notin {"raised", "fetch", "promote", "pop"}
      BY DEF RobbedOK, Holds
    <3>2. CASE u = t
      BY <1>0, <3>1, <3>2
    <3>3. CASE u # t
      <4>1. pc'[u] = pc[u] /\ ~InFlight(u) /\ u \notin robbed
        BY <1>0, <3>1, <3>3
      <4> QED
        BY <4>1 DEF InFlight, RobbedOK, Holds
    <3> QED
      BY <3>2, <3>3
  <2>3. CASE cached = {}
    <3>1. pc' = [pc EXCEPT ![t] = "raised"] /\ UNCHANGED <<robbed, cached>>
      BY <1>10, <2>3 DEF Pop, cacheVars
    <3>2. t \in robbed
      BY <2>1, <2>3 DEF RobbedOK, Holds
    <3> QED
      BY <1>1, <2>1, <3>1, <3>2
  <2> QED
    BY <2>2, <2>3
<1>11. ASSUME UNCHANGED <<robbed, pc, ctx, cached>>
       PROVE  RobbedOK'
  BY <1>11 DEF RobbedOK, Holds
<1>12. ASSUME NEW t \in Caller, NEW i, RunRule(t, i)
       PROVE  RobbedOK'
  BY <1>11, <1>12 DEF RunRule, historyVars, callVars, runtimeVars, cacheVars
<1>13. ASSUME NEW p \in Policy, SwapPolicy(p)
       PROVE  RobbedOK'
  BY <1>11, <1>13 DEF SwapPolicy, callVars, cacheVars
<1>14. CASE ClearCache
  <2>1. pc' = pc /\ robbed' = robbed \union {t \in Caller : InFlight(t)}
    BY <1>14 DEF ClearCache
  <2> SUFFICES ASSUME NEW u \in Caller, u \notin robbed'
               PROVE  pc'[u] \notin {"raised", "fetch", "promote", "pop"}
    BY DEF RobbedOK, Holds
  <2> QED
    BY <2>1 DEF InFlight, RobbedOK, Holds
<1>15. CASE UNCHANGED vars
  BY <1>11, <1>15 DEF vars, runtimeVars, cacheVars, callVars, historyVars
<1> QED
  BY <1>2, <1>3, <1>4, <1>5, <1>6, <1>7, <1>8, <1>9, <1>10, <1>12, <1>13, <1>14,
     <1>15 DEF Next, Step

\* However many callers share the cache and whenever the policy is swapped, the
\* cache makes a call raise only if, while it ran, another caller evicted a key
\* or set_policy() cleared the cache.
THEOREM CacheErrorsAreRaces == Spec => []RaisesOnlyRobbed
<1>1. RobbedOK => RaisesOnlyRobbed
  BY DEF RobbedOK, Holds, RaisesOnlyRobbed
<1> QED
  BY <1>1, RobbedInit, RobbedStep, TypeCorrect, PTL DEF Spec
=============================================================================
