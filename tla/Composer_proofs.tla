---------------------------- MODULE Composer_proofs ----------------------------
(***************************************************************************)
(* What Composer promises for every catalogue of policies and sets, every  *)
(* file and every depth of the call stack.                                 *)
(***************************************************************************)
EXTENDS Composer, FiniteSetTheorems, SequenceTheorems,
        WellFoundedInduction, TLAPS

-----------------------------------------------------------------------------
(* Sequences: the top of a stack                                           *)

LEMMA Pushed ==
  ASSUME NEW S, NEW s \in Seq(S), NEW f \in S
  PROVE  /\ Append(s, f) \in Seq(S)
         /\ Len(Append(s, f)) = Len(s) + 1
         /\ DOMAIN Append(s, f) = 1..(Len(s) + 1)
         /\ Append(s, f)[Len(s) + 1] = f
         /\ \A i \in 1..Len(s) : Append(s, f)[i] = s[i]
OBVIOUS

LEMMA Popped ==
  ASSUME NEW S, NEW s \in Seq(S), s # <<>>
  PROVE  /\ Len(s) \in Nat \ {0} /\ Len(s) \in DOMAIN s
         /\ DOMAIN s = 1..Len(s)
         /\ Last(s) \in S
         /\ Last(s) = s[Len(s)]
         /\ Front(s) \in Seq(S)
         /\ Len(Front(s)) = Len(s) - 1
         /\ DOMAIN Front(s) = 1..(Len(s) - 1)
         /\ \A i \in 1..(Len(s) - 1) : Front(s)[i] = s[i]
<1>1. Len(s) \in Nat \ {0} /\ DOMAIN s = 1..Len(s)
  OBVIOUS
<1>2. Last(s) = s[Len(s)] /\ Last(s) \in S
  BY <1>1 DEF Last
<1>3. Front(s) = SubSeq(s, 1, Len(s) - 1)
  BY DEF Front
<1> QED
  BY <1>1, <1>2, <1>3

\* t is s with another frame on top.
Retop(s, t, f) ==
  /\ Len(t) = Len(s) /\ DOMAIN t = DOMAIN s
  /\ t[Len(s)] = f /\ Last(t) = f
  /\ \A i \in 1..(Len(s) - 1) : t[i] = s[i]

LEMMA Retopped ==
  ASSUME NEW S, NEW s \in Seq(S), s # <<>>, NEW f \in S
  PROVE  /\ [s EXCEPT ![Len(s)] = f] \in Seq(S)
         /\ [s EXCEPT ![Len(s)] = f] # <<>>
         /\ Retop(s, [s EXCEPT ![Len(s)] = f], f)
<1> DEFINE t == [s EXCEPT ![Len(s)] = f]
<1>1. Len(s) \in Nat \ {0} /\ DOMAIN s = 1..Len(s)
  OBVIOUS
<1>2. t \in Seq(S) /\ Len(t) = Len(s) /\ DOMAIN t = DOMAIN s
  OBVIOUS
<1>3. t[Len(s)] = f /\ \A i \in 1..(Len(s) - 1) : t[i] = s[i]
  <2>1. DOMAIN s = 1..Len(s) /\ Len(s) \in 1..Len(s)
    BY <1>1
  <2>2. \A i \in DOMAIN s : t[i] = IF i = Len(s) THEN f ELSE s[i]
    BY Zenon
  <2> HIDE DEF t
  <2> QED
    BY <1>1, <2>1, <2>2
<1>4. Last(t) = f
  BY <1>2, <1>3 DEF Last
<1>5. t # <<>>
  BY <1>1, <1>2
<1> QED
  BY <1>2, <1>3, <1>4, <1>5 DEF Retop

-----------------------------------------------------------------------------
(* Verdicts                                                                *)

LEMMA RankCases ==
  /\ Rank["DENY"] = 0 /\ Rank["ESCALATE"] = 1 /\ Rank["ALLOW"] = 2
BY DEF Rank

LEMMA RankOrders ==
  ASSUME NEW v \in Verdict, NEW w \in Verdict
  PROVE  /\ Rank[v] \in Nat /\ Rank[w] \in Nat
         /\ (Rank[v] <= Rank[w] /\ Rank[w] <= Rank[v]) => v = w
         /\ Rank[v] <= Rank["ALLOW"] /\ Rank["DENY"] <= Rank[v]
BY RankCases DEF Verdict

LEMMA MeetIs ==
  ASSUME NEW v \in Verdict, NEW w \in Verdict
  PROVE  /\ Meet(v, w) \in {v, w}
         /\ Rank[Meet(v, w)] <= Rank[v] /\ Rank[Meet(v, w)] <= Rank[w]
BY RankOrders DEF Meet

LEMMA MeetOfIs ==
  ASSUME NEW vs \in Seq(Verdict), vs # <<>>
  PROVE  /\ MeetOf(vs) \in Range(vs)
         /\ \A i \in DOMAIN vs : Rank[MeetOf(vs)] <= Rank[vs[i]]
<1>1. Range(vs) \subseteq Verdict /\ vs[1] \in Range(vs)
  BY DEF Range
<1>2. \E v \in Range(vs) : \A w \in Range(vs) : Rank[v] <= Rank[w]
  <2>1. CASE "DENY" \in Range(vs)
    BY <1>1, <2>1, RankOrders
  <2>2. CASE "DENY" \notin Range(vs) /\ "ESCALATE" \in Range(vs)
    BY <1>1, <2>2, RankCases DEF Verdict
  <2>3. CASE "DENY" \notin Range(vs) /\ "ESCALATE" \notin Range(vs)
    BY <1>1, <2>3, RankCases DEF Verdict
  <2> QED
    BY <2>1, <2>2, <2>3
<1>3. MeetOf(vs) \in Range(vs) /\ \A w \in Range(vs) : Rank[MeetOf(vs)] <= Rank[w]
  BY <1>2 DEF MeetOf
<1> QED
  BY <1>3 DEF Range

LEMMA JoinOfIs ==
  ASSUME NEW vs \in Seq(Verdict), vs # <<>>
  PROVE  /\ JoinOf(vs) \in Range(vs)
         /\ \A i \in DOMAIN vs : Rank[JoinOf(vs)] >= Rank[vs[i]]
<1>1. Range(vs) \subseteq Verdict /\ vs[1] \in Range(vs)
  BY DEF Range
<1>2. \E v \in Range(vs) : \A w \in Range(vs) : Rank[v] >= Rank[w]
  <2>1. CASE "ALLOW" \in Range(vs)
    BY <1>1, <2>1, RankCases DEF Verdict
  <2>2. CASE "ALLOW" \notin Range(vs) /\ "ESCALATE" \in Range(vs)
    BY <1>1, <2>2, RankCases DEF Verdict
  <2>3. CASE "ALLOW" \notin Range(vs) /\ "ESCALATE" \notin Range(vs)
    BY <1>1, <2>3, RankCases DEF Verdict
  <2> QED
    BY <2>1, <2>2, <2>3
<1>3. JoinOf(vs) \in Range(vs) /\ \A w \in Range(vs) : Rank[JoinOf(vs)] >= Rank[w]
  BY <1>2 DEF JoinOf
<1> QED
  BY <1>3 DEF Range

LEMMA RangeOfVerdicts ==
  ASSUME NEW vs \in Seq(Verdict), NEW v \in Range(vs)
  PROVE  v \in Verdict /\ \E i \in DOMAIN vs : vs[i] = v
BY DEF Range

-----------------------------------------------------------------------------
(* What a group answers, said of its members' verdicts                     *)

VotesOf(vs, v) == {i \in DOMAIN vs : vs[i] = v}
Allows(op, vs) ==
  CASE op = "UNION"     -> VotesOf(vs, "ALLOW") # {}
    [] op = "INTERSECT" -> vs # <<>> /\ VotesOf(vs, "ALLOW") = DOMAIN vs
    [] op = "MAJORITY"  -> Cardinality(VotesOf(vs, "ALLOW"))
                             > Cardinality(VotesOf(vs, "DENY") \cup VotesOf(vs, "ESCALATE"))
Denies(op, vs) ==
  CASE op = "UNION"     -> VotesOf(vs, "DENY") = DOMAIN vs
    [] op = "INTERSECT" -> vs = <<>> \/ VotesOf(vs, "DENY") # {}
    [] op = "MAJORITY"  -> ~Allows("MAJORITY", vs)

LEMMA Unanimous ==
  ASSUME NEW vs, NEW v
  PROVE  VotesOf(vs, v) = DOMAIN vs <=> \A i \in DOMAIN vs : vs[i] = v
BY DEF VotesOf

\* More than half of the members is more than all the others.
LEMMA MajorityCounts ==
  ASSUME NEW vs \in Seq(Verdict)
  PROVE  IsMajority(Cardinality(VotesOf(vs, "ALLOW")), Len(vs))
           <=> Allows("MAJORITY", vs)
<1> DEFINE A == VotesOf(vs, "ALLOW")
           B == VotesOf(vs, "DENY") \cup VotesOf(vs, "ESCALATE")
           m == Len(vs)
<1>1. m \in Nat /\ DOMAIN vs = 1..m
  OBVIOUS
<1>2. A \cup B = 1..m /\ A \cap B = {}
  <2>1. \A i \in DOMAIN vs : vs[i] \in Verdict
    OBVIOUS
  <2> QED
    BY <1>1, <2>1 DEF VotesOf, Verdict
<1>3. IsFiniteSet(1..m) /\ Cardinality(1..m) = m
  BY <1>1, FS_Interval
<1>4. A \subseteq 1..m /\ B \subseteq 1..m
  BY <1>2
<1> HIDE DEF A, B
<1>5. IsFiniteSet(A) /\ IsFiniteSet(B)
  BY <1>3, <1>4, FS_Subset
<1>6. Cardinality(A \cap B) = 0
  BY <1>2, FS_EmptySet
<1>7. Cardinality(A \cup B) = Cardinality(A) + Cardinality(B) - Cardinality(A \cap B)
  BY <1>5, FS_Union
<1>8. Cardinality(A) \in Nat /\ Cardinality(B) \in Nat
  BY <1>5, FS_CardinalityType
<1>9. Cardinality(A) + Cardinality(B) = m
  <2>1. Cardinality(A \cup B) = m
    BY <1>2, <1>3
  <2> QED
    BY <1>1, <1>6, <1>7, <1>8, <2>1
<1>10. (2 * Cardinality(A) > m) <=> Cardinality(A) > Cardinality(B)
  BY <1>8, <1>9
<1>11. Allows("MAJORITY", vs) <=> Cardinality(A) > Cardinality(B)
  BY DEF Allows, A, B
<1> QED
  BY <1>10, <1>11 DEF IsMajority, A

LEMMA CombineDecides ==
  ASSUME NEW g \in Group, NEW vs \in Seq(Verdict)
  PROVE  /\ Combine(g.op, vs) \in Verdict
         /\ Combine(g.op, vs) = "ALLOW" <=> Allows(g.op, vs)
         /\ Combine(g.op, vs) = "DENY" <=> Denies(g.op, vs)
<1>0. g.op \in {"UNION", "INTERSECT", "MAJORITY"}
  BY DEF Group
<1>1. \A i \in DOMAIN vs : vs[i] \in Verdict
  OBVIOUS
<1>2. vs # <<>> => 1 \in DOMAIN vs
  OBVIOUS
<1>3. vs = <<>> => DOMAIN vs = {}
  OBVIOUS
<1>4. CASE g.op = "UNION"
  <2>1. CASE vs = <<>>
    <3>1. Combine(g.op, vs) = "DENY"
      BY <2>1 DEF Combine
    <3>2. VotesOf(vs, "ALLOW") = {} /\ VotesOf(vs, "DENY") = DOMAIN vs
      BY <1>3, <2>1 DEF VotesOf
    <3> QED
      BY <1>4, <3>1, <3>2 DEF Allows, Denies, Verdict
  <2>2. CASE vs # <<>>
    <3> DEFINE w == JoinOf(vs)
    <3>1. Combine(g.op, vs) = w
      BY <1>4, <2>2 DEF Combine
    <3>2. w \in Verdict /\ (\E i \in DOMAIN vs : vs[i] = w)
          /\ \A i \in DOMAIN vs : Rank[w] >= Rank[vs[i]]
      BY <2>2, JoinOfIs, RangeOfVerdicts
    <3> HIDE DEF w
    <3>3. w = "ALLOW" <=> VotesOf(vs, "ALLOW") # {}
      BY <1>1, <3>2, RankCases DEF VotesOf, Verdict
    <3>4. w = "DENY" <=> \A i \in DOMAIN vs : vs[i] = "DENY"
      BY <1>1, <3>2, RankCases DEF Verdict
    <3> QED
      BY <1>4, <3>1, <3>2, <3>3, <3>4, Unanimous DEF Allows, Denies
  <2> QED
    BY <2>1, <2>2
<1>5. CASE g.op = "INTERSECT"
  <2>1. CASE vs = <<>>
    <3>1. Combine(g.op, vs) = "DENY"
      BY <2>1 DEF Combine
    <3> QED
      BY <1>5, <2>1, <3>1 DEF Allows, Denies, Verdict
  <2>2. CASE vs # <<>>
    <3> DEFINE w == MeetOf(vs)
    <3>1. Combine(g.op, vs) = w
      BY <1>5, <2>2 DEF Combine
    <3>2. w \in Verdict /\ (\E i \in DOMAIN vs : vs[i] = w)
          /\ \A i \in DOMAIN vs : Rank[w] <= Rank[vs[i]]
      BY <2>2, MeetOfIs, RangeOfVerdicts
    <3> HIDE DEF w
    <3>3. w = "ALLOW" <=> \A i \in DOMAIN vs : vs[i] = "ALLOW"
      BY <1>1, <3>2, RankCases DEF Verdict
    <3>4. w = "DENY" <=> VotesOf(vs, "DENY") # {}
      BY <1>1, <3>2, RankCases DEF VotesOf, Verdict
    <3> QED
      BY <1>5, <2>2, <3>1, <3>2, <3>3, <3>4, Unanimous DEF Allows, Denies
  <2> QED
    BY <2>1, <2>2
<1>6. CASE g.op = "MAJORITY"
  <2>0. Denies(g.op, vs) <=> ~Allows(g.op, vs)
    BY <1>6 DEF Denies
  <2>1. CASE vs = <<>>
    <3>1. Combine(g.op, vs) = "DENY"
      BY <2>1 DEF Combine
    <3>2. VotesOf(vs, "ALLOW") = {} /\ VotesOf(vs, "DENY") \cup VotesOf(vs, "ESCALATE") = {}
      BY <1>3, <2>1 DEF VotesOf
    <3>3. ~Allows("MAJORITY", vs)
      <4>1. Cardinality({}) = 0
        BY FS_EmptySet
      <4>2. Allows("MAJORITY", vs) <=> Cardinality({}) > Cardinality({})
        BY <3>2 DEF Allows
      <4> QED
        BY <4>1, <4>2
    <3> QED
      BY <1>6, <2>0, <3>1, <3>3 DEF Verdict
  <2>2. CASE vs # <<>>
    <3>1. Combine(g.op, vs) = IF IsMajority(Cardinality(VotesOf(vs, "ALLOW")), Len(vs))
                              THEN "ALLOW" ELSE "DENY"
      BY <1>6, <2>2 DEF Combine, VotesOf
    <3> QED
      BY <1>6, <2>0, <3>1, MajorityCounts DEF Verdict
  <2> QED
    BY <2>1, <2>2
<1> QED
  BY <1>0, <1>4, <1>5, <1>6

-----------------------------------------------------------------------------
(* Types                                                                   *)

Context == [Names -> Verdict \cup {Absent}]
At == {"window", "includes", "included", "pass", "meet"}
Frame == [policy : Catalog, chain : SUBSET Names, ctx : Context, at : At,
          next : Nat, own : Verdict \cup {Absent}]

\* What at says of a frame.
Fit(f) ==
  /\ f.next >= 1
  /\ f.at = "included" => f.next <= Len(f.policy.includes)
  /\ f.at = "meet" => f.own \in Verdict

\* The verdicts of the groups of the set that is evaluated.
JobInv ==
  /\ job \in Call \cup {Absent}
  /\ job # Absent /\ job.set # Absent => DOMAIN job.got = DOMAIN job.set.groups

StackInv ==
  /\ stack \in Seq(Frame) /\ Len(stack) <= MaxDepth
  /\ \A i \in DOMAIN stack : Fit(stack[i])

HostInv ==
  /\ registry \in [Names -> Catalog \cup {Absent}]
  /\ sets \in [Names -> SetCatalog \cup {Absent}]
  /\ clock \in 0..MaxTime /\ registered \in 0..MaxRegistered
  /\ ever \subseteq Catalog

OutcomeInv ==
  /\ ret \in Verdict \cup {Absent} /\ answer \in Verdict \cup Error \cup {Absent}
  /\ least \in Verdict

TypeInv == JobInv /\ StackInv /\ HostInv /\ OutcomeInv

LEMMA TypesAreTypeOK ==
  ASSUME TypeInv
  PROVE  TypeOK
<1>1. \A i \in DOMAIN stack : stack[i] \in Frame
  BY DEF TypeInv, StackInv
<1>2. \A i \in DOMAIN stack :
        /\ stack[i].policy \in Catalog /\ stack[i].chain \subseteq Names
        /\ stack[i].at \in At /\ stack[i].ctx \in Context
        /\ stack[i].own \in Verdict \cup {Absent}
  BY <1>1 DEF Frame
<1> QED
  BY <1>2, Zenon DEF TypeInv, JobInv, TypeOK, HostInv, OutcomeInv, StackInv, Context, At

LEMMA PolicyFields ==
  ASSUME NEW p \in Catalog
  PROVE  /\ p.name \in Names /\ p.rules \in Seq(Rule)
         /\ p.composition \in {"EXTENDS", "RESTRICTS", Absent}
         /\ p.parent \in Names \cup {Absent} /\ p.revert \in Names \cup {Absent}
         /\ p.includes \in Seq(IncludeRef)
         /\ p.from \in Nat /\ p.until \in Nat /\ p.onExpiry \in Verdict
BY ComposerAssumption, Zenon DEF IsPolicy

LEMMA LeastElement ==
  ASSUME NEW S \in SUBSET Nat, S # {}
  PROVE  \E m \in S : \A k \in S : m <= k
<1> DEFINE R == OpToRel(<, Nat)
<1>1. \A x, y \in Nat : x < y => <<x, y>> \in R
  BY DEF OpToRel
<1>2. IsWellFoundedOn(R, Nat)
  BY NatLessThanWellFounded
<1> HIDE DEF R
<1>3. PICK m \in S : \A k \in S : <<k, m>> \notin R
  BY <1>2, WFMin, Zenon
<1>4. \A k \in S : ~(k < m)
  BY <1>1, <1>3
<1>5. \A k \in S : k \in Nat /\ m \in Nat
  BY <1>3
<1> QED
  BY <1>3, <1>4, <1>5

\* The first rule that fires is one of them.
LEMMA OwnRulesType ==
  ASSUME NEW p \in Catalog, NEW ctx
  PROVE  /\ OwnRules(p, ctx) \in Verdict \cup {Absent}
         /\ OrDeny(OwnRules(p, ctx)) \in Verdict
<1> DEFINE firing == {i \in DOMAIN p.rules : Fires(p.rules[i], ctx)}
           then == p.rules[Min(firing)].then
<1>1. p.rules \in Seq(Rule)
  BY PolicyFields
<1>2. firing \in SUBSET Nat /\ firing \subseteq DOMAIN p.rules
  BY <1>1
<1>3. OwnRules(p, ctx) = IF firing = {} THEN Absent
                         ELSE IF then = "raises" THEN "DENY" ELSE then
  BY Zenon DEF OwnRules
<1>4. CASE firing = {}
  BY <1>3, <1>4 DEF OrDeny, Verdict
<1>5. CASE firing # {}
  <2> HIDE DEF firing
  <2>1. \E m \in firing : \A k \in firing : m <= k
    BY <1>2, <1>5, LeastElement
  <2>2. Min(firing) \in firing
    BY <2>1 DEF Min
  <2>3. p.rules[Min(firing)] \in Rule
    <3>1. \A i \in DOMAIN p.rules : p.rules[i] \in Rule
      BY <1>1
    <3> QED
      BY <1>2, <2>2, <3>1
  <2>4. then \in Verdict \cup {"raises"}
    BY <2>3 DEF Rule
  <2> HIDE DEF then
  <2> QED
    BY <1>3, <1>5, <2>4 DEF OrDeny, Verdict
<1> QED
  BY <1>4, <1>5

LEMMA NewFrameType ==
  ASSUME NEW p \in Catalog, NEW chain \in SUBSET Names, NEW ctx \in Context
  PROVE  /\ NewFrame(p, chain, ctx) \in Frame /\ Fit(NewFrame(p, chain, ctx))
         /\ NewFrame(p, chain, ctx).policy = p /\ NewFrame(p, chain, ctx).ctx = ctx
         /\ NewFrame(p, chain, ctx).next = 1
         /\ NewFrame(p, chain, ctx).at = "window"
BY DEF NewFrame, Frame, Fit, At

LEMMA NoAliasesType == NoAliases \in Context
BY DEF NoAliases, Context

LEMMA FrameFields ==
  ASSUME NEW f \in Frame
  PROVE  /\ f.policy \in Catalog /\ f.chain \in SUBSET Names /\ f.ctx \in Context
         /\ f.at \in At /\ f.next \in Nat /\ f.own \in Verdict \cup {Absent}
BY DEF Frame

\* f goes on as g.
Advances(f, g) ==
  /\ g \in Frame /\ Fit(g)
  /\ g.policy = f.policy /\ g.chain = f.chain
  /\ \/ g.ctx = f.ctx /\ g.next = f.next
     \/ /\ f.next <= Len(f.policy.includes) /\ g.next = f.next + 1
        /\ \E v \in Verdict : g.ctx = [f.ctx EXCEPT ![f.policy.includes[f.next].of] = v]

\* The frames that the steps of _evaluate_policy() leave on top.
Moved(f, at) == [f EXCEPT !.at = at]
Kept(f, own) == [f EXCEPT !.at = "meet", !.own = own]
Bound(f, v) == [f EXCEPT !.ctx = [f.ctx EXCEPT ![f.policy.includes[f.next].of] = v],
                         !.next = f.next + 1, !.at = "includes"]

LEMMA MovedAdvances ==
  ASSUME NEW f \in Frame, Fit(f), NEW at \in {"includes", "included", "pass"},
         at = "included" => f.next <= Len(f.policy.includes)
  PROVE  /\ Advances(f, Moved(f, at)) /\ Moved(f, at).at = at
         /\ Moved(f, at).ctx = f.ctx
BY DEF Moved, Advances, Frame, Fit, At

LEMMA KeptAdvances ==
  ASSUME NEW f \in Frame, Fit(f), NEW own \in Verdict
  PROVE  /\ Advances(f, Kept(f, own))
         /\ Kept(f, own).at = "meet" /\ Kept(f, own).own = own
         /\ Kept(f, own).ctx = f.ctx
BY DEF Kept, Advances, Frame, Fit, At

LEMMA BoundAdvances ==
  ASSUME NEW f \in Frame, Fit(f), f.next <= Len(f.policy.includes), NEW v \in Verdict
  PROVE  Advances(f, Bound(f, v)) /\ Bound(f, v).at = "includes"
<1> DEFINE a == f.policy.includes[f.next].of
           c == [f.ctx EXCEPT ![a] = v]
<1>1. f.ctx \in Context /\ f.next \in Nat /\ f.next >= 1
  BY FrameFields DEF Fit
<1>2. c \in Context
  BY <1>1 DEF Context
<1> HIDE DEF c
<1>3. Bound(f, v) = [f EXCEPT !.ctx = c, !.next = f.next + 1, !.at = "includes"]
  BY DEF Bound, c
<1>4. Bound(f, v) \in Frame
  <2> DEFINE h == [f EXCEPT !.ctx = c]
             n == f.next + 1
  <2>1. h \in Frame
    BY <1>2 DEF Frame
  <2>2. n \in Nat
    BY <1>1
  <2>3. Bound(f, v) = [h EXCEPT !.next = n, !.at = "includes"]
    BY <1>3 DEF Frame
  <2> HIDE DEF h, n
  <2>4. [h EXCEPT !.next = n, !.at = "includes"] \in Frame
    BY <2>1, <2>2 DEF Frame, At
  <2> QED
    BY <2>3, <2>4
<1>5. /\ Bound(f, v).policy = f.policy /\ Bound(f, v).chain = f.chain
      /\ Bound(f, v).ctx = c /\ Bound(f, v).next = f.next + 1
      /\ Bound(f, v).at = "includes"
  BY <1>3 DEF Frame
<1>6. Fit(Bound(f, v))
  BY <1>1, <1>5 DEF Fit
<1> QED
  BY <1>4, <1>5, <1>6 DEF Advances, c

-----------------------------------------------------------------------------
(* What a step does to the stack                                           *)

Top(f) == [stack EXCEPT ![Len(stack)] = f]

LEMMA CurrentIs ==
  ASSUME StackInv, stack # <<>>
  PROVE  /\ Current \in Frame /\ Fit(Current) /\ Current = stack[Len(stack)]
         /\ Current = Last(stack)
         /\ Current.policy \in Catalog /\ Current.chain \in SUBSET Names
         /\ Current.ctx \in Context /\ Current.next \in Nat /\ Current.next >= 1
<1>1. Current \in Frame /\ Current = stack[Len(stack)] /\ Len(stack) \in DOMAIN stack
  BY Popped DEF StackInv, Current
<1>2. Fit(Current)
  BY <1>1 DEF StackInv
<1> QED
  BY <1>1, <1>2, FrameFields DEF Fit, Current

LEMMA GotoIs ==
  ASSUME StackInv, stack # <<>>, NEW at
  PROVE  Goto(at) = Top(Moved(Current, at))
BY CurrentIs, Zenon DEF Goto, Top, Moved

LEMMA KeptIs ==
  ASSUME StackInv, stack # <<>>, NEW own
  PROVE  [Goto("meet") EXCEPT ![Len(stack)].own = own] = Top(Kept(Current, own))
<1> DEFINE n == Len(stack)
<1>1. n \in DOMAIN stack /\ stack[n] = Current /\ Current \in Frame
  BY CurrentIs, Popped DEF StackInv
<1>2. Goto("meet") = Top(Moved(Current, "meet"))
  BY GotoIs
<1>3. Top(Moved(Current, "meet"))[n] = Moved(Current, "meet")
  BY <1>1 DEF Top
<1>4. [Moved(Current, "meet") EXCEPT !.own = own] = Kept(Current, own)
  BY <1>1 DEF Moved, Kept, Frame
<1>5. [Goto("meet") EXCEPT ![n].own = own] = [Goto("meet") EXCEPT ![n] = Kept(Current, own)]
  BY <1>2, <1>3, <1>4
<1>6. [Top(Moved(Current, "meet")) EXCEPT ![n] = Kept(Current, own)] = Top(Kept(Current, own))
  BY <1>1 DEF Top
<1> QED
  BY <1>2, <1>5, <1>6

LEMMA BindIs ==
  ASSUME StackInv, stack # <<>>, NEW v
  PROVE  Bind(stack, Current.policy.includes[Current.next].of, v) = Top(Bound(Current, v))
<1> DEFINE n == Len(stack)
           a == Current.policy.includes[Current.next].of
           s1 == [stack EXCEPT ![n].ctx[a] = v]
           s2 == [s1 EXCEPT ![n].next = @ + 1]
           f1 == [Current EXCEPT !.ctx = [Current.ctx EXCEPT ![a] = v]]
           f2 == [f1 EXCEPT !.next = Current.next + 1]
<1>1. n \in DOMAIN stack /\ stack[n] = Current /\ Current \in Frame
  BY CurrentIs, Popped DEF StackInv
<1>2. s1 = Top(f1)
  BY <1>1, Zenon DEF Top
<1>3. f1.next = Current.next
  BY <1>1 DEF Frame
<1>4. s1[n] = f1 /\ DOMAIN s1 = DOMAIN stack
  BY <1>1, <1>2 DEF Top
<1>5. s2 = [s1 EXCEPT ![n] = f2]
  BY <1>3, <1>4, Zenon
<1>6. s2 = Top(f2)
  BY <1>1, <1>2, <1>5 DEF Top
<1>7. s2[n] = f2
  BY <1>1, <1>6 DEF Top
<1>8. [f2 EXCEPT !.at = "includes"] = Bound(Current, v)
  BY <1>1 DEF Bound, Frame
<1>9. [s2 EXCEPT ![n].at = "includes"] = [s2 EXCEPT ![n] = Bound(Current, v)]
  BY <1>7, <1>8, Zenon
<1>10. [s2 EXCEPT ![n].at = "includes"] = Top(Bound(Current, v))
  BY <1>1, <1>6, <1>9 DEF Top
<1> QED
  BY <1>10 DEF Bind

Raised == stack' = <<>> /\ ret' = Absent /\ answer' \in Error
Started == /\ stack = <<>>
           /\ \E p \in Catalog : stack' = <<NewFrame(p, {}, NoAliases)>>
Advanced == /\ stack # <<>>
            /\ \E g \in Frame : Advances(Current, g) /\ stack' = Top(g)
\* Current waits as g for the call of another policy.
CalledAs(g) ==
  /\ stack # <<>> /\ Len(stack) < MaxDepth
  /\ Advances(Current, g) /\ g.ctx = Current.ctx
  /\ \E p \in Catalog, chain \in SUBSET Names :
       stack' = Append(Top(g), NewFrame(p, chain, Current.ctx))
  /\ UNCHANGED <<ret, answer>>
Called == \E g \in Frame : CalledAs(g)
Dropped == stack # <<>> /\ stack' = Front(stack)

Shape == Raised \/ Started \/ Advanced \/ Called \/ Dropped \/ UNCHANGED stack

LEMMA CallPolicyIs ==
  ASSUME StackInv, stack # <<>>, NEW g \in Frame, Advances(Current, g),
         g.ctx = Current.ctx, NEW p \in Catalog, NEW chain \in SUBSET Names,
         CallPolicy(Top(g), p, chain, Current.ctx)
  PROVE  Raised \/ CalledAs(g)
<1>1. Len(Top(g)) = Len(stack) /\ Len(stack) \in Nat /\ Len(stack) <= MaxDepth
  BY Retopped DEF StackInv, Top, Retop
<1>2. CASE Len(stack) = MaxDepth
  BY <1>1, <1>2 DEF CallPolicy, Raise, Raised, Error
<1>3. CASE Len(stack) # MaxDepth
  <2>1. Len(stack) < MaxDepth
    BY <1>1, <1>3, ComposerAssumption
  <2> QED
    BY <1>1, <1>3, <2>1 DEF CallPolicy, CalledAs
<1> QED
  BY <1>2, <1>3

LEMMA DelegateIs ==
  ASSUME StackInv, HostInv, stack # <<>>, NEW g \in Frame, Advances(Current, g),
         g.ctx = Current.ctx, NEW n \in Names \cup {Absent}, Delegate(Top(g), n)
  PROVE  Raised \/ CalledAs(g)
<1>1. CASE n = Absent \/ registry[n] = Absent
  BY <1>1 DEF Delegate, Raise, Raised, Error
<1>2. CASE ~(n = Absent \/ registry[n] = Absent)
  <2>1. registry[n] \in Catalog
    BY <1>2 DEF HostInv
  <2>2. NextChain(Current) \in SUBSET Names
    BY CurrentIs, PolicyFields DEF NextChain
  <2>3. CallPolicy(Top(g), registry[n], NextChain(Current), Current.ctx)
    BY <1>2, Zenon DEF Delegate
  <2> QED
    BY <2>1, <2>2, <2>3, CallPolicyIs
<1> QED
  BY <1>1, <1>2

-----------------------------------------------------------------------------
(* Where a call goes, and why one is refused                               *)

\* The policies that the running one may call while it waits as g.
Targets(g) ==
  IF g.at = "included" THEN IncludesOf(Current.policy)
  ELSE (ParentOf(Current.policy) \cup {Current.policy.revert}) \ {Absent}
ChainOf(g) == IF g.at = "included" THEN Current.chain ELSE NextChain(Current)

Linked(g) ==
  \E n \in Targets(g) \cap Names :
    /\ registry'[n] # Absent
    /\ g.at # "included" => ~InCycle(Current)
    /\ stack' = Append(Top(g), NewFrame(registry'[n], ChainOf(g), Current.ctx))
    /\ UNCHANGED answer

Excused(g) ==
  \/ answer' = "ParseError"
  \/ /\ answer' = "CompositionError"
     /\ \/ InCycle(Current)
        \/ \E n \in ParentOf(Current.policy) : n = Absent \/ registry'[n] = Absent
  \/ /\ answer' = "RecursionError" /\ Len(stack) = MaxDepth
     /\ g.at # "included" => ~InCycle(Current)

Accounted(g) == Linked(g) \/ (stack' = <<>> /\ Excused(g))

LEMMA CallAccounts ==
  ASSUME StackInv, stack # <<>>, NEW g \in Frame, NEW n \in Targets(g) \cap Names,
         registry'[n] # Absent, g.at # "included" => ~InCycle(Current),
         CallPolicy(Top(g), registry'[n], ChainOf(g), Current.ctx)
  PROVE  Accounted(g)
<1>1. Len(Top(g)) = Len(stack)
  BY Retopped DEF StackInv, Top, Retop
<1>2. CASE Len(stack) = MaxDepth
  BY <1>1, <1>2 DEF CallPolicy, Raise, Accounted, Excused
<1>3. CASE Len(stack) # MaxDepth
  BY <1>1, <1>3, Zenon DEF CallPolicy, Accounted, Linked
<1> QED
  BY <1>2, <1>3

\* n is the parent or a registered successor.
MayFollow(n) ==
  \/ n \in ParentOf(Current.policy)
  \/ n = Current.policy.revert /\ n # Absent /\ registry[n] # Absent

LEMMA DelegateAccounts ==
  ASSUME StackInv, stack # <<>>, NEW g \in Frame, g.at \in {"pass", "meet"},
         NEW n \in Names \cup {Absent}, MayFollow(n), UNCHANGED registry,
         IF InCycle(Current) THEN Raise("CompositionError") ELSE Delegate(Top(g), n)
  PROVE  Accounted(g)
<1>1. CASE InCycle(Current)
  BY <1>1 DEF Raise, Accounted, Excused
<1>2. CASE ~InCycle(Current) /\ (n = Absent \/ registry[n] = Absent)
  BY <1>2 DEF Delegate, Raise, Accounted, Excused, MayFollow
<1>3. CASE ~InCycle(Current) /\ ~(n = Absent \/ registry[n] = Absent)
  <2>1. n \in Targets(g) \cap Names
    BY <1>3 DEF Targets, MayFollow
  <2>2. CallPolicy(Top(g), registry'[n], ChainOf(g), Current.ctx)
    BY <1>3 DEF Delegate, ChainOf
  <2> QED
    BY <1>3, <2>1, <2>2, CallAccounts
<1> QED
  BY <1>1, <1>2, <1>3

-----------------------------------------------------------------------------
(* The steps of _evaluate_policy(), by what they do                        *)

\* A frame decides: its verdict is returned and noted.
Decided(v) == /\ Running /\ Current.at \in {"window", "includes"} /\ v \in Verdict
              /\ Return(v) /\ Note(v)
\* It has its includes evaluated, or hands over to its parent or successor.
Asked(g) == /\ Running /\ Current.at \in {"window", "includes"}
            /\ g.at \in {"pass", "included"} /\ (Raised \/ CalledAs(g))
            /\ Advances(Current, g) /\ Accounted(g) /\ UNCHANGED least
\* It keeps its own verdict until its parent has decided.
Restrained(g) ==
  /\ Running /\ Current.at \in {"window", "includes"}
  /\ g.at = "meet" /\ g.own \in Verdict /\ Note(g.own)
  /\ Raised \/ CalledAs(g)
  /\ Advances(Current, g) /\ Accounted(g)
\* It goes on with its next INCLUDE.
WentOn(g) ==
  /\ stack # <<>> /\ g.at = "includes" /\ Advances(Current, g)
  /\ stack' = Top(g) /\ UNCHANGED <<answer, least>>
  /\ \/ Running /\ Current.at \in {"window", "includes"} /\ UNCHANGED ret
     \/ Resumed /\ Current.at = "included" /\ ret' = Absent

PolicyStep ==
  \/ \E v \in Verdict : Decided(v)
  \/ \E g \in Frame : Asked(g) \/ Restrained(g) \/ WentOn(g)
  \/ PassOn \/ TakeStricter

LEMMA WindowOpenIs ==
  ASSUME TypeInv, WindowOpen
  PROVE  PolicyStep
<1> DEFINE g == Moved(Current, "includes")
<1>1. stack # <<>> /\ StackInv
  BY DEF WindowOpen, Running, TypeInv
<1>2. g \in Frame /\ Advances(Current, g) /\ g.at = "includes"
  BY <1>1, CurrentIs, MovedAdvances DEF Advances
<1>3. stack' = Top(g)
  BY <1>1, GotoIs DEF WindowOpen
<1> HIDE DEF g
<1>4. WentOn(g)
  BY <1>1, <1>2, <1>3, Zenon DEF WindowOpen, WentOn
<1> QED
  BY <1>2, <1>4 DEF PolicyStep

\* The ways of handing over: revert_to and EXTENDS.
LEMMA HandingOver ==
  ASSUME TypeInv, Running, Current.at \in {"window", "includes"},
         NEW n \in Names \cup {Absent}, MayFollow(n), UNCHANGED <<least, registry>>,
         IF InCycle(Current) THEN Raise("CompositionError")
         ELSE Delegate(Goto("pass"), n)
  PROVE  PolicyStep
<1> DEFINE g == Moved(Current, "pass")
<1>1. stack # <<>> /\ StackInv /\ HostInv
  BY DEF Running, TypeInv
<1>2. g \in Frame /\ Advances(Current, g) /\ g.at = "pass" /\ g.ctx = Current.ctx
  BY <1>1, CurrentIs, MovedAdvances DEF Advances
<1>3. Goto("pass") = Top(g)
  BY <1>1, GotoIs
<1> HIDE DEF g
<1>4. Raised \/ CalledAs(g)
  <2>1. CASE InCycle(Current)
    BY <2>1 DEF Raise, Raised, Error
  <2>2. CASE ~InCycle(Current)
    <3>1. Delegate(Top(g), n)
      BY <1>3, <2>2
    <3> QED
      BY <1>1, <1>2, <3>1, DelegateIs
  <2> QED
    BY <2>1, <2>2
<1>5. Accounted(g)
  BY <1>1, <1>2, <1>3, DelegateAccounts
<1>6. Asked(g)
  BY <1>2, <1>4, <1>5 DEF Asked
<1> QED
  BY <1>2, <1>6 DEF PolicyStep

LEMMA WindowClosedIs ==
  ASSUME TypeInv, WindowClosed
  PROVE  PolicyStep
<1>1. stack # <<>> /\ StackInv /\ Running /\ Current.at = "window"
  BY DEF WindowClosed, Running, TypeInv
<1> DEFINE p == Current.policy
<1>2. p \in Catalog
  BY <1>1, CurrentIs
<1>3. p.onExpiry \in Verdict /\ p.revert \in Names \cup {Absent}
  BY <1>2, PolicyFields
<1>4. CASE ~CanRevert(p)
  <2>1. Return(p.onExpiry) /\ Note(p.onExpiry)
    BY <1>4, Zenon DEF WindowClosed
  <2>2. Decided(p.onExpiry)
    BY <1>1, <1>3, <2>1 DEF Decided
  <2> QED
    BY <1>3, <2>2 DEF PolicyStep
<1>5. CASE CanRevert(p)
  <2>1. /\ IF InCycle(Current) THEN Raise("CompositionError")
           ELSE Delegate(Goto("pass"), p.revert)
        /\ UNCHANGED <<least, registry>>
    BY <1>5, Zenon DEF WindowClosed, Still
  <2>2. MayFollow(p.revert)
    BY <1>5 DEF CanRevert, MayFollow
  <2> QED
    BY <1>1, <1>3, <2>1, <2>2, HandingOver
<1> QED
  BY <1>4, <1>5

LEMMA RunAloneIs ==
  ASSUME TypeInv, RunAlone
  PROVE  PolicyStep
<1>1. stack # <<>> /\ StackInv /\ Running /\ Current.at = "includes"
  BY DEF RunAlone, AtRules, Running, TypeInv
<1> DEFINE v == IF OutsideWindow(Current.policy) THEN Current.policy.onExpiry
                ELSE OrDeny(OwnRules(Current.policy, Current.ctx))
<1>2. Current.policy \in Catalog
  BY <1>1, CurrentIs
<1>3. v \in Verdict
  BY <1>2, PolicyFields, OwnRulesType
<1>4. Return(v) /\ Note(v)
  BY Zenon DEF RunAlone
<1> HIDE DEF v
<1>5. Decided(v)
  BY <1>1, <1>3, <1>4 DEF Decided
<1> QED
  BY <1>3, <1>5 DEF PolicyStep

LEMMA RunExtendsIs ==
  ASSUME TypeInv, RunExtends
  PROVE  PolicyStep
<1>1. stack # <<>> /\ StackInv /\ Running /\ Current.at = "includes"
  BY DEF RunExtends, AtRules, Running, TypeInv
<1> DEFINE v == OrDeny(OwnRules(Current.policy, Current.ctx))
<1>2. Current.policy \in Catalog
  BY <1>1, CurrentIs
<1>3. v \in Verdict /\ Current.policy.parent \in Names \cup {Absent}
  BY <1>2, PolicyFields, OwnRulesType
<1>4. \/ Return(v) /\ Note(v)
      \/ /\ IF InCycle(Current) THEN Raise("CompositionError")
            ELSE Delegate(Goto("pass"), Current.policy.parent)
         /\ UNCHANGED <<least, registry>>
  BY Zenon DEF RunExtends, Still
<1> HIDE DEF v
<1>5. CASE Return(v) /\ Note(v)
  <2>1. Decided(v)
    BY <1>1, <1>3, <1>5 DEF Decided
  <2> QED
    BY <1>3, <2>1 DEF PolicyStep
<1>6. CASE /\ IF InCycle(Current) THEN Raise("CompositionError")
              ELSE Delegate(Goto("pass"), Current.policy.parent)
           /\ UNCHANGED <<least, registry>>
  <2>1. MayFollow(Current.policy.parent)
    BY ComposerAssumption DEF RunExtends, AtRules, MayFollow, ParentOf
  <2> QED
    BY <1>1, <1>3, <1>6, <2>1, HandingOver
<1> QED
  BY <1>4, <1>5, <1>6

LEMMA RunRestrictsIs ==
  ASSUME TypeInv, RunRestricts
  PROVE  PolicyStep
<1>1. stack # <<>> /\ StackInv /\ HostInv /\ Running /\ Current.at = "includes"
  BY DEF RunRestricts, AtRules, Running, TypeInv
<1> DEFINE own == OrDeny(OwnRules(Current.policy, Current.ctx))
           g == Kept(Current, own)
<1>2. Current.policy \in Catalog
  BY <1>1, CurrentIs
<1>3. own \in Verdict /\ Current.policy.parent \in Names \cup {Absent}
  BY <1>2, PolicyFields, OwnRulesType
<1>4. /\ IF InCycle(Current) THEN Raise("CompositionError")
         ELSE Delegate([Goto("meet") EXCEPT ![Len(stack)].own = own],
                       Current.policy.parent)
      /\ Note(own)
  BY Zenon DEF RunRestricts
<1> HIDE DEF own
<1>5. /\ g \in Frame /\ Advances(Current, g) /\ g.at = "meet" /\ g.own = own
      /\ g.ctx = Current.ctx
  BY <1>1, <1>3, CurrentIs, KeptAdvances DEF Advances
<1>6. [Goto("meet") EXCEPT ![Len(stack)].own = own] = Top(g)
  BY <1>1, KeptIs
<1> HIDE DEF g
<1>7. Raised \/ CalledAs(g)
  <2>1. CASE InCycle(Current)
    BY <1>4, <2>1 DEF Raise, Raised, Error
  <2>2. CASE ~InCycle(Current)
    <3>1. Delegate(Top(g), Current.policy.parent)
      BY <1>4, <1>6, <2>2
    <3> QED
      BY <1>1, <1>3, <1>5, <3>1, DelegateIs
  <2> QED
    BY <2>1, <2>2
<1>8. MayFollow(Current.policy.parent) /\ UNCHANGED registry
  BY ComposerAssumption DEF RunRestricts, AtRules, MayFollow, ParentOf, Still
<1>9. Accounted(g)
  BY <1>1, <1>3, <1>4, <1>5, <1>6, <1>8, DelegateAccounts
<1>10. Restrained(g)
  BY <1>1, <1>3, <1>4, <1>5, <1>7, <1>9 DEF Restrained
<1> QED
  BY <1>5, <1>10 DEF PolicyStep

LEMMA IncludedIs ==
  ASSUME TypeInv, Included
  PROVE  PolicyStep
<1> DEFINE g == Bound(Current, ret)
<1>1. stack # <<>> /\ StackInv /\ Resumed /\ Current.at = "included" /\ ret \in Verdict
  BY DEF Included, Resumed, TypeInv, OutcomeInv
<1>2. Current \in Frame /\ Fit(Current) /\ Current.next <= Len(Current.policy.includes)
  BY <1>1, CurrentIs DEF Fit
<1>3. g \in Frame /\ Advances(Current, g) /\ g.at = "includes"
  BY <1>1, <1>2, BoundAdvances DEF Advances
<1>4. stack' = Top(g)
  BY <1>1, BindIs DEF Included
<1> HIDE DEF g
<1>5. WentOn(g)
  BY <1>1, <1>3, <1>4, Zenon DEF Included, WentOn
<1> QED
  BY <1>3, <1>5 DEF PolicyStep

\* Loading a file keeps the registry's type.
LEMMA IncludeKeepsHost ==
  ASSUME TypeInv, Include
  PROVE  /\ HostInv'
         /\ \A n \in Names : registry'[n] \in Catalog \cup {Absent}
<1> DEFINE ref  == Current.policy.includes[Current.next]
           load == ref.file # Absent /\ registry[ref.of] = Absent
           file == IF load THEN Files[ref.file] ELSE Unreadable
<1>1. stack # <<>> /\ StackInv /\ HostInv
  BY DEF Include, Running, TypeInv
<1>2. ref \in IncludeRef
  <2>1. Current.next \in Nat /\ Current.next >= 1 /\ Current.policy \in Catalog
    BY <1>1, CurrentIs
  <2>2. Current.policy.includes \in Seq(IncludeRef)
    BY <2>1, PolicyFields
  <2>3. Current.next \in 1..Len(Current.policy.includes)
    <3>1. Current.next <= Len(Current.policy.includes)
      BY Zenon DEF Include, PendingIncludes
    <3> QED
      BY <2>1, <2>2, <3>1
  <2> HIDE DEF IncludeRef
  <2> QED
    BY <2>2, <2>3, ElementOfSeq
<1>3. file \in {Unreadable, Malformed} \/ file \in [Names -> Catalog \cup {Absent}]
  <2>1. ref.file \in (DOMAIN Files) \cup {Absent}
    BY <1>2 DEF IncludeRef
  <2> HIDE DEF ref
  <2> QED
    BY <2>1, ComposerAssumption
<1>4. /\ registry' = IF file \in {Unreadable, Malformed} THEN registry ELSE Loaded(file)
      /\ ever' = ever \cup ({registry'[n] : n \in Names} \ {Absent})
      /\ UNCHANGED <<sets, clock, registered>>
  BY Zenon DEF Include
<1> HIDE DEF file
<1>5. registry' \in [Names -> Catalog \cup {Absent}]
  BY <1>1, <1>3, <1>4 DEF HostInv, Loaded
<1>6. ever' \subseteq Catalog
  BY <1>1, <1>4, <1>5 DEF HostInv
<1> QED
  BY <1>1, <1>4, <1>5, <1>6 DEF HostInv

LEMMA IncludeIs ==
  ASSUME TypeInv, Include
  PROVE  PolicyStep
<1> DEFINE ref  == Current.policy.includes[Current.next]
           load == ref.file # Absent /\ registry[ref.of] = Absent
           file == IF load THEN Files[ref.file] ELSE Unreadable
           g    == Moved(Current, "included")
           h    == Bound(Current, "DENY")
<1>1. /\ stack # <<>> /\ StackInv /\ Running /\ Current.at = "includes"
      /\ Current.next <= Len(Current.policy.includes)
  BY DEF Include, Running, TypeInv, PendingIncludes
<1>2. Current \in Frame /\ Fit(Current) /\ Current.chain \in SUBSET Names
  BY <1>1, CurrentIs
<1>3. /\ g \in Frame /\ Advances(Current, g) /\ g.at = "included"
      /\ g.ctx = Current.ctx
  BY <1>1, <1>2, MovedAdvances DEF Advances
<1>4. h \in Frame /\ Advances(Current, h) /\ h.at = "includes"
  BY <1>1, <1>2, BoundAdvances DEF Advances, Verdict
<1>5. Goto("included") = Top(g) /\ BindMissing(stack, ref.of) = Top(h)
  BY <1>1, GotoIs, BindIs DEF BindMissing
<1>6. /\ IF file = Malformed THEN Raise("ParseError")
         ELSE IF registry'[ref.of] = Absent
         THEN stack' = BindMissing(stack, ref.of) /\ UNCHANGED <<ret, answer>>
         ELSE CallPolicy(Goto("included"), registry'[ref.of], Current.chain, Current.ctx)
      /\ UNCHANGED least
  BY Zenon DEF Include
<1>7. registry'[ref.of] \in Catalog \cup {Absent} /\ ref.of \in Names \cap IncludesOf(Current.policy)
  <2>1. Current.next \in Nat /\ Current.next >= 1 /\ Current.policy \in Catalog
    BY <1>1, CurrentIs
  <2>2. Current.policy.includes \in Seq(IncludeRef)
    BY <2>1, PolicyFields
  <2>3. Current.next \in 1..Len(Current.policy.includes)
    BY <1>1, <2>1, <2>2
  <2>4. ref \in IncludeRef
    <3> HIDE DEF IncludeRef
    <3> QED
      BY <2>2, <2>3, ElementOfSeq
  <2>5. ref.of \in Names
    BY <2>4 DEF IncludeRef
  <2>6. ref.of \in IncludesOf(Current.policy)
    BY <2>2, <2>3 DEF IncludesOf
  <2> HIDE DEF ref
  <2> QED
    BY <2>5, <2>6, IncludeKeepsHost
<1> HIDE DEF file, g, h
<1>8. CASE file = Malformed
  <2>1. Raised /\ Accounted(g)
    BY <1>6, <1>8 DEF Raise, Raised, Error, Accounted, Excused
  <2>2. Asked(g)
    BY <1>1, <1>3, <1>6, <2>1 DEF Asked
  <2> QED
    BY <1>3, <2>2 DEF PolicyStep
<1>9. CASE file # Malformed /\ registry'[ref.of] = Absent
  <2>1. WentOn(h)
    BY <1>1, <1>4, <1>5, <1>6, <1>9, Zenon DEF WentOn
  <2> QED
    BY <1>4, <2>1 DEF PolicyStep
<1>10. CASE file # Malformed /\ registry'[ref.of] # Absent
  <2> DEFINE p == registry'[ref.of]
  <2>1. p \in Catalog
    BY <1>7, <1>10
  <2>2. CallPolicy(Top(g), p, Current.chain, Current.ctx)
    BY <1>5, <1>6, <1>10, Zenon
  <2> HIDE DEF p
  <2>3. Raised \/ CalledAs(g)
    BY <1>1, <1>2, <1>3, <2>1, <2>2, CallPolicyIs
  <2>4. Accounted(g)
    <3>1. ref.of \in Targets(g) \cap Names /\ ChainOf(g) = Current.chain
      BY <1>3, <1>7 DEF Targets, ChainOf
    <3> QED
      BY <1>1, <1>3, <1>10, <2>2, <3>1, CallAccounts DEF p
  <2>5. Asked(g)
    BY <1>1, <1>3, <1>6, <2>3, <2>4 DEF Asked
  <2> QED
    BY <1>3, <2>5 DEF PolicyStep
<1> QED
  BY <1>8, <1>9, <1>10

PolicyAction ==
  \/ WindowOpen \/ WindowClosed \/ Include \/ Included
  \/ RunAlone \/ RunExtends \/ RunRestricts \/ PassOn \/ TakeStricter

LEMMA PolicyActionIs ==
  ASSUME TypeInv, PolicyAction
  PROVE  PolicyStep /\ HostInv' /\ UNCHANGED <<sets, clock, job, registered>>
<1>1. PolicyStep
  BY WindowOpenIs, WindowClosedIs, IncludeIs, IncludedIs, RunAloneIs, RunExtendsIs,
     RunRestrictsIs, Zenon DEF PolicyAction, PolicyStep
<1>2. CASE Include
  BY <1>1, <1>2, IncludeKeepsHost, Zenon DEF Include
<1>3. CASE ~Include
  <2>1. Still
    BY <1>3, Zenon DEF PolicyAction, WindowOpen, WindowClosed, Included, RunAlone,
       RunExtends, RunRestricts, PassOn, TakeStricter
  <2>2. HostInv'
    BY <2>1 DEF Still, TypeInv, HostInv
  <2> QED
    BY <1>1, <2>1, <2>2 DEF Still
<1> QED
  BY <1>2, <1>3

\* The actions of evaluate(), and the environment's.
CallAction ==
  \/ \E n \in Names : Evaluate(n)
  \/ \E g \in DOMAIN Groups : EvaluateMember(g) \/ TakeMember(g)
  \/ FinishSet \/ FinishPolicy

HostAction ==
  \/ Tick
  \/ \E p \in Catalog : Register(p)
  \/ \E n \in Names, s \in SetCatalog : RegisterSet(n, s)

LEMMA NextCases == Next => PolicyAction \/ CallAction \/ HostAction
BY Zenon DEF Next, PolicyAction, CallAction, HostAction, EvaluateMember, TakeMember, NextMember

-----------------------------------------------------------------------------
(* Every step keeps the types                                              *)

LEMMA InitTypes == Init => TypeInv
<1> SUFFICES ASSUME Init PROVE TypeInv
  OBVIOUS
<1>1. HostInv
  <2>1. registry \in [Names -> Catalog \cup {Absent}]
    BY DEF Init
  <2>2. sets \in [Names -> SetCatalog \cup {Absent}]
    BY DEF Init
  <2> QED
    BY <2>1, <2>2, ComposerAssumption DEF Init, HostInv
<1>2. JobInv /\ OutcomeInv
  BY DEF Init, JobInv, OutcomeInv, Verdict
<1>3. StackInv
  BY ComposerAssumption DEF Init, StackInv
<1> QED
  BY <1>1, <1>2, <1>3 DEF TypeInv

LEMMA RetoppedFits ==
  ASSUME StackInv, stack # <<>>, NEW g \in Frame, Fit(g)
  PROVE  /\ Top(g) \in Seq(Frame) /\ Top(g) # <<>> /\ Retop(stack, Top(g), g)
         /\ Len(Top(g)) <= MaxDepth
         /\ \A i \in DOMAIN Top(g) : Fit(Top(g)[i])
<1>1. Top(g) \in Seq(Frame) /\ Top(g) # <<>> /\ Retop(stack, Top(g), g)
  BY Retopped DEF StackInv, Top
<1>2. DOMAIN stack = 1..Len(stack) /\ Len(stack) \in Nat
  BY DEF StackInv
<1>3. \A i \in DOMAIN Top(g) : i \in 1..(Len(stack) - 1) \/ i = Len(stack)
  BY <1>1, <1>2 DEF Retop
<1> QED
  BY <1>1, <1>2, <1>3 DEF StackInv, Retop

\* One frame alone.
LEMMA SingleFits ==
  ASSUME NEW f \in Frame, Fit(f), stack' = <<f>>
  PROVE  StackInv'
<1>1. MaxDepth \in Nat /\ 1 <= MaxDepth
  <2>1. Cardinality(Names) \in Nat
    BY ComposerAssumption, FS_CardinalityType
  <2>2. MaxDepth \in Nat /\ MaxDepth > 2 * Cardinality(Names)
    BY ComposerAssumption
  <2> QED
    BY <2>1, <2>2
<1>2. <<f>> \in Seq(Frame) /\ Len(<<f>>) = 1 /\ DOMAIN <<f>> = {1} /\ <<f>>[1] = f
  OBVIOUS
<1> QED
  BY <1>1, <1>2 DEF StackInv

LEMMA RaisedFits == Raised => StackInv'
BY ComposerAssumption DEF Raised, StackInv

LEMMA CalledFits ==
  ASSUME StackInv, NEW g \in Frame, CalledAs(g)
  PROVE  StackInv'
<1>1. stack # <<>> /\ Fit(g) /\ Len(stack) < MaxDepth
  BY DEF CalledAs, Advances
<1>2. PICK p \in Catalog, chain \in SUBSET Names :
        stack' = Append(Top(g), NewFrame(p, chain, Current.ctx))
  BY DEF CalledAs
<1> DEFINE f == NewFrame(p, chain, Current.ctx)
<1>3. f \in Frame /\ Fit(f)
  BY <1>1, CurrentIs, NewFrameType
<1> HIDE DEF f
<1>4. /\ Top(g) \in Seq(Frame) /\ Len(Top(g)) = Len(stack)
      /\ \A i \in DOMAIN Top(g) : Fit(Top(g)[i])
  BY <1>1, RetoppedFits DEF Retop
<1>5. /\ stack' \in Seq(Frame) /\ Len(stack') = Len(stack) + 1
      /\ DOMAIN stack' = 1..(Len(stack) + 1) /\ stack'[Len(stack) + 1] = f
      /\ \A i \in 1..Len(stack) : stack'[i] = Top(g)[i]
  BY <1>2, <1>3, <1>4, Pushed DEF f
<1>6. Len(stack) \in Nat /\ DOMAIN Top(g) = 1..Len(stack)
  BY <1>4 DEF StackInv
<1>7. Len(stack') <= MaxDepth
  BY <1>1, <1>5, <1>6, ComposerAssumption
<1>8. \A i \in DOMAIN stack' : i \in 1..Len(stack) \/ i = Len(stack) + 1
  BY <1>5, <1>6
<1>9. \A i \in DOMAIN stack' : Fit(stack'[i])
  BY <1>3, <1>4, <1>5, <1>6, <1>8
<1> QED
  BY <1>5, <1>7, <1>9 DEF StackInv

LEMMA DroppedFits == ASSUME StackInv, Dropped PROVE StackInv'
<1>1. /\ stack' \in Seq(Frame) /\ Len(stack') = Len(stack) - 1
      /\ Len(stack) \in Nat /\ DOMAIN stack' = 1..(Len(stack) - 1)
      /\ DOMAIN stack = 1..Len(stack)
      /\ \A i \in 1..(Len(stack) - 1) : stack'[i] = stack[i]
  BY Popped DEF Dropped, StackInv
<1>2. Len(stack') <= MaxDepth
  BY <1>1, ComposerAssumption DEF StackInv
<1>3. \A i \in DOMAIN stack' : i \in DOMAIN stack /\ stack'[i] = stack[i]
  BY <1>1
<1> QED
  BY <1>1, <1>2, <1>3 DEF StackInv

LEMMA NoteType == ASSUME OutcomeInv, NEW v \in Verdict, Note(v) PROVE least' \in Verdict
BY MeetIs DEF Note, OutcomeInv

LEMMA PolicyStepFits ==
  ASSUME TypeInv, PolicyStep
  PROVE  StackInv' /\ OutcomeInv'
<1>0. StackInv /\ OutcomeInv
  BY DEF TypeInv
<1>1. ASSUME NEW v \in Verdict, Decided(v) PROVE StackInv' /\ OutcomeInv'
  <2>1. Dropped /\ ret' = v /\ UNCHANGED answer
    BY <1>1 DEF Decided, Return, Dropped, Running
  <2>2. least' \in Verdict
    BY <1>0, <1>1, NoteType DEF Decided
  <2> QED
    BY <1>0, <2>1, <2>2, DroppedFits DEF OutcomeInv
<1>2. ASSUME NEW g \in Frame, Raised \/ CalledAs(g), least' \in Verdict
      PROVE  StackInv' /\ OutcomeInv'
  <2>1. StackInv'
    BY <1>0, <1>2, RaisedFits, CalledFits
  <2>2. ret' \in Verdict \cup {Absent} /\ answer' \in Verdict \cup Error \cup {Absent}
    BY <1>0, <1>2 DEF Raised, CalledAs, OutcomeInv
  <2> QED
    BY <1>2, <2>1, <2>2 DEF OutcomeInv
<1>3. ASSUME NEW g \in Frame, Asked(g) PROVE StackInv' /\ OutcomeInv'
  BY <1>0, <1>2, <1>3 DEF Asked, OutcomeInv
<1>4. ASSUME NEW g \in Frame, Restrained(g) PROVE StackInv' /\ OutcomeInv'
  BY <1>0, <1>2, <1>4, NoteType DEF Restrained
<1>5. ASSUME NEW g \in Frame, WentOn(g) PROVE StackInv' /\ OutcomeInv'
  <2>1. StackInv'
    BY <1>0, <1>5, RetoppedFits DEF WentOn, Advances, StackInv
  <2>2. OutcomeInv'
    BY <1>0, <1>5 DEF WentOn, OutcomeInv
  <2> QED
    BY <2>1, <2>2
<1>6. CASE PassOn
  <2>1. Dropped /\ UNCHANGED <<ret, answer, least>>
    BY <1>6 DEF PassOn, Return, Dropped, Resumed
  <2> QED
    BY <1>0, <2>1, DroppedFits DEF OutcomeInv
<1>7. CASE TakeStricter
  <2>1. /\ stack # <<>> /\ Dropped /\ UNCHANGED <<answer, least>> /\ ret \in Verdict
        /\ ret' = Meet(Current.own, ret) /\ Current.at = "meet"
    BY <1>0, <1>7 DEF TakeStricter, Return, Dropped, Resumed, Restricted, OutcomeInv
  <2>2. Current.own \in Verdict
    BY <1>0, <2>1, CurrentIs DEF Fit
  <2>3. ret' \in Verdict
    BY <2>1, <2>2, MeetIs
  <2> QED
    BY <1>0, <2>1, <2>3, DroppedFits DEF OutcomeInv
<1> QED
  BY <1>1, <1>3, <1>4, <1>5, <1>6, <1>7 DEF PolicyStep

LEMMA SetFields ==
  ASSUME NEW s \in SetCatalog
  PROVE  /\ s.groups \in Seq(Group) /\ s.default \in Verdict /\ s # Absent
BY ComposerAssumption, Zenon DEF IsSet

LEMMA JobFields ==
  ASSUME TypeInv, job # Absent
  PROVE  /\ job.name \in Names /\ job.set \in SetCatalog \cup {Absent}
         /\ job.got \in Seq(Seq(Verdict))
         /\ job.set # Absent =>
              /\ Groups \in Seq(Group) /\ DOMAIN job.got = DOMAIN Groups
              /\ \A g \in DOMAIN Groups : Groups[g] \in Group /\ job.got[g] \in Seq(Verdict)
<1>1. job \in Call
  BY DEF TypeInv, JobInv
<1>2. /\ job.name \in Names /\ job.set \in SetCatalog \cup {Absent}
      /\ job.got \in Seq(Seq(Verdict))
  BY <1>1 DEF Call
<1>3. ASSUME job.set # Absent
      PROVE  /\ Groups \in Seq(Group) /\ DOMAIN job.got = DOMAIN Groups
             /\ \A g \in DOMAIN Groups : Groups[g] \in Group /\ job.got[g] \in Seq(Verdict)
  <2>1. Groups \in Seq(Group) /\ DOMAIN job.got = DOMAIN Groups
    BY <1>2, <1>3, SetFields DEF Groups, TypeInv, JobInv
  <2>2. \A g \in DOMAIN job.got : job.got[g] \in Seq(Verdict)
    BY <1>2
  <2> HIDE DEF Group
  <2>3. \A g \in DOMAIN Groups : Groups[g] \in Group
    BY <2>1
  <2> QED
    BY <2>1, <2>2, <2>3
<1> QED
  BY <1>2, <1>3

LEMMA EvaluateFits ==
  ASSUME TypeInv, NEW n \in Names, Evaluate(n)
  PROVE  /\ JobInv' /\ StackInv' /\ OutcomeInv' /\ HostInv'
         /\ job' # Absent /\ answer' \in {answer, "CompositionError"}
         /\ UNCHANGED <<ret, least>>
<1>1. /\ HostInv /\ StackInv /\ OutcomeInv
      /\ sets[n] \in SetCatalog \cup {Absent} /\ registry[n] \in Catalog \cup {Absent}
  BY DEF TypeInv, HostInv
<1> DEFINE got == IF sets[n] = Absent THEN <<>>
                  ELSE [g \in DOMAIN sets[n].groups |-> <<>>]
<1>2. job' = [name |-> n, set |-> sets[n], got |-> got]
  BY DEF Evaluate
<1>3. got \in Seq(Seq(Verdict)) /\ (sets[n] # Absent => DOMAIN got = DOMAIN sets[n].groups)
  <2>1. CASE sets[n] = Absent
    BY <2>1
  <2>2. CASE sets[n] # Absent
    <3>1. sets[n].groups \in Seq(Group)
      BY <1>1, <2>2, SetFields
    <3>2. PICK k \in Nat : DOMAIN sets[n].groups = 1..k
      BY <3>1
    <3>3. <<>> \in Seq(Verdict)
      OBVIOUS
    <3>4. [g \in 1..k |-> <<>>] \in Seq(Seq(Verdict))
      BY <3>3, IsASeq
    <3> QED
      BY <2>2, <3>2, <3>4
  <2> QED
    BY <2>1, <2>2
<1> HIDE DEF got
<1>4. job' \in Call
  BY <1>1, <1>2, <1>3 DEF Call
<1>5. job'.set = sets[n] /\ job'.got = got
  BY <1>2
<1>6. JobInv'
  BY <1>3, <1>4, <1>5 DEF JobInv
<1>7. job' # Absent
  BY <1>4, ComposerAssumption
<1>8. StackInv' /\ answer' \in {answer, "CompositionError"} /\ UNCHANGED <<ret, least>>
  <2>1. CASE sets[n] # Absent
    BY <1>1, <2>1 DEF Evaluate, StackInv
  <2>2. CASE sets[n] = Absent /\ registry[n] # Absent
    <3>1. registry[n] \in Catalog
      BY <1>1, <2>2
    <3> DEFINE f == NewFrame(registry[n], {}, NoAliases)
    <3>2. f \in Frame /\ Fit(f)
      BY <3>1, NewFrameType, NoAliasesType
    <3>3. stack' = <<f>> /\ UNCHANGED <<ret, answer, least>>
      BY <2>2 DEF Evaluate
    <3> HIDE DEF f
    <3> QED
      BY <3>2, <3>3, SingleFits
  <2>3. CASE sets[n] = Absent /\ registry[n] = Absent
    BY <1>1, <2>3 DEF Evaluate, StackInv
  <2> QED
    BY <2>1, <2>2, <2>3
<1>9. OutcomeInv'
  BY <1>1, <1>8 DEF OutcomeInv, Error
<1>10. HostInv'
  BY <1>1 DEF Evaluate, HostInv
<1> QED
  BY <1>6, <1>7, <1>8, <1>9, <1>10

LEMMA GotType ==
  ASSUME TypeInv, job # Absent, job.set # Absent, NEW g \in DOMAIN Groups,
         NEW v \in Verdict, job' = Got(g, v)
  PROVE  /\ JobInv' /\ job' # Absent /\ job'.set = job.set /\ job'.name = job.name
<1>1. job \in Call /\ job.got \in Seq(Seq(Verdict)) /\ DOMAIN job.got = DOMAIN Groups
  BY JobFields DEF TypeInv, JobInv
<1>2. job.got[g] \in Seq(Verdict)
  BY JobFields
<1> DEFINE row == Append(job.got[g], v)
           got == [job.got EXCEPT ![g] = row]
<1>3. row \in Seq(Verdict)
  BY <1>2
<1> HIDE DEF row
<1>4. got \in Seq(Seq(Verdict)) /\ DOMAIN got = DOMAIN job.got
  BY <1>1, <1>3
<1>5. job' = [job EXCEPT !.got = got]
  BY <1>1, Zenon DEF Got, row
<1> HIDE DEF got
<1>6. job' \in Call /\ job'.set = job.set /\ job'.name = job.name /\ job'.got = got
  BY <1>1, <1>4, <1>5 DEF Call
<1>7. JobInv'
  BY <1>1, <1>4, <1>6 DEF JobInv, Groups
<1> QED
  BY <1>6, <1>7, ComposerAssumption

\* The next member of a group that is unfinished.
LEMMA MemberIsName ==
  ASSUME TypeInv, NEW g \in DOMAIN Groups, EvaluateMember(g)
  PROVE  Groups[g].members[Len(job.got[g]) + 1] \in Names
<1>1. job # Absent /\ job.set # Absent /\ Unfinished(g)
  BY DEF EvaluateMember, NextMember, Open
<1>2. Groups[g].members \in Seq(Names) /\ job.got[g] \in Seq(Verdict)
  BY <1>1, JobFields DEF Group
<1>3. Len(job.got[g]) + 1 \in 1..Len(Groups[g].members)
  BY <1>1, <1>2 DEF Unfinished
<1> QED
  BY <1>2, <1>3, ElementOfSeq

LEMMA EvaluateMemberFits ==
  ASSUME TypeInv, NEW g \in DOMAIN Groups, EvaluateMember(g)
  PROVE  /\ JobInv' /\ StackInv' /\ OutcomeInv' /\ HostInv'
         /\ job' # Absent /\ least' = "ALLOW" /\ UNCHANGED <<ret, answer>>
<1>1. /\ job # Absent /\ job.set # Absent /\ Unfinished(g) /\ stack = <<>>
      /\ UNCHANGED <<registry, sets, clock, ret, answer, registered, ever>>
      /\ least' = "ALLOW" /\ HostInv /\ OutcomeInv /\ StackInv /\ JobInv
  BY DEF EvaluateMember, NextMember, Open, TypeInv
<1> DEFINE n == Groups[g].members[Len(job.got[g]) + 1]
<1>2. n \in Names
  BY MemberIsName
<1>3. IF registry[n] = Absent
      THEN job' = Got(g, "DENY") /\ UNCHANGED stack
      ELSE stack' = <<NewFrame(registry[n], {}, NoAliases)>> /\ UNCHANGED job
  BY DEF EvaluateMember
<1> HIDE DEF n
<1>4. registry[n] \in Catalog \cup {Absent}
  BY <1>1, <1>2 DEF HostInv
<1>5. HostInv' /\ OutcomeInv'
  BY <1>1 DEF HostInv, OutcomeInv, Verdict
<1>6. CASE registry[n] = Absent
  <2>1. job' = Got(g, "DENY") /\ UNCHANGED stack
    BY <1>3, <1>6
  <2>2. JobInv' /\ job' # Absent
    BY <1>1, <2>1, GotType DEF Verdict
  <2> QED
    BY <1>1, <1>5, <2>1, <2>2 DEF StackInv
<1>7. CASE registry[n] # Absent
  <2> DEFINE f == NewFrame(registry[n], {}, NoAliases)
  <2>1. f \in Frame /\ Fit(f)
    BY <1>4, <1>7, NewFrameType, NoAliasesType
  <2>2. stack' = <<f>> /\ UNCHANGED job
    BY <1>3, <1>7
  <2> HIDE DEF f
  <2>3. StackInv'
    BY <2>1, <2>2, SingleFits
  <2> QED
    BY <1>1, <1>5, <2>2, <2>3 DEF JobInv
<1> QED
  BY <1>6, <1>7

LEMMA TakeMemberFits ==
  ASSUME TypeInv, NEW g \in DOMAIN Groups, TakeMember(g)
  PROVE  /\ JobInv' /\ StackInv' /\ OutcomeInv' /\ HostInv'
         /\ job' # Absent /\ ret' = Absent /\ UNCHANGED <<stack, answer>>
<1>1. /\ job # Absent /\ job.set # Absent /\ ret \in Verdict
      /\ job' = Got(g, ret) /\ ret' = Absent
      /\ UNCHANGED <<registry, sets, clock, stack, answer, registered, ever, least>>
      /\ HostInv /\ OutcomeInv /\ StackInv
  BY DEF TakeMember, NextMember, Open, TypeInv, OutcomeInv
<1>2. JobInv' /\ job' # Absent
  BY <1>1, GotType
<1> QED
  BY <1>1, <1>2 DEF HostInv, OutcomeInv, StackInv

\* What FinishSet computes: the strictest of the groups' verdicts.
LEMMA FinishSetIs ==
  ASSUME TypeInv, FinishSet
  PROVE  /\ answer' \in Verdict
         /\ Groups # <<>> =>
              /\ \E g \in DOMAIN Groups : answer' = Combine(Groups[g].op, job.got[g])
              /\ \A g \in DOMAIN Groups :
                   Rank[answer'] <= Rank[Combine(Groups[g].op, job.got[g])]
<1> DEFINE vs == [g \in DOMAIN Groups |-> Combine(Groups[g].op, job.got[g])]
<1>1. job # Absent /\ job.set # Absent /\ job.set \in SetCatalog
  BY JobFields DEF FinishSet, Open
<1>2. answer' = IF Groups = <<>> THEN job.set.default ELSE MeetOf(vs)
  BY DEF FinishSet
<1>3. Groups \in Seq(Group)
  BY <1>1, JobFields
<1>4. \A g \in DOMAIN Groups : Combine(Groups[g].op, job.got[g]) \in Verdict
  BY <1>1, JobFields, CombineDecides
<1>5. CASE Groups = <<>>
  BY <1>1, <1>2, <1>5, SetFields
<1>6. CASE Groups # <<>>
  <2>1. PICK k \in Nat : DOMAIN Groups = 1..k /\ 1 \in 1..k
    BY <1>3, <1>6
  <2>2. vs \in Seq(Verdict)
    BY <1>4, <2>1, IsASeq
  <2>3. vs # <<>> /\ DOMAIN vs = DOMAIN Groups
    BY <2>1
  <2>4. \A g \in DOMAIN Groups : vs[g] = Combine(Groups[g].op, job.got[g])
    OBVIOUS
  <2> HIDE DEF vs
  <2>5. /\ MeetOf(vs) \in Range(vs)
        /\ \A g \in DOMAIN vs : Rank[MeetOf(vs)] <= Rank[vs[g]]
    BY <2>2, <2>3, MeetOfIs
  <2>6. MeetOf(vs) \in Verdict /\ \E g \in DOMAIN vs : vs[g] = MeetOf(vs)
    BY <2>2, <2>5, RangeOfVerdicts
  <2> QED
    BY <1>2, <1>6, <2>3, <2>4, <2>5, <2>6
<1> QED
  BY <1>5, <1>6

LEMMA CallActionFits ==
  ASSUME TypeInv, CallAction
  PROVE  JobInv' /\ StackInv' /\ OutcomeInv' /\ HostInv'
<1>1. ASSUME NEW n \in Names, Evaluate(n)
      PROVE  JobInv' /\ StackInv' /\ OutcomeInv' /\ HostInv'
  BY <1>1, EvaluateFits
<1>2. ASSUME NEW g \in DOMAIN Groups, EvaluateMember(g) \/ TakeMember(g)
      PROVE  JobInv' /\ StackInv' /\ OutcomeInv' /\ HostInv'
  BY <1>2, EvaluateMemberFits, TakeMemberFits
<1>3. CASE FinishSet
  <2>1. answer' \in Verdict
    BY <1>3, FinishSetIs
  <2> QED
    BY <1>3, <2>1 DEF FinishSet, TypeInv, JobInv, StackInv, OutcomeInv, HostInv
<1>4. CASE FinishPolicy
  BY <1>4 DEF FinishPolicy, TypeInv, JobInv, StackInv, OutcomeInv, HostInv
<1> QED
  BY <1>1, <1>2, <1>3, <1>4 DEF CallAction

LEMMA HostActionFits ==
  ASSUME TypeInv, HostAction
  PROVE  HostInv' /\ UNCHANGED <<job, stack, ret, answer, least>>
<1>0. HostInv
  BY DEF TypeInv
<1>1. CASE Tick
  BY <1>0, <1>1, ComposerAssumption DEF Tick, HostInv
<1>2. ASSUME NEW p \in Catalog, Register(p)
      PROVE  HostInv' /\ UNCHANGED <<job, stack, ret, answer, least>>
  <2>1. registry' \in [Names -> Catalog \cup {Absent}]
    BY <1>0, <1>2 DEF Register, HostInv
  <2>2. registered' \in 0..MaxRegistered
    BY <1>0, <1>2, ComposerAssumption DEF Register, HostInv
  <2> QED
    BY <1>0, <1>2, <2>1, <2>2 DEF Register, HostInv
<1>3. ASSUME NEW n \in Names, NEW s \in SetCatalog, RegisterSet(n, s)
      PROVE  HostInv' /\ UNCHANGED <<job, stack, ret, answer, least>>
  <2>1. sets' \in [Names -> SetCatalog \cup {Absent}]
    BY <1>0, <1>3 DEF RegisterSet, HostInv
  <2>2. registered' \in 0..MaxRegistered
    BY <1>0, <1>3, ComposerAssumption DEF RegisterSet, HostInv
  <2> QED
    BY <1>0, <1>3, <2>1, <2>2 DEF RegisterSet, HostInv
<1> QED
  BY <1>1, <1>2, <1>3 DEF HostAction

LEMMA TypesKept == TypeInv /\ [Next]_vars => TypeInv'
<1> SUFFICES ASSUME TypeInv, [Next]_vars PROVE TypeInv'
  OBVIOUS
<1>1. CASE PolicyAction
  <2>1. StackInv' /\ OutcomeInv' /\ HostInv' /\ UNCHANGED job
    BY <1>1, PolicyActionIs, PolicyStepFits
  <2> QED
    BY <2>1 DEF TypeInv, JobInv
<1>2. CASE CallAction
  BY <1>2, CallActionFits DEF TypeInv
<1>3. CASE HostAction
  <2>1. HostInv' /\ UNCHANGED <<job, stack, ret, answer, least>>
    BY <1>3, HostActionFits
  <2> QED
    BY <2>1 DEF TypeInv, JobInv, StackInv, OutcomeInv
<1>4. CASE UNCHANGED vars
  BY <1>4 DEF vars, TypeInv, JobInv, StackInv, OutcomeInv, HostInv
<1> QED
  BY <1>1, <1>2, <1>3, <1>4, NextCases

\* The composer's variables keep their types, for any policies, sets and files:
\* a frame's chain holds names, and an alias is bound to a verdict.
THEOREM TypeCorrect == Spec => []TypeOK
<1>1. TypeInv => TypeOK
  BY TypesAreTypeOK
<1> QED
  BY <1>1, InitTypes, TypesKept, PTL DEF Spec

-----------------------------------------------------------------------------
(* Before a call nothing runs, and when it has ended nothing runs any more *)

LifeInv ==
  /\ job = Absent => stack = <<>> /\ ret = Absent /\ answer = Absent /\ least = "ALLOW"
  /\ answer # Absent => stack = <<>> /\ ret = Absent

LEMMA InitLife == Init => LifeInv
BY DEF Init, LifeInv

\* A step of _evaluate_policy() belongs to a call under way.
LEMMA PolicyStepIsInside ==
  ASSUME LifeInv, PolicyStep
  PROVE  stack # <<>> /\ job # Absent /\ answer = Absent
<1>1. stack # <<>>
  BY DEF PolicyStep, Decided, Asked, Restrained, WentOn, PassOn, TakeStricter, Running, Resumed
<1> QED
  BY <1>1 DEF LifeInv

LEMMA PolicyStepEnds ==
  ASSUME LifeInv, PolicyStep
  PROVE  answer' = Absent \/ (stack' = <<>> /\ ret' = Absent /\ answer' \in Error)
<1>1. answer = Absent
  BY PolicyStepIsInside
<1>2. UNCHANGED answer \/ Raised
  BY DEF PolicyStep, Decided, Asked, Restrained, WentOn, PassOn, TakeStricter, Return, CalledAs
<1> QED
  BY <1>1, <1>2 DEF Raised

LEMMA LifeKept == TypeInv /\ LifeInv /\ [Next]_vars => LifeInv'
<1> SUFFICES ASSUME TypeInv, LifeInv, [Next]_vars PROVE LifeInv'
  OBVIOUS
<1>1. CASE PolicyAction
  <2>1. PolicyStep /\ UNCHANGED job
    BY <1>1, PolicyActionIs
  <2> QED
    BY <2>1, PolicyStepIsInside, PolicyStepEnds DEF LifeInv
<1>2. ASSUME NEW n \in Names, Evaluate(n) PROVE LifeInv'
  <2>1. job = Absent /\ stack = <<>> /\ ret = Absent /\ answer = Absent
    BY <1>2 DEF Evaluate, LifeInv
  <2>2. job' # Absent /\ UNCHANGED ret /\ (answer' # Absent => stack' = stack)
    BY <1>2, <2>1, EvaluateFits DEF Evaluate
  <2> QED
    BY <2>1, <2>2 DEF LifeInv
<1>3. ASSUME NEW g \in DOMAIN Groups, EvaluateMember(g) PROVE LifeInv'
  <2>1. job' # Absent /\ UNCHANGED answer /\ answer = Absent
    BY <1>3, EvaluateMemberFits DEF EvaluateMember, NextMember, Open
  <2> QED
    BY <2>1 DEF LifeInv
<1>4. ASSUME NEW g \in DOMAIN Groups, TakeMember(g) PROVE LifeInv'
  <2>1. job' # Absent /\ UNCHANGED answer /\ answer = Absent
    BY <1>4, TakeMemberFits DEF TakeMember, NextMember, Open
  <2> QED
    BY <2>1 DEF LifeInv
<1>5. CASE FinishSet
  BY <1>5 DEF FinishSet, Open, LifeInv
<1>6. CASE FinishPolicy
  BY <1>6 DEF FinishPolicy, Open, LifeInv
<1>7. CASE HostAction
  <2>1. UNCHANGED <<job, stack, ret, answer, least>>
    BY <1>7, HostActionFits
  <2> QED
    BY <2>1 DEF LifeInv
<1>8. CASE UNCHANGED vars
  BY <1>8 DEF vars, LifeInv
<1> QED
  BY <1>1, <1>2, <1>3, <1>4, <1>5, <1>6, <1>7, <1>8, NextCases DEF CallAction

-----------------------------------------------------------------------------
(* What a policy set answers                                               *)

\* The definition's GroupAllows and GroupDenies, said of what the group got.
LEMMA GroupsSay ==
  ASSUME TypeInv, job # Absent, job.set # Absent, NEW g \in DOMAIN Groups
  PROVE  /\ GroupAllows(g) <=> Allows(Groups[g].op, job.got[g])
         /\ GroupDenies(g) <=> Denies(Groups[g].op, job.got[g])
<1>0. \A v : Votes(g, v) = VotesOf(job.got[g], v)
  BY Zenon DEF Votes, VotesOf
<1>1. Groups[g].op \in {"UNION", "INTERSECT", "MAJORITY"}
  BY JobFields DEF Group
<1>2. CASE Groups[g].op = "UNION"
  BY <1>0, <1>2 DEF GroupAllows, GroupDenies, Allows, Denies
<1>3. CASE Groups[g].op = "INTERSECT"
  BY <1>0, <1>3 DEF GroupAllows, GroupDenies, Allows, Denies
<1>4. CASE Groups[g].op = "MAJORITY"
  <2>1. GroupAllows(g) <=> Allows(Groups[g].op, job.got[g])
    <3>1. GroupAllows(g) <=> Cardinality(Votes(g, "ALLOW"))
                               > Cardinality(Votes(g, "DENY") \cup Votes(g, "ESCALATE"))
      BY <1>4 DEF GroupAllows
    <3> DEFINE got == job.got[g]
    <3>2. Allows("MAJORITY", got)
            <=> Cardinality(VotesOf(got, "ALLOW"))
                  > Cardinality(VotesOf(got, "DENY") \cup VotesOf(got, "ESCALATE"))
      BY DEF Allows
    <3>3. /\ Votes(g, "ALLOW") = VotesOf(got, "ALLOW")
          /\ Votes(g, "DENY") \cup Votes(g, "ESCALATE")
               = VotesOf(got, "DENY") \cup VotesOf(got, "ESCALATE")
      BY <1>0
    <3> HIDE DEF got
    <3>4. GroupAllows(g) <=> Allows("MAJORITY", got)
      BY <3>1, <3>2, <3>3
    <3> QED
      BY <1>4, <3>4 DEF got
  <2>2. GroupDenies(g) <=> ~GroupAllows(g)
    BY <1>4 DEF GroupDenies
  <2>3. Denies(Groups[g].op, job.got[g]) <=> ~Allows(Groups[g].op, job.got[g])
    BY <1>4 DEF Denies
  <2> QED
    BY <2>1, <2>2, <2>3
<1> QED
  BY <1>1, <1>2, <1>3, <1>4

LEMMA FinishSetDecides ==
  ASSUME TypeInv, FinishSet
  PROVE  SetDecides'
<1>1. job # Absent /\ job.set # Absent /\ UNCHANGED job
  BY DEF FinishSet, Open
<1> DEFINE of(g) == Combine(Groups[g].op, job.got[g])
<1>2. \A g \in DOMAIN Groups :
        /\ of(g) \in Verdict
        /\ of(g) = "ALLOW" <=> GroupAllows(g)
        /\ of(g) = "DENY" <=> GroupDenies(g)
  BY <1>1, JobFields, CombineDecides, GroupsSay
<1>3. answer' \in Verdict
  BY FinishSetIs
<1>4. ASSUME Groups # <<>>
      PROVE  /\ answer' = "ALLOW" <=> \A g \in DOMAIN Groups : GroupAllows(g)
             /\ answer' = "DENY" <=> \E g \in DOMAIN Groups : GroupDenies(g)
  <2>1. /\ \E g \in DOMAIN Groups : answer' = of(g)
        /\ \A g \in DOMAIN Groups : Rank[answer'] <= Rank[of(g)]
    BY <1>4, FinishSetIs
  <2> HIDE DEF of
  <2>2. answer' = "ALLOW" <=> \A g \in DOMAIN Groups : of(g) = "ALLOW"
    BY <1>2, <1>3, <2>1, RankCases DEF Verdict
  <2>3. answer' = "DENY" <=> \E g \in DOMAIN Groups : of(g) = "DENY"
    BY <1>2, <1>3, <2>1, RankCases DEF Verdict
  <2> QED
    BY <1>2, <2>2, <2>3
<1>5. Groups' = Groups /\ \A g : (GroupAllows(g)' <=> GroupAllows(g))
                                  /\ (GroupDenies(g)' <=> GroupDenies(g))
  BY <1>1, Zenon DEF Groups, GroupAllows, GroupDenies, Votes
<1> QED
  BY <1>1, <1>4, <1>5, Zenon DEF SetDecides

LEMMA SetKept ==
  ASSUME SetDecides, UNCHANGED <<job, answer>>
  PROVE  SetDecides'
<1>1. Groups' = Groups /\ \A g : (GroupAllows(g)' <=> GroupAllows(g))
                                  /\ (GroupDenies(g)' <=> GroupDenies(g))
  BY Zenon DEF Groups, GroupAllows, GroupDenies, Votes
<1> QED
  BY <1>1, Zenon DEF SetDecides

LEMMA NoVerdictYet == ASSUME answer' \notin Verdict PROVE SetDecides'
BY DEF SetDecides

LEMMA SetStep == TypeInv /\ LifeInv /\ SetDecides /\ [Next]_vars => SetDecides'
<1> SUFFICES ASSUME TypeInv, LifeInv, SetDecides, [Next]_vars PROVE SetDecides'
  OBVIOUS
<1>0. Absent \notin Verdict /\ Error \cap Verdict = {}
  BY ComposerAssumption DEF Verdict, Error
<1>1. CASE PolicyAction
  <2>1. answer' = Absent \/ answer' \in Error
    BY <1>1, PolicyActionIs, PolicyStepEnds
  <2> QED
    BY <1>0, <2>1, NoVerdictYet
<1>2. ASSUME NEW n \in Names, Evaluate(n) PROVE SetDecides'
  <2>1. answer = Absent /\ answer' \in {answer, "CompositionError"}
    BY <1>2, EvaluateFits DEF Evaluate, LifeInv
  <2> QED
    BY <1>0, <2>1, NoVerdictYet DEF Error
<1>3. ASSUME NEW g \in DOMAIN Groups, EvaluateMember(g) \/ TakeMember(g)
      PROVE  SetDecides'
  <2>1. answer' = Absent
    BY <1>3 DEF EvaluateMember, TakeMember, NextMember, Open
  <2> QED
    BY <1>0, <2>1, NoVerdictYet
<1>4. CASE FinishSet
  BY <1>4, FinishSetDecides
<1>5. CASE FinishPolicy
  <2>1. UNCHANGED job /\ job.set = Absent
    BY <1>5 DEF FinishPolicy
  <2> QED
    BY <2>1, Zenon DEF SetDecides
<1>6. CASE HostAction
  BY <1>6, HostActionFits, SetKept
<1>7. CASE UNCHANGED vars
  BY <1>7, SetKept DEF vars
<1> QED
  BY <1>1, <1>2, <1>3, <1>4, <1>5, <1>6, <1>7, NextCases DEF CallAction

\* A policy set allows exactly if each of its groups does, and denies exactly
\* if one does, whatever sets and verdicts there are (_evaluate_set()).
THEOREM SetsDecide == Spec => []SetDecides
<1>1. Init => SetDecides
  BY ComposerAssumption DEF Init, SetDecides
<1> QED
  BY <1>1, InitTypes, InitLife, TypesKept, LifeKept, SetStep, PTL DEF Spec

-----------------------------------------------------------------------------
(* Aliases: what the rules of a frame see                                  *)

Aliases(f) == {a \in Names : f.ctx[a] # Absent}
Evaluated(f) == {f.policy.includes[i].of : i \in 1..(f.next - 1)}
Inherited(s, k) == IF k = 1 THEN {} ELSE Aliases(s[k - 1])
Scoped(s) == \A k \in DOMAIN s : Aliases(s[k]) = Evaluated(s[k]) \cup Inherited(s, k)

LEMMA ScopedIs == ContextScoped <=> Scoped(stack)
BY Zenon DEF ContextScoped, Scoped, Aliases, Evaluated, Inherited

LEMMA FreshEvaluated ==
  ASSUME NEW p \in Catalog, NEW chain \in SUBSET Names, NEW ctx \in Context
  PROVE  /\ Evaluated(NewFrame(p, chain, ctx)) = {}
         /\ Aliases(NewFrame(p, chain, ctx)) = {a \in Names : ctx[a] # Absent}
<1>1. NewFrame(p, chain, ctx).next = 1 /\ NewFrame(p, chain, ctx).ctx = ctx
  BY NewFrameType
<1> QED
  BY <1>1 DEF Evaluated, Aliases

\* An INCLUDE that is bound adds its alias, and nothing else.
LEMMA AdvanceAliases ==
  ASSUME NEW f \in Frame, Fit(f), NEW g \in Frame, Advances(f, g), NEW S,
         Aliases(f) = Evaluated(f) \cup S
  PROVE  Aliases(g) = Evaluated(g) \cup S
<1>1. CASE g.ctx = f.ctx /\ g.next = f.next
  BY <1>1 DEF Aliases, Evaluated, Advances
<1>2. CASE /\ f.next <= Len(f.policy.includes) /\ g.next = f.next + 1
           /\ \E v \in Verdict : g.ctx = [f.ctx EXCEPT ![f.policy.includes[f.next].of] = v]
  <2>1. PICK v \in Verdict : g.ctx = [f.ctx EXCEPT ![f.policy.includes[f.next].of] = v]
    BY <1>2
  <2> DEFINE a == f.policy.includes[f.next].of
  <2>2. f.policy \in Catalog /\ f.ctx \in Context /\ f.next \in Nat /\ f.next >= 1
    BY FrameFields DEF Fit
  <2>3. a \in Names
    <3>1. f.policy.includes \in Seq(IncludeRef)
      BY <2>2, PolicyFields
    <3>2. f.next \in 1..Len(f.policy.includes)
      BY <1>2, <2>2, <3>1
    <3>3. f.policy.includes[f.next] \in IncludeRef
      BY <3>1, <3>2, ElementOfSeq
    <3> QED
      BY <3>3 DEF IncludeRef
  <2>4. Evaluated(g) = Evaluated(f) \cup {a}
    <3>1. g.policy = f.policy
      BY DEF Advances
    <3>2. 1..(g.next - 1) = 1..(f.next - 1) \cup {f.next}
      BY <1>2, <2>2
    <3> QED
      BY <3>1, <3>2, Zenon DEF Evaluated
  <2>5. Aliases(g) = Aliases(f) \cup {a}
    <3>1. v # Absent
      BY ComposerAssumption
    <3> HIDE DEF a
    <3>2. g.ctx = [f.ctx EXCEPT ![a] = v]
      BY <2>1 DEF a
    <3> QED
      BY <2>2, <2>3, <3>1, <3>2 DEF Aliases, Context
  <2> QED
    BY <2>4, <2>5
<1> QED
  BY <1>1, <1>2 DEF Advances

LEMMA ScopedRetopped ==
  ASSUME StackInv, stack # <<>>, Scoped(stack), NEW g \in Frame, Advances(Current, g)
  PROVE  Scoped(Top(g))
<1> DEFINE n == Len(stack)
           t == Top(g)
<1>1. /\ n \in Nat \ {0} /\ DOMAIN stack = 1..n /\ DOMAIN t = 1..n
      /\ t[n] = g /\ \A i \in 1..(n - 1) : t[i] = stack[i]
  BY RetoppedFits DEF StackInv, Retop, Advances
<1>2. Current = stack[n] /\ Current \in Frame /\ Fit(Current)
  BY CurrentIs
<1> HIDE DEF t, n
<1>3. ASSUME NEW k \in DOMAIN t
      PROVE  Aliases(t[k]) = Evaluated(t[k]) \cup Inherited(t, k)
  <2>1. Inherited(t, k) = Inherited(stack, k)
    <3>1. k = 1 \/ k - 1 \in 1..(n - 1)
      BY <1>1
    <3> QED
      BY <1>1, <3>1 DEF Inherited
  <2>2. Aliases(stack[k]) = Evaluated(stack[k]) \cup Inherited(stack, k)
    BY <1>1 DEF Scoped
  <2>3. CASE k = n
    BY <1>1, <1>2, <2>1, <2>2, <2>3, AdvanceAliases
  <2>4. CASE k # n
    <3>1. k \in 1..(n - 1)
      BY <1>1, <2>4
    <3> QED
      BY <1>1, <2>1, <2>2, <3>1
  <2> QED
    BY <2>3, <2>4
<1>4. Scoped(t)
  BY <1>3, Zenon DEF Scoped
<1> QED
  BY <1>4 DEF t

LEMMA ScopedCalled ==
  ASSUME StackInv, Scoped(stack), NEW g \in Frame, CalledAs(g)
  PROVE  Scoped(stack')
<1>1. /\ stack # <<>> /\ Advances(Current, g) /\ Fit(g) /\ g.ctx = Current.ctx
      /\ Current.ctx \in Context
  BY CurrentIs DEF CalledAs, Advances
<1>2. PICK p \in Catalog, chain \in SUBSET Names :
        stack' = Append(Top(g), NewFrame(p, chain, Current.ctx))
  BY DEF CalledAs
<1> DEFINE t == Top(g)
           n == Len(stack)
           f == NewFrame(p, chain, Current.ctx)
<1>3. t \in Seq(Frame) /\ Len(t) = n /\ t[n] = g
  BY <1>1, RetoppedFits DEF Retop
<1>4. Scoped(t)
  BY <1>1, ScopedRetopped
<1>5. f \in Frame
  BY <1>1, NewFrameType
<1>6. Evaluated(f) = {} /\ Aliases(f) = Aliases(g)
  <2>1. Evaluated(f) = {} /\ Aliases(f) = {a \in Names : Current.ctx[a] # Absent}
    BY <1>1, FreshEvaluated
  <2> HIDE DEF f
  <2> QED
    BY <1>1, <2>1 DEF Aliases
<1>7. n \in Nat \ {0} /\ DOMAIN t = 1..n
  BY <1>1, <1>3 DEF StackInv
<1> HIDE DEF t, f, n
<1>8. /\ DOMAIN stack' = 1..(n + 1) /\ stack'[n + 1] = f
      /\ \A i \in 1..n : stack'[i] = t[i]
  BY <1>2, <1>3, <1>5, Pushed DEF t, f
<1>9. ASSUME NEW k \in DOMAIN stack'
      PROVE  Aliases(stack'[k]) = Evaluated(stack'[k]) \cup Inherited(stack', k)
  <2>1. CASE k = n + 1
    <3>1. Inherited(stack', k) = Aliases(g)
      BY <1>3, <1>7, <1>8, <2>1 DEF Inherited
    <3> QED
      BY <1>6, <1>8, <2>1, <3>1
  <2>2. CASE k # n + 1
    <3>1. k \in 1..n /\ (k = 1 \/ k - 1 \in 1..n)
      BY <1>7, <1>8, <2>2
    <3>2. Inherited(stack', k) = Inherited(t, k)
      BY <1>8, <3>1 DEF Inherited
    <3>3. Aliases(t[k]) = Evaluated(t[k]) \cup Inherited(t, k)
      BY <1>4, <1>7, <3>1 DEF Scoped
    <3> QED
      BY <1>8, <3>1, <3>2, <3>3
  <2> QED
    BY <2>1, <2>2
<1> QED
  BY <1>9, Zenon DEF Scoped

LEMMA ScopedDropped ==
  ASSUME StackInv, Scoped(stack), Dropped
  PROVE  Scoped(stack')
<1> DEFINE n == Len(stack)
<1>1. /\ n \in Nat /\ DOMAIN stack' = 1..(n - 1) /\ DOMAIN stack = 1..n
      /\ \A i \in 1..(n - 1) : stack'[i] = stack[i]
  BY Popped DEF Dropped, StackInv
<1> HIDE DEF n
<1>2. ASSUME NEW k \in DOMAIN stack'
      PROVE  Aliases(stack'[k]) = Evaluated(stack'[k]) \cup Inherited(stack', k)
  <2>1. k \in DOMAIN stack /\ stack'[k] = stack[k] /\ (k = 1 \/ k - 1 \in 1..(n - 1))
    BY <1>1
  <2>2. Inherited(stack', k) = Inherited(stack, k)
    BY <1>1, <2>1 DEF Inherited
  <2> QED
    BY <2>1, <2>2 DEF Scoped
<1> QED
  BY <1>2, Zenon DEF Scoped

LEMMA ScopedEmpty == ASSUME stack' = <<>> PROVE Scoped(stack')
BY DEF Scoped

LEMMA ScopedSingle ==
  ASSUME NEW p \in Catalog, stack' = <<NewFrame(p, {}, NoAliases)>>
  PROVE  Scoped(stack')
<1> DEFINE f == NewFrame(p, {}, NoAliases)
<1>1. Evaluated(f) = {} /\ Aliases(f) = {a \in Names : NoAliases[a] # Absent}
  BY FreshEvaluated, NoAliasesType
<1>2. Aliases(f) = {}
  BY <1>1 DEF NoAliases
<1> HIDE DEF f
<1>3. DOMAIN stack' = {1} /\ stack'[1] = f
  BY DEF f
<1> QED
  BY <1>1, <1>2, <1>3 DEF Scoped, Inherited

LEMMA ScopedStep == TypeInv /\ LifeInv /\ Scoped(stack) /\ [Next]_vars => Scoped(stack')
<1> SUFFICES ASSUME TypeInv, LifeInv, Scoped(stack), [Next]_vars PROVE Scoped(stack')
  OBVIOUS
<1>0. StackInv /\ HostInv
  BY DEF TypeInv
<1>1. CASE PolicyAction
  <2>0. PolicyStep /\ stack # <<>>
    BY <1>1, PolicyActionIs, PolicyStepIsInside
  <2>1. ASSUME NEW v \in Verdict, Decided(v) PROVE Scoped(stack')
    BY <1>0, <2>0, <2>1, ScopedDropped DEF Decided, Return, Dropped
  <2>2. ASSUME NEW g \in Frame, Asked(g) \/ Restrained(g) PROVE Scoped(stack')
    BY <1>0, <2>2, ScopedCalled, ScopedEmpty DEF Asked, Restrained, Raised
  <2>3. ASSUME NEW g \in Frame, WentOn(g) PROVE Scoped(stack')
    BY <1>0, <2>3, ScopedRetopped DEF WentOn
  <2>4. CASE PassOn \/ TakeStricter
    BY <1>0, <2>0, <2>4, ScopedDropped DEF PassOn, TakeStricter, Return, Dropped
  <2> QED
    BY <2>0, <2>1, <2>2, <2>3, <2>4 DEF PolicyStep
<1>2. ASSUME NEW n \in Names, Evaluate(n) PROVE Scoped(stack')
  <2>1. \/ UNCHANGED stack
        \/ registry[n] # Absent /\ stack' = <<NewFrame(registry[n], {}, NoAliases)>>
    BY <1>2 DEF Evaluate
  <2>2. registry[n] # Absent => registry[n] \in Catalog
    BY <1>0 DEF HostInv
  <2> QED
    BY <2>1, <2>2, ScopedSingle
<1>3. ASSUME NEW g \in DOMAIN Groups, EvaluateMember(g) PROVE Scoped(stack')
  <2> DEFINE n == Groups[g].members[Len(job.got[g]) + 1]
  <2>1. \/ UNCHANGED stack
        \/ registry[n] # Absent /\ stack' = <<NewFrame(registry[n], {}, NoAliases)>>
    BY <1>3 DEF EvaluateMember
  <2>2. n \in Names
    BY <1>3, MemberIsName
  <2> HIDE DEF n
  <2>3. registry[n] # Absent => registry[n] \in Catalog
    BY <1>0, <2>2 DEF HostInv
  <2> QED
    BY <2>1, <2>3, ScopedSingle
<1>4. ASSUME NEW g \in DOMAIN Groups, TakeMember(g) PROVE Scoped(stack')
  BY <1>4, TakeMemberFits
<1>5. CASE FinishSet \/ FinishPolicy
  BY <1>5 DEF FinishSet, FinishPolicy
<1>6. CASE HostAction
  BY <1>6, HostActionFits
<1>7. CASE UNCHANGED vars
  BY <1>7 DEF vars
<1> QED
  BY <1>1, <1>2, <1>3, <1>4, <1>5, <1>6, <1>7, NextCases DEF CallAction

\* The rules of a policy see the INCLUDEs of their own policy that were
\* evaluated and those of its callers, and none of an included policy's own,
\* however deep policies include, extend and revert to each other.
THEOREM ContextsAreScoped == Spec => []ContextScoped
<1> DEFINE IInv == TypeInv /\ LifeInv /\ Scoped(stack)
<1>1. Init => IInv
  <2>1. Init => Scoped(stack)
    BY DEF Init, Scoped
  <2> QED
    BY <2>1, InitTypes, InitLife
<1>2. IInv /\ [Next]_vars => IInv'
  BY TypesKept, LifeKept, ScopedStep DEF Scoped
<1>3. IInv => ContextScoped
  BY ScopedIs
<1> QED
  BY <1>1, <1>2, <1>3, PTL DEF Spec

-----------------------------------------------------------------------------
(* The strictest verdict of the path decides                               *)

\* No INCLUDE waits among the first n frames.
Clear(s, n) == \A i \in 1..n : s[i].at # "included"
\* What the RESTRICTS policies of the path, not of an INCLUDE, keep.
Owed(s) == {s[k].own : k \in {k \in DOMAIN s : s[k].at = "meet" /\ Clear(s, k - 1)}}

\* v is the strictest of S, or ALLOW if nothing in S is stricter.
IsMeet(v, S) == v \in S \cup {"ALLOW"} /\ \A w \in S : Rank[v] <= Rank[w]

PathInv ==
  /\ ret # Absent /\ Clear(stack, Len(stack)) => IsMeet(least, Owed(stack) \cup {ret})
  /\ (ret = Absent \/ ~Clear(stack, Len(stack))) /\ stack # <<>>
       => IsMeet(least, Owed(stack))

LEMMA MeetAdds ==
  ASSUME NEW v \in Verdict, NEW w \in Verdict, NEW S \in SUBSET Verdict, IsMeet(v, S)
  PROVE  IsMeet(Meet(v, w), S \cup {w})
<1>1. /\ Meet(v, w) \in {v, w} /\ Meet(v, w) \in Verdict
      /\ Rank[Meet(v, w)] <= Rank[v] /\ Rank[Meet(v, w)] <= Rank[w]
  BY MeetIs
<1>2. ASSUME NEW u \in S PROVE Rank[Meet(v, w)] <= Rank[u]
  BY <1>1, RankOrders DEF IsMeet
<1>3. Meet(v, w) \in S \cup {w} \cup {"ALLOW"}
  BY <1>1 DEF IsMeet
<1> QED
  BY <1>1, <1>2, <1>3 DEF IsMeet

\* Two verdicts may be replaced by their meet.
LEMMA MeetMerges ==
  ASSUME NEW v \in Verdict, NEW a \in Verdict, NEW b \in Verdict,
         NEW S \in SUBSET Verdict, IsMeet(v, S \cup {a} \cup {b})
  PROVE  IsMeet(v, S \cup {Meet(a, b)})
<1>1. /\ Meet(a, b) \in {a, b} /\ Meet(a, b) \in Verdict
      /\ Rank[Meet(a, b)] <= Rank[a] /\ Rank[Meet(a, b)] <= Rank[b]
  BY MeetIs
<1>2. \A w \in S \cup {a} \cup {b} : Rank[v] <= Rank[w]
  BY DEF IsMeet
<1>3. v \in S \cup {a} \cup {b} \cup {"ALLOW"}
  BY DEF IsMeet
<1>4. \A w \in S \cup {Meet(a, b)} : Rank[v] <= Rank[w]
  BY <1>1, <1>2
<1>5. CASE v \in {a, b}
  <2>1. Rank[Meet(a, b)] <= Rank[v] /\ Rank[v] <= Rank[Meet(a, b)]
    BY <1>1, <1>4, <1>5
  <2>2. v = Meet(a, b)
    BY <1>1, <2>1, RankOrders
  <2> QED
    BY <1>4, <2>2 DEF IsMeet
<1>6. CASE v \notin {a, b}
  BY <1>3, <1>4, <1>6 DEF IsMeet
<1> QED
  BY <1>5, <1>6

\* What a frame on top adds.
LEMMA OwedOfTop ==
  ASSUME NEW s \in Seq(Frame), NEW t \in Seq(Frame), Len(s) = Len(t) + 1,
         \A i \in 1..Len(t) : s[i] = t[i]
  PROVE  /\ Owed(s) = Owed(t) \cup IF s[Len(s)].at = "meet" /\ Clear(t, Len(t))
                                   THEN {s[Len(s)].own} ELSE {}
         /\ Clear(s, Len(s)) <=> Clear(t, Len(t)) /\ s[Len(s)].at # "included"
         /\ Clear(s, Len(s) - 1) <=> Clear(t, Len(t))
<1> DEFINE n == Len(t)
<1>1. n \in Nat /\ Len(s) = n + 1 /\ DOMAIN s = 1..(n + 1) /\ DOMAIN t = 1..n
  OBVIOUS
<1>2. \A k \in 1..(n + 1) : Clear(s, k - 1) <=> Clear(t, k - 1)
  BY <1>1 DEF Clear
<1>3. Clear(s, n) <=> Clear(t, n)
  BY <1>1 DEF Clear
<1>4. Clear(s, n + 1) <=> Clear(t, n) /\ s[n + 1].at # "included"
  <2>1. \A i \in 1..(n + 1) : i \in 1..n \/ i = n + 1
    BY <1>1
  <2>2. n + 1 \in 1..(n + 1) /\ \A i \in 1..n : i \in 1..(n + 1)
    BY <1>1
  <2> QED
    BY <1>1, <1>3, <2>1, <2>2 DEF Clear
<1> DEFINE K(r) == {k \in DOMAIN r : r[k].at = "meet" /\ Clear(r, k - 1)}
           extra == IF s[n + 1].at = "meet" /\ Clear(t, n) THEN {n + 1} ELSE {}
<1>5. K(s) = K(t) \cup extra
  <2>1. \A k \in DOMAIN t : k \in DOMAIN s /\ s[k] = t[k] /\ (Clear(s, k - 1) <=> Clear(t, k - 1))
    BY <1>1, <1>2
  <2>2. \A k \in DOMAIN s : k \in DOMAIN t \/ k = n + 1
    BY <1>1
  <2>3. Clear(s, (n + 1) - 1) <=> Clear(t, n)
    BY <1>1, <1>3
  <2>4. n + 1 \in DOMAIN s /\ n + 1 \notin DOMAIN t
    BY <1>1
  <2> QED
    BY <2>1, <2>2, <2>3, <2>4
<1>6. \A k \in K(t) : s[k].own = t[k].own
  BY <1>1
<1>7. Owed(s) = {s[k].own : k \in K(s)} /\ Owed(t) = {t[k].own : k \in K(t)}
  BY Zenon DEF Owed
<1> HIDE DEF K
<1>8. Owed(s) = Owed(t) \cup IF s[n + 1].at = "meet" /\ Clear(t, n)
                             THEN {s[n + 1].own} ELSE {}
  <2>1. {s[k].own : k \in K(t)} = Owed(t)
    BY <1>6, <1>7
  <2>2. CASE s[n + 1].at = "meet" /\ Clear(t, n)
    BY <1>5, <1>7, <2>1, <2>2
  <2>3. CASE ~(s[n + 1].at = "meet" /\ Clear(t, n))
    BY <1>5, <1>7, <2>1, <2>3
  <2> QED
    BY <2>2, <2>3
<1> QED
  BY <1>1, <1>3, <1>4, <1>8

LEMMA OwedType ==
  ASSUME NEW s \in Seq(Frame), \A i \in DOMAIN s : Fit(s[i])
  PROVE  Owed(s) \in SUBSET Verdict
BY DEF Owed, Fit

LEMMA OwedByNone == ASSUME NEW s, s = <<>> PROVE Owed(s) = {} /\ Clear(s, Len(s))
BY DEF Owed, Clear

\* The frames below the running one: what they keep, and whether all of them
\* are on the path.
Below == Owed(Front(stack))
OnPath == Clear(Front(stack), Len(Front(stack)))

LEMMA BelowIs ==
  ASSUME StackInv, stack # <<>>
  PROVE  /\ Below \in SUBSET Verdict
         /\ OnSpine <=> OnPath
         /\ Clear(stack, Len(stack)) <=> OnPath /\ Current.at # "included"
         /\ Current.at # "meet" => Owed(stack) = Below
         /\ Current.at = "meet" /\ OnPath => Owed(stack) = Below \cup {Current.own}
         /\ ~OnPath => Owed(stack) = Below
<1> DEFINE t == Front(stack)
           n == Len(stack)
<1>1. /\ t \in Seq(Frame) /\ Len(t) = n - 1 /\ n \in Nat \ {0}
      /\ DOMAIN t = 1..(n - 1) /\ DOMAIN stack = 1..n /\ stack[n] = Current
      /\ \A i \in 1..(n - 1) : t[i] = stack[i]
  BY Popped, CurrentIs DEF StackInv
<1>2. \A i \in DOMAIN t : Fit(t[i])
  BY <1>1 DEF StackInv
<1> HIDE DEF t
<1>3. n = Len(t) + 1 /\ \A i \in 1..Len(t) : stack[i] = t[i]
  BY <1>1
<1>4. /\ Owed(stack) = Owed(t) \cup IF Current.at = "meet" /\ Clear(t, Len(t))
                                    THEN {Current.own} ELSE {}
      /\ Clear(stack, n) <=> Clear(t, Len(t)) /\ Current.at # "included"
      /\ Clear(stack, n - 1) <=> Clear(t, Len(t))
  BY <1>1, <1>3, OwedOfTop DEF StackInv
<1>5. OnSpine <=> Clear(stack, n - 1)
  BY DEF OnSpine, Clear
<1>6. Owed(t) \in SUBSET Verdict
  BY <1>1, <1>2, OwedType
<1> QED
  BY <1>4, <1>5, <1>6 DEF Below, OnPath, t

\* The running frame goes on as g.
LEMMA OwedRetopped ==
  ASSUME StackInv, stack # <<>>, NEW g \in Frame, Fit(g)
  PROVE  /\ g.at # "meet" => Owed(Top(g)) = Below
         /\ g.at = "meet" /\ OnPath => Owed(Top(g)) = Below \cup {g.own}
         /\ ~OnPath => Owed(Top(g)) = Below
<1> DEFINE t == Front(stack)
           n == Len(stack)
           s == Top(g)
<1>1. /\ t \in Seq(Frame) /\ Len(t) = n - 1 /\ n \in Nat \ {0}
      /\ \A i \in 1..(n - 1) : t[i] = stack[i]
  BY Popped DEF StackInv
<1>2. s \in Seq(Frame) /\ Len(s) = n /\ s[n] = g /\ \A i \in 1..(n - 1) : s[i] = stack[i]
  BY RetoppedFits DEF Retop
<1> HIDE DEF s, t, n
<1>3. Len(s) = Len(t) + 1 /\ \A i \in 1..Len(t) : s[i] = t[i]
  BY <1>1, <1>2
<1>4. Owed(s) = Owed(t) \cup IF g.at = "meet" /\ Clear(t, Len(t)) THEN {g.own} ELSE {}
  BY <1>1, <1>2, <1>3, OwedOfTop
<1> QED
  BY <1>4 DEF Below, OnPath, s, t

LEMMA OwedCalled ==
  ASSUME StackInv, NEW g \in Frame, CalledAs(g)
  PROVE  Owed(stack') = Owed(Top(g)) /\ stack # <<>> /\ Fit(g)
<1>1. stack # <<>> /\ Fit(g)
  BY DEF CalledAs, Advances
<1>2. PICK p \in Catalog, chain \in SUBSET Names :
        stack' = Append(Top(g), NewFrame(p, chain, Current.ctx))
  BY DEF CalledAs
<1> DEFINE t == Top(g)
           f == NewFrame(p, chain, Current.ctx)
<1>3. f \in Frame /\ f.at = "window"
  BY <1>1, CurrentIs, NewFrameType
<1>4. t \in Seq(Frame)
  BY <1>1, RetoppedFits
<1> HIDE DEF t, f
<1>5. /\ stack' \in Seq(Frame) /\ Len(stack') = Len(t) + 1
      /\ stack'[Len(t) + 1] = f /\ \A i \in 1..Len(t) : stack'[i] = t[i]
  BY <1>2, <1>3, <1>4, Pushed DEF t, f
<1>6. Owed(stack') = Owed(t) \cup IF f.at = "meet" /\ Clear(t, Len(t)) THEN {f.own} ELSE {}
  BY <1>4, <1>5, OwedOfTop
<1> QED
  BY <1>1, <1>3, <1>6 DEF t

LEMMA OwedSingle ==
  ASSUME NEW p \in Catalog, stack' = <<NewFrame(p, {}, NoAliases)>>
  PROVE  Owed(stack') = {}
<1> DEFINE f == NewFrame(p, {}, NoAliases)
<1>1. f.at = "window"
  BY NewFrameType, NoAliasesType
<1> HIDE DEF f
<1>2. DOMAIN stack' = {1} /\ stack'[1] = f
  BY DEF f
<1> QED
  BY <1>1, <1>2 DEF Owed

LEMMA PathPolicyStep ==
  ASSUME TypeInv, LifeInv, PathInv, PolicyStep
  PROVE  PathInv'
<1>0. /\ StackInv /\ stack # <<>> /\ least \in Verdict /\ Below \in SUBSET Verdict
      /\ ret \in Verdict \cup {Absent} /\ Absent \notin Verdict
  BY PolicyStepIsInside, BelowIs, ComposerAssumption DEF TypeInv, OutcomeInv
<1>a. Running /\ Current.at \in {"window", "includes"} => IsMeet(least, Below)
  BY <1>0, BelowIs DEF PathInv, Running
<1>1. ASSUME NEW v \in Verdict, Decided(v) PROVE PathInv'
  <2>1. stack' = Front(stack) /\ ret' = v /\ Note(v) /\ IsMeet(least, Below)
    BY <1>1, <1>a DEF Decided, Return
  <2>2. Owed(stack') = Below /\ (Clear(stack', Len(stack')) <=> OnPath)
    BY <2>1 DEF Below, OnPath
  <2>3. CASE OnPath
    <3>1. IsMeet(least', Below \cup {v})
      BY <1>0, <2>1, <2>3, BelowIs, MeetAdds DEF Note
    <3> QED
      BY <1>0, <2>1, <2>2, <2>3, <3>1 DEF PathInv
  <2>4. CASE ~OnPath
    <3>1. least' = least
      BY <1>0, <2>1, <2>4, BelowIs DEF Note
    <3> QED
      BY <2>1, <2>2, <2>4, <3>1 DEF PathInv
  <2> QED
    BY <2>3, <2>4
<1>2. CASE Raised
  BY <1>2 DEF Raised, PathInv
<1>3. ASSUME NEW g \in Frame, Running, CalledAs(g), IsMeet(least', Owed(Top(g)))
      PROVE  PathInv'
  <2>1. ret' = Absent /\ Owed(stack') = Owed(Top(g))
    BY <1>0, <1>3, OwedCalled DEF CalledAs, Running
  <2> QED
    BY <1>3, <2>1 DEF PathInv
<1>4. ASSUME NEW g \in Frame, Asked(g) PROVE PathInv'
  <2>1. CASE CalledAs(g)
    <3>1. Fit(g) /\ g.at # "meet" /\ least' = least /\ Running
      BY <1>0, <1>4, <2>1, OwedCalled DEF Asked
    <3>2. Owed(Top(g)) = Below
      BY <1>0, <3>1, OwedRetopped
    <3>3. IsMeet(least', Owed(Top(g)))
      BY <1>4, <1>a, <3>1, <3>2 DEF Asked
    <3> QED
      BY <1>3, <2>1, <3>1, <3>3
  <2> QED
    BY <1>2, <1>4, <2>1 DEF Asked
<1>5. ASSUME NEW g \in Frame, Restrained(g) PROVE PathInv'
  <2>1. CASE CalledAs(g)
    <3>1. /\ Fit(g) /\ g.at = "meet" /\ g.own \in Verdict /\ Note(g.own) /\ Running
          /\ IsMeet(least, Below)
      BY <1>0, <1>5, <1>a, <2>1, OwedCalled DEF Restrained
    <3>2. CASE OnPath
      <4>1. Owed(Top(g)) = Below \cup {g.own}
        BY <1>0, <3>1, <3>2, OwedRetopped
      <4>2. IsMeet(least', Owed(Top(g)))
        BY <1>0, <3>1, <3>2, <4>1, BelowIs, MeetAdds DEF Note
      <4> QED
        BY <1>3, <2>1, <3>1, <4>2
    <3>3. CASE ~OnPath
      <4>1. Owed(Top(g)) = Below /\ least' = least
        BY <1>0, <3>1, <3>3, OwedRetopped, BelowIs DEF Note
      <4> QED
        BY <1>3, <2>1, <3>1, <4>1
    <3> QED
      BY <3>2, <3>3
  <2> QED
    BY <1>2, <1>5, <2>1 DEF Restrained
<1>6. ASSUME NEW g \in Frame, WentOn(g) PROVE PathInv'
  <2>1. Fit(g) /\ g.at # "meet" /\ stack' = Top(g) /\ least' = least /\ ret' = Absent
    BY <1>6 DEF WentOn, Advances, Running
  <2>2. IsMeet(least, Below)
    <3>1. CASE Running /\ Current.at \in {"window", "includes"}
      BY <1>a, <3>1
    <3>2. CASE Resumed /\ Current.at = "included"
      BY <1>0, <3>2, BelowIs DEF PathInv, Resumed
    <3> QED
      BY <1>6, <3>1, <3>2 DEF WentOn
  <2>3. Owed(stack') = Below
    BY <1>0, <2>1, OwedRetopped
  <2> QED
    BY <2>1, <2>2, <2>3 DEF PathInv
<1>7. ASSUME Resumed, Current.at \in {"pass", "meet"}, stack' = Front(stack),
             NEW v \in Verdict, ret' = v, UNCHANGED least,
             OnPath => IsMeet(least, Below \cup {v}), ~OnPath => IsMeet(least, Below)
      PROVE  PathInv'
  <2>1. Owed(stack') = Below /\ (Clear(stack', Len(stack')) <=> OnPath)
    BY <1>7 DEF Below, OnPath
  <2> QED
    BY <1>0, <1>7, <2>1 DEF PathInv
<1>8. CASE PassOn
  <2>1. /\ Resumed /\ Current.at = "pass" /\ stack' = Front(stack) /\ ret' = ret
        /\ UNCHANGED least /\ ret \in Verdict
    BY <1>0, <1>8 DEF PassOn, Return, Resumed
  <2>2. /\ OnPath => IsMeet(least, Below \cup {ret})
        /\ ~OnPath => IsMeet(least, Below)
    BY <1>0, <2>1, BelowIs DEF PathInv
  <2> QED
    BY <1>7, <2>1, <2>2
<1>9. CASE TakeStricter
  <2> DEFINE own == Current.own
             v == Meet(own, ret)
  <2>1. /\ Resumed /\ Current.at = "meet" /\ stack' = Front(stack) /\ ret' = v
        /\ UNCHANGED least /\ ret \in Verdict
    BY <1>0, <1>9 DEF TakeStricter, Return, Resumed, Restricted
  <2>2. own \in Verdict
    BY <1>0, <2>1, CurrentIs DEF Fit
  <2>3. v \in Verdict
    BY <2>1, <2>2, MeetIs
  <2>4. OnPath => IsMeet(least, Below \cup {own} \cup {ret})
    BY <1>0, <2>1, BelowIs DEF PathInv
  <2>5. ~OnPath => IsMeet(least, Below)
    BY <1>0, <2>1, BelowIs DEF PathInv
  <2> HIDE DEF own
  <2>6. OnPath => IsMeet(least, Below \cup {v})
    BY <1>0, <2>1, <2>2, <2>4, MeetMerges
  <2> HIDE DEF v
  <2> QED
    BY <1>7, <2>1, <2>3, <2>5, <2>6
<1> QED
  BY <1>1, <1>4, <1>5, <1>6, <1>8, <1>9 DEF PolicyStep

LEMMA AllowIsMeet == IsMeet("ALLOW", {})
BY DEF IsMeet

\* A call of one policy starts with nothing decided.
LEMMA PathStarts ==
  ASSUME ret' = Absent, stack' # <<>> => least' = "ALLOW" /\ Owed(stack') = {}
  PROVE  PathInv'
BY AllowIsMeet DEF PathInv

LEMMA PathStep == TypeInv /\ LifeInv /\ PathInv /\ [Next]_vars => PathInv'
<1> SUFFICES ASSUME TypeInv, LifeInv, PathInv, [Next]_vars PROVE PathInv'
  OBVIOUS
<1>0. HostInv
  BY DEF TypeInv
<1>1. CASE PolicyAction
  BY <1>1, PolicyActionIs, PathPolicyStep
<1>2. ASSUME NEW n \in Names, Evaluate(n) PROVE PathInv'
  <2>1. /\ stack = <<>> /\ ret' = Absent /\ least' = "ALLOW"
        /\ \/ UNCHANGED stack
           \/ registry[n] # Absent /\ stack' = <<NewFrame(registry[n], {}, NoAliases)>>
    BY <1>2 DEF Evaluate, LifeInv
  <2>2. registry[n] # Absent => registry[n] \in Catalog
    BY <1>0, <1>2 DEF HostInv
  <2> QED
    BY <2>1, <2>2, OwedSingle, PathStarts
<1>3. ASSUME NEW g \in DOMAIN Groups, EvaluateMember(g) PROVE PathInv'
  <2> DEFINE n == Groups[g].members[Len(job.got[g]) + 1]
  <2>1. /\ stack = <<>> /\ ret' = Absent /\ least' = "ALLOW"
        /\ \/ UNCHANGED stack
           \/ registry[n] # Absent /\ stack' = <<NewFrame(registry[n], {}, NoAliases)>>
    BY <1>3 DEF EvaluateMember, NextMember
  <2>2. n \in Names
    BY <1>3, MemberIsName
  <2> HIDE DEF n
  <2>3. registry[n] # Absent => registry[n] \in Catalog
    BY <1>0, <2>2 DEF HostInv
  <2> QED
    BY <2>1, <2>3, OwedSingle, PathStarts
<1>4. ASSUME NEW g \in DOMAIN Groups, TakeMember(g) PROVE PathInv'
  BY <1>4, PathStarts DEF TakeMember, NextMember
<1>5. CASE FinishSet \/ FinishPolicy
  BY <1>5, PathStarts DEF FinishSet, FinishPolicy
<1>6. CASE HostAction
  <2>1. UNCHANGED <<stack, ret, least>>
    BY <1>6, HostActionFits
  <2> QED
    BY <2>1 DEF PathInv
<1>7. CASE UNCHANGED vars
  BY <1>7 DEF vars, PathInv
<1> QED
  BY <1>1, <1>2, <1>3, <1>4, <1>5, <1>6, <1>7, NextCases DEF CallAction

LEMMA PathInvDecides ==
  ASSUME TypeInv, PathInv
  PROVE  PathDecides
<1> SUFFICES ASSUME stack = <<>>, ret # Absent PROVE ret = least
  BY DEF PathDecides
<1>1. ret \in Verdict /\ least \in Verdict
  BY DEF TypeInv, OutcomeInv
<1>2. IsMeet(least, {ret})
  BY OwedByNone DEF PathInv
<1>3. least \in {ret, "ALLOW"} /\ Rank[least] <= Rank[ret]
  BY <1>2 DEF IsMeet
<1> QED
  BY <1>1, <1>3, RankOrders

\* A policy's verdict is the strictest of what the RESTRICTS policies on its
\* path and the last policy of the path decide, whatever policies are included,
\* registered or expire meanwhile (_evaluate_restricts() and its callers).
THEOREM PathsDecide == Spec => []PathDecides
<1> DEFINE IInv == TypeInv /\ LifeInv /\ PathInv
<1>1. Init => IInv
  <2>1. Init => PathInv
    BY DEF Init, PathInv
  <2> QED
    BY <2>1, InitTypes, InitLife
<1>2. IInv /\ [Next]_vars => IInv'
  BY TypesKept, LifeKept, PathStep
<1>3. IInv => PathDecides
  BY PathInvDecides
<1> QED
  BY <1>1, <1>2, <1>3, PTL DEF Spec

-----------------------------------------------------------------------------
(* References: what is reached, and what a stack of calls says of it       *)

\* v is reached from u by the references in R.
Reach(R, u, v) ==
  \A S \in SUBSET Names : u \in S /\ (\A e \in R : e[1] \in S => e[2] \in S) => v \in S

LEMMA ReachesIs == \A u, v : Reaches(u, v) <=> Reach(IncludeRefs \cup ChainRefs, u, v)
BY Zenon DEF Reaches, Reach

LEMMA ReachSelf == ASSUME NEW R, NEW u PROVE Reach(R, u, u)
BY DEF Reach

LEMMA ReachOn ==
  ASSUME NEW R, NEW u, NEW v, NEW w, Reach(R, u, v), <<v, w>> \in R
  PROVE  Reach(R, u, w)
<1> SUFFICES ASSUME NEW S \in SUBSET Names, u \in S,
                    \A e \in R : e[1] \in S => e[2] \in S
             PROVE  w \in S
  BY DEF Reach
<1>1. v \in S
  BY DEF Reach
<1>2. <<v, w>>[1] \in S => <<v, w>>[2] \in S
  BY Zenon
<1> QED
  BY <1>1, <1>2

LEMMA ReachGrows ==
  ASSUME NEW R, NEW Q, R \subseteq Q, NEW u, NEW v, Reach(R, u, v)
  PROVE  Reach(Q, u, v)
BY Zenon DEF Reach

NameOf(f) == f.policy.name
Waits == {"included", "pass", "meet"}

\* Frame i of the stack s: it may only have handed over if no frame before it
\* had under its name; a name in its chain refers to what leads to it.
ChainTrue(s, i, R, C) ==
  /\ s[i].at \in {"pass", "meet"} => NameOf(s[i]) \notin s[i].chain
  /\ \A u \in s[i].chain : \E w : <<u, w>> \in C /\ Reach(R, w, NameOf(s[i]))

\* Frame i waits for what leads to frame j.
LeadsTo(s, i, j, R, I) ==
  /\ s[i].at \in Waits
  /\ s[i].at \in {"pass", "meet"} => NameOf(s[i]) \in s[j].chain
  /\ s[i].at = "included" => \E w : <<NameOf(s[i]), w>> \in I /\ Reach(R, w, NameOf(s[j]))

\* I and C are the references of INCLUDEs and of the others.
Chained(s, I, C) ==
  \A j \in DOMAIN s : /\ ChainTrue(s, j, I \cup C, C)
                      /\ \A i \in 1..(j - 1) : LeadsTo(s, i, j, I \cup C, I)

LEMMA ChainedGrows ==
  ASSUME NEW s, NEW I, NEW C, NEW J, NEW D, I \subseteq J, C \subseteq D, Chained(s, I, C)
  PROVE  Chained(s, J, D)
<1>1. \A u, v : Reach(I \cup C, u, v) => Reach(J \cup D, u, v)
  <2>1. I \cup C \subseteq J \cup D
    OBVIOUS
  <2> QED
    BY <2>1, ReachGrows
<1>2. ASSUME NEW j \in DOMAIN s PROVE ChainTrue(s, j, J \cup D, D)
  BY <1>1 DEF Chained, ChainTrue
<1>3. ASSUME NEW j \in DOMAIN s, NEW i \in 1..(j - 1)
      PROVE  LeadsTo(s, i, j, J \cup D, J)
  <2>1. LeadsTo(s, i, j, I \cup C, I)
    BY DEF Chained
  <2> QED
    BY <1>1, <2>1 DEF LeadsTo
<1> QED
  BY <1>2, <1>3 DEF Chained

LEMMA ChainedDropped ==
  ASSUME NEW I, NEW C, StackInv, Dropped, Chained(stack, I, C)
  PROVE  Chained(stack', I, C)
<1> DEFINE n == Len(stack)
<1>1. /\ n \in Nat /\ DOMAIN stack' = 1..(n - 1) /\ DOMAIN stack = 1..n
      /\ \A i \in 1..(n - 1) : stack'[i] = stack[i]
  BY Popped DEF Dropped, StackInv
<1> HIDE DEF n
<1>2. ASSUME NEW j \in DOMAIN stack' PROVE ChainTrue(stack', j, I \cup C, C)
  <2>1. j \in DOMAIN stack /\ stack'[j] = stack[j]
    BY <1>1
  <2>2. ChainTrue(stack, j, I \cup C, C)
    BY <2>1, Zenon DEF Chained
  <2> QED
    BY <2>1, <2>2 DEF ChainTrue
<1>3. ASSUME NEW j \in DOMAIN stack', NEW i \in 1..(j - 1)
      PROVE  LeadsTo(stack', i, j, I \cup C, I)
  <2>1. j \in DOMAIN stack /\ i \in 1..(n - 1)
    BY <1>1
  <2>2. stack'[j] = stack[j] /\ stack'[i] = stack[i]
    BY <1>1, <2>1
  <2>3. LeadsTo(stack, i, j, I \cup C, I)
    BY <2>1, Zenon DEF Chained
  <2> QED
    BY <2>2, <2>3 DEF LeadsTo
<1> QED
  BY <1>2, <1>3 DEF Chained

LEMMA ChainedRetopped ==
  ASSUME NEW I, NEW C, StackInv, stack # <<>>, Chained(stack, I, C),
         NEW g \in Frame, Advances(Current, g),
         g.at \in {"pass", "meet"} => ~InCycle(Current)
  PROVE  Chained(Top(g), I, C)
<1> DEFINE n == Len(stack)
           t == Top(g)
<1>1. /\ n \in Nat \ {0} /\ DOMAIN stack = 1..n /\ DOMAIN t = 1..n
      /\ t[n] = g /\ \A i \in 1..(n - 1) : t[i] = stack[i]
  BY RetoppedFits DEF StackInv, Retop, Advances
<1>2. /\ stack[n] = Current /\ NameOf(g) = NameOf(stack[n]) /\ g.chain = stack[n].chain
      /\ g.at \in {"pass", "meet"} => NameOf(g) \notin g.chain
  BY CurrentIs DEF Advances, NameOf, InCycle
<1> HIDE DEF t, n
<1>3. ASSUME NEW j \in DOMAIN t PROVE ChainTrue(t, j, I \cup C, C)
  <2>1. ChainTrue(stack, j, I \cup C, C)
    BY <1>1 DEF Chained
  <2>2. CASE j = n
    BY <1>1, <1>2, <2>1, <2>2 DEF ChainTrue
  <2>3. CASE j # n
    <3>1. t[j] = stack[j]
      BY <1>1, <2>3
    <3> QED
      BY <2>1, <3>1 DEF ChainTrue
  <2> QED
    BY <2>2, <2>3
<1>4. ASSUME NEW j \in DOMAIN t, NEW i \in 1..(j - 1)
      PROVE  LeadsTo(t, i, j, I \cup C, I)
  <2>1. j \in DOMAIN stack /\ i \in 1..(n - 1)
    BY <1>1
  <2>2. LeadsTo(stack, i, j, I \cup C, I)
    BY <2>1, Zenon DEF Chained
  <2>3. t[i] = stack[i]
    BY <1>1, <2>1
  <2>4. NameOf(t[j]) = NameOf(stack[j]) /\ t[j].chain = stack[j].chain
    BY <1>1, <1>2
  <2> QED
    BY <2>2, <2>3, <2>4 DEF LeadsTo
<1> QED
  BY <1>3, <1>4, Zenon DEF Chained, t

\* The call of f: by an INCLUDE, or with the caller's name in its chain.
LEMMA ChainedPushed ==
  ASSUME NEW I, NEW C, NEW s \in Seq(Frame), s # <<>>, Chained(s, I, C),
         NEW f \in Frame, f.at = "window",
         LET t == s[Len(s)] IN
           \/ t.at = "included" /\ f.chain = t.chain /\ <<NameOf(t), NameOf(f)>> \in I
           \/ /\ t.at \in {"pass", "meet"} /\ f.chain = t.chain \cup {NameOf(t)}
              /\ <<NameOf(t), NameOf(f)>> \in C
  PROVE  Chained(Append(s, f), I, C)
<1> DEFINE n == Len(s)
           t == s[n]
           r == Append(s, f)
           R == I \cup C
<1>1. n \in Nat \ {0} /\ DOMAIN s = 1..n /\ n \in DOMAIN s
  OBVIOUS
<1>2. /\ DOMAIN r = 1..(n + 1) /\ r[n + 1] = f
      /\ \A i \in 1..n : r[i] = s[i]
  BY Pushed
<1>3. \/ t.at = "included" /\ f.chain = t.chain /\ <<NameOf(t), NameOf(f)>> \in I
      \/ /\ t.at \in {"pass", "meet"} /\ f.chain = t.chain \cup {NameOf(t)}
         /\ <<NameOf(t), NameOf(f)>> \in C
  OBVIOUS
<1>4. ChainTrue(s, n, R, C) /\ \A i \in 1..(n - 1) : LeadsTo(s, i, n, R, I)
  BY <1>1 DEF Chained
<1>5. <<NameOf(t), NameOf(f)>> \in R
  BY <1>3
<1> HIDE DEF r, R, n
<1>6. \A w : Reach(R, w, NameOf(t)) => Reach(R, w, NameOf(f))
  BY <1>5, ReachOn
<1>7. Reach(R, NameOf(f), NameOf(f))
  BY ReachSelf
<1>8. ChainTrue(r, n + 1, R, C)
  <2>1. ASSUME NEW u \in f.chain PROVE \E w : <<u, w>> \in C /\ Reach(R, w, NameOf(f))
    <3>1. CASE u \in t.chain
      BY <1>4, <1>6, <3>1 DEF ChainTrue
    <3>2. CASE u \notin t.chain
      BY <1>3, <1>7, <2>1, <3>2
    <3> QED
      BY <3>1, <3>2
  <2>2. f.at \notin {"pass", "meet"}
    OBVIOUS
  <2> QED
    BY <1>2, <2>1, <2>2 DEF ChainTrue
<1>9. ASSUME NEW i \in 1..n PROVE LeadsTo(r, i, n + 1, R, I)
  <2>0. r[i] = s[i] /\ r[n + 1] = f
    BY <1>2
  <2>1. CASE i = n
    <3>1. /\ t.at \in Waits
          /\ t.at \in {"pass", "meet"} => NameOf(t) \in f.chain
          /\ t.at = "included" => <<NameOf(t), NameOf(f)>> \in I
      BY <1>3 DEF Waits
    <3> QED
      BY <1>7, <2>0, <2>1, <3>1 DEF LeadsTo
  <2>2. CASE i # n
    <3>1. LeadsTo(s, i, n, R, I)
      BY <1>1, <1>4, <2>2
    <3>2. s[i].at \in {"pass", "meet"} => NameOf(s[i]) \in f.chain
      BY <1>3, <3>1 DEF LeadsTo
    <3>3. s[i].at = "included" =>
            \E w : <<NameOf(s[i]), w>> \in I /\ Reach(R, w, NameOf(f))
      BY <1>6, <3>1 DEF LeadsTo
    <3> QED
      BY <2>0, <3>1, <3>2, <3>3 DEF LeadsTo
  <2> QED
    BY <2>1, <2>2
<1>10. ASSUME NEW j \in 1..n
       PROVE  ChainTrue(r, j, R, C) /\ \A i \in 1..(j - 1) : LeadsTo(r, i, j, R, I)
  <2>1. ChainTrue(s, j, R, C) /\ \A i \in 1..(j - 1) : LeadsTo(s, i, j, R, I)
    BY <1>1 DEF Chained, R
  <2>2. r[j] = s[j] /\ \A i \in 1..(j - 1) : r[i] = s[i]
    BY <1>1, <1>2
  <2>3. ChainTrue(r, j, R, C)
    BY <2>1, <2>2 DEF ChainTrue
  <2>4. ASSUME NEW i \in 1..(j - 1) PROVE LeadsTo(r, i, j, R, I)
    BY <2>1, <2>2 DEF LeadsTo
  <2> QED
    BY <2>3, <2>4
<1>11. ASSUME NEW j \in DOMAIN r
       PROVE  ChainTrue(r, j, R, C) /\ \A i \in 1..(j - 1) : LeadsTo(r, i, j, R, I)
  <2>1. CASE j = n + 1
    <3>1. \A i \in 1..(j - 1) : i \in 1..n
      BY <1>1, <2>1
    <3> QED
      BY <1>8, <1>9, <2>1, <3>1
  <2>2. CASE j # n + 1
    <3>1. j \in 1..n
      BY <1>1, <1>2, <2>2
    <3> QED
      BY <1>10, <3>1
  <2> QED
    BY <2>1, <2>2
<1> QED
  BY <1>11, Zenon DEF Chained, r, R

\* How a frame waits for the one it called.
Kind(f) == IF f.at = "included" THEN "includes" ELSE "hands over"

\* A stack that is deeper than twice the number of names holds two frames of
\* one name that wait in the same way: for an INCLUDE, or the chain's check
\* would have stopped the later one.
LEMMA DeepStackLoops ==
  ASSUME NEW I, NEW C, NEW s \in Seq(Frame), Chained(s, I, C),
         Len(s) > 2 * Cardinality(Names), s[Len(s)].at \in Waits
  PROVE  \E e \in I : Reach(I \cup C, e[2], e[1])
<1> DEFINE n == Len(s)
           K == 1..n
           Kinds == {"includes", "hands over"}
           T == Names \X Kinds
           F == [k \in K |-> <<NameOf(s[k]), Kind(s[k])>>]
<1>1. n \in Nat /\ DOMAIN s = K /\ \A k \in K : s[k] \in Frame
  OBVIOUS
<1>2. F \in [K -> T]
  <2>1. ASSUME NEW k \in K PROVE <<NameOf(s[k]), Kind(s[k])>> \in T
    <3>1. s[k].policy \in Catalog
      BY <1>1, FrameFields
    <3>2. NameOf(s[k]) \in Names
      BY <3>1, PolicyFields DEF NameOf
    <3> QED
      BY <3>2 DEF Kind
  <2> QED
    BY <2>1
<1>3. IsFiniteSet(K) /\ Cardinality(K) = n
  BY <1>1, FS_Interval
<1>4. IsFiniteSet(Kinds) /\ Cardinality(Kinds) = 2
  <2>1. IsFiniteSet({"includes"}) /\ Cardinality({"includes"}) = 1
    BY FS_Singleton
  <2> DEFINE One == {"includes"}
  <2>2. Kinds = One \cup {"hands over"} /\ "hands over" \notin One
    OBVIOUS
  <2> HIDE DEF One, Kinds
  <2>3. IsFiniteSet(One) /\ Cardinality(One) = 1
    BY <2>1 DEF One
  <2>4. /\ IsFiniteSet(One \cup {"hands over"})
        /\ Cardinality(One \cup {"hands over"}) = Cardinality(One) + 1
    BY <2>2, <2>3, FS_AddElement
  <2>5. Cardinality(Kinds) = 1 + 1 /\ IsFiniteSet(Kinds)
    BY <2>2, <2>3, <2>4, Zenon
  <2> QED
    BY <2>5
<1>5. IsFiniteSet(T) /\ Cardinality(T) = Cardinality(Names) * 2
  BY <1>4, ComposerAssumption, FS_Product
<1>6. Cardinality(Names) \in Nat
  BY ComposerAssumption, FS_CardinalityType
<1> HIDE DEF F, T, K
<1>7. Cardinality(T) < Cardinality(K)
  BY <1>3, <1>5, <1>6
<1>8. PICK x, y \in K : x # y /\ F[x] = F[y]
  BY <1>2, <1>3, <1>5, <1>7, FS_PigeonHole
<1>9. PICK i, j \in K : i < j /\ F[i] = F[j]
  <2>1. x \in Nat /\ y \in Nat
    BY <1>8 DEF K
  <2>2. x < y \/ y < x
    BY <1>8, <2>1
  <2> QED
    BY <1>8, <2>2
<1>10. NameOf(s[i]) = NameOf(s[j]) /\ Kind(s[i]) = Kind(s[j])
  <2>1. \A k \in K : F[k] = <<NameOf(s[k]), Kind(s[k])>>
    BY DEF F
  <2>2. <<NameOf(s[i]), Kind(s[i])>> = <<NameOf(s[j]), Kind(s[j])>>
    BY <1>9, <2>1
  <2> QED
    BY <2>2, Zenon
<1>11. i \in 1..(j - 1) /\ j \in DOMAIN s /\ (j = n \/ j \in 1..(n - 1))
  <2>1. i \in 1..n /\ j \in 1..n /\ i < j /\ n \in Nat /\ j \in DOMAIN s
    BY <1>1, <1>9 DEF K
  <2> HIDE DEF n
  <2> QED
    BY <2>1
<1>12. LeadsTo(s, i, j, I \cup C, I) /\ ChainTrue(s, j, I \cup C, C)
  BY <1>11 DEF Chained
<1>13. s[j].at \in Waits
  <2>1. CASE j = n
    BY <2>1
  <2>2. CASE j \in 1..(n - 1)
    <3>1. n \in DOMAIN s
      BY <1>1, <2>2 DEF K
    <3>2. LeadsTo(s, j, n, I \cup C, I)
      BY <2>2, <3>1 DEF Chained
    <3> QED
      BY <3>2 DEF LeadsTo
  <2> QED
    BY <1>11, <2>1, <2>2
<1>14. s[i].at \in Waits
  BY <1>12 DEF LeadsTo
<1>15. CASE s[i].at = "included"
  <2>1. PICK w : <<NameOf(s[i]), w>> \in I /\ Reach(I \cup C, w, NameOf(s[j]))
    BY <1>12, <1>15 DEF LeadsTo
  <2> DEFINE e == <<NameOf(s[i]), w>>
  <2>2. e \in I /\ e[1] = NameOf(s[i]) /\ e[2] = w
    BY <2>1
  <2> HIDE DEF e
  <2>3. Reach(I \cup C, e[2], e[1])
    BY <1>10, <2>1, <2>2
  <2> QED
    BY <2>2, <2>3
<1>16. CASE s[i].at # "included"
  <2>1. s[j].at # "included"
    BY <1>10, <1>16 DEF Kind
  <2>2. NameOf(s[i]) \in s[j].chain
    BY <1>12, <1>14, <1>16 DEF LeadsTo, Waits
  <2>3. NameOf(s[j]) \notin s[j].chain
    BY <1>12, <1>13, <2>1 DEF ChainTrue, Waits
  <2> QED
    BY <1>10, <2>2, <2>3
<1> QED
  BY <1>15, <1>16

-----------------------------------------------------------------------------
(* Errors are earned                                                       *)

\* The references that policies E make with INCLUDE, and the others.
CalledBy(E) == UNION {{p.name} \X IncludesOf(p) : p \in E}
FollowedBy(E) == UNION {{p.name} \X ((ParentOf(p) \cup {p.revert}) \ {Absent}) : p \in E}

LEMMA RefsAre ==
  /\ IncludeRefs = CalledBy(ever) /\ IncludeRefs' = CalledBy(ever')
  /\ ChainRefs = FollowedBy(ever) /\ ChainRefs' = FollowedBy(ever')
BY DEF IncludeRefs, ChainRefs, CalledBy, FollowedBy

LEMMA RefsGrow ==
  ASSUME NEW E, NEW G, E \subseteq G
  PROVE  CalledBy(E) \subseteq CalledBy(G) /\ FollowedBy(E) \subseteq FollowedBy(G)
BY Zenon DEF CalledBy, FollowedBy

LEMMA RefIn ==
  ASSUME NEW E, NEW p \in E, NEW n
  PROVE  /\ n \in IncludesOf(p) => <<p.name, n>> \in CalledBy(E)
         /\ n \in (ParentOf(p) \cup {p.revert}) \ {Absent} => <<p.name, n>> \in FollowedBy(E)
<1>1. ASSUME n \in IncludesOf(p) PROVE <<p.name, n>> \in CalledBy(E)
  <2>1. <<p.name, n>> \in {p.name} \X IncludesOf(p)
    BY <1>1
  <2> QED
    BY <2>1, Zenon DEF CalledBy
<1>2. ASSUME n \in (ParentOf(p) \cup {p.revert}) \ {Absent}
      PROVE  <<p.name, n>> \in FollowedBy(E)
  <2> DEFINE T == (ParentOf(p) \cup {p.revert}) \ {Absent}
  <2>1. <<p.name, n>> \in {p.name} \X T
    BY <1>2
  <2> QED
    BY <2>1, Zenon DEF FollowedBy
<1> QED
  BY <1>1, <1>2

\* Policies are registered under their own names, and the history has them.
RegInv ==
  /\ \A n \in Names : registry[n] # Absent => registry[n].name = n
  /\ job # Absent => \A n \in Names : registry[n] # Absent => registry[n] \in ever

\* The policies of a stack are in the history.
Known(s, E) == \A k \in DOMAIN s : s[k].policy \in E

RefInv == RegInv /\ Known(stack, ever) /\ Chained(stack, CalledBy(ever), FollowedBy(ever))

LEMMA IncludeRegisters ==
  ASSUME TypeInv, RegInv, Include
  PROVE  ever \subseteq ever' /\ RegInv'
<1> DEFINE ref  == Current.policy.includes[Current.next]
           load == ref.file # Absent /\ registry[ref.of] = Absent
           file == IF load THEN Files[ref.file] ELSE Unreadable
<1>1. stack # <<>> /\ StackInv /\ HostInv
  BY DEF Include, Running, TypeInv
<1>2. ref.file \in (DOMAIN Files) \cup {Absent}
  <2>1. Current.next \in Nat /\ Current.next >= 1 /\ Current.policy \in Catalog
    BY <1>1, CurrentIs
  <2>2. Current.policy.includes \in Seq(IncludeRef)
    BY <2>1, PolicyFields
  <2>3. Current.next \in 1..Len(Current.policy.includes)
    <3>1. Current.next <= Len(Current.policy.includes)
      BY Zenon DEF Include, PendingIncludes
    <3> QED
      BY <2>1, <2>2, <3>1
  <2>4. ref \in IncludeRef
    <3> HIDE DEF IncludeRef
    <3> QED
      BY <2>2, <2>3, ElementOfSeq
  <2> QED
    BY <2>4 DEF IncludeRef
<1>3. \/ file \in {Unreadable, Malformed}
      \/ \A n \in Names : file[n] # Absent => file[n].name = n
  <2> HIDE DEF ref
  <2> QED
    BY <1>2, ComposerAssumption
<1>4. /\ registry' = IF file \in {Unreadable, Malformed} THEN registry ELSE Loaded(file)
      /\ ever' = ever \cup ({registry'[n] : n \in Names} \ {Absent})
  BY Zenon DEF Include
<1> HIDE DEF file
<1>5. \A n \in Names : registry'[n] # Absent => registry'[n].name = n
  <2>1. CASE file \in {Unreadable, Malformed}
    BY <1>4, <2>1 DEF RegInv
  <2>2. CASE file \notin {Unreadable, Malformed}
    <3>1. \A n \in Names : registry'[n] = IF file[n] # Absent THEN file[n] ELSE registry[n]
      BY <1>4, <2>2 DEF Loaded
    <3> QED
      BY <1>3, <2>2, <3>1 DEF RegInv
  <2> QED
    BY <2>1, <2>2
<1>6. \A n \in Names : registry'[n] # Absent => registry'[n] \in ever'
  BY <1>4
<1>7. ever \subseteq ever'
  BY <1>4
<1> QED
  BY <1>5, <1>6, <1>7 DEF RegInv

LEMMA RegistryKept ==
  ASSUME TypeInv, RegInv, PolicyAction \/ HostAction
  PROVE  ever \subseteq ever' /\ RegInv'
<1>1. CASE Include
  BY <1>1, IncludeRegisters
<1>2. CASE UNCHANGED <<registry, ever, job>>
  BY <1>2 DEF RegInv
<1>3. ASSUME NEW p \in Catalog, Register(p) PROVE ever \subseteq ever' /\ RegInv'
  <2>1. /\ registry' = [registry EXCEPT ![p.name] = p] /\ ever' = ever \cup {p}
        /\ UNCHANGED job
    BY <1>3 DEF Register
  <2>2. registry \in [Names -> Catalog \cup {Absent}]
    BY DEF TypeInv, HostInv
  <2>3. \A n \in Names : registry'[n] = IF n = p.name THEN p ELSE registry[n]
    BY <2>1, <2>2
  <2> QED
    BY <2>1, <2>3 DEF RegInv
<1>4. CASE PolicyAction /\ ~Include
  <2>1. Still
    BY <1>4, Zenon DEF PolicyAction, WindowOpen, WindowClosed, Included, RunAlone,
       RunExtends, RunRestricts, PassOn, TakeStricter
  <2> QED
    BY <1>2, <2>1 DEF Still
<1>5. CASE Tick \/ \E n \in Names, t \in SetCatalog : RegisterSet(n, t)
  BY <1>2, <1>5 DEF Tick, RegisterSet
<1> QED
  BY <1>1, <1>3, <1>4, <1>5 DEF HostAction

LEMMA ChainedEmpty == ASSUME NEW I, NEW C, NEW E, NEW s, s = <<>>
                      PROVE  Chained(s, I, C) /\ Known(s, E)
BY DEF Chained, Known

LEMMA ChainedSingle ==
  ASSUME NEW I, NEW C, NEW E, NEW p \in Catalog, p \in E,
         NEW s, s = <<NewFrame(p, {}, NoAliases)>>
  PROVE  Chained(s, I, C) /\ Known(s, E)
<1> DEFINE f == NewFrame(p, {}, NoAliases)
<1>1. f.chain = {} /\ f.at = "window" /\ f.policy = p
  BY DEF NewFrame
<1> HIDE DEF f
<1>2. DOMAIN s = {1} /\ s[1] = f
  BY DEF f
<1>3. \A j \in DOMAIN s : s[j] = f /\ 1..(j - 1) = {}
  BY <1>2
<1> QED
  BY <1>1, <1>3 DEF Chained, ChainTrue, Known

LEMMA KnownRetopped ==
  ASSUME NEW E, StackInv, stack # <<>>, Known(stack, E), NEW g \in Frame, Advances(Current, g)
  PROVE  Known(Top(g), E)
<1>1. Retop(stack, Top(g), g)
  BY RetoppedFits DEF Advances
<1>2. Len(stack) \in Nat \ {0} /\ DOMAIN stack = 1..Len(stack)
  BY DEF StackInv
<1>3. g.policy = stack[Len(stack)].policy
  BY CurrentIs DEF Advances
<1>4. \A i \in DOMAIN Top(g) : i \in DOMAIN stack /\ Top(g)[i].policy = stack[i].policy
  <2> SUFFICES ASSUME NEW i \in DOMAIN Top(g)
               PROVE  i \in DOMAIN stack /\ Top(g)[i].policy = stack[i].policy
    OBVIOUS
  <2>1. i \in DOMAIN stack
    BY <1>1 DEF Retop
  <2>2. CASE i = Len(stack)
    BY <1>1, <1>3, <2>1, <2>2 DEF Retop
  <2>3. CASE i # Len(stack)
    <3>1. i \in 1..(Len(stack) - 1)
      BY <1>2, <2>1, <2>3
    <3> QED
      BY <1>1, <2>1, <3>1 DEF Retop
  <2> QED
    BY <2>2, <2>3
<1> QED
  BY <1>4 DEF Known

LEMMA KnownDropped ==
  ASSUME NEW E, StackInv, Dropped, Known(stack, E)
  PROVE  Known(stack', E)
<1>1. /\ DOMAIN stack' = 1..(Len(stack) - 1) /\ Len(stack) \in Nat
      /\ DOMAIN stack = 1..Len(stack)
      /\ \A i \in 1..(Len(stack) - 1) : stack'[i] = stack[i]
  BY Popped DEF Dropped, StackInv
<1>2. \A i \in DOMAIN stack' : i \in DOMAIN stack /\ stack'[i] = stack[i]
  BY <1>1
<1> QED
  BY <1>2 DEF Known

\* The call that an INCLUDE, a parent or a successor asks for.
LEMMA LinkedIsChained ==
  ASSUME NEW E, StackInv, HostInv', RegInv', job' # Absent, E = ever', stack # <<>>,
         Known(stack, E), Chained(stack, CalledBy(E), FollowedBy(E)),
         NEW g \in Frame, Advances(Current, g), g.at \in Waits, Linked(g)
  PROVE  Known(stack', E) /\ Chained(stack', CalledBy(E), FollowedBy(E))
<1>1. PICK n \in Targets(g) \cap Names :
        /\ registry'[n] # Absent
        /\ g.at # "included" => ~InCycle(Current)
        /\ stack' = Append(Top(g), NewFrame(registry'[n], ChainOf(g), Current.ctx))
  BY DEF Linked
<1> DEFINE p == registry'[n]
           f == NewFrame(p, ChainOf(g), Current.ctx)
           s == Top(g)
<1>2. p \in Catalog /\ p \in E /\ p.name = n
  BY <1>1 DEF HostInv, RegInv
<1>3. /\ Current.policy \in E /\ Current.policy \in Catalog /\ Current \in Frame
      /\ g.policy = Current.policy /\ g.chain = Current.chain
  <2>1. Current = stack[Len(stack)] /\ Len(stack) \in DOMAIN stack
    BY CurrentIs, Popped DEF StackInv
  <2> QED
    BY <2>1, CurrentIs DEF Known, Advances
<1>4. ChainOf(g) \in SUBSET Names
  BY <1>3, CurrentIs, PolicyFields DEF ChainOf, NextChain
<1>5. f \in Frame /\ f.at = "window" /\ f.chain = ChainOf(g) /\ f.policy = p
  <2>1. f.chain = ChainOf(g)
    BY DEF NewFrame
  <2> QED
    BY <1>2, <1>4, <2>1, CurrentIs, NewFrameType
<1>6. /\ s \in Seq(Frame) /\ s # <<>> /\ s[Len(s)] = g
      /\ Known(s, E) /\ Chained(s, CalledBy(E), FollowedBy(E))
  <2>1. s \in Seq(Frame) /\ s # <<>> /\ s[Len(s)] = g
    BY RetoppedFits DEF Advances, Retop
  <2>2. Known(s, E)
    BY KnownRetopped
  <2>3. Chained(s, CalledBy(E), FollowedBy(E))
    BY <1>1, ChainedRetopped
  <2> QED
    BY <2>1, <2>2, <2>3
<1>7. stack' = Append(s, f)
  BY <1>1
<1>8. NameOf(f) = n /\ NameOf(g) = Current.policy.name
  BY <1>2, <1>3, <1>5 DEF NameOf
<1>9. \/ g.at = "included" /\ f.chain = g.chain /\ <<NameOf(g), NameOf(f)>> \in CalledBy(E)
      \/ /\ g.at \in {"pass", "meet"} /\ f.chain = g.chain \cup {NameOf(g)}
         /\ <<NameOf(g), NameOf(f)>> \in FollowedBy(E)
  <2>1. CASE g.at = "included"
    <3>1. n \in IncludesOf(Current.policy) /\ f.chain = g.chain
      BY <1>1, <1>3, <1>5, <2>1 DEF Targets, ChainOf
    <3> QED
      BY <1>3, <1>8, <2>1, <3>1, RefIn
  <2>2. CASE g.at # "included"
    <3>1. /\ n \in (ParentOf(Current.policy) \cup {Current.policy.revert}) \ {Absent}
          /\ f.chain = g.chain \cup {NameOf(g)}
      BY <1>1, <1>3, <1>5, <1>8, <2>2 DEF Targets, ChainOf, NextChain
    <3>2. g.at \in {"pass", "meet"}
      BY <2>2 DEF Waits
    <3> QED
      BY <1>3, <1>8, <3>1, <3>2, RefIn
  <2> QED
    BY <2>1, <2>2
<1> HIDE DEF p, f, s
<1>10. Chained(Append(s, f), CalledBy(E), FollowedBy(E))
  BY <1>5, <1>6, <1>9, ChainedPushed
<1>11. Known(Append(s, f), E)
  <2>1. /\ DOMAIN Append(s, f) = 1..(Len(s) + 1) /\ Append(s, f)[Len(s) + 1] = f
        /\ \A i \in 1..Len(s) : Append(s, f)[i] = s[i]
        /\ DOMAIN s = 1..Len(s) /\ Len(s) \in Nat
    BY <1>5, <1>6, Pushed
  <2>2. \A i \in DOMAIN Append(s, f) : i \in 1..Len(s) \/ i = Len(s) + 1
    BY <2>1
  <2> QED
    BY <1>2, <1>5, <1>6, <2>1, <2>2 DEF Known
<1> QED
  BY <1>7, <1>10, <1>11

LEMMA InitRefs == Init => RefInv
<1> SUFFICES ASSUME Init PROVE RefInv
  OBVIOUS
<1>1. RegInv
  BY DEF Init, RegInv
<1>2. stack = <<>>
  BY DEF Init
<1> QED
  BY <1>1, <1>2, ChainedEmpty DEF RefInv

\* What is under way is chained by the references of the next state too.
LEMMA ChainedLater ==
  ASSUME RefInv, ever \subseteq ever'
  PROVE  Known(stack, ever') /\ Chained(stack, CalledBy(ever'), FollowedBy(ever'))
<1>1. CalledBy(ever) \subseteq CalledBy(ever') /\ FollowedBy(ever) \subseteq FollowedBy(ever')
  BY RefsGrow
<1>2. Chained(stack, CalledBy(ever'), FollowedBy(ever'))
  BY <1>1, ChainedGrows DEF RefInv
<1> QED
  BY <1>2 DEF RefInv, Known

LEMMA RefPolicyStep ==
  ASSUME TypeInv, LifeInv, RefInv, PolicyAction
  PROVE  RefInv'
<1> DEFINE E == ever'
           Fine == Known(stack', E) /\ Chained(stack', CalledBy(E), FollowedBy(E))
<1>1. /\ PolicyStep /\ HostInv' /\ UNCHANGED job /\ stack # <<>> /\ job # Absent
      /\ StackInv
  BY PolicyActionIs, PolicyStepIsInside DEF TypeInv
<1>2. ever \subseteq E /\ RegInv'
  BY RegistryKept DEF RefInv
<1>3. Known(stack, E) /\ Chained(stack, CalledBy(E), FollowedBy(E))
  BY <1>2, ChainedLater
<1>4. job' # Absent
  BY <1>1
<1> SUFFICES Fine
  BY <1>2 DEF RefInv
<1>5. ASSUME NEW g \in Frame, Accounted(g), Advances(Current, g), g.at \in Waits PROVE Fine
  <2>1. CASE Linked(g)
    BY <1>1, <1>2, <1>3, <1>4, <1>5, <2>1, LinkedIsChained
  <2>2. CASE stack' = <<>>
    BY <2>2, ChainedEmpty
  <2> QED
    BY <1>5, <2>1, <2>2 DEF Accounted
<1>6. ASSUME NEW g \in Frame, Asked(g) \/ Restrained(g) PROVE Fine
  <2>1. Accounted(g) /\ Advances(Current, g) /\ g.at \in Waits
    BY <1>6 DEF Asked, Restrained, Waits
  <2> HIDE DEF Fine
  <2> QED
    BY <1>5, <2>1
<1>7. ASSUME NEW g \in Frame, WentOn(g) PROVE Fine
  <2>1. Advances(Current, g) /\ g.at = "includes" /\ stack' = Top(g)
    BY <1>7 DEF WentOn
  <2>2. Known(Top(g), E)
    BY <1>1, <1>3, <2>1, KnownRetopped
  <2>3. Chained(Top(g), CalledBy(E), FollowedBy(E))
    BY <1>1, <1>3, <2>1, ChainedRetopped
  <2> QED
    BY <2>1, <2>2, <2>3
<1>8. ASSUME Dropped PROVE Fine
  BY <1>1, <1>3, <1>8, KnownDropped, ChainedDropped
<1>9. (PassOn \/ TakeStricter \/ \E v \in Verdict : Decided(v)) => Dropped
  BY <1>1 DEF PassOn, TakeStricter, Decided, Return, Dropped
<1> HIDE DEF Fine
<1> QED
  BY <1>1, <1>6, <1>7, <1>8, <1>9 DEF PolicyStep

\* A call of evaluate() starts, or starts the evaluation of a member.
LEMMA RefStarted ==
  ASSUME StackInv', RegInv', NEW n \in Names, registry'[n] \in Catalog \cup {Absent}, job' # Absent,
         \/ stack' = <<>>
         \/ registry'[n] # Absent /\ stack' = <<NewFrame(registry'[n], {}, NoAliases)>>
  PROVE  RefInv'
<1>1. CASE stack' = <<>>
  BY <1>1, ChainedEmpty DEF RefInv
<1>2. CASE registry'[n] # Absent /\ stack' = <<NewFrame(registry'[n], {}, NoAliases)>>
  <2>1. registry'[n] \in Catalog /\ registry'[n] \in ever'
    BY <1>2 DEF RegInv
  <2> DEFINE p == registry'[n]
  <2>2. stack' = <<NewFrame(p, {}, NoAliases)>>
    BY <1>2
  <2> HIDE DEF p
  <2>3. p \in Catalog /\ p \in ever'
    BY <2>1 DEF p
  <2>4. Known(stack', ever') /\ Chained(stack', CalledBy(ever'), FollowedBy(ever'))
    BY <2>2, <2>3, ChainedSingle
  <2> QED
    BY <2>4 DEF RefInv
<1> QED
  BY <1>1, <1>2

LEMMA RefStep == TypeInv /\ LifeInv /\ RefInv /\ [Next]_vars => RefInv'
<1> SUFFICES ASSUME TypeInv, LifeInv, RefInv, [Next]_vars PROVE RefInv'
  OBVIOUS
<1>0. /\ TypeInv' /\ HostInv /\ RegInv
      /\ \A n \in Names : registry'[n] \in Catalog \cup {Absent}
  <2>1. TypeInv'
    BY TypesKept
  <2> QED
    BY <2>1 DEF TypeInv, HostInv, RefInv
<1>1. CASE PolicyAction
  BY <1>1, RefPolicyStep
<1>2. ASSUME NEW n \in Names, Evaluate(n) PROVE RefInv'
  <2>1. /\ job = Absent /\ stack = <<>> /\ job' # Absent
        /\ UNCHANGED registry /\ ever' = {registry[m] : m \in Names} \ {Absent}
    BY <1>2, EvaluateFits DEF Evaluate, LifeInv
  <2>2. \/ stack' = <<>>
        \/ registry'[n] # Absent /\ stack' = <<NewFrame(registry'[n], {}, NoAliases)>>
    BY <1>2, <2>1 DEF Evaluate
  <2>3. RegInv'
    BY <1>0, <2>1 DEF RegInv
  <2> QED
    BY <1>0, <2>1, <2>2, <2>3, RefStarted DEF TypeInv
<1>3. ASSUME NEW g \in DOMAIN Groups, EvaluateMember(g) PROVE RefInv'
  <2> DEFINE n == Groups[g].members[Len(job.got[g]) + 1]
  <2>1. n \in Names
    BY <1>3, MemberIsName
  <2>2. /\ stack = <<>> /\ job # Absent /\ job' # Absent /\ UNCHANGED <<registry, ever>>
    BY <1>3, EvaluateMemberFits DEF EvaluateMember, NextMember, Open
  <2>3. \/ stack' = <<>>
        \/ registry'[n] # Absent /\ stack' = <<NewFrame(registry'[n], {}, NoAliases)>>
    BY <1>3, <2>2 DEF EvaluateMember
  <2>4. RegInv'
    BY <1>0, <2>2 DEF RegInv
  <2> HIDE DEF n
  <2> QED
    BY <1>0, <2>1, <2>2, <2>3, <2>4, RefStarted DEF TypeInv
<1>4. ASSUME job # Absent, UNCHANGED <<registry, ever, stack>> PROVE RefInv'
  BY <1>4 DEF RefInv, RegInv
<1>5. ASSUME NEW g \in DOMAIN Groups, TakeMember(g) PROVE RefInv'
  BY <1>4, <1>5 DEF TakeMember, NextMember, Open
<1>6. CASE FinishSet \/ FinishPolicy
  BY <1>4, <1>6 DEF FinishSet, FinishPolicy, Open
<1>7. CASE HostAction
  <2>1. ever \subseteq ever' /\ RegInv' /\ UNCHANGED stack
    BY <1>0, <1>7, RegistryKept, HostActionFits
  <2>2. Known(stack, ever') /\ Chained(stack, CalledBy(ever'), FollowedBy(ever'))
    BY <2>1, ChainedLater
  <2> QED
    BY <2>1, <2>2 DEF RefInv
<1>8. CASE UNCHANGED vars
  BY <1>8 DEF vars, RefInv, RegInv
<1> QED
  BY <1>1, <1>2, <1>3, <1>5, <1>6, <1>7, <1>8, NextCases DEF CallAction

\* ErrorsAreEarned, with references as sets.
Cyclic(I, R) == \E e \in I : Reach(R, e[2], e[1])
Missing(j, reg, E) ==
  \/ j.set = Absent /\ reg[j.name] = Absent
  \/ \E p \in E : \E n \in ParentOf(p) : n = Absent \/ reg[n] = Absent
Earned(a, j, reg, E) ==
  /\ a = "CompositionError" =>
       Missing(j, reg, E) \/ Cyclic(FollowedBy(E), CalledBy(E) \cup FollowedBy(E))
  /\ a = "RecursionError" => Cyclic(CalledBy(E), CalledBy(E) \cup FollowedBy(E))

LEMMA EarnedIs == ErrorsAreEarned <=> Earned(answer, job, registry, ever)
BY Zenon DEF ErrorsAreEarned, Earned, Missing, Cyclic, Dangling, OnCycle, Reaches, Reach,
   IncludeRefs, ChainRefs, CalledBy, FollowedBy

\* A circle that the chain's check reports is one of the references.
LEMMA CircleFound ==
  ASSUME NEW E, StackInv, stack # <<>>, InCycle(Current),
         Chained(stack, CalledBy(E), FollowedBy(E))
  PROVE  Cyclic(FollowedBy(E), CalledBy(E) \cup FollowedBy(E))
<1> DEFINE I == CalledBy(E)
           C == FollowedBy(E)
           n == Len(stack)
<1>1. n \in DOMAIN stack /\ stack[n] = Current
  BY CurrentIs, Popped DEF StackInv
<1>2. ChainTrue(stack, n, I \cup C, C)
  BY <1>1 DEF Chained
<1> DEFINE u == NameOf(Current)
<1>3. u \in Current.chain
  BY DEF InCycle, NameOf
<1> HIDE DEF I, C, n
<1>4. PICK w : <<u, w>> \in C /\ Reach(I \cup C, w, u)
  BY <1>1, <1>2, <1>3 DEF ChainTrue
<1> DEFINE e == <<u, w>>
<1>5. e \in C /\ e[1] = u /\ e[2] = w
  BY <1>4
<1> HIDE DEF e, u
<1> QED
  BY <1>4, <1>5 DEF Cyclic, I, C

\* A step that raises has found what the error says.
LEMMA ExcusedIsEarned ==
  ASSUME TypeInv, RefInv, ever \subseteq ever', stack # <<>>, NEW g \in Frame,
         Advances(Current, g), g.at \in Waits, Excused(g)
  PROVE  Earned(answer', job', registry', ever')
<1> DEFINE E == ever'
           I == CalledBy(E)
           C == FollowedBy(E)
<1>1. StackInv /\ Known(stack, E) /\ Chained(stack, I, C)
  BY ChainedLater DEF TypeInv
<1>2. CASE answer' = "ParseError"
  BY <1>2 DEF Earned
<1>3. CASE answer' = "CompositionError" /\ InCycle(Current)
  <2>1. Cyclic(C, I \cup C)
    BY <1>1, <1>3, CircleFound
  <2> QED
    BY <1>3, <2>1 DEF Earned
<1>4. CASE /\ answer' = "CompositionError"
           /\ \E n \in ParentOf(Current.policy) : n = Absent \/ registry'[n] = Absent
  <2>1. Current = stack[Len(stack)] /\ Len(stack) \in DOMAIN stack
    BY <1>1, CurrentIs, Popped DEF StackInv
  <2>2. Current.policy \in E
    BY <1>1, <2>1 DEF Known
  <2>3. Missing(job', registry', E)
    BY <1>4, <2>2 DEF Missing
  <2> QED
    BY <1>4, <2>3 DEF Earned
<1>5. CASE /\ answer' = "RecursionError" /\ Len(stack) = MaxDepth
           /\ g.at # "included" => ~InCycle(Current)
  <2> DEFINE s == Top(g)
  <2>1. s \in Seq(Frame) /\ s[Len(s)] = g /\ Len(s) = MaxDepth
    BY <1>1, <1>5, RetoppedFits DEF Advances, Retop
  <2>2. Chained(s, I, C)
    BY <1>1, <1>5, ChainedRetopped
  <2>3. Len(s) > 2 * Cardinality(Names)
    BY <2>1, ComposerAssumption
  <2> HIDE DEF s, I, C
  <2>4. \E e \in I : Reach(I \cup C, e[2], e[1])
    BY <2>1, <2>2, <2>3, DeepStackLoops
  <2> QED
    BY <1>5, <2>4 DEF Earned, Cyclic, I, C
<1> QED
  BY <1>2, <1>3, <1>4, <1>5, Zenon DEF Excused

LEMMA EarnedStep ==
  TypeInv /\ LifeInv /\ RefInv /\ Earned(answer, job, registry, ever) /\ [Next]_vars
    => Earned(answer', job', registry', ever')
<1> SUFFICES ASSUME TypeInv, LifeInv, RefInv, Earned(answer, job, registry, ever), [Next]_vars
             PROVE  Earned(answer', job', registry', ever')
  OBVIOUS
<1>1. ASSUME answer' \notin Error PROVE Earned(answer', job', registry', ever')
  BY <1>1 DEF Earned, Error
<1>2. ASSUME answer = Absent, UNCHANGED answer PROVE Earned(answer', job', registry', ever')
  BY <1>1, <1>2, ComposerAssumption
<1>3. CASE PolicyAction
  <2>1. PolicyStep /\ stack # <<>> /\ job # Absent /\ answer = Absent
    BY <1>3, PolicyActionIs, PolicyStepIsInside
  <2>2. ever \subseteq ever'
    BY <1>3, RegistryKept DEF RefInv
  <2>3. ASSUME NEW g \in Frame, Asked(g) \/ Restrained(g)
        PROVE  UNCHANGED answer \/ Earned(answer', job', registry', ever')
    <3>1. Accounted(g) /\ Advances(Current, g) /\ g.at \in Waits
      BY <2>3 DEF Asked, Restrained, Waits
    <3>2. CASE Linked(g)
      BY <3>2 DEF Linked
    <3>3. CASE Excused(g)
      BY <2>1, <2>2, <3>1, <3>3, ExcusedIsEarned
    <3> QED
      BY <3>1, <3>2, <3>3 DEF Accounted
  <2>4. ASSUME NEW g \in Frame, WentOn(g) PROVE UNCHANGED answer
    BY <2>4 DEF WentOn
  <2>5. (PassOn \/ TakeStricter \/ \E v \in Verdict : Decided(v)) => UNCHANGED answer
    BY DEF PassOn, TakeStricter, Decided, Return
  <2> QED
    BY <1>2, <2>1, <2>3, <2>4, <2>5 DEF PolicyStep
<1>4. ASSUME NEW n \in Names, Evaluate(n) PROVE Earned(answer', job', registry', ever')
  <2>1. /\ job = Absent /\ answer = Absent /\ UNCHANGED registry
        /\ job'.name = n /\ job'.set = sets[n]
    BY <1>4 DEF Evaluate, LifeInv
  <2>2. \/ UNCHANGED answer
        \/ sets[n] = Absent /\ registry[n] = Absent /\ answer' = "CompositionError"
    BY <1>4 DEF Evaluate
  <2>3. CASE UNCHANGED answer
    BY <1>2, <2>1, <2>3
  <2>4. CASE sets[n] = Absent /\ registry[n] = Absent /\ answer' = "CompositionError"
    <3>1. Missing(job', registry', ever')
      BY <2>1, <2>4 DEF Missing
    <3> QED
      BY <2>4, <3>1 DEF Earned
  <2> QED
    BY <2>2, <2>3, <2>4
<1>5. ASSUME NEW g \in DOMAIN Groups, EvaluateMember(g) \/ TakeMember(g)
      PROVE  Earned(answer', job', registry', ever')
  BY <1>2, <1>5, EvaluateMemberFits, TakeMemberFits
     DEF EvaluateMember, TakeMember, NextMember, Open
<1>6. CASE FinishSet \/ FinishPolicy
  <2>1. answer' \in Verdict
    BY <1>6, FinishSetIs DEF FinishPolicy, TypeInv, OutcomeInv
  <2> QED
    BY <1>1, <2>1 DEF Verdict, Error
<1>7. CASE HostAction
  <2>1. UNCHANGED <<answer, job>>
    BY <1>7, HostActionFits
  <2>2. answer = Absent
    BY <1>7 DEF HostAction, Tick, Register, RegisterSet, Open
  <2> QED
    BY <1>2, <2>1, <2>2
<1>8. CASE UNCHANGED vars
  BY <1>8 DEF vars
<1> QED
  BY <1>3, <1>4, <1>5, <1>6, <1>7, <1>8, NextCases DEF CallAction

\* Whatever is registered while a call runs, a circular reference is reported
\* only if there is one, a missing policy only if one is missing, and Python's
\* stack is exhausted only by policies that INCLUDE each other in a circle:
\* the chain argument of _evaluate_policy() stops every other recursion.
THEOREM ErrorsTellTheTruth == Spec => []ErrorsAreEarned
<1> DEFINE Good == Earned(answer, job, registry, ever)
<1>1. Init => TypeInv /\ LifeInv /\ RefInv /\ Good
  <2>1. Init => Good
    BY ComposerAssumption DEF Init, Earned, Error
  <2> QED
    BY <2>1, InitTypes, InitLife, InitRefs
<1>2. TypeInv /\ LifeInv /\ RefInv /\ Good /\ [Next]_vars => (TypeInv /\ LifeInv /\ RefInv /\ Good)'
  BY TypesKept, LifeKept, RefStep, EarnedStep
<1>3. Good => ErrorsAreEarned
  BY EarnedIs
<1> HIDE DEF Good
<1> QED
  BY <1>1, <1>2, <1>3, PTL DEF Spec
=============================================================================
