------------------------------- MODULE Composer -------------------------------
(***************************************************************************)
(* PolicyComposer (utf/tarl/composer.py): a registry of policies that      *)
(* refer to each other with EXTENDS, RESTRICTS, INCLUDE and revert_to, and *)
(* of policy sets.  One evaluate() runs as a stack of calls of             *)
(* _evaluate_policy(), one frame per call; the host's clock moves and      *)
(* other threads register policies while it runs.                          *)
(*                                                                         *)
(* A rule's condition is whether it reads the verdict of an INCLUDE: rule  *)
(* r fires when r.reads is Absent or ctx[r.reads] = r.is.  A rule whose    *)
(* condition raises has then = "raises".                                   *)
(***************************************************************************)
EXTENDS Naturals, SequencesExt

CONSTANTS
  Names,           \* names of policies and sets
  Catalog,         \* policies that may be registered, as records
  SetCatalog,      \* policy sets that may be registered, [groups, default]
  Files,           \* Files[f], the policies in file f by name, or one of
  Unreadable,      \*   open() raises OSError
  Malformed,       \*   the parser raises
  Absent,          \* Python's None, or a name that is not registered
  MaxTime,         \* bound: the clock shows 0..MaxTime
  MaxRegistered,   \* bound: registrations the model follows
  MaxDepth         \* frames Python's recursion limit leaves room for

Verdict == {"DENY", "ESCALATE", "ALLOW"}
Rank == [DENY |-> 0, ESCALATE |-> 1, ALLOW |-> 2]
Error == {"CompositionError", "RecursionError", "ParseError"}
Meet(a, b) == IF Rank[a] <= Rank[b] THEN a ELSE b

\* What the parser can give a policy (stop, its only flag, apart) and a set.
Rule == [reads : Names \cup {Absent}, is : Verdict \cup {Absent},
         then : Verdict \cup {"raises"}]
IncludeRef == [of : Names, file : (DOMAIN Files) \cup {Absent}]
IsPolicy(p) ==
  /\ p.name \in Names /\ p.rules \in Seq(Rule)
  /\ p.composition \in {"EXTENDS", "RESTRICTS", Absent}
  /\ p.parent \in Names \cup {Absent} /\ p.revert \in Names \cup {Absent}
  /\ p.includes \in Seq(IncludeRef)
  /\ p.from \in Nat /\ p.until \in Nat /\ p.onExpiry \in Verdict
Group == [op : {"UNION", "INTERSECT", "MAJORITY"}, members : Seq(Names)]
IsSet(s) == s.groups \in Seq(Group) /\ s.default \in Verdict

\* One call of evaluate().
Call == [name : Names, set : SetCatalog \cup {Absent}, got : Seq(Seq(Verdict))]

ASSUME ComposerAssumption ==
  /\ Absent \notin Names /\ Absent \notin Verdict \cup Error
  /\ Absent \notin Call /\ Absent \notin {"EXTENDS", "RESTRICTS"}
  /\ \A p \in Catalog : IsPolicy(p)
  /\ \A s \in SetCatalog : IsSet(s)
  /\ Absent \notin Catalog /\ Absent \notin SetCatalog
  /\ \A x \in DOMAIN Files : \/ Files[x] \in {Unreadable, Malformed}
                            \/ /\ Files[x] \in [Names -> Catalog \cup {Absent}]
                               /\ \A n \in Names : Files[x][n] # Absent => Files[x][n].name = n
  /\ MaxTime \in Nat /\ MaxRegistered \in Nat
  /\ IsFiniteSet(Names)
  /\ MaxDepth \in Nat /\ MaxDepth > 2 * Cardinality(Names)

VARIABLES
  registry,    \* _policies, [Names -> Catalog or Absent]
  sets,        \* _sets, [Names -> SetCatalog or Absent]
  clock,       \* the host clock
  job,         \* the call of evaluate(): its name, the set it found (or
               \* Absent) and the verdicts its groups got; or Absent
  stack,       \* frames of _evaluate_policy(), the running one last
  ret,         \* verdict the frame that just ended returned, or Absent
  answer,      \* what evaluate() returned or raised, or Absent
  registered,  \* registrations so far
  ever,        \* history: policies registered at some moment of the call
  least        \* history: the strictest verdict that RESTRICTS policies
               \* and the last policy of the path gave, INCLUDEs apart
vars == <<registry, sets, clock, job, stack, ret, answer, registered, ever, least>>

NoAliases == [a \in Names |-> Absent]
Current == Last(stack)
Open == job # Absent /\ answer = Absent    \* the call has not ended
Running == stack # <<>> /\ ret = Absent    \* Current is executing
Resumed == stack # <<>> /\ ret # Absent    \* Current's inner call returned

Init ==
  /\ registry \in {r \in [Names -> Catalog \cup {Absent}] :
                    \A n \in Names : r[n] # Absent => r[n].name = n}
  /\ sets = [n \in Names |-> Absent]
  /\ clock = 0
  /\ job = Absent /\ stack = <<>> /\ ret = Absent /\ answer = Absent
  /\ registered = 0 /\ ever = {} /\ least = "ALLOW"

-----------------------------------------------------------------------------
(* One policy                                                              *)

OutsideWindow(p) == clock < p.from \/ clock > p.until

Fires(r, ctx) == r.reads = Absent \/ ctx[r.reads] = r.is

\* First match wins, a rule that raises denies; Absent when no rule decides.
OwnRules(p, ctx) ==
  LET firing == {i \in DOMAIN p.rules : Fires(p.rules[i], ctx)}
      then   == p.rules[Min(firing)].then
  IN  IF firing = {} THEN Absent ELSE IF then = "raises" THEN "DENY" ELSE then

OrDeny(v) == IF v = Absent THEN "DENY" ELSE v

-----------------------------------------------------------------------------
(* Calls, returns and exceptions                                           *)

NewFrame(p, chain, ctx) ==
  [policy |-> p, chain |-> chain, ctx |-> ctx, at |-> "window",
   next |-> 1,        \* the INCLUDE to evaluate next
   own |-> Absent]    \* child_dec of RESTRICTS

Goto(at) == [stack EXCEPT ![Len(stack)].at = at]

Raise(e) == /\ answer' = e /\ stack' = <<>> /\ ret' = Absent

\* s is the stack with Current waiting for the call of p.
CallPolicy(s, p, chain, ctx) ==
  IF Len(s) = MaxDepth
  THEN Raise("RecursionError")
  ELSE /\ stack' = Append(s, NewFrame(p, chain, ctx))
       /\ UNCHANGED <<ret, answer>>

\* No INCLUDE waits on the stack: the verdict is on its way to the caller.
OnSpine == \A i \in 1..(Len(stack) - 1) : stack[i].at # "included"
Note(v) == least' = IF OnSpine THEN Meet(least, v) ELSE least

Return(v) == /\ ret' = v /\ stack' = Front(stack) /\ UNCHANGED answer

\* Mutant: RESTRICTS does not check for cycles.
MutInCycle(f) == f.policy.name \in f.chain /\ f.policy.composition # "RESTRICTS"

\* _check_cycle(), then _require() or _policies[], then the inner call.
InCycle(f) == f.policy.name \in f.chain
MutNextChain(f) == f.chain \cup {f.policy}  \* mutant: the object, not its name
NextChain(f) == f.chain \cup {f.policy.name}

Delegate(s, n) ==
  IF n = Absent \/ registry[n] = Absent
  THEN Raise("CompositionError")
  ELSE CallPolicy(s, registry[n], NextChain(Current), Current.ctx)

-----------------------------------------------------------------------------
(* evaluate() and the groups of a policy set                               *)

Evaluate(n) ==
  /\ job = Absent
  /\ job' = [name |-> n, set |-> sets[n],
             got |-> IF sets[n] = Absent THEN <<>>
                     ELSE [g \in DOMAIN sets[n].groups |-> <<>>]]
  /\ IF sets[n] # Absent
     THEN UNCHANGED <<stack, answer>>
     ELSE IF registry[n] # Absent
     THEN stack' = <<NewFrame(registry[n], {}, NoAliases)>> /\ UNCHANGED answer
     ELSE answer' = "CompositionError" /\ UNCHANGED stack
  /\ ever' = {registry[m] : m \in Names} \ {Absent}
  /\ UNCHANGED <<registry, sets, clock, ret, registered, least>>

Groups == job.set.groups
Unfinished(g) == Len(job.got[g]) < Len(Groups[g].members)
NextMember(g) ==
  /\ Open /\ stack = <<>> /\ job.set # Absent
  /\ g \in DOMAIN Groups /\ Unfinished(g)
  /\ \A h \in 1..(g - 1) : ~Unfinished(h)

Got(g, v) == [job EXCEPT !.got[g] = Append(@, v)]

EvaluateMember(g) ==
  /\ NextMember(g) /\ ret = Absent
  /\ LET n == Groups[g].members[Len(job.got[g]) + 1] IN
     IF registry[n] = Absent
     THEN job' = Got(g, "DENY") /\ UNCHANGED stack
     ELSE /\ stack' = <<NewFrame(registry[n], {}, NoAliases)>>
          /\ UNCHANGED job
  /\ least' = "ALLOW"
  /\ UNCHANGED <<registry, sets, clock, ret, answer, registered, ever>>

TakeMember(g) ==
  /\ NextMember(g) /\ ret # Absent
  /\ job' = Got(g, ret) /\ ret' = Absent
  /\ UNCHANGED <<registry, sets, clock, stack, answer, registered, ever, least>>

\* Mutant: half of the members is a majority.
MutIsMajority(votes, of) == 2 * votes >= of
IsMajority(votes, of) == 2 * votes > of

\* The folds of TarlVerdict.meet() and .join() over verdicts.
MeetOf(vs) == CHOOSE v \in Range(vs) : \A w \in Range(vs) : Rank[v] <= Rank[w]
JoinOf(vs) == CHOOSE v \in Range(vs) : \A w \in Range(vs) : Rank[v] >= Rank[w]

Combine(op, vs) ==
  IF vs = <<>> THEN "DENY"
  ELSE CASE op = "UNION"     -> JoinOf(vs)
         [] op = "INTERSECT" -> MeetOf(vs)
         [] op = "MAJORITY"  ->
              IF IsMajority(Cardinality({i \in DOMAIN vs : vs[i] = "ALLOW"}), Len(vs))
              THEN "ALLOW" ELSE "DENY"

FinishSet ==
  /\ Open /\ stack = <<>> /\ job.set # Absent /\ ret = Absent
  /\ \A g \in DOMAIN Groups : ~Unfinished(g)
  /\ LET vs == [g \in DOMAIN Groups |-> Combine(Groups[g].op, job.got[g])]
     IN  answer' = IF Groups = <<>> THEN job.set.default ELSE MeetOf(vs)
  /\ UNCHANGED <<registry, sets, clock, job, stack, ret, registered, ever, least>>

FinishPolicy ==
  /\ Open /\ stack = <<>> /\ job.set = Absent /\ ret # Absent
  /\ answer' = ret /\ ret' = Absent
  /\ UNCHANGED <<registry, sets, clock, job, stack, registered, ever, least>>

-----------------------------------------------------------------------------
(* _evaluate_policy()                                                      *)

Still == UNCHANGED <<registry, sets, clock, job, registered, ever>>

CanRevert(p) == p.revert # Absent /\ registry[p.revert] # Absent

\* Inside its window: go on with the INCLUDEs.
WindowOpen ==
  /\ Running /\ Current.at = "window" /\ ~OutsideWindow(Current.policy)
  /\ stack' = Goto("includes")
  /\ UNCHANGED <<ret, answer, least>> /\ Still

\* Outside it: the registered successor, or the expiry verdict.
WindowClosed ==
  /\ Running /\ Current.at = "window" /\ OutsideWindow(Current.policy)
  /\ LET p == Current.policy IN
     IF ~CanRevert(p) THEN Return(p.onExpiry) /\ Note(p.onExpiry)
     ELSE /\ IF InCycle(Current) THEN Raise("CompositionError")
             ELSE Delegate(Goto("pass"), p.revert)
          /\ UNCHANGED least
  /\ Still

PendingIncludes(f) == f.next <= Len(f.policy.includes)

\* The alias is bound in this call's copy of the context only.
Bind(s, a, v) == [s EXCEPT ![Len(s)].ctx[a] = v, ![Len(s)].next = @ + 1,
                           ![Len(s)].at = "includes"]

\* Mutant: an INCLUDE that cannot be resolved is skipped.
MutBindMissing(s, a) == [s EXCEPT ![Len(s)].next = @ + 1]

\* An INCLUDE of an unknown policy or of a file that cannot be read.
BindMissing(s, a) == Bind(s, a, "DENY")

\* load_file(): what a file holds replaces what is registered under its names.
\* The sets in it cannot matter to the call under way.
Loaded(f) == [n \in Names |-> IF f[n] # Absent THEN f[n] ELSE registry[n]]

\* One INCLUDE; a file is loaded only when its policy is not registered.
Include ==
  /\ Running /\ Current.at = "includes" /\ PendingIncludes(Current)
  /\ LET ref   == Current.policy.includes[Current.next]
         load  == ref.file # Absent /\ registry[ref.of] = Absent
         file  == IF load THEN Files[ref.file] ELSE Unreadable
         known == IF file \in {Unreadable, Malformed} THEN registry ELSE Loaded(file)
     IN  /\ registry' = known
         /\ ever' = ever \cup ({known[n] : n \in Names} \ {Absent})
         /\ IF file = Malformed
            THEN Raise("ParseError")
            ELSE IF known[ref.of] = Absent
            THEN /\ stack' = BindMissing(stack, ref.of)
                 /\ UNCHANGED <<ret, answer>>
            ELSE CallPolicy(Goto("included"), known[ref.of],
                            Current.chain, Current.ctx)
  /\ UNCHANGED <<sets, clock, job, registered, least>>

Included ==
  /\ Resumed /\ Current.at = "included"
  /\ stack' = Bind(stack, Current.policy.includes[Current.next].of, ret)
  /\ ret' = Absent /\ UNCHANGED <<answer, least>>
  /\ Still

AtRules(op) ==
  /\ Running /\ Current.at = "includes" /\ ~PendingIncludes(Current)
  /\ Current.policy.composition = op

\* evaluate_policy() reads the clock again before it runs the rules.
RunAlone ==
  /\ AtRules(Absent)
  /\ LET p == Current.policy
         v == IF OutsideWindow(p) THEN p.onExpiry
              ELSE OrDeny(OwnRules(p, Current.ctx))
     IN  Return(v) /\ Note(v)
  /\ Still

RunExtends ==
  /\ AtRules("EXTENDS")
  /\ LET p == Current.policy  own == OwnRules(p, Current.ctx) IN
     IF ~InCycle(Current) /\ (own # Absent \/ p.stop \/ p.parent = Absent)
     THEN Return(OrDeny(own)) /\ Note(OrDeny(own))
     ELSE /\ IF InCycle(Current) THEN Raise("CompositionError")
             ELSE Delegate(Goto("pass"), p.parent)
          /\ UNCHANGED least
  /\ Still

RunRestricts ==
  /\ AtRules("RESTRICTS")
  /\ LET p == Current.policy  own == OrDeny(OwnRules(p, Current.ctx)) IN
     /\ IF InCycle(Current) THEN Raise("CompositionError")
        ELSE Delegate([Goto("meet") EXCEPT ![Len(stack)].own = own], p.parent)
     /\ Note(own)
  /\ Still

\* The parent's or successor's decision is returned as it is ...
PassOn ==
  /\ Resumed /\ Current.at = "pass"
  /\ Return(ret)
  /\ UNCHANGED least /\ Still

\* Mutant: a child that allows answers without its parent.
MutRestricted(child, parent) == IF child = "ALLOW" THEN child ELSE Meet(child, parent)

\* ... or the stricter of it and the child's.
Restricted(child, parent) == Meet(child, parent)

TakeStricter ==
  /\ Resumed /\ Current.at = "meet"
  /\ Return(Restricted(Current.own, ret))
  /\ UNCHANGED least /\ Still

-----------------------------------------------------------------------------
(* The environment                                                         *)

Tick ==
  /\ Open /\ clock < MaxTime /\ clock' = clock + 1
  /\ UNCHANGED <<registry, sets, job, stack, ret, answer, registered, ever, least>>

\* register(), register_from_text() and load_file() by the host or, while a
\* call runs, by another of its threads.  What was registered before the call
\* is Init's choice.
Register(p) ==
  /\ Open /\ registered < MaxRegistered
  /\ registry[p.name] # p
  /\ registry' = [registry EXCEPT ![p.name] = p]
  /\ registered' = registered + 1
  /\ ever' = ever \cup {p}
  /\ UNCHANGED <<sets, clock, job, stack, ret, answer, least>>

RegisterSet(n, s) ==
  /\ answer = Absent /\ registered < MaxRegistered
  /\ sets[n] # s
  /\ sets' = [sets EXCEPT ![n] = s]
  /\ registered' = registered + 1
  /\ UNCHANGED <<registry, clock, job, stack, ret, answer, ever, least>>

Next ==
  \/ \E n \in Names : Evaluate(n)
  \/ \E g \in UNION {DOMAIN s.groups : s \in SetCatalog} : EvaluateMember(g) \/ TakeMember(g)
  \/ FinishSet \/ FinishPolicy
  \/ WindowOpen \/ WindowClosed \/ Include \/ Included
  \/ RunAlone \/ RunExtends \/ RunRestricts \/ PassOn \/ TakeStricter
  \/ Tick
  \/ \E p \in Catalog : Register(p)
  \/ \E n \in Names, s \in SetCatalog : RegisterSet(n, s)

Spec == Init /\ [][Next]_vars

-----------------------------------------------------------------------------
(* Properties                                                              *)

\* Types; a frame's chain holds names and an alias is bound to a verdict.
TypeOK ==
  /\ registry \in [Names -> Catalog \cup {Absent}]
  /\ sets \in [Names -> SetCatalog \cup {Absent}]
  /\ clock \in 0..MaxTime /\ registered \in 0..MaxRegistered
  /\ job \in Call \cup {Absent}
  /\ Len(stack) <= MaxDepth
  /\ \A i \in DOMAIN stack :
       /\ stack[i].policy \in Catalog /\ stack[i].chain \subseteq Names
       /\ stack[i].at \in {"window", "includes", "included", "pass", "meet"}
       /\ stack[i].ctx \in [Names -> Verdict \cup {Absent}]
       /\ stack[i].own \in Verdict \cup {Absent}
  /\ ret \in Verdict \cup {Absent}
  /\ answer \in Verdict \cup Error \cup {Absent}
  /\ ever \subseteq Catalog /\ least \in Verdict

\* The references of the policies that were registered during the call.
IncludesOf(p) == {p.includes[i].of : i \in DOMAIN p.includes}
ParentOf(p) == IF p.composition = Absent THEN {} ELSE {p.parent}
IncludeRefs == UNION {{p.name} \X IncludesOf(p) : p \in ever}
ChainRefs == UNION {{p.name} \X ((ParentOf(p) \cup {p.revert}) \ {Absent}) : p \in ever}

\* Every set of names that holds u and what its members refer to holds v.
Reaches(u, v) ==
  \A S \in SUBSET Names :
    u \in S /\ (\A e \in IncludeRefs \cup ChainRefs : e[1] \in S => e[2] \in S) => v \in S

OnCycle(refs) == \E e \in refs : Reaches(e[2], e[1])
Dangling == \/ job.set = Absent /\ registry[job.name] = Absent
            \/ \E p \in ever : \E n \in ParentOf(p) :
                 n = Absent \/ registry[n] = Absent

\* Errors are earned, whatever is registered while the call runs: a circular
\* reference is reported only if there is one, and evaluation exhausts
\* Python's stack only if policies INCLUDE each other in a circle; EXTENDS,
\* RESTRICTS and revert_to never recurse without end (the chain argument of
\* _evaluate_policy() and _check_cycle()).
ErrorsAreEarned ==
  /\ answer = "CompositionError" => Dangling \/ OnCycle(ChainRefs)
  /\ answer = "RecursionError" => OnCycle(IncludeRefs)

\* A policy's verdict is the strictest of what the RESTRICTS policies on its
\* path and the last policy of that path decide: no later EXTENDS, revert_to,
\* INCLUDE, concurrent registration or passage of time loosens a DENY on the
\* way, and nothing else tightens it.
PathDecides == stack = <<>> /\ ret # Absent => ret = least

\* Rules see exactly the INCLUDEs of their own policy that were evaluated and
\* those of the policies that called it: each is bound to a verdict (DENY when
\* it is missing), and none leaks out of an included policy.
ContextScoped ==
  \A k \in DOMAIN stack :
    LET f == stack[k]
        own == {f.policy.includes[i].of : i \in 1..(f.next - 1)}
        inherited == IF k = 1 THEN {}
                     ELSE {a \in Names : stack[k - 1].ctx[a] # Absent}
    IN  {a \in Names : f.ctx[a] # Absent} = own \cup inherited

\* What a policy set answers, said of the members: it allows iff every group
\* does, and denies iff some group does.
Votes(g, v) == {i \in DOMAIN job.got[g] : job.got[g][i] = v}
GroupAllows(g) ==
  CASE Groups[g].op = "UNION"     -> Votes(g, "ALLOW") # {}
    [] Groups[g].op = "INTERSECT" -> /\ job.got[g] # <<>>
                                     /\ Votes(g, "ALLOW") = DOMAIN job.got[g]
    [] Groups[g].op = "MAJORITY"  ->
         Cardinality(Votes(g, "ALLOW"))
           > Cardinality(Votes(g, "DENY") \cup Votes(g, "ESCALATE"))
GroupDenies(g) ==
  CASE Groups[g].op = "UNION"     -> Votes(g, "DENY") = DOMAIN job.got[g]
    [] Groups[g].op = "INTERSECT" -> job.got[g] = <<>> \/ Votes(g, "DENY") # {}
    [] Groups[g].op = "MAJORITY"  -> ~GroupAllows(g)

SetDecides ==
  job # Absent /\ answer \in Verdict =>
    (job.set # Absent /\ Groups # <<>> =>
       /\ answer = "ALLOW" <=> \A g \in DOMAIN Groups : GroupAllows(g)
       /\ answer = "DENY" <=> \E g \in DOMAIN Groups : GroupDenies(g))
=============================================================================
