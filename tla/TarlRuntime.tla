------------------------------ MODULE TarlRuntime ------------------------------
(***************************************************************************)
(* The cached decision engine (utf/tarl/runtime.py): one TarlRuntime       *)
(* shared by several callers.  evaluate() consults the LRU decision cache, *)
(* evaluates the rules on a thread pool and fills the cache; set_policy()  *)
(* replaces the policy, then clears the cache.  Nothing in the runtime is  *)
(* locked, so an action is one stretch of a caller's code between two      *)
(* points at which another thread can change what it reads.  The hit       *)
(* counts only choose the order in which rules are submitted, which the    *)
(* model leaves open, and no decision reads the throw counts: both are     *)
(* left out.  evaluate_with_proof(), which bypasses the cache, is modelled *)
(* in ProofEngine.                                                         *)
(***************************************************************************)
EXTENDS TarlPolicy, FiniteSets

CONSTANTS
  Caller,         \* threads that call evaluate()
  Texts,          \* policies that callers also pass as policy_text
  CacheSize,      \* LRUCache.maxsize
  HostTimes,      \* what a read of the host clock can return
  ClockReads,     \* what self._now() can return: Absent alone without a
                  \* trusted clock; trusted instants with one, and Absent too
                  \* when TrustedClock.verify() may reject the assertion
  MaxCalls,       \* bound: calls of evaluate()
  MaxSwaps        \* bound: calls of set_policy()

ASSUME RuntimeAssumption ==
  /\ Texts \subseteq Policy
  /\ Context # {}
  /\ CacheSize \in Nat
  /\ HostTimes \subseteq Time
  /\ ClockReads \subseteq Time \union {Absent}
  /\ MaxCalls \in Nat /\ MaxSwaps \in Nat

VARIABLES
  policy,   \* self.policy
  cached,   \* the keys of the OrderedDict of LRUCache
  older,    \* <<x, y>> in older: x stands before y in the OrderedDict
  entry,    \* the value of each key, DefaultDeny when not cached
  pc,       \* where each caller is
  ctx,      \* its context
  pol,      \* the policy it captured
  now,      \* its trusted_now, Absent for None
  out,      \* the outcomes of the rules, "pending" while not evaluated
  ans,      \* the decision it is about to return, or has returned
  swap,     \* where set_policy() is
  calls,    \* calls of evaluate() so far
  swaps,    \* calls of set_policy() so far
  asked,    \* history: the policies a call may be answered from
  clean,    \* history: no other policy's decision can have reached the call
  mixed,    \* history: the cache may hold decisions of another policy
  faults,   \* history: calls that failed between storing and promoting
  robbed    \* history: calls during which somebody else removed keys

cacheVars   == <<cached, older, entry>>
runtimeVars == <<policy, cacheVars>>
callVars    == <<ctx, pol, calls>>
localVars   == <<now, out>>
swapVars    == <<swap, swaps>>
historyVars == <<asked, clean, mixed, faults, robbed>>
vars == <<runtimeVars, pc, callVars, localVars, ans, swapVars,
          historyVars>>

Pending == [i \in 1..MaxRules |-> "pending"]
EmptyCache == [c \in Context |-> DefaultDeny]

InFlight(t) == pc[t] \notin {"idle", "done", "refused", "raised"}

Init ==
  /\ policy \in Policy
  /\ cached = {} /\ older = {} /\ entry = EmptyCache
  /\ pc = [t \in Caller |-> "idle"]
  /\ ctx = [t \in Caller |-> CHOOSE c \in Context : TRUE]
  /\ pol = [t \in Caller |-> policy]
  /\ now = [t \in Caller |-> Absent]
  /\ out = [t \in Caller |-> Pending]
  /\ ans = [t \in Caller |-> DefaultDeny]
  /\ swap = "idle"
  /\ calls = 0 /\ swaps = 0
  /\ asked = [t \in Caller |-> {}]
  /\ clean = [t \in Caller |-> FALSE]
  /\ mixed = FALSE
  /\ faults = 0
  /\ robbed = {}

-----------------------------------------------------------------------------
(* LRUCache: an OrderedDict, oldest key first                              *)

MoveToEnd(c) == {e \in older : c \notin {e[1], e[2]}}
                \union {<<x, c>> : x \in cached \ {c}}

Oldest == CHOOSE c \in cached : \A x \in cached : <<x, c>> \notin older

MutOverfull == Cardinality(cached) > CacheSize + 1   \* mutant
Overfull == Cardinality(cached) > CacheSize

MutEmptied == UNCHANGED cacheVars   \* mutant: set_policy() keeps the cache
Emptied == cached' = {} /\ older' = {} /\ entry' = EmptyCache

Forget(c) ==
  /\ cached' = cached \ {c}
  /\ older' = {e \in older : c \notin {e[1], e[2]}}
  /\ entry' = [entry EXCEPT ![c] = DefaultDeny]

-----------------------------------------------------------------------------
(* evaluate()                                                              *)

\* The decision comes before the cache is consulted: the context violates
\* the schema, the policy is outside its window at instant t, or it has no
\* rules.
EarlyAnswer(c, p, t) ==
  IF c \in Malformed THEN {SchemaDecision}
  ELSE IF OutsideWindow(p, t) THEN {ExpiryDecision(p)}
  ELSE IF NumRules[p] = 0 THEN {DefaultDeny}
  ELSE {}

\* A call captures the policy (policy_text if given) and either answers at
\* once or goes to the cache, which temporally constrained policies skip.
Begin(t, c, text, instant) ==
  LET p == IF text = Absent THEN policy ELSE text
      own == p = policy      \* the call evaluates the active policy
      early == EarlyAnswer(c, p, instant)
  IN /\ ~InFlight(t)
     /\ calls < MaxCalls
     /\ calls' = calls + 1
     /\ ctx' = [ctx EXCEPT ![t] = c]
     /\ pol' = [pol EXCEPT ![t] = p]
     /\ IF early = {}
        THEN /\ pc' = [pc EXCEPT ![t] = IF IsTemporallyConstrained(p)
                                        THEN "submit" ELSE "probe"]
             /\ UNCHANGED ans
        ELSE /\ pc' = [pc EXCEPT ![t] = "done"]
             /\ \E d \in early : ans' = [ans EXCEPT ![t] = d]
     /\ asked' = [asked EXCEPT ![t] = {p}]
     /\ clean' = [u \in Caller |->
                    IF u = t THEN own /\ ~mixed /\ swap # "clear"
                    ELSE clean[u] /\ (own \/ ~InFlight(u))]
     /\ mixed' = (mixed \/ ~own)
     /\ robbed' = robbed \ {t}
     /\ UNCHANGED <<runtimeVars, localVars, swapVars, faults>>

\* PolicyParser.parse(policy_text) raises: the text is no policy, and the
\* context has passed the schema.  (evaluate_with_proof() parses first.)
Refuse(t, c) ==
  /\ ~InFlight(t)
  /\ calls < MaxCalls
  /\ calls' = calls + 1
  /\ c \notin Malformed
  /\ ctx' = [ctx EXCEPT ![t] = c]
  /\ pc' = [pc EXCEPT ![t] = "refused"]
  /\ robbed' = robbed \ {t}
  /\ UNCHANGED <<runtimeVars, pol, localVars, ans, swapVars, asked, clean,
                 mixed, faults>>

\* Mutant: get() does not check that the key is there.
MutProbe(t) ==
  /\ pc[t] = "probe"
  /\ pc' = [pc EXCEPT ![t] = "fetch"]
  /\ UNCHANGED <<runtimeVars, callVars, localVars, ans, swapVars,
                 historyVars>>

\* LRUCache.get(): "if key in self._cache" ...
Probe(t) ==
  /\ pc[t] = "probe"
  /\ pc' = [pc EXCEPT ![t] = IF ctx[t] \in cached THEN "fetch" ELSE "submit"]
  /\ UNCHANGED <<runtimeVars, callVars, localVars, ans, swapVars,
                 historyVars>>

\* ... then move_to_end(key), which raises KeyError when the key has gone, and
\* the lookup, which can fail in the same way and is not told apart.
Fetch(t) ==
  /\ pc[t] = "fetch"
  /\ IF ctx[t] \in cached
     THEN /\ pc' = [pc EXCEPT ![t] = "done"]
          /\ ans' = [ans EXCEPT ![t] = entry[ctx[t]]]
          /\ older' = MoveToEnd(ctx[t])
     ELSE /\ pc' = [pc EXCEPT ![t] = "raised"]
          /\ UNCHANGED <<ans, older>>
  /\ UNCHANGED <<policy, cached, entry, callVars, localVars, swapVars,
                 historyVars>>

\* trusted_now is read once and every rule is submitted to the pool.
Submit(t) ==
  /\ pc[t] = "submit"
  /\ pc' = [pc EXCEPT ![t] = "wait"]
  /\ \E trusted \in ClockReads : now' = [now EXCEPT ![t] = trusted]
  /\ UNCHANGED <<runtimeVars, callVars, out, ans, swapVars,
                 historyVars>>

\* A pool worker runs _evaluate_rule(); workers finish in any order, which
\* covers every submission order the hit counts can give.
RunRule(t, i) ==
  /\ pc[t] = "wait"
  /\ i \in Rules(pol[t]) /\ out[t][i] = "pending"
  /\ \E instant \in RuleInstants(pol[t], i, now[t], HostTimes) :
       out' = [out EXCEPT ![t][i] = Fires[pol[t]][ctx[t]][instant][i]]
  /\ UNCHANGED <<runtimeVars, pc, callVars, now, ans, swapVars,
                 historyVars>>

MutCacheable(p, threw) == ~IsTemporallyConstrained(p)   \* mutant
\* use_cache, and no rule threw
Cacheable(p, threw) == ~threw /\ ~IsTemporallyConstrained(p)

\* All futures are done: the results are read in policy order, and a rule
\* that threw ends the call without touching the cache.
Collect(t) ==
  LET p == pol[t]
      d == FirstMatch(p, out[t])
      threw == d.rule # 0 /\ out[t][d.rule] = "throw"
  IN /\ pc[t] = "wait"
     /\ \A i \in Rules(p) : out[t][i] # "pending"
     /\ ans' = [ans EXCEPT ![t] = d]
     /\ pc' = [pc EXCEPT ![t] = IF Cacheable(p, threw) THEN "store" ELSE "done"]
     /\ out' = [out EXCEPT ![t] = Pending]
     /\ now' = [now EXCEPT ![t] = Absent]
     /\ UNCHANGED <<runtimeVars, callVars, swapVars, historyVars>>

\* LRUCache.put(): "self._cache[key] = value"; a new key goes to the end ...
Store(t) ==
  LET c == ctx[t]
  IN /\ pc[t] = "store"
     /\ pc' = [pc EXCEPT ![t] = "promote"]
     /\ cached' = cached \union {c}
     /\ older' = IF c \in cached THEN older ELSE MoveToEnd(c)
     /\ entry' = [entry EXCEPT ![c] = ans[t]]
     /\ UNCHANGED <<policy, callVars, localVars, ans, swapVars,
                    historyVars>>

\* ... "self._cache.move_to_end(key)", a KeyError when the key has gone ...
Promote(t) ==
  /\ pc[t] = "promote"
  /\ IF ctx[t] \in cached
     THEN /\ pc' = [pc EXCEPT ![t] = "evict"]
          /\ older' = MoveToEnd(ctx[t])
          /\ UNCHANGED faults
     ELSE /\ pc' = [pc EXCEPT ![t] = "raised"]
          /\ faults' = faults + 1
          /\ UNCHANGED older
  /\ UNCHANGED <<policy, cached, entry, callVars, localVars, ans, swapVars,
                 asked, clean, mixed, robbed>>

\* ... and, when the cache has grown beyond maxsize ...
Evict(t) ==
  /\ pc[t] = "evict"
  /\ pc' = [pc EXCEPT ![t] = IF Overfull THEN "pop" ELSE "done"]
  /\ UNCHANGED <<runtimeVars, callVars, localVars, ans, swapVars,
                 historyVars>>

\* ... "self._cache.popitem(last=False)", a KeyError when nothing is left.
Pop(t) ==
  /\ pc[t] = "pop"
  /\ IF cached # {}
     THEN /\ pc' = [pc EXCEPT ![t] = "done"]
          /\ Forget(Oldest)
          /\ robbed' = robbed \union {u \in Caller \ {t} : InFlight(u)}
     ELSE /\ pc' = [pc EXCEPT ![t] = "raised"]
          /\ UNCHANGED <<cacheVars, robbed>>
  /\ UNCHANGED <<policy, callVars, localVars, ans, swapVars, asked, clean,
                 mixed, faults>>

-----------------------------------------------------------------------------
(* set_policy(): unlocked assignments                                      *)

SwapPolicy(p) ==
  /\ swap = "idle"
  /\ swaps < MaxSwaps
  /\ swap' = "clear" /\ swaps' = swaps + 1
  /\ policy' = p
  /\ asked' = [t \in Caller |-> IF InFlight(t) THEN asked[t] \union {p}
                                ELSE asked[t]]
  /\ UNCHANGED <<cacheVars, pc, callVars, localVars, ans, clean, mixed,
                 faults, robbed>>

ClearCache ==
  /\ swap = "clear"
  /\ swap' = "idle"
  /\ Emptied
  /\ mixed' = (\E t \in Caller : InFlight(t) /\ pol[t] # policy)
  /\ robbed' = robbed \union {t \in Caller : InFlight(t)}
  /\ UNCHANGED <<policy, pc, callVars, localVars, ans, swaps, asked, clean,
                 faults>>

-----------------------------------------------------------------------------

Step(t) ==
  \/ Probe(t) \/ Fetch(t) \/ Submit(t) \/ Collect(t)
  \/ Store(t) \/ Promote(t) \/ Evict(t) \/ Pop(t)
  \/ \E i \in 1..MaxRules : RunRule(t, i)

Next ==
  \/ \E t \in Caller, c \in Context, x \in Texts \union {Absent} :
       \E instant \in UNION {Instants(n, HostTimes) : n \in ClockReads} : Begin(t, c, x, instant)
  \/ \E t \in Caller, c \in Context : Refuse(t, c)
  \/ \E t \in Caller : Step(t)
  \/ \E p \in Policy : SwapPolicy(p)
  \/ ClearCache

Spec == Init /\ [][Next]_vars

-----------------------------------------------------------------------------
(* Properties                                                              *)

TypeOK ==
  /\ policy \in Policy
  /\ cached \subseteq Context
  /\ older \subseteq Context \X Context
  /\ entry \in [Context -> Decision]
  /\ pc \in [Caller -> {"idle", "probe", "fetch", "submit", "wait", "store",
                        "promote", "evict", "pop", "done", "refused",
                        "raised"}]
  /\ ctx \in [Caller -> Context] /\ pol \in [Caller -> Policy]
  /\ now \in [Caller -> Time \union {Absent}]
  /\ out \in [Caller -> [1..MaxRules -> Outcome \union {"pending"}]]
  /\ ans \in [Caller -> Decision]
  /\ swap \in {"idle", "clear"}
  /\ calls \in Nat /\ swaps \in Nat /\ faults \in Nat
  /\ asked \in [Caller -> SUBSET Policy]
  /\ clean \in [Caller -> BOOLEAN] /\ mixed \in BOOLEAN
  /\ robbed \subseteq Caller

\* Whatever the interleaving, the cache holds only decisions that the rules
\* of a policy without temporal directives gave for that very context, and
\* never a decision taken because a rule raised (runtime.py: use_cache, and
\* the early return for a rule that threw).
CacheJustified ==
  \A c \in cached :
    \E p \in Policy :
      ~IsTemporallyConstrained(p) /\ MatchJustified(p, c, entry[c])

\* A call that evaluates the active policy, starts outside set_policy() and
\* meets no other policy's decisions is answered, from the cache or not, by a
\* policy active while it ran, however calls interleave with each other and
\* with set_policy().
AnswerIsCurrent ==
  \A t \in Caller :
    pc[t] = "done" /\ clean[t] =>
      \E p \in asked[t] : Justified(p, ctx[t], ans[t])

\* The cache never outgrows maxsize by more than the insertions under way
\* and the calls whose key was removed between storing and promoting it.
CacheBounded ==
  Cardinality(cached) <=
    CacheSize + faults + Cardinality({t \in Caller : pc[t] \in {"promote", "evict", "pop"}})

\* The cache makes evaluate() raise (a KeyError) only if, while that very call
\* ran, another caller evicted a key or set_policy() cleared the cache.  What
\* a call evicts itself, calls that ended before it began and calls that only
\* insert never do: between "key in self._cache" and move_to_end(), between
\* storing and promoting, and from the length check to popitem().
RaisesOnlyRobbed == \A t \in Caller : pc[t] = "raised" => t \in robbed

-----------------------------------------------------------------------------
(* What the documentation says and the code does not do                    *)

\* "Evaluate the active policy (or policy_text if supplied)": an answer comes
\* from the policy the call was asked about (or one set while it ran).
AnswerIsFromPolicyAsked ==
  \A t \in Caller :
    pc[t] = "done" => \E p \in asked[t] : Justified(p, ctx[t], ans[t])
=============================================================================
