------------------------------ MODULE TarlPolicy ------------------------------
(***************************************************************************)
(* T.A.R.L. policies and what evaluating one means (utf/tarl/spec.py,      *)
(* utf/tarl/core.py): verdicts, decisions, first-match-wins over the       *)
(* outcomes of the rules, and the time window of a policy.                 *)
(*                                                                         *)
(* A condition is abstracted to its outcome: Fires[p][c][t][i] says        *)
(* whether rule i of policy p matches context c, misses it, or raises,     *)
(* when the clock it reads shows the instant t.  (No rule reads both       *)
(* clocks.)  Dates and durations are within the range of Python's.         *)
(***************************************************************************)
EXTENDS Integers

CONSTANTS
  Policy,       \* parsed TarlPolicy objects
  Context,      \* contexts, sources already injected
  Time,         \* instants a clock can show
  MaxRules,     \* bound: no policy has more rules
  NumRules,     \* NumRules[p] = len(p.rules)
  Fires,        \* Fires[p][c][t][i], an outcome
  Elapsed,      \* <<p, i>>: rule i of p calls ELAPSED_SINCE
  RuleVerdict,  \* RuleVerdict[p][i], the verdict rule i declares
  Window,       \* Window[p], the temporal directives of p
  Malformed,    \* contexts the attached ContextSchema rejects
  OnViolation,  \* ContextSchema.on_violation
  Absent        \* Python's None

Verdict == {"ALLOW", "DENY", "ESCALATE"}
Outcome == {"match", "miss", "throw"}

\* TarlDecision; rule = 0 stands for rule_index None (no rule decided).
Decision == [verdict : Verdict, rule : 0..MaxRules]

Directives ==
  [from       : Time \union {Absent},
   until      : Time \union {Absent},
   unresolved : Nat \union {Absent},     \* if_unresolved_after
   onExpiry   : Verdict \union {Absent},
   timed      : BOOLEAN]                 \* some rule has a duration, or a
                                         \* directive is set and is no date

ASSUME PolicyAssumption ==
  /\ Time \subseteq Nat
  /\ MaxRules \in Nat
  /\ NumRules \in [Policy -> 0..MaxRules]
  /\ Fires \in [Policy -> [Context -> [Time -> [1..MaxRules -> Outcome]]]]
  /\ Elapsed \subseteq Policy \X (1..MaxRules)
  /\ RuleVerdict \in [Policy -> [1..MaxRules -> Verdict]]
  /\ Window \in [Policy -> Directives]
  /\ Malformed \subseteq Context
  /\ OnViolation \in Verdict
  /\ Absent \notin Nat \union Verdict \union Policy

-----------------------------------------------------------------------------
(* Rules: first match wins, an exception fails closed                      *)

Rules(p) == 1..NumRules[p]

DefaultDeny == [verdict |-> "DENY", rule |-> 0]

\* Rule i is the first of p, in policy order, that does not simply miss.
Decides(p, out, i) ==
  /\ i \in Rules(p)
  /\ out[i] # "miss"
  /\ \A j \in 1..(i - 1) : out[j] = "miss"

DecisionOf(p, out, i) ==
  [verdict |-> IF out[i] = "throw" THEN "DENY" ELSE RuleVerdict[p][i],
   rule    |-> i]

FirstMatch(p, out) ==
  IF \E i \in Rules(p) : Decides(p, out, i)
  THEN DecisionOf(p, out, CHOOSE i \in Rules(p) : Decides(p, out, i))
  ELSE DefaultDeny

-----------------------------------------------------------------------------
(* The time window of a policy                                             *)

\* The instants that may end the window: valid_until, and the succession
\* point valid_from + if_unresolved_after.
Ends(w) ==
  ({w.until} \ {Absent}) \union
  (IF Absent \in {w.from, w.unresolved} THEN {} ELSE {w.from + w.unresolved})

OutsideWindow(p, t) ==
  LET w == Window[p]
  IN \/ w.from # Absent /\ t < w.from
     \/ \E e \in Ends(w) : t > e

\* Mutant: on_expiry is used although the policy does not set it.
MutExpiryDecision(p) == [verdict |-> Window[p].onExpiry, rule |-> 0]

ExpiryDecision(p) ==
  [verdict |-> IF Window[p].onExpiry = Absent THEN "ESCALATE"
               ELSE Window[p].onExpiry,
   rule    |-> 0]

\* Decisions of such a policy must not be cached.
IsTemporallyConstrained(p) ==
  LET w == Window[p]
  IN \/ w.from # Absent
     \/ w.until # Absent
     \/ w.unresolved \notin {Absent, 0}
     \/ w.timed

SchemaDecision == [verdict |-> OnViolation, rule |-> 0]

-----------------------------------------------------------------------------
(* Clocks.  "now or datetime.now(UTC)": without a trusted instant the host  *)
(* clock is read, and ELAPSED_SINCE reads it in any case.  host is what a   *)
(* read of it may show now: it may have moved, or been adjusted.            *)

Instants(trusted, host) == IF trusted = Absent THEN host ELSE {trusted}

RuleInstants(p, i, trusted, host) ==
  IF <<p, i>> \in Elapsed THEN host ELSE Instants(trusted, host)

-----------------------------------------------------------------------------
(* What a decision may rest on, for the properties of the engines.  Without *)
(* a trusted clock every rule reads the host clock when it runs, so the     *)
(* rules of one evaluation may see different instants.                      *)

Seen(p, c, i, outcome) == \E t \in Time : Fires[p][c][t][i] = outcome

Missed(p, c, i) == Seen(p, c, i, "miss")

\* d is what the rules of p say of c, no rule having raised.
MatchJustified(p, c, d) ==
  \/ /\ d = DefaultDeny
     /\ \A i \in Rules(p) : Missed(p, c, i)
  \/ /\ d.rule \in Rules(p)
     /\ d.verdict = RuleVerdict[p][d.rule]
     /\ Seen(p, c, d.rule, "match")
     /\ \A j \in 1..(d.rule - 1) : Missed(p, c, j)

\* d is the fail-closed decision for a rule of p that raised on c.
ThrowJustified(p, c, d) ==
  /\ d.rule \in Rules(p)
  /\ d.verdict = "DENY"
  /\ Seen(p, c, d.rule, "throw")
  /\ \A j \in 1..(d.rule - 1) : Missed(p, c, j)

\* d is an answer the engines may give for c under policy p.
Justified(p, c, d) ==
  \/ c \in Malformed /\ d = SchemaDecision
  \/ (\E t \in Time : OutsideWindow(p, t)) /\ d = ExpiryDecision(p)
  \/ MatchJustified(p, c, d)
  \/ ThrowJustified(p, c, d)
=============================================================================
