----------------------------- MODULE Convergence -----------------------------
(***************************************************************************)
(* Shadow Thirst's PromotionEngine (utf/shadow_thirst/core.py) with the    *)
(* execute-and-compare layer of convergence.py: the shadow and canonical   *)
(* blocks of mutation modules run on one pool of threads, each awaited for *)
(* two seconds.  A process evaluates a few modules, one after the other;   *)
(* what it stopped waiting for goes on running.                            *)
(*                                                                         *)
(* A block on a seed has a value, NoReturn or Raises, and a pace: "prompt" *)
(* is well within the timeout once a thread runs it, "slow" is more, and   *)
(* "never" does not end.  That the pool cannot start a thread, by which    *)
(* submit() raises and the module is rejected, is left out.                *)
(***************************************************************************)
EXTENDS Integers, SequencesExt, FiniteSetsExt

CONSTANTS
  Modules,   \* modules to evaluate, [others, static, blocks]: the levels at
             \* which other analyzers fail, what the layers before sampling
             \* say, and blocks[side][seed] = [value, pace]
  Seeds,     \* number of seed vectors
  Length,    \* modules of a process
  Threads,   \* threads of _EXEC_POOL, 2 in the code
  NoReturn,  \* _NO_RETURN
  Raises     \* any exception of the interpreter

VARIABLES
  modules,   \* the modules of this process
  verdicts,  \* PromotionEngine.evaluate()'s verdicts so far
  seed,      \* seed that is being compared, 0 before sampling
  task,      \* number of the task that is awaited, or 0
  shadow,    \* (ok, value) of the shadow block on the seed, or Unknown
  compared,  \* seeds that were compared
  queue,     \* tasks _EXEC_POOL has not started, [id, module, side, seed]
  running,   \* tasks its threads run
  results,   \* task numbers and values of the futures that are done
  submitted, \* tasks so far
  missed,    \* history: seeds of the module on which a block timed out
  sampled    \* history: the seeds compared and missed for each verdict
promotionVars == <<modules, verdicts, seed, task, shadow, compared, queue, running, results,
          submitted, missed, sampled>>
pool == <<queue, running>>

Unknown == [ok |-> FALSE, value |-> "unknown"]
Failed == [ok |-> FALSE, value |-> Raises]
Level == {"CRITICAL", "NON_CRITICAL"}
Side == {"shadow", "canonical"}

ASSUME ConvergenceAssumption ==
  /\ Seeds \in Nat \ {0} /\ Length \in Nat /\ Threads \in Nat \ {0}
  /\ Raises # "unknown"
  /\ \A m \in Modules : /\ m.others \subseteq Level
                        /\ m.static \in Level \cup {"pass", "sample"}
                        /\ DOMAIN m.blocks = Side
                        /\ \A side \in Side : DOMAIN m.blocks[side] = 1..Seeds

PromotionInit ==
  /\ modules \in [1..Length -> Modules]
  /\ verdicts = <<>> /\ seed = 0 /\ task = 0 /\ shadow = Unknown /\ compared = {}
  /\ queue = <<>> /\ running = {} /\ results = {} /\ submitted = 0
  /\ missed = {} /\ sampled = <<>>

Current == Len(verdicts) + 1
Module == modules[Current]
Evaluating == Current <= Length

-----------------------------------------------------------------------------
(* PromotionEngine.evaluate()                                              *)

Verdict(failures) == IF "CRITICAL" \in failures THEN "REJECT"
                     ELSE IF "NON_CRITICAL" \in failures THEN "FLAGGED"
                     ELSE "PROMOTE"

Decide(failures) ==
  /\ verdicts' = Append(verdicts, Verdict(Module.others \cup failures))
  /\ sampled' = Append(sampled, [compared |-> compared, missed |-> missed])
  /\ seed' = 0 /\ task' = 0 /\ shadow' = Unknown /\ compared' = {} /\ missed' = {}

\* The other analyzers, and the structural, lexical and symbolic layers
Analyze ==
  /\ Evaluating /\ seed = 0
  /\ IF Module.static = "sample"
     THEN /\ seed' = 1
          /\ UNCHANGED <<verdicts, task, shadow, compared, missed, sampled>>
     ELSE Decide({Module.static} \cap Level)
  /\ UNCHANGED <<modules, pool, results, submitted>>

-----------------------------------------------------------------------------
(* _EXEC_POOL                                                              *)

\* A thread without a task takes the next one at once.
Assign(q, r) ==
  LET takes == q # <<>> /\ Cardinality(r) < Threads
  IN  /\ queue' = IF takes THEN Tail(q) ELSE q
      /\ running' = IF takes THEN r \cup {Head(q)} ELSE r

Outcome(t) == modules[t.module].blocks[t.side][t.seed]

\* A block ends; one that is slow does so after it was given up.
Finish ==
  \E t \in running :
    /\ Outcome(t).pace = "prompt" \/ (Outcome(t).pace = "slow" /\ t.id # task)
    /\ Assign(queue, running \ {t})
    /\ results' = IF t.id = task THEN {[id |-> t.id, value |-> Outcome(t).value]} ELSE results
    /\ UNCHANGED <<modules, verdicts, seed, task, shadow, compared, submitted, missed, sampled>>

-----------------------------------------------------------------------------
(* execute_and_compare()                                                   *)

Sampling == Evaluating /\ seed \in 1..Seeds

\* _run_block_guarded() submits a block ...
Submit ==
  /\ Sampling /\ task = 0
  /\ submitted' = submitted + 1 /\ task' = submitted + 1
  /\ Assign(Append(queue, [id |-> submitted + 1, module |-> Current, seed |-> seed,
                           side |-> IF shadow = Unknown THEN "shadow" ELSE "canonical"]),
            running)
  /\ UNCHANGED <<modules, verdicts, seed, shadow, compared, results, missed, sampled>>

\* (ok, value) of the shadow block; late is whether it timed out.
MissedIf(late) == IF late THEN missed \cup {seed} ELSE missed
ShadowDone(result, late) ==
  /\ shadow = Unknown
  /\ shadow' = result /\ task' = 0 /\ missed' = MissedIf(late)
  /\ UNCHANGED <<verdicts, seed, compared, sampled>>

\* On to the next seed; ran is whether both blocks ran on this one.
NextSeed(ran, late) ==
  /\ compared' = IF ran THEN compared \cup {seed} ELSE compared
  /\ seed' = seed + 1 /\ task' = 0 /\ shadow' = Unknown /\ missed' = MissedIf(late)
  /\ UNCHANGED <<verdicts, sampled>>

CanonicalDone(result) ==
  LET ran == shadow.ok /\ result.ok
  IN  /\ shadow # Unknown
      /\ IF ran /\ shadow.value # result.value
         THEN Decide({"NON_CRITICAL"})
         ELSE NextSeed(ran, FALSE)

\* ... and has its result, ...
Answered ==
  \E r \in results :
    LET result == IF r.value = Raises THEN Failed ELSE [ok |-> TRUE, value |-> r.value]
    IN  /\ task # 0 /\ r.id = task
        /\ ShadowDone(result, FALSE) \/ CanonicalDone(result)
        /\ results' = {}
        /\ UNCHANGED <<modules, pool, submitted>>

\* ... or gives up after two seconds, but not as long as the block, or one that
\* would make place for it, is prompt.
\* Mutant: result() has no timeout.
MutGivesUp == FALSE
GivesUp ==
  /\ task # 0 /\ \A r \in results : r.id # task
  /\ \/ \E t \in running : t.id = task /\ Outcome(t).pace # "prompt"
     \/ \A t \in running : t.id # task /\ Outcome(t).pace # "prompt"
TimeOut ==
  /\ GivesUp
  /\ ShadowDone(Failed, TRUE) \/ (shadow # Unknown /\ NextSeed(FALSE, TRUE))
  /\ UNCHANGED <<modules, pool, results, submitted>>

\* All seeds are through.
\* Mutant: a module of which no seed was compared converges too.
MutConverges == TRUE
Converges == compared # {}
Conclude ==
  /\ Evaluating /\ seed > Seeds
  /\ Decide(IF Converges THEN {} ELSE {"NON_CRITICAL"})
  /\ UNCHANGED <<modules, pool, results, submitted>>

PromotionNext == Analyze \/ Finish \/ Submit \/ Answered \/ TimeOut \/ Conclude

\* The process, the clock and the threads go on; a block may never end.
PromotionFairness == /\ WF_promotionVars(Analyze) /\ WF_promotionVars(Submit) /\ WF_promotionVars(Finish)
                     /\ WF_promotionVars(Answered) /\ WF_promotionVars(TimeOut)
                     /\ WF_promotionVars(Conclude)
PromotionSpec == PromotionInit /\ [][PromotionNext]_promotionVars /\ PromotionFairness

-----------------------------------------------------------------------------
(* Properties                                                              *)

Task == [id: Nat, module: 1..Length, side: Side, seed: 1..Seeds]
PromotionTypeOK ==
  /\ modules \in [1..Length -> Modules]
  /\ verdicts \in Seq({"PROMOTE", "FLAGGED", "REJECT"})
  /\ sampled \in Seq([compared: SUBSET (1..Seeds), missed: SUBSET (1..Seeds)])
  /\ Len(verdicts) <= Length /\ Len(sampled) = Len(verdicts)
  /\ seed \in 0..(Seeds + 1) /\ compared \subseteq 1..Seeds /\ missed \subseteq 1..Seeds
  /\ queue \in Seq(Task) /\ running \subseteq Task
  /\ submitted \in Nat /\ task \in 0..submitted

Value(m, side, s) == m.blocks[side][s].value
Runs(m, s) == \A side \in Side : Value(m, side, s) # Raises
Agree(m, s) == Value(m, "shadow", s) = Value(m, "canonical", s)
Prompt(m) == \A side \in Side : \A s \in 1..Seeds : m.blocks[side][s].pace = "prompt"

\* The verdict on a module all of whose blocks are run to their end, with the
\* level the analyzer gives to a divergence, NON_CRITICAL
Converging(m) == \/ m.static = "pass"
                 \/ /\ m.static = "sample"
                    /\ \E s \in 1..Seeds : Runs(m, s)
                    /\ \A s \in 1..Seeds : Runs(m, s) => Agree(m, s)
VerdictOf(m) == IF m.static = "CRITICAL" \/ "CRITICAL" \in m.others THEN "REJECT"
                ELSE IF Converging(m) /\ m.others = {} THEN "PROMOTE"
                ELSE "FLAGGED"

\* No block was slow, in whatever module of the process, up to the k-th.
Unhindered(k) == \A j \in 1..k : modules[j].static = "sample" => Prompt(modules[j])

\* As long as no block was slow every module gets the verdict of its own blocks
\* and analyzers alone.  Afterwards a module is still promoted only on a seed
\* that was compared, and none but the seeds that timed out can have hidden a
\* difference.  FLAGGED is what the code says of a difference; what the
\* documentation says of one is DivergenceRejected.
VerdictsEarned ==
  \A k \in DOMAIN verdicts :
    /\ Unhindered(k) => verdicts[k] = VerdictOf(modules[k])
    /\ verdicts[k] = "PROMOTE" /\ modules[k].static = "sample" =>
         /\ \E s \in sampled[k].compared : Runs(modules[k], s) /\ Agree(modules[k], s)
         /\ \A s \in 1..Seeds \ sampled[k].missed :
              Runs(modules[k], s) => Agree(modules[k], s)

\* Every evaluation comes to a verdict, although blocks may keep all threads
\* of the pool for ever.
EveryModuleDecided == <>(Len(verdicts) = Length)

-----------------------------------------------------------------------------
(* What the documentation says and the code does not do                    *)

\* Blocks that sampling finds to differ are rejected with a counterexample
\* (CanonicalConvergenceAnalyzer's documentation and docs/FEATURES.md).
DivergenceRejected ==
  \A k \in DOMAIN verdicts :
    /\ modules[k].static = "sample" /\ Unhindered(k)
    /\ \E s \in 1..Seeds : Runs(modules[k], s) /\ ~Agree(modules[k], s)
    => verdicts[k] = "REJECT"
=============================================================================
