-------------------------- MODULE Standalone_proofs --------------------------
(***************************************************************************)
(* Proofs about the three components that no other one builds on: the      *)
(* verdicts of the promotion engine (Convergence), the frames that         *)
(* StreamDecoder cuts out of a stream, and the search page (DocSearch).    *)
(***************************************************************************)
EXTENDS Convergence, StreamDecoder, DocSearch, TLAPS, FiniteSetTheorems, WellFoundedInduction

-----------------------------------------------------------------------------
(* CONVERGENCE: the verdicts of the promotion engine, for any modules, any *)
(* number of seeds and threads and a process of any length                 *)

-----------------------------------------------------------------------------
(* The pool                                                                *)

Queued == {queue[k] : k \in DOMAIN queue}
Tasks == running \cup Queued

LEMMA TasksType == PromotionTypeOK => Tasks \subseteq Task
BY DEF PromotionTypeOK, Tasks, Queued

LEMMA AppendElements ==
  ASSUME NEW q \in Seq(Task), NEW x \in Task
  PROVE  /\ Append(q, x) \in Seq(Task) /\ Append(q, x) # <<>>
         /\ {Append(q, x)[k] : k \in DOMAIN Append(q, x)} = {q[k] : k \in DOMAIN q} \cup {x}
<1>1. /\ Len(q) \in Nat /\ DOMAIN q = 1..Len(q) /\ DOMAIN Append(q, x) = 1..(Len(q) + 1)
      /\ Append(q, x)[Len(q) + 1] = x /\ \A k \in 1..Len(q) : Append(q, x)[k] = q[k]
  OBVIOUS
<1> QED
  BY <1>1

LEMMA TailElements ==
  ASSUME NEW q \in Seq(Task), q # <<>>
  PROVE  /\ Head(q) \in Task /\ Tail(q) \in Seq(Task)
         /\ {Tail(q)[k] : k \in DOMAIN Tail(q)} \cup {Head(q)} = {q[k] : k \in DOMAIN q}
<1>1. /\ Len(q) \in Nat \ {0} /\ DOMAIN q = 1..Len(q) /\ DOMAIN Tail(q) = 1..(Len(q) - 1)
      /\ Head(q) = q[1] /\ Head(q) \in Task /\ Tail(q) \in Seq(Task)
      /\ \A k \in 1..(Len(q) - 1) : Tail(q)[k] = q[k + 1]
  OBVIOUS
<1>2. ASSUME NEW k \in DOMAIN q
      PROVE  q[k] \in {Tail(q)[j] : j \in DOMAIN Tail(q)} \cup {Head(q)}
  <2>1. CASE k = 1
    BY <1>1, <2>1
  <2>2. CASE k # 1
    <3>1. k - 1 \in DOMAIN Tail(q) /\ Tail(q)[k - 1] = q[k]
      BY <1>1, <1>2, <2>2
    <3> QED
      BY <3>1
  <2> QED
    BY <2>1, <2>2
<1>3. ASSUME NEW k \in DOMAIN Tail(q)
      PROVE  Tail(q)[k] \in {q[j] : j \in DOMAIN q}
  BY <1>1, <1>3
<1> QED
  BY <1>1, <1>2, <1>3

\* Assigning tasks loses none and leaves no thread idle while tasks wait.
LEMMA Assigned ==
  ASSUME NEW q \in Seq(Task), NEW r \in SUBSET Task, Assign(q, r)
  PROVE  /\ queue' \in Seq(Task) /\ running' \subseteq Task
         /\ Tasks' = r \cup {q[k] : k \in DOMAIN q}
         /\ queue' # <<>> => running' # {}
<1>1. CASE q # <<>> /\ Cardinality(r) < Threads
  <2>1. queue' = Tail(q) /\ running' = r \cup {Head(q)}
    BY <1>1 DEF Assign
  <2> QED
    BY <1>1, <2>1, TailElements DEF Tasks, Queued
<1>2. CASE q = <<>> \/ ~(Cardinality(r) < Threads)
  <2>1. queue' = q /\ running' = r
    BY <1>2 DEF Assign
  <2>2. Cardinality({}) = 0
    BY FS_EmptySet
  <2>3. q # <<>> => r # {}
    BY <1>2, <2>2, ConvergenceAssumption
  <2> QED
    BY <2>1, <2>3 DEF Tasks, Queued
<1> QED
  BY <1>1, <1>2

-----------------------------------------------------------------------------
(* Types                                                                   *)

LEMMA DecideType ==
  ASSUME PromotionTypeOK, Evaluating, NEW failures \in SUBSET Level, Decide(failures)
  PROVE  /\ verdicts' \in Seq({"PROMOTE", "FLAGGED", "REJECT"})
         /\ sampled' \in Seq([compared: SUBSET (1..Seeds), missed: SUBSET (1..Seeds)])
         /\ Len(verdicts') <= Length /\ Len(sampled') = Len(verdicts')
         /\ seed' = 0 /\ task' = 0 /\ shadow' = Unknown /\ compared' = {} /\ missed' = {}
<1>1. Verdict(Module.others \cup failures) \in {"PROMOTE", "FLAGGED", "REJECT"}
  BY DEF Verdict
<1>2. [compared |-> compared, missed |-> missed] \in
        [compared: SUBSET (1..Seeds), missed: SUBSET (1..Seeds)]
  BY DEF PromotionTypeOK
<1> QED
  BY <1>1, <1>2, ConvergenceAssumption DEF Decide, PromotionTypeOK, Evaluating, Current

LEMMA NextSeedType ==
  ASSUME PromotionTypeOK, Sampling, NEW ran \in BOOLEAN, NEW late \in BOOLEAN, NextSeed(ran, late)
  PROVE  /\ seed' \in 0..(Seeds + 1) /\ compared' \subseteq 1..Seeds /\ missed' \subseteq 1..Seeds
         /\ task' = 0 /\ UNCHANGED <<verdicts, sampled>>
<1>1. Seeds \in Nat /\ seed \in 1..Seeds /\ compared \subseteq 1..Seeds /\ missed \subseteq 1..Seeds
  BY ConvergenceAssumption DEF Sampling, PromotionTypeOK
<1>2. /\ seed' = seed + 1 /\ task' = 0 /\ UNCHANGED <<verdicts, sampled>>
      /\ compared' = (IF ran THEN compared \cup {seed} ELSE compared)
      /\ missed' = (IF late THEN missed \cup {seed} ELSE missed)
  BY DEF NextSeed, MissedIf
<1> QED
  BY <1>1, <1>2

LEMMA ShadowDoneType ==
  ASSUME PromotionTypeOK, Sampling, NEW late \in BOOLEAN, NEW result, ShadowDone(result, late)
  PROVE  /\ missed' \subseteq 1..Seeds /\ task' = 0
         /\ UNCHANGED <<verdicts, seed, compared, sampled>>
BY DEF ShadowDone, MissedIf, Sampling, PromotionTypeOK

-----------------------------------------------------------------------------
(* The invariant                                                           *)

\* The block that is, or will be, awaited on the seed
CurSide == IF shadow = Unknown THEN "shadow" ELSE "canonical"
Awaited(t) == t.module = Current /\ t.seed = seed /\ t.side = CurSide

\* What the process compares, and that nothing is left of earlier modules
StateOK ==
  /\ seed # 0 => Evaluating /\ Module.static = "sample"
  /\ seed = 0 => compared = {} /\ missed = {} /\ shadow = Unknown /\ task = 0
  /\ task # 0 \/ shadow # Unknown => seed \in 1..Seeds

\* The awaited task is in the pool or done, its result is that of its block,
\* and no thread is idle while tasks wait.
TaskOK ==
  /\ \A t \in Tasks : t.id \in 1..submitted /\ (t.id = task => Awaited(t))
  /\ \A r \in results : /\ r.id \in 1..submitted
                        /\ r.id = task => r.value = Value(Module, CurSide, seed)
  /\ task # 0 => (\E r \in results : r.id = task) \/ (\E t \in Tasks : t.id = task)
  /\ queue # <<>> => running # {}

\* What was found out about the seeds before this one, and the shadow block
SeedsOK ==
  /\ \A s \in compared : s < seed /\ Runs(Module, s) /\ Agree(Module, s)
  /\ \A s \in 1..Seeds : s < seed /\ s \notin missed /\ Runs(Module, s) => s \in compared
  /\ shadow # Unknown =>
       IF shadow.ok THEN shadow.value = Value(Module, "shadow", seed) /\ shadow.value # Raises
       ELSE seed \in missed \/ Value(Module, "shadow", seed) = Raises

\* As long as no block was slow, none can have timed out.
AllPrompt == \A j \in 1..Length : j <= Current /\ modules[j].static = "sample" => Prompt(modules[j])
PromptOK ==
  /\ \A t \in Tasks : t.module <= Current /\ modules[t.module].static = "sample"
  /\ AllPrompt => missed = {}

Inv == PromotionTypeOK /\ StateOK /\ TaskOK /\ SeedsOK /\ PromptOK /\ VerdictsEarned

LEMMA InitInv == PromotionInit => Inv
<1> SUFFICES ASSUME PromotionInit
             PROVE  Inv
  OBVIOUS
<1>1. PromotionTypeOK
  BY ConvergenceAssumption DEF PromotionInit, PromotionTypeOK
<1>2. Tasks = {} /\ results = {} /\ queue = <<>> /\ seed = 0 /\ task = 0
      /\ shadow = Unknown /\ compared = {} /\ missed = {} /\ verdicts = <<>>
  BY DEF PromotionInit, Tasks, Queued
<1>3. StateOK /\ TaskOK /\ PromptOK
  BY <1>2 DEF StateOK, TaskOK, PromptOK
<1>4. SeedsOK
  BY <1>2, ConvergenceAssumption DEF SeedsOK
<1>5. VerdictsEarned
  BY <1>2 DEF VerdictsEarned
<1> QED
  BY <1>1, <1>3, <1>4, <1>5 DEF Inv

\* The module that is evaluated is one of Modules.
LEMMA ModuleIs ==
  ASSUME PromotionTypeOK, Evaluating
  PROVE  /\ Current \in 1..Length /\ Current = Len(verdicts) + 1 /\ Module \in Modules
         /\ Module = modules[Current]
         /\ Module.others \subseteq Level
         /\ Module.static \in Level \cup {"pass", "sample"}
BY ConvergenceAssumption DEF PromotionTypeOK, Evaluating, Current, Module

-----------------------------------------------------------------------------
(* A verdict                                                               *)

\* The verdict of a module, given that it is the right one, keeps Inv.
LEMMA Decided ==
  ASSUME Inv, Evaluating, NEW failures \in SUBSET Level, Decide(failures),
         UNCHANGED <<modules, pool, submitted>>, results' \subseteq results,
         AllPrompt => Verdict(Module.others \cup failures) = VerdictOf(Module),
         Verdict(Module.others \cup failures) = "PROMOTE" /\ Module.static = "sample" =>
           /\ \E s \in compared : Runs(Module, s) /\ Agree(Module, s)
           /\ \A s \in 1..Seeds \ missed : Runs(Module, s) => Agree(Module, s)
  PROVE  Inv'
<1>0. PromotionTypeOK /\ StateOK /\ TaskOK /\ PromptOK /\ VerdictsEarned
  BY DEF Inv
<1>1. /\ seed' = 0 /\ task' = 0 /\ shadow' = Unknown /\ compared' = {} /\ missed' = {}
      /\ modules' = modules /\ queue' = queue /\ running' = running /\ submitted' = submitted
  BY DEF Decide, pool
<1>2. PromotionTypeOK'
  <2>1. /\ verdicts' \in Seq({"PROMOTE", "FLAGGED", "REJECT"})
        /\ sampled' \in Seq([compared: SUBSET (1..Seeds), missed: SUBSET (1..Seeds)])
        /\ Len(verdicts') <= Length /\ Len(sampled') = Len(verdicts')
    BY <1>0, DecideType
  <2> QED
    BY <1>0, <1>1, <2>1, ConvergenceAssumption DEF PromotionTypeOK
<1>3. Current \in 1..Length /\ Current = Len(verdicts) + 1 /\ Module = modules[Current]
  BY <1>0, ModuleIs
<1>4. Current' = Current + 1
  BY <1>0, <1>3 DEF Current, Decide, PromotionTypeOK
<1>5. Tasks' = Tasks
  BY <1>1 DEF Tasks, Queued
<1>6. StateOK'
  BY <1>1 DEF StateOK
<1>7. TaskOK'
  <2>1. 0 \notin 1..submitted
    BY <1>0 DEF PromotionTypeOK
  <2> QED
    BY <1>0, <1>1, <1>5, <2>1 DEF TaskOK
<1>8. SeedsOK'
  BY <1>1, ConvergenceAssumption DEF SeedsOK
<1>9. PromptOK'
  <2>1. \A t \in Tasks : t.module \in 1..Length
    BY <1>0, TasksType DEF Task
  <2>2. \A t \in Tasks : t.module <= Current + 1
    BY <1>0, <1>3, <2>1 DEF PromptOK
  <2> QED
    BY <1>0, <1>1, <1>4, <1>5, <2>2 DEF PromptOK
<1>10. VerdictsEarned'
  <2> DEFINE verdict == Verdict(Module.others \cup failures)
             sample == [compared |-> compared, missed |-> missed]
  <2>1. verdicts' = Append(verdicts, verdict) /\ sampled' = Append(sampled, sample)
    BY DEF Decide
  <2> HIDE DEF verdict, sample
  <2>2. /\ Len(verdicts) \in Nat /\ DOMAIN verdicts = 1..Len(verdicts)
        /\ DOMAIN verdicts' = 1..(Len(verdicts) + 1)
        /\ verdicts'[Len(verdicts) + 1] = verdict
        /\ \A k \in DOMAIN verdicts : verdicts'[k] = verdicts[k]
    BY <1>0, <2>1 DEF PromotionTypeOK
  <2>3. /\ sampled'[Len(verdicts) + 1] = sample
        /\ \A k \in DOMAIN verdicts : sampled'[k] = sampled[k]
    BY <1>0, <2>1, <2>2 DEF PromotionTypeOK
  <2> DEFINE Earned(k, v, sm) ==
        /\ Unhindered(k) => v = VerdictOf(modules[k])
        /\ v = "PROMOTE" /\ modules[k].static = "sample" =>
             /\ \E s \in sm.compared : Runs(modules[k], s) /\ Agree(modules[k], s)
             /\ \A s \in 1..Seeds \ sm.missed : Runs(modules[k], s) => Agree(modules[k], s)
  <2>4. \A k \in DOMAIN verdicts : Earned(k, verdicts[k], sampled[k])
    BY <1>0 DEF VerdictsEarned
  <2>5. Earned(Current, verdict, sample)
    <3>1. Unhindered(Current) => AllPrompt
      BY <1>3 DEF AllPrompt, Unhindered
    <3>2. sample.compared = compared /\ sample.missed = missed
      BY DEF sample
    <3> QED
      BY <1>3, <3>1, <3>2 DEF verdict
  <2>6. \A k \in DOMAIN verdicts' : Earned(k, verdicts'[k], sampled'[k])
    <3> HIDE DEF Earned
    <3>1. \A k \in DOMAIN verdicts' : k \in DOMAIN verdicts \/ k = Len(verdicts) + 1
      BY <2>2
    <3> QED
      BY <1>3, <2>2, <2>3, <2>4, <2>5, <3>1
  <2> QED
    BY <1>1, <2>6 DEF VerdictsEarned, Unhindered
<1> QED
  BY <1>2, <1>6, <1>7, <1>8, <1>9, <1>10 DEF Inv

LEMMA VerdictCases ==
  ASSUME NEW failures \in SUBSET Level
  PROVE  /\ "CRITICAL" \in failures => Verdict(failures) = "REJECT"
         /\ "CRITICAL" \notin failures /\ "NON_CRITICAL" \in failures =>
              Verdict(failures) = "FLAGGED"
         /\ failures = {} => Verdict(failures) = "PROMOTE"
         /\ failures # {} => "CRITICAL" \in failures \/ "NON_CRITICAL" \in failures
BY DEF Verdict, Level

LEMMA AnalyzeStep == Inv /\ Analyze => Inv'
<1> SUFFICES ASSUME Inv, Analyze
             PROVE  Inv'
  OBVIOUS
<1>0. PromotionTypeOK /\ StateOK /\ TaskOK /\ SeedsOK /\ PromptOK /\ VerdictsEarned
  BY DEF Inv
<1>1. Evaluating /\ seed = 0
  BY DEF Analyze
<1>2. /\ Module \in Modules /\ Module.others \subseteq Level
      /\ Module.static \in Level \cup {"pass", "sample"}
  BY <1>0, <1>1, ModuleIs
<1>3. CASE Module.static = "sample"
  <2>1. /\ seed' = 1
        /\ UNCHANGED <<modules, verdicts, sampled, task, shadow, compared, queue, running,
                       results, submitted, missed>>
    BY <1>3 DEF Analyze, pool
  <2>2. PromotionTypeOK'
    BY <1>0, <2>1, ConvergenceAssumption DEF PromotionTypeOK
  <2>3. StateOK'
    BY <1>0, <1>1, <1>3, <2>1, ConvergenceAssumption
       DEF StateOK, Evaluating, Current, Module
  <2>4. task = 0 /\ shadow = Unknown /\ compared = {}
    BY <1>0, <1>1 DEF StateOK
  <2>5. TaskOK'
    <3>1. 0 \notin 1..submitted
      BY <1>0 DEF PromotionTypeOK
    <3> QED
      BY <1>0, <2>1, <2>4, <3>1 DEF TaskOK, Tasks, Queued
  <2>6. SeedsOK'
    BY <1>0, <2>1, <2>4 DEF SeedsOK
  <2>7. PromptOK' /\ VerdictsEarned'
    BY <1>0, <2>1 DEF PromptOK, AllPrompt, Current, Tasks, Queued, VerdictsEarned, Unhindered
  <2> QED
    BY <2>2, <2>3, <2>5, <2>6, <2>7 DEF Inv
<1>4. CASE Module.static # "sample"
  <2> DEFINE failures == {Module.static} \cap Level
  <2>1. Decide(failures) /\ UNCHANGED <<modules, pool, results, submitted>>
    BY <1>4 DEF Analyze
  <2>2. Verdict(Module.others \cup failures) = VerdictOf(Module)
    <3> DEFINE all == Module.others \cup failures
    <3>1. all \in SUBSET Level
      BY <1>2
    <3>2. "CRITICAL" \in all <=> Module.static = "CRITICAL" \/ "CRITICAL" \in Module.others
      BY DEF Level
    <3>3. all = {} <=> Module.static = "pass" /\ Module.others = {}
      BY <1>2, <1>4 DEF Level
    <3>4. Converging(Module) <=> Module.static = "pass"
      BY <1>4 DEF Converging
    <3> HIDE DEF all
    <3>5. Verdict(all) = VerdictOf(Module)
      BY <3>1, <3>2, <3>3, <3>4, VerdictCases DEF VerdictOf
    <3> QED
      BY <3>5 DEF all
  <2>3. failures \in SUBSET Level
    OBVIOUS
  <2> HIDE DEF failures
  <2> QED
    BY <1>1, <1>4, <2>1, <2>2, <2>3, Decided
<1> QED
  BY <1>3, <1>4

LEMMA ConcludeStep == Inv /\ Conclude => Inv'
<1> SUFFICES ASSUME Inv, Conclude
             PROVE  Inv'
  OBVIOUS
<1> DEFINE failures == IF compared # {} THEN {} ELSE {"NON_CRITICAL"}
<1>0. PromotionTypeOK /\ StateOK /\ SeedsOK /\ PromptOK
  BY DEF Inv
<1>1. /\ Evaluating /\ seed > Seeds /\ Decide(failures)
      /\ UNCHANGED <<modules, pool, results, submitted>>
  BY DEF Conclude, Converges
<1>2. Module.static = "sample" /\ Module.others \subseteq Level
  BY <1>0, <1>1, ModuleIs, ConvergenceAssumption DEF StateOK
<1>3. \A s \in 1..Seeds : s < seed
  BY <1>0, <1>1, ConvergenceAssumption DEF PromotionTypeOK
<1>4. /\ \A s \in compared : Runs(Module, s) /\ Agree(Module, s)
      /\ \A s \in 1..Seeds : s \notin missed /\ Runs(Module, s) => s \in compared
  BY <1>0, <1>3 DEF SeedsOK
<1>5. failures \in SUBSET Level
  BY DEF Level
<1>6. ASSUME AllPrompt
      PROVE  Verdict(Module.others \cup failures) = VerdictOf(Module)
  <2>1. missed = {}
    BY <1>0, <1>6 DEF PromptOK
  <2>2. Converging(Module) <=> compared # {}
    BY <1>0, <1>2, <1>4, <2>1 DEF Converging, PromotionTypeOK
  <2> QED
    BY <1>2, <2>2, VerdictCases DEF VerdictOf, Level
<1>7. ASSUME Verdict(Module.others \cup failures) = "PROMOTE"
      PROVE  /\ \E s \in compared : Runs(Module, s) /\ Agree(Module, s)
             /\ \A s \in 1..Seeds \ missed : Runs(Module, s) => Agree(Module, s)
  <2>1. compared # {}
    BY <1>2, <1>7, VerdictCases DEF Level
  <2> QED
    BY <1>4, <2>1
<1> HIDE DEF failures
<1> QED
  BY <1>1, <1>5, <1>6, <1>7, Decided

-----------------------------------------------------------------------------
(* The pool and the seeds                                                  *)

\* Steps of the process that leave the verdicts alone.
Same == UNCHANGED <<modules, verdicts, sampled>>
LEMMA SameModule ==
  ASSUME Same
  PROVE  /\ Current' = Current /\ Module' = Module /\ (Evaluating' <=> Evaluating)
         /\ (AllPrompt' <=> AllPrompt) /\ (VerdictsEarned' <=> VerdictsEarned)
BY DEF Same, Current, Module, Evaluating, AllPrompt, VerdictsEarned, Unhindered

LEMMA FinishStep == Inv /\ Finish => Inv'
<1> SUFFICES ASSUME Inv, Finish
             PROVE  Inv'
  OBVIOUS
<1>0. PromotionTypeOK /\ StateOK /\ TaskOK /\ SeedsOK /\ PromptOK /\ VerdictsEarned
  BY DEF Inv
<1>1. PICK t \in running :
        /\ Assign(queue, running \ {t})
        /\ results' = IF t.id = task THEN {[id |-> t.id, value |-> Outcome(t).value]} ELSE results
        /\ UNCHANGED <<modules, verdicts, seed, task, shadow, compared, submitted, missed, sampled>>
  BY DEF Finish
<1>2. Same
  BY <1>1 DEF Same
<1>3. /\ queue' \in Seq(Task) /\ running' \subseteq Task
      /\ queue' # <<>> => running' # {}
      /\ Tasks' = (running \ {t}) \cup Queued
  <2>1. running \ {t} \in SUBSET Task /\ queue \in Seq(Task)
    BY <1>0 DEF PromotionTypeOK
  <2> QED
    BY <1>1, <2>1, Assigned DEF Queued
<1>4. Tasks' \subseteq Tasks /\ t \in Tasks /\ \A u \in Tasks : u = t \/ u \in Tasks'
  BY <1>3 DEF Tasks
<1>5. PromotionTypeOK' /\ StateOK' /\ SeedsOK'
  <2>1. PromotionTypeOK'
    BY <1>0, <1>1, <1>3 DEF PromotionTypeOK
  <2>2. StateOK'
    BY <1>0, <1>1, <1>2, SameModule DEF StateOK
  <2>3. SeedsOK'
    BY <1>0, <1>1, <1>2, SameModule DEF SeedsOK, Runs, Agree, Value
  <2> QED
    BY <2>1, <2>2, <2>3
<1>6. PromptOK' /\ VerdictsEarned'
  BY <1>0, <1>1, <1>2, <1>4, SameModule DEF PromptOK
<1>7. TaskOK'
  <2>1. CurSide' = CurSide /\ \A u \in Tasks : Awaited(u)' <=> Awaited(u)
    BY <1>1, <1>2, SameModule DEF Awaited, CurSide
  <2>2. \A u \in Tasks' : u.id \in 1..submitted' /\ (u.id = task' => Awaited(u)')
    BY <1>0, <1>1, <1>4, <2>1 DEF TaskOK
  <2>3. CASE t.id = task
    <3>1. results' = {[id |-> t.id, value |-> Outcome(t).value]}
      BY <1>1, <2>3
    <3>2. t.id \in 1..submitted /\ Awaited(t)
      BY <1>0, <1>4, <2>3 DEF TaskOK
    <3>3. Outcome(t).value = Value(Module, CurSide, seed)
      BY <3>2 DEF Awaited, Outcome, Value, Module
    <3> QED
      BY <1>1, <1>2, <1>3, <2>1, <2>2, <2>3, <3>1, <3>2, <3>3, SameModule
         DEF TaskOK, Awaited, Value
  <2>4. CASE t.id # task
    <3>1. results' = results
      BY <1>1, <2>4
    <3>2. (\E u \in Tasks : u.id = task) => \E u \in Tasks' : u.id = task
      BY <1>4, <2>4
    <3> QED
      BY <1>0, <1>1, <1>2, <1>3, <2>1, <2>2, <3>1, <3>2, SameModule
         DEF TaskOK, Awaited, Value
  <2> QED
    BY <2>3, <2>4
<1> QED
  BY <1>5, <1>6, <1>7 DEF Inv

LEMMA SubmitStep == Inv /\ Submit => Inv'
<1> SUFFICES ASSUME Inv, Submit
             PROVE  Inv'
  OBVIOUS
<1>0. PromotionTypeOK /\ StateOK /\ TaskOK /\ SeedsOK /\ PromptOK /\ VerdictsEarned
  BY DEF Inv
<1> DEFINE new == [id |-> submitted + 1, module |-> Current, seed |-> seed, side |-> CurSide]
<1>1. /\ Evaluating /\ seed \in 1..Seeds /\ task = 0
      /\ submitted' = submitted + 1 /\ task' = submitted + 1
      /\ Assign(Append(queue, new), running)
      /\ UNCHANGED <<modules, verdicts, seed, shadow, compared, results, missed, sampled>>
  BY DEF Submit, Sampling, CurSide
<1>2. Same
  BY <1>1 DEF Same
<1>3. new \in Task
  BY <1>0, <1>1, ModuleIs DEF Task, PromotionTypeOK, CurSide, Side
<1>4. new.id = submitted + 1 /\ new.module = Current /\ new.seed = seed /\ new.side = CurSide
  OBVIOUS
<1> HIDE DEF new
<1>5. /\ queue' \in Seq(Task) /\ running' \subseteq Task
      /\ queue' # <<>> => running' # {}
      /\ Tasks' = Tasks \cup {new}
  <2>1. running \in SUBSET Task /\ queue \in Seq(Task)
    BY <1>0 DEF PromotionTypeOK
  <2>2. /\ Append(queue, new) \in Seq(Task)
        /\ {Append(queue, new)[k] : k \in DOMAIN Append(queue, new)} = Queued \cup {new}
    BY <1>3, <2>1, AppendElements DEF Queued
  <2> QED
    BY <1>1, <2>1, <2>2, Assigned DEF Tasks
<1>6. PromotionTypeOK' /\ StateOK' /\ SeedsOK'
  <2>1. submitted + 1 \in Nat /\ task' \in 0..submitted'
    BY <1>0, <1>1 DEF PromotionTypeOK
  <2>2. PromotionTypeOK'
    BY <1>0, <1>1, <1>5, <2>1 DEF PromotionTypeOK
  <2>3. StateOK'
    BY <1>0, <1>1, <1>2, SameModule DEF StateOK
  <2>4. SeedsOK'
    BY <1>0, <1>1, <1>2, SameModule DEF SeedsOK, Runs, Agree, Value
  <2> QED
    BY <2>2, <2>3, <2>4
<1>7. PromptOK' /\ VerdictsEarned'
  <2>1. Current \in Nat /\ Module.static = "sample" /\ modules[Current] = Module
    BY <1>0, <1>1, ModuleIs DEF StateOK
  <2>2. \A t \in Tasks' : t.module <= Current' /\ modules'[t.module].static = "sample"
    BY <1>0, <1>1, <1>2, <1>4, <1>5, <2>1, SameModule DEF PromptOK
  <2> QED
    BY <1>0, <1>1, <1>2, <2>2, SameModule DEF PromptOK
<1>8. TaskOK'
  <2>1. submitted \in Nat
    BY <1>0 DEF PromotionTypeOK
  <2>2. new.module = Current' /\ new.seed = seed' /\ new.side = CurSide'
    BY <1>1, <1>2, <1>4, SameModule DEF CurSide
  <2>3. \A t \in Tasks : t.id \in 1..submitted
    BY <1>0 DEF TaskOK
  <2>4. \A t \in Tasks' : t.id \in 1..submitted' /\ (t.id = task' => Awaited(t)')
    <3> SUFFICES ASSUME NEW t \in Tasks'
                 PROVE  t.id \in 1..submitted' /\ (t.id = task' => Awaited(t)')
      OBVIOUS
    <3>1. CASE t = new
      BY <1>1, <1>4, <2>1, <2>2, <3>1 DEF Awaited
    <3>2. CASE t \in Tasks
      BY <1>1, <2>1, <2>3, <3>2
    <3> QED
      BY <1>5, <3>1, <3>2
  <2>5. \A r \in results' : r.id \in 1..submitted' /\ r.id # task'
    BY <1>0, <1>1, <2>1 DEF TaskOK
  <2> QED
    BY <1>1, <1>4, <1>5, <2>4, <2>5 DEF TaskOK
<1> QED
  BY <1>6, <1>7, <1>8 DEF Inv

-----------------------------------------------------------------------------
(* Results and timeouts                                                    *)

\* What the process does when it has the result of a block or gives it up
\* leaves the pool alone.
LEMMA TaskDone ==
  ASSUME PromotionTypeOK, TaskOK, task' = 0, UNCHANGED <<queue, running, submitted>>,
         results' \subseteq results
  PROVE  TaskOK' /\ Tasks' = Tasks
<1>1. Tasks' = Tasks
  BY DEF Tasks, Queued
<1>2. 0 \notin 1..submitted
  BY DEF PromotionTypeOK
<1> QED
  BY <1>1, <1>2 DEF TaskOK

\* The outcome of the shadow block keeps Inv.
LEMMA ShadowStep ==
  ASSUME Inv, seed \in 1..Seeds, NEW late \in BOOLEAN, NEW result, ShadowDone(result, late),
         UNCHANGED <<modules, queue, running, submitted>>, results' \subseteq results,
         result.ok => result.value = Value(Module, "shadow", seed) /\ result.value # Raises,
         ~result.ok => late \/ Value(Module, "shadow", seed) = Raises,
         late => ~AllPrompt
  PROVE  Inv'
<1>0. PromotionTypeOK /\ StateOK /\ TaskOK /\ SeedsOK /\ PromptOK /\ VerdictsEarned
  BY DEF Inv
<1>1. /\ shadow' = result /\ task' = 0 /\ missed' = (IF late THEN missed \cup {seed} ELSE missed)
      /\ UNCHANGED <<modules, verdicts, seed, compared, sampled>>
  BY DEF ShadowDone, MissedIf
<1>2. Same
  BY <1>1 DEF Same
<1>3. PromotionTypeOK'
  BY <1>0, <1>1 DEF PromotionTypeOK
<1>4. StateOK'
  BY <1>0, <1>1, <1>2, SameModule, ConvergenceAssumption DEF StateOK
<1>5. TaskOK' /\ Tasks' = Tasks
  BY <1>0, <1>1, TaskDone
<1>6. SeedsOK'
  BY <1>0, <1>1, <1>2, SameModule DEF SeedsOK, Runs, Agree, Value
<1>7. PromptOK' /\ VerdictsEarned'
  BY <1>0, <1>1, <1>2, <1>5, SameModule DEF PromptOK
<1> QED
  BY <1>3, <1>4, <1>5, <1>6, <1>7 DEF Inv

\* Going on to the next seed keeps Inv if this one agreed, or was not compared
\* because it timed out or one of its blocks raises.
LEMMA NextSeedStep ==
  ASSUME Inv, seed \in 1..Seeds, NEW ran, NEW late \in BOOLEAN, NextSeed(ran, late),
         UNCHANGED <<modules, queue, running, submitted>>, results' \subseteq results,
         ran => Runs(Module, seed) /\ Agree(Module, seed),
         ~ran => late \/ seed \in missed \/ ~Runs(Module, seed),
         late => ~AllPrompt
  PROVE  Inv'
<1>0. PromotionTypeOK /\ StateOK /\ TaskOK /\ SeedsOK /\ PromptOK /\ VerdictsEarned
  BY DEF Inv
<1>1. /\ compared' = (IF ran THEN compared \cup {seed} ELSE compared)
      /\ seed' = seed + 1 /\ task' = 0 /\ shadow' = Unknown
      /\ missed' = (IF late THEN missed \cup {seed} ELSE missed)
      /\ UNCHANGED <<modules, verdicts, sampled>>
  BY DEF NextSeed, MissedIf
<1>2. Same
  BY <1>1 DEF Same
<1>3. PromotionTypeOK'
  BY <1>0, <1>1, ConvergenceAssumption DEF PromotionTypeOK
<1>4. StateOK'
  BY <1>0, <1>1, <1>2, SameModule, ConvergenceAssumption DEF StateOK
<1>5. TaskOK' /\ Tasks' = Tasks
  BY <1>0, <1>1, TaskDone
<1>6. SeedsOK'
  <2>1. \A s \in 1..Seeds : s < seed + 1 <=> s < seed \/ s = seed
    BY ConvergenceAssumption
  <2>2. \A s \in compared' : s < seed' /\ Runs(Module, s) /\ Agree(Module, s)
    BY <1>0, <1>1, <2>1 DEF SeedsOK, PromotionTypeOK
  <2>3. \A s \in 1..Seeds : s < seed' /\ s \notin missed' /\ Runs(Module, s) => s \in compared'
    BY <1>0, <1>1, <2>1 DEF SeedsOK
  <2> QED
    BY <1>1, <1>2, <2>2, <2>3, SameModule DEF SeedsOK, Runs, Agree, Value
<1>7. PromptOK' /\ VerdictsEarned'
  BY <1>0, <1>1, <1>2, <1>5, SameModule DEF PromptOK
<1> QED
  BY <1>3, <1>4, <1>5, <1>6, <1>7 DEF Inv

LEMMA AnsweredStep == Inv /\ Answered => Inv'
<1> SUFFICES ASSUME Inv, Answered
             PROVE  Inv'
  OBVIOUS
<1>0. PromotionTypeOK /\ StateOK /\ TaskOK /\ SeedsOK
  BY DEF Inv
<1> DEFINE Result(r) == IF r.value = Raises THEN Failed ELSE [ok |-> TRUE, value |-> r.value]
<1>1. PICK r \in results :
        /\ task # 0 /\ r.id = task
        /\ ShadowDone(Result(r), FALSE) \/ CanonicalDone(Result(r))
        /\ results' = {} /\ UNCHANGED <<modules, pool, submitted>>
  BY DEF Answered
<1>2. /\ UNCHANGED <<modules, queue, running, submitted>> /\ results' \subseteq results
      /\ seed \in 1..Seeds /\ seed # 0
  BY <1>0, <1>1, ConvergenceAssumption DEF pool, StateOK
<1>3. Evaluating /\ Module.static = "sample" /\ r.value = Value(Module, CurSide, seed)
  BY <1>0, <1>1, <1>2 DEF StateOK, TaskOK
<1> DEFINE result == Result(r)
<1>4. /\ result.ok => r.value # Raises /\ result.value = r.value
      /\ ~result.ok => r.value = Raises
  BY DEF Failed
<1>5. ShadowDone(result, FALSE) \/ CanonicalDone(result)
  BY <1>1
<1> HIDE DEF result
<1>6. CASE ShadowDone(result, FALSE)
  <2>1. CurSide = "shadow"
    BY <1>6 DEF ShadowDone, CurSide
  <2> QED
    BY <1>2, <1>3, <1>4, <1>6, <2>1, ShadowStep
<1>7. CASE CanonicalDone(result)
  <2>1. shadow # Unknown /\ CurSide = "canonical"
    BY <1>7 DEF CanonicalDone, CurSide
  <2>2. r.value = Value(Module, "canonical", seed)
    BY <1>3, <2>1
  <2>3. /\ shadow.ok => shadow.value = Value(Module, "shadow", seed) /\ shadow.value # Raises
        /\ ~shadow.ok => seed \in missed \/ Value(Module, "shadow", seed) = Raises
    BY <1>0, <2>1 DEF SeedsOK
  <2>4. shadow.ok /\ result.ok =>
          /\ Runs(Module, seed)
          /\ Agree(Module, seed) <=> shadow.value = result.value
    BY <1>4, <2>2, <2>3 DEF Runs, Agree, Side
  <2>5. ~(shadow.ok /\ result.ok) => seed \in missed \/ ~Runs(Module, seed)
    BY <1>4, <2>2, <2>3 DEF Runs, Side
  <2>6. CASE shadow.ok /\ result.ok /\ shadow.value # result.value
    <3>1. Decide({"NON_CRITICAL"})
      BY <1>7, <2>6 DEF CanonicalDone
    <3>2. ~Converging(Module)
      BY <1>2, <1>3, <2>4, <2>6 DEF Converging
    <3>3. Module.others \subseteq Level /\ {"NON_CRITICAL"} \in SUBSET Level
      BY <1>0, <1>3, ModuleIs DEF Level
    <3>4. Verdict(Module.others \cup {"NON_CRITICAL"}) =
            IF "CRITICAL" \in Module.others THEN "REJECT" ELSE "FLAGGED"
      BY DEF Verdict
    <3>5. Verdict(Module.others \cup {"NON_CRITICAL"}) = VerdictOf(Module)
      BY <1>3, <3>2, <3>4 DEF VerdictOf
    <3>6. Verdict(Module.others \cup {"NON_CRITICAL"}) # "PROMOTE"
      BY <3>4
    <3> QED
      BY <1>1, <1>2, <1>3, <3>1, <3>3, <3>5, <3>6, Decided
  <2>7. CASE ~(shadow.ok /\ result.ok /\ shadow.value # result.value)
    <3>1. NextSeed(shadow.ok /\ result.ok, FALSE)
      BY <1>7, <2>7 DEF CanonicalDone
    <3> QED
      BY <1>2, <2>4, <2>5, <2>7, <3>1, NextSeedStep
  <2> QED
    BY <2>6, <2>7
<1> QED
  BY <1>5, <1>6, <1>7

\* A block is given up only after one that is not prompt took a thread.
LEMMA GivesUpLate == ASSUME Inv, GivesUp PROVE ~AllPrompt
<1>0. PromotionTypeOK /\ TaskOK /\ PromptOK
  BY DEF Inv
<1>1. \E t \in Tasks : Outcome(t).pace # "prompt"
  <2>1. CASE \E t \in running : t.id = task /\ Outcome(t).pace # "prompt"
    BY <2>1 DEF Tasks
  <2>2. CASE \A t \in running : t.id # task /\ Outcome(t).pace # "prompt"
    <3>1. \E t \in Tasks : t.id = task
      BY <1>0 DEF GivesUp, TaskOK
    <3>2. Queued # {}
      BY <2>2, <3>1 DEF Tasks
    <3>3. queue # <<>>
      BY <3>2 DEF Queued
    <3>4. running # {}
      BY <1>0, <3>3 DEF TaskOK
    <3> QED
      BY <2>2, <3>4 DEF Tasks
  <2> QED
    BY <2>1, <2>2 DEF GivesUp
<1>2. PICK t \in Tasks : Outcome(t).pace # "prompt"
  BY <1>1
<1>3. t.module \in 1..Length /\ t.side \in Side /\ t.seed \in 1..Seeds
  BY <1>0, TasksType DEF Task
<1>4. ~Prompt(modules[t.module])
  BY <1>2, <1>3 DEF Prompt, Outcome
<1> QED
  BY <1>0, <1>3, <1>4 DEF AllPrompt, PromptOK

LEMMA TimeOutStep == Inv /\ TimeOut => Inv'
<1> SUFFICES ASSUME Inv, TimeOut
             PROVE  Inv'
  OBVIOUS
<1>1. GivesUp /\ (ShadowDone(Failed, TRUE) \/ (shadow # Unknown /\ NextSeed(FALSE, TRUE)))
  BY DEF TimeOut
<1>2. UNCHANGED <<modules, queue, running, submitted>> /\ results' \subseteq results
  BY DEF TimeOut, pool
<1>3. seed \in 1..Seeds
  BY DEF Inv, StateOK, TimeOut, GivesUp
<1>4. ~AllPrompt
  BY GivesUpLate DEF TimeOut
<1>5. CASE ShadowDone(Failed, TRUE)
  <2>1. ~Failed.ok
    BY DEF Failed
  <2> QED
    BY <1>2, <1>3, <1>4, <1>5, <2>1, ShadowStep
<1>6. CASE NextSeed(FALSE, TRUE)
  BY <1>2, <1>3, <1>4, <1>6, NextSeedStep
<1> QED
  BY <1>1, <1>5, <1>6

LEMMA StutterStep == Inv /\ UNCHANGED promotionVars => Inv'
BY DEF Inv, promotionVars, PromotionTypeOK, StateOK, TaskOK, SeedsOK, PromptOK, VerdictsEarned, Unhindered, AllPrompt,
       Current, Module, Evaluating, Tasks, Queued, CurSide, Awaited, Runs, Agree, Value

\* Whatever the paces of the blocks, every verdict is that of the module alone as
\* long as none was slow, and a sampled module is promoted only on a seed that was
\* compared, with no difference on any seed that did not time out.
THEOREM VerdictsAreEarned == PromotionSpec => []VerdictsEarned
<1>1. Inv /\ [PromotionNext]_promotionVars => Inv'
  BY AnalyzeStep, FinishStep, SubmitStep, AnsweredStep, TimeOutStep, ConcludeStep,
     StutterStep DEF PromotionNext
<1>2. Inv => VerdictsEarned
  BY DEF Inv
<1> QED
  BY <1>1, <1>2, InitInv, PTL DEF PromotionSpec

\* The types of Convergence.
THEOREM ConvergenceTypes == PromotionSpec => []PromotionTypeOK
<1>1. Inv /\ [PromotionNext]_promotionVars => Inv'
  BY AnalyzeStep, FinishStep, SubmitStep, AnsweredStep, TimeOutStep, ConcludeStep,
     StutterStep DEF PromotionNext
<1>2. Inv => PromotionTypeOK
  BY DEF Inv
<1> QED
  BY <1>1, <1>2, InitInv, PTL DEF PromotionSpec

-----------------------------------------------------------------------------
(* STREAMDECODER: the frames returned, for any streams however damaged,    *)
(* any chunks and any buffer size                                          *)

LEMMA LeastElement ==
  ASSUME NEW S \in SUBSET Nat, S # {}
  PROVE  \E m \in S : \A k \in S : m <= k
<1> DEFINE R == OpToRel(<, Nat)
<1>1. \A x, y \in Nat : x < y => <<x, y>> \in R
  BY DEF OpToRel
<1>2. IsWellFoundedOn(R, Nat)
  BY NatLessThanWellFounded
<1> HIDE DEF R
<1>3. PICK m \in S : \A k \in S : <<k, m>> \notin R
  BY <1>2, WFMin, Zenon
<1>4. \A k \in S : ~(k < m)
  BY <1>1, <1>3
<1>5. \A k \in S : k \in Nat /\ m \in Nat
  BY <1>3
<1> QED
  BY <1>3, <1>4, <1>5

-----------------------------------------------------------------------------
(* The stream                                                              *)

\* What the buffer holds is the end of what was fed.
BufferOK ==
  /\ wire \in Wires /\ fed \in 0..Len(wire.cells)
  /\ buffer \in Seq(Cell) /\ Len(buffer) <= fed
  /\ \A k \in 1..Len(buffer) : buffer[k] = wire.cells[Consumed + k]

FlagsOK ==
  /\ frames \in Seq(DOMAIN Payloads)
  /\ decoding \in BOOLEAN /\ stalled \in BOOLEAN /\ dropped \in BOOLEAN
  /\ flushes \in 0..MaxFlushes

\* The frames returned lie whole before what is left.
DeliveredOK ==
  /\ \A k \in DOMAIN frames : Intact(frames[k]) /\ LastCell(frames[k]) <= Consumed
  /\ \A j, k \in DOMAIN frames : j < k => wire.starts[frames[j]] < wire.starts[frames[k]]

\* No frame is cut in two, the intact ones before the cut were returned, and a
\* feed() that met no damage leaves none behind.
Whole(i) == wire.starts[i] > Consumed \/ LastCell(i) <= Consumed
Kept(i) == Intact(i) /\ LastCell(i) <= Consumed => Contains(frames, i)
Pending(i) == wire.starts[i] > Consumed /\ Received(i)
FramesOK ==
  Aligned /\ ~dropped =>
    \A i \in DOMAIN Payloads :
      Whole(i) /\ Kept(i) /\ (Pending(i) => decoding \/ stalled)

StreamInv == BufferOK /\ FlagsOK /\ DeliveredOK /\ FramesOK /\ BufferBounded

LEMMA Concatenation ==
  ASSUME NEW S, NEW p \in Seq(S), NEW q \in Seq(S)
  PROVE  /\ p \o q \in Seq(S) /\ Len(p \o q) = Len(p) + Len(q)
         /\ \A k \in 1..Len(p) : (p \o q)[k] = p[k]
OBVIOUS

LEMMA Slice ==
  ASSUME NEW S, NEW q \in Seq(S), NEW a \in Nat, NEW n \in Nat, a + n <= Len(q)
  PROVE  /\ SubSeq(q, a + 1, a + n) \in Seq(S) /\ Len(SubSeq(q, a + 1, a + n)) = n
         /\ \A k \in 1..n : SubSeq(q, a + 1, a + n)[k] = q[a + k]
OBVIOUS

LEMMA Extensional ==
  ASSUME NEW S, NEW p \in Seq(S), NEW q \in Seq(S), Len(p) = Len(q),
         \A k \in 1..Len(p) : p[k] = q[k]
  PROVE  p = q
OBVIOUS

LEMMA PackedCells ==
  ASSUME NEW i \in DOMAIN Payloads
  PROVE  /\ i \in Nat /\ Payloads[i] \in Seq(Cell) /\ Len(Payloads[i]) \in Nat
         /\ Packed(i) \in Seq(Cell) /\ Len(Packed(i)) = Len(Payloads[i]) + 4
         /\ Packed(i)[1] = Magic[1] /\ Packed(i)[2] = Magic[2]
         /\ Packed(i)[3] = <<"length", Len(Payloads[i])>>
         /\ Packed(i)[Len(Packed(i))] = <<"sum", i>>
<1>1. Payloads \in Seq(Seq(Cell))
  BY StreamAssumption
<1>2. i \in Nat /\ Payloads[i] \in Seq(Cell) /\ Len(Payloads[i]) \in Nat
  BY <1>1
<1>3. <<"magic", 1>> \in Cell /\ <<"magic", 2>> \in Cell
      /\ <<"length", Len(Payloads[i])>> \in Cell /\ <<"sum", i>> \in Cell
  BY <1>2 DEF Cell
<1> DEFINE head == <<<<"magic", 1>>, <<"magic", 2>>>> \o << <<"length", Len(Payloads[i])>> >>
           body == head \o Payloads[i]
<1>4. head \in Seq(Cell) /\ Len(head) = 3 /\ head[1] = <<"magic", 1>> /\ head[2] = <<"magic", 2>>
      /\ head[3] = <<"length", Len(Payloads[i])>>
  BY <1>3
<1> HIDE DEF head
<1>5. body \in Seq(Cell) /\ Len(body) = Len(Payloads[i]) + 3 /\ body[1] = head[1]
      /\ body[2] = head[2] /\ body[3] = head[3]
  <2>1. \A k \in 1..Len(head) : body[k] = head[k]
    BY <1>2, <1>4, Concatenation
  <2>2. body \in Seq(Cell) /\ Len(body) = Len(head) + Len(Payloads[i])
    BY <1>2, <1>4, Concatenation
  <2> HIDE DEF body
  <2> QED
    BY <1>2, <1>4, <2>1, <2>2
<1>6. Packed(i) = body \o << <<"sum", i>> >>
  BY DEF Packed, Magic, head
<1> HIDE DEF body
<1>7. Packed(i) \in Seq(Cell) /\ Len(Packed(i)) = Len(Payloads[i]) + 4
      /\ \A k \in 1..3 : Packed(i)[k] = body[k]
  BY <1>2, <1>3, <1>5, <1>6
<1>8. Packed(i)[Len(body) + 1] = <<"sum", i>>
  BY <1>2, <1>3, <1>5, <1>6
<1> QED
  BY <1>2, <1>4, <1>5, <1>7, <1>8 DEF Magic

LEMMA PackedInjective ==
  ASSUME NEW i \in DOMAIN Payloads, NEW j \in DOMAIN Payloads,
         Packed(i) = Packed(j)
  PROVE  i = j
<1>1. <<"sum", i>> = <<"sum", j>>
  BY PackedCells
<1> QED
  BY <1>1

\* Where the frames of a stream are.
LEMMA WireCells ==
  ASSUME wire \in Wires
  PROVE  /\ wire.cells \in Seq(Cell) /\ Len(wire.cells) \in Nat
         /\ \A i \in DOMAIN Payloads :
              /\ wire.starts[i] \in Nat \ {0} /\ Len(Packed(i)) \in Nat /\ Len(Packed(i)) >= 4
              /\ LastCell(i) = wire.starts[i] + Len(Packed(i)) - 1
              /\ LastCell(i) \in Nat /\ LastCell(i) <= Len(wire.cells)
              /\ LastCell(i) >= wire.starts[i] + 3
              /\ \A j \in DOMAIN Payloads : i < j => LastCell(i) < wire.starts[j]
<1>1. Carries(wire)
  BY StreamAssumption
<1>2. wire.cells \in Seq(Cell) /\ wire.starts \in [DOMAIN Payloads -> Nat \ {0}]
  BY <1>1 DEF Carries
<1>3. ASSUME NEW i \in DOMAIN Payloads
      PROVE  /\ wire.starts[i] + Len(Packed(i)) - 1 <= Len(wire.cells)
             /\ \A j \in DOMAIN Payloads :
                  i < j => wire.starts[i] + Len(Packed(i)) <= wire.starts[j]
  BY <1>1 DEF Carries
<1>4. ASSUME NEW i \in DOMAIN Payloads
      PROVE  /\ wire.starts[i] \in Nat \ {0} /\ Len(Packed(i)) \in Nat /\ Len(Packed(i)) >= 4
             /\ LastCell(i) = wire.starts[i] + Len(Packed(i)) - 1
  BY <1>2, PackedCells DEF LastCell
<1>5. Len(wire.cells) \in Nat
  BY <1>2
<1>6. ASSUME NEW i \in DOMAIN Payloads
      PROVE  /\ LastCell(i) \in Nat /\ LastCell(i) <= Len(wire.cells)
             /\ LastCell(i) >= wire.starts[i] + 3
             /\ \A j \in DOMAIN Payloads : i < j => LastCell(i) < wire.starts[j]
  <2>1. LastCell(i) \in Nat /\ LastCell(i) <= Len(wire.cells) /\ LastCell(i) >= wire.starts[i] + 3
    BY <1>3, <1>4, <1>5
  <2>2. ASSUME NEW j \in DOMAIN Payloads, i < j
        PROVE  LastCell(i) < wire.starts[j]
    <3>1. wire.starts[i] + Len(Packed(i)) <= wire.starts[j]
      BY <1>3, <2>2
    <3>2. wire.starts[j] \in Nat
      BY <1>4
    <3> QED
      BY <1>4, <3>1, <3>2
  <2> QED
    BY <2>1, <2>2
<1> QED
  BY <1>2, <1>4, <1>5, <1>6

LEMMA Numbered ==
  ASSUME NEW i \in DOMAIN Payloads, NEW j \in DOMAIN Payloads, i # j
  PROVE  i < j \/ j < i
<1>1. i \in Nat /\ j \in Nat
  BY PackedCells
<1> QED
  BY <1>1

LEMMA InOrder ==
  ASSUME wire \in Wires, NEW i \in DOMAIN Payloads, NEW j \in DOMAIN Payloads
  PROVE  /\ wire.starts[i] \in Nat /\ wire.starts[j] \in Nat
         /\ LastCell(i) \in Nat /\ LastCell(i) >= wire.starts[i]
         /\ LastCell(j) \in Nat /\ LastCell(j) >= wire.starts[j]
         /\ i < j => LastCell(i) < wire.starts[j]
         /\ j < i => LastCell(j) < wire.starts[i]
<1>1. \A k \in DOMAIN Payloads :
         /\ wire.starts[k] \in Nat \ {0} /\ LastCell(k) \in Nat /\ LastCell(k) >= wire.starts[k] + 3
         /\ \A l \in DOMAIN Payloads : k < l => LastCell(k) < wire.starts[l]
  BY WireCells
<1> QED
  BY <1>1

LEMMA SameWire ==
  ASSUME wire' = wire
  PROVE  /\ \A i : LastCell(i)' = LastCell(i) /\ (Intact(i)' <=> Intact(i))
         /\ Aligned' <=> Aligned
<1>1. \A i : LastCell(i)' = LastCell(i) /\ (Intact(i)' <=> Intact(i)) /\ Header(i)' = Header(i)
  BY DEF LastCell, Intact, Header
<1> QED
  BY <1>1 DEF Aligned

-----------------------------------------------------------------------------
(* The buffer                                                              *)

LEMMA Counted ==
  ASSUME BufferOK
  PROVE  /\ fed \in Nat /\ Len(buffer) \in Nat /\ Consumed \in Nat /\ Consumed <= fed
         /\ Consumed + Len(buffer) = fed /\ fed <= Len(wire.cells) /\ Len(wire.cells) \in Nat
<1>1. Len(wire.cells) \in Nat
  BY WireCells DEF BufferOK
<1> QED
  BY <1>1 DEF BufferOK, Consumed

\* Cells leave the buffer at its beginning.
LEMMA Suffix ==
  ASSUME BufferOK, NEW m \in 0..Len(buffer),
         buffer' = SubSeq(buffer, m + 1, Len(buffer)), wire' = wire, fed' = fed
  PROVE  BufferOK' /\ Consumed' = Consumed + m
<1>1. Len(buffer) \in Nat /\ buffer \in Seq(Cell) /\ m \in Nat /\ m <= Len(buffer)
  BY DEF BufferOK
<1>2. buffer' \in Seq(Cell) /\ Len(buffer') = Len(buffer) - m
      /\ \A k \in 1..Len(buffer') : buffer'[k] = buffer[m + k]
  BY <1>1
<1>3. Consumed' = Consumed + m
  BY <1>1, <1>2, Counted DEF Consumed
<1>4. ASSUME NEW k \in 1..Len(buffer')
      PROVE  buffer'[k] = wire.cells[Consumed' + k]
  <2>1. m + k \in 1..Len(buffer)
    BY <1>1, <1>2
  <2>2. buffer[m + k] = wire.cells[Consumed + (m + k)]
    BY <2>1 DEF BufferOK
  <2>3. Consumed + (m + k) = Consumed' + k
    BY <1>1, <1>3, Counted
  <2> QED
    BY <1>2, <2>2, <2>3
<1>5. Len(buffer') <= fed
  BY <1>1, <1>2, Counted
<1> QED
  BY <1>2, <1>3, <1>4, <1>5 DEF BufferOK

LEMMA Emptied ==
  ASSUME BufferOK, buffer' = <<>>, wire' = wire, fed' = fed
  PROVE  BufferOK' /\ Consumed' = fed
<1>1. Len(buffer) \in 0..Len(buffer) /\ buffer' = SubSeq(buffer, Len(buffer) + 1, Len(buffer))
  BY Counted DEF BufferOK
<1>2. BufferOK' /\ Consumed' = Consumed + Len(buffer)
  BY <1>1, Suffix
<1> QED
  BY <1>2, Counted

LEMMA Pairs ==
  ASSUME NEW s \in Seq(Cell), NEW p \in 1..(Len(s) - 1)
  PROVE  SubSeq(s, p, p + 1) = Magic <=> s[p] = Magic[1] /\ s[p + 1] = Magic[2]
<1>1. p \in Nat \ {0} /\ p + 1 <= Len(s) /\ Len(s) \in Nat
  OBVIOUS
<1>2. SubSeq(s, p, p + 1) \in Seq(Cell) /\ Len(SubSeq(s, p, p + 1)) = 2
      /\ SubSeq(s, p, p + 1)[1] = s[p] /\ SubSeq(s, p, p + 1)[2] = s[p + 1]
  BY <1>1
<1>3. \A q : q \in Seq(Cell) /\ Len(q) = 2 => q = <<q[1], q[2]>>
  OBVIOUS
<1>4. Magic = <<Magic[1], Magic[2]>>
  BY DEF Magic
<1> QED
  BY <1>2, <1>3, <1>4

\* find(): the first magic of the buffer, if there is one.
MagicHere(k) == buffer[k] = Magic[1] /\ buffer[k + 1] = Magic[2]
LEMMA Found ==
  ASSUME BufferOK
  PROVE  /\ Find = -1 => \A k \in 1..(Len(buffer) - 1) : ~MagicHere(k)
         /\ Find # -1 =>
              /\ Find \in 0..(Len(buffer) - 2) /\ MagicHere(Find + 1)
              /\ \A k \in 1..(Len(buffer) - 1) : MagicHere(k) => Find + 1 <= k
<1>1. buffer \in Seq(Cell) /\ Len(buffer) \in Nat
  BY DEF BufferOK
<1>2. \A k : k \in MagicAt <=> k \in 1..(Len(buffer) - 1) /\ MagicHere(k)
  BY <1>1, Pairs DEF MagicAt, MagicHere
<1>3. CASE MagicAt = {}
  BY <1>2, <1>3, <1>1 DEF Find
<1>4. CASE MagicAt # {}
  <2>1. MagicAt \in SUBSET Nat
    BY <1>1, <1>2
  <2>2. \E m \in MagicAt : \A k \in MagicAt : m <= k
    BY <1>4, <2>1, LeastElement
  <2>3. Min(MagicAt) \in MagicAt /\ \A k \in MagicAt : Min(MagicAt) <= k
    BY <2>2 DEF Min
  <2>4. Find + 1 = Min(MagicAt) /\ Find \in 0..(Len(buffer) - 2) /\ Find \in Nat
    BY <1>1, <1>2, <1>4, <2>1, <2>3 DEF Find
  <2> QED
    BY <1>2, <2>3, <2>4
<1> QED
  BY <1>3, <1>4

LEMMA SyncedCells ==
  ASSUME BufferOK, Find # -1
  PROVE  /\ Synced \in Seq(Cell) /\ Len(Synced) = Len(buffer) - Find /\ Len(Synced) \in Nat
         /\ \A k \in 1..Len(Synced) :
              Synced[k] = buffer[Find + k] /\ Synced[k] = wire.cells[Consumed + Find + k]
<1>1. buffer \in Seq(Cell) /\ Len(buffer) \in Nat /\ Find \in Nat /\ Find + 2 <= Len(buffer)
  BY Found, Counted DEF BufferOK
<1>2. Synced \in Seq(Cell) /\ Len(Synced) = Len(buffer) - Find /\ Len(Synced) \in Nat
      /\ \A k \in 1..Len(Synced) : Synced[k] = buffer[Find + k]
  BY <1>1 DEF Synced
<1>3. ASSUME NEW k \in 1..Len(Synced)
      PROVE  Synced[k] = wire.cells[Consumed + Find + k]
  <2>1. Find + k \in 1..Len(buffer)
    BY <1>1, <1>2
  <2>2. buffer[Find + k] = wire.cells[Consumed + (Find + k)]
    BY <2>1 DEF BufferOK
  <2>3. Consumed + (Find + k) = Consumed + Find + k
    BY <1>1, Counted
  <2> QED
    BY <1>2, <2>2, <2>3
<1> QED
  BY <1>2, <1>3

LEMMA SizeOfCut ==
  ASSUME BufferOK, HasFrame
  PROVE  /\ FrameSize(Synced) \in Nat /\ FrameSize(Synced) >= 4
         /\ FrameSize(Synced) <= Len(Synced)
         /\ FrameSize(Synced) = Synced[3][2] + 4
<1>1. Find # -1 /\ Len(Synced) >= 3 /\ Len(Synced) >= FrameSize(Synced)
  BY DEF HasFrame, HeaderSize
<1>2. Synced[3] \in Cell
  BY <1>1, SyncedCells
<1>3. Synced[3][2] \in Nat
  BY <1>2 DEF Cell
<1> QED
  BY <1>1, <1>3 DEF FrameSize, HeaderSize, SumSize

\* The buffer after a frame was cut out
LEMMA AfterCut ==
  ASSUME BufferOK, HasFrame, wire' = wire, fed' = fed,
         buffer' = SubSeq(Synced, FrameSize(Synced) + 1, Len(Synced))
  PROVE  BufferOK' /\ Consumed' = Consumed + Find + FrameSize(Synced)
<1> DEFINE size == FrameSize(Synced)
<1>1. Find # -1
  BY DEF HasFrame
<1>2. size \in Nat /\ size <= Len(Synced)
  BY SizeOfCut
<1>3. Find \in Nat /\ Len(buffer) \in Nat /\ buffer \in Seq(Cell) /\ Find <= Len(buffer)
  BY <1>1, Found, Counted DEF BufferOK
<1>4. Synced \in Seq(Cell) /\ Len(Synced) = Len(buffer) - Find
      /\ \A k \in 1..Len(Synced) : Synced[k] = buffer[Find + k]
  BY <1>1, SyncedCells
<1> HIDE DEF size
<1>5. Find + size \in 0..Len(buffer)
  BY <1>2, <1>3, <1>4
<1>6. SubSeq(Synced, size + 1, Len(Synced)) = SubSeq(buffer, Find + size + 1, Len(buffer))
  <2> DEFINE a == SubSeq(Synced, size + 1, Len(Synced))
             b == SubSeq(buffer, Find + size + 1, Len(buffer))
  <2>1. a \in Seq(Cell) /\ Len(a) = Len(Synced) - size
        /\ \A k \in 1..Len(a) : a[k] = Synced[size + k]
    BY <1>2, <1>4
  <2>2. b \in Seq(Cell) /\ Len(b) = Len(buffer) - (Find + size)
        /\ \A k \in 1..Len(b) : b[k] = buffer[Find + size + k]
    BY <1>2, <1>3, <1>5
  <2> HIDE DEF a, b
  <2>3. Len(a) = Len(b) /\ Len(a) \in Nat
    BY <1>2, <1>3, <1>4, <2>1, <2>2
  <2>4. ASSUME NEW k \in 1..Len(a)
        PROVE  a[k] = b[k]
    <3>1. size + k \in 1..Len(Synced) /\ Find + (size + k) = Find + size + k
      BY <1>2, <1>3, <1>4, <2>1, <2>3
    <3> QED
      BY <1>4, <2>1, <2>2, <2>3, <3>1
  <2>5. a = b
    BY <2>1, <2>2, <2>3, <2>4, Extensional
  <2> QED
    BY <2>5 DEF a, b
<1>7. buffer' = SubSeq(buffer, (Find + size) + 1, Len(buffer))
  BY <1>6 DEF size
<1>8. BufferOK' /\ Consumed' = Consumed + (Find + size)
  BY <1>5, <1>7, Suffix
<1>9. Consumed + (Find + size) = Consumed + Find + size
  BY <1>2, <1>3, Counted
<1> QED
  BY <1>8, <1>9 DEF size

\* What is cut is the stream from the magic on.
LEMMA CutCells ==
  ASSUME BufferOK, HasFrame
  PROVE  LET size == FrameSize(Synced)
             p == Consumed + Find + 1
         IN  /\ p \in Nat \ {0} /\ p + size - 1 <= fed /\ p + size - 1 \in Nat
             /\ Len(SubSeq(Synced, 1, size)) = size
             /\ SubSeq(Synced, 1, size) = SubSeq(wire.cells, p, p + size - 1)
<1> DEFINE size == FrameSize(Synced)
           cut == SubSeq(Synced, 1, size)
           p == Consumed + Find + 1
           there == SubSeq(wire.cells, p, p + size - 1)
<1>1. Find # -1
  BY DEF HasFrame
<1>2. size \in Nat /\ size >= 4 /\ size <= Len(Synced)
  BY SizeOfCut
<1>3. wire.cells \in Seq(Cell)
  BY WireCells DEF BufferOK
<1>4. Find \in Nat /\ Consumed \in Nat /\ Consumed + Len(buffer) = fed /\ fed \in Nat
      /\ Len(buffer) \in Nat /\ fed <= Len(wire.cells) /\ Len(wire.cells) \in Nat
  BY <1>1, Found, Counted
<1>5. Synced \in Seq(Cell) /\ Len(Synced) = Len(buffer) - Find
      /\ \A k \in 1..Len(Synced) : Synced[k] = wire.cells[Consumed + Find + k]
  BY <1>1, SyncedCells
<1> HIDE DEF size
<1>7. cut \in Seq(Cell) /\ Len(cut) = size /\ \A k \in 1..size : cut[k] = Synced[k]
  BY <1>2, <1>5
<1>8. p \in 1..(Len(wire.cells) - size + 1) /\ p + size - 1 <= fed /\ p \in Nat \ {0}
      /\ p + size - 1 \in Nat /\ p + size - 1 <= Len(wire.cells)
  BY <1>2, <1>4, <1>5
<1>9. there \in Seq(Cell) /\ Len(there) = size
      /\ \A k \in 1..size : there[k] = wire.cells[p + k - 1]
  <2> HIDE DEF p
  <2> QED
    BY <1>2, <1>3, <1>8
<1>10. ASSUME NEW k \in 1..size
       PROVE  there[k] = cut[k]
  <2>1. k \in 1..Len(Synced) /\ p + k - 1 = Consumed + Find + k
    BY <1>2, <1>4, <1>5
  <2> QED
    BY <1>5, <1>7, <1>9, <2>1
<1>11. there = cut
  <2> HIDE DEF there, cut
  <2> QED
    BY <1>7, <1>9, <1>10, Extensional
<1> QED
  BY <1>7, <1>8, <1>11 DEF size

\* A frame that unpacks is one that was sent, at the place where it was sent.
LEMMA CutIsSent ==
  ASSUME BufferOK, HasFrame,
         NEW i \in Unpacked(SubSeq(Synced, 1, FrameSize(Synced)))
  PROVE  /\ i \in DOMAIN Payloads /\ Intact(i)
         /\ wire.starts[i] = Consumed + Find + 1
         /\ LastCell(i) = Consumed + Find + FrameSize(Synced)
<1> DEFINE size == FrameSize(Synced)
           cut == SubSeq(Synced, 1, size)
           p == Consumed + Find + 1
<1>1. Find # -1
  BY DEF HasFrame
<1>2. size \in Nat /\ size >= 4 /\ size <= Len(Synced)
  BY SizeOfCut
<1>3. i \in DOMAIN Payloads /\ cut = Packed(i)
  BY DEF Unpacked
<1>4. p \in Nat \ {0} /\ p + size - 1 <= Len(wire.cells) /\ Len(wire.cells) \in Nat
  BY CutCells, Counted
<1>5. Len(cut) = size /\ SubSeq(wire.cells, p, p + size - 1) = cut
  BY CutCells
<1>6. wire.starts[i] \in Nat /\ LastCell(i) = wire.starts[i] + Len(Packed(i)) - 1
  BY <1>3, WireCells DEF BufferOK
<1>7. Find \in Nat /\ Consumed \in Nat
  BY <1>1, Found, Counted
<1> HIDE DEF size
<1>10. size = Len(Packed(i))
  BY <1>3, <1>5
<1>11. Carries(wire)
  BY StreamAssumption DEF BufferOK
<1>12. p = wire.starts[i]
  <2>1. \A q \in 1..(Len(wire.cells) - Len(Packed(i)) + 1) :
           SubSeq(wire.cells, q, q + Len(Packed(i)) - 1) = Packed(i) => q = wire.starts[i]
    BY <1>3, <1>11 DEF Carries
  <2>2. p \in 1..(Len(wire.cells) - Len(Packed(i)) + 1)
    BY <1>2, <1>4, <1>10
  <2> HIDE DEF p, cut
  <2> QED
    BY <1>3, <1>5, <1>10, <2>1, <2>2
<1>13. LastCell(i) = p + size - 1
  BY <1>6, <1>10, <1>12
<1>14. Intact(i)
  BY <1>3, <1>5, <1>12, <1>13 DEF Intact
<1> QED
  BY <1>2, <1>3, <1>7, <1>12, <1>13, <1>14 DEF size

-----------------------------------------------------------------------------
(* Frames and magics                                                       *)

\* A frame of an aligned stream that begins in the buffer shows its magic, and
\* its length if that has come.
LEMMA MagicShows ==
  ASSUME BufferOK, Aligned, NEW i \in DOMAIN Payloads,
         wire.starts[i] > Consumed
  PROVE  /\ wire.cells[wire.starts[i]] = Magic[1]
         /\ wire.starts[i] < fed =>
              /\ wire.starts[i] - Consumed \in 1..(Len(buffer) - 1)
              /\ MagicHere(wire.starts[i] - Consumed)
         /\ wire.cells[wire.starts[i] + 2] = <<"length", Len(Payloads[i])>>
<1> DEFINE s == wire.starts[i]
<1>1. /\ wire.cells \in Seq(Cell) /\ Len(wire.cells) \in Nat /\ s \in Nat \ {0}
      /\ LastCell(i) >= s + 3 /\ LastCell(i) <= Len(wire.cells) /\ LastCell(i) \in Nat
  BY WireCells DEF BufferOK
<1>2. Packed(i) \in Seq(Cell) /\ Len(Packed(i)) \in Nat /\ Len(Packed(i)) >= 4
  BY PackedCells
<1>3. SubSeq(wire.cells, s, s + 2) = SubSeq(Packed(i), 1, 3)
  <2>1. Header(i) = SubSeq(Packed(i), 1, HeaderSize)
    BY DEF Aligned
  <2>2. s + HeaderSize - 1 = s + 2
    BY <1>1 DEF HeaderSize
  <2> QED
    BY <2>1, <2>2 DEF Header, HeaderSize
<1> HIDE DEF s
<1>4. SubSeq(wire.cells, s, s + 2)[1] = wire.cells[s]
      /\ SubSeq(wire.cells, s, s + 2)[2] = wire.cells[s + 1]
      /\ SubSeq(wire.cells, s, s + 2)[3] = wire.cells[s + 2]
  BY <1>1
<1>5. SubSeq(Packed(i), 1, 3)[1] = Packed(i)[1] /\ SubSeq(Packed(i), 1, 3)[2] = Packed(i)[2]
      /\ SubSeq(Packed(i), 1, 3)[3] = Packed(i)[3]
  BY <1>2
<1>6. wire.cells[s] = Magic[1] /\ wire.cells[s + 1] = Magic[2]
      /\ wire.cells[s + 2] = <<"length", Len(Payloads[i])>>
  BY <1>3, <1>4, <1>5, PackedCells
<1>7. ASSUME s < fed
      PROVE  s - Consumed \in 1..(Len(buffer) - 1) /\ MagicHere(s - Consumed)
  <2>1. s > Consumed
    BY DEF s
  <2>2. s - Consumed \in 1..(Len(buffer) - 1)
    BY <1>1, <1>7, <2>1, Counted
  <2>3. s - Consumed \in 1..Len(buffer) /\ s - Consumed + 1 \in 1..Len(buffer)
    BY <2>2, Counted
  <2>4. buffer[s - Consumed] = wire.cells[Consumed + (s - Consumed)]
        /\ buffer[s - Consumed + 1] = wire.cells[Consumed + (s - Consumed + 1)]
    BY <2>3 DEF BufferOK
  <2>5. Consumed + (s - Consumed) = s /\ Consumed + (s - Consumed + 1) = s + 1
    BY <1>1, Counted
  <2> QED
    BY <1>6, <2>2, <2>4, <2>5 DEF MagicHere
<1> QED
  BY <1>6, <1>7 DEF s

\* Frames that begin in the buffer, if it holds no magic or its first one is at
\* Find.
LEMMA NoneBefore ==
  ASSUME BufferOK, Aligned, NEW i \in DOMAIN Payloads,
         wire.starts[i] > Consumed
  PROVE  /\ Find = -1 => wire.starts[i] >= fed
         /\ Find # -1 => wire.starts[i] >= Consumed + Find + 1
<1>1. wire.starts[i] \in Nat
  BY WireCells DEF BufferOK
<1>2. CASE wire.starts[i] >= fed
  <2>1. Find # -1 => Find \in Nat /\ Find <= Len(buffer) - 2
    BY Found, Counted
  <2> QED
    BY <1>1, <1>2, <2>1, Counted
<1>3. CASE wire.starts[i] < fed
  <2> DEFINE k == wire.starts[i] - Consumed
  <2>1. k \in 1..(Len(buffer) - 1) /\ MagicHere(k)
    BY <1>3, MagicShows
  <2>2. Find # -1 /\ Find + 1 <= k /\ Find \in Nat
    BY <2>1, Found, Counted
  <2> QED
    BY <1>1, <2>1, <2>2, Counted
<1> QED
  BY <1>1, <1>2, <1>3, Counted

\* The first magic of the buffer begins a frame, unless one was cut in two.
LEMMA FirstMagic ==
  ASSUME BufferOK, Aligned, Find # -1,
         \A i \in DOMAIN Payloads : Whole(i)
  PROVE  \E i \in DOMAIN Payloads : wire.starts[i] = Consumed + Find + 1
<1> DEFINE p == Consumed + Find + 1
<1>1. Find \in Nat /\ Find + 2 <= Len(buffer) /\ MagicHere(Find + 1)
  BY Found, Counted
<1>2. Consumed \in Nat /\ Consumed + Len(buffer) = fed /\ fed <= Len(wire.cells)
      /\ Len(buffer) \in Nat /\ Len(wire.cells) \in Nat
  BY Counted
<1>3. p \in 1..(Len(wire.cells) - 1) /\ p > Consumed
  BY <1>1, <1>2
<1>4. wire.cells \in Seq(Cell)
  BY WireCells DEF BufferOK
<1>5. wire.cells[p] = Magic[1] /\ wire.cells[p + 1] = Magic[2]
  <2>1. Find + 1 \in 1..Len(buffer) /\ Find + 1 + 1 \in 1..Len(buffer)
    BY <1>1, <1>2
  <2>2. buffer[Find + 1] = wire.cells[Consumed + (Find + 1)]
        /\ buffer[Find + 1 + 1] = wire.cells[Consumed + (Find + 1 + 1)]
    BY <2>1 DEF BufferOK
  <2>3. Consumed + (Find + 1) = p /\ Consumed + (Find + 1 + 1) = p + 1
    BY <1>1, <1>2
  <2> QED
    BY <1>1, <2>2, <2>3 DEF MagicHere
<1> HIDE DEF p
<1>6. SubSeq(wire.cells, p, p + 1) = Magic
  BY <1>3, <1>4, <1>5, Pairs
<1>7. PICK i \in DOMAIN Payloads : p \in wire.starts[i]..LastCell(i)
  BY <1>3, <1>6 DEF Aligned
<1>8. wire.starts[i] \in Nat /\ LastCell(i) \in Nat
  BY WireCells DEF BufferOK
<1>9. wire.starts[i] > Consumed
  BY <1>2, <1>3, <1>7, <1>8 DEF Whole
<1>10. wire.starts[i] >= p
  BY <1>9, NoneBefore DEF p
<1> QED
  BY <1>3, <1>7, <1>8, <1>10 DEF p

-----------------------------------------------------------------------------
(* The steps                                                               *)

LEMMA StreamInitially == ASSUME StreamInit PROVE StreamInv
<1>1. wire \in Wires /\ fed = 0
  BY DEF StreamInit
<1>0. buffer = <<>> /\ frames = <<>>
  BY DEF StreamInit
<1>2. Len(buffer) = 0 /\ buffer \in Seq(Cell) /\ Len(frames) = 0 /\ DOMAIN frames = {}
      /\ frames \in Seq(DOMAIN Payloads)
  BY <1>0
<1>3. BufferOK
  BY <1>1, <1>2, WireCells DEF BufferOK
<1>4. FlagsOK
  <2>1. MaxFlushes \in Nat
    BY StreamAssumption
  <2>2. decoding = FALSE /\ stalled = FALSE /\ dropped = FALSE /\ flushes = 0
    BY DEF StreamInit
  <2>3. flushes \in 0..MaxFlushes
    BY <2>1, <2>2
  <2> QED
    BY <1>2, <2>2, <2>3 DEF FlagsOK
<1>5. DeliveredOK
  BY <1>2 DEF DeliveredOK
<1>6. Consumed = 0
  BY <1>1, <1>2 DEF Consumed
<1>7. ASSUME NEW i \in DOMAIN Payloads
      PROVE  wire.starts[i] > Consumed /\ ~(LastCell(i) <= Consumed) /\ ~Received(i)
  BY <1>1, <1>6, WireCells DEF Received
<1>8. FramesOK
  BY <1>7 DEF FramesOK, Whole, Kept, Pending
<1>9. BufferBounded
  BY <1>2, StreamAssumption DEF BufferBounded
<1> QED
  BY <1>3, <1>4, <1>5, <1>8, <1>9 DEF StreamInv

\* Frames returned before a cut lie before it.
LEMMA StillDelivered ==
  ASSUME BufferOK, DeliveredOK, FlagsOK, wire' = wire, frames' = frames,
         Consumed' \in Nat, Consumed <= Consumed'
  PROVE  DeliveredOK'
<1>1. \A k \in DOMAIN frames : frames[k] \in DOMAIN Payloads
  BY DEF FlagsOK
<1>2. \A k \in DOMAIN frames : LastCell(frames[k]) \in Nat
  BY <1>1, WireCells DEF BufferOK
<1>3. Consumed \in Nat
  BY Counted
<1>4. \A i : LastCell(i)' = LastCell(i) /\ (Intact(i)' <=> Intact(i))
  BY SameWire
<1>5. ASSUME NEW k \in DOMAIN frames
      PROVE  Intact(frames[k])' /\ LastCell(frames[k])' <= Consumed'
  <2>1. Intact(frames[k]) /\ LastCell(frames[k]) <= Consumed
    BY DEF DeliveredOK
  <2>2. Intact(frames[k])' /\ LastCell(frames[k])' = LastCell(frames[k])
    <3>1. Intact(frames[k])' <=> Intact(frames[k])
      BY DEF Intact, LastCell
    <3>2. LastCell(frames[k])' = LastCell(frames[k])
      BY DEF LastCell
    <3> QED
      BY <2>1, <3>1, <3>2
  <2> QED
    BY <1>2, <1>3, <2>1, <2>2
<1> QED
  BY <1>5 DEF DeliveredOK

\* A step that leaves the frames returned, and cuts none in two.
LEMMA StillWhole ==
  ASSUME BufferOK, FramesOK, wire' = wire, frames' = frames,
         Consumed' \in Nat, Consumed <= Consumed', Aligned, ~dropped,
         \A i \in DOMAIN Payloads : wire.starts[i] > Consumed => wire.starts[i] > Consumed',
         \A i \in DOMAIN Payloads : Pending(i)' => decoding' \/ stalled'
  PROVE  FramesOK'
<1>1. ASSUME NEW i \in DOMAIN Payloads
      PROVE  Whole(i)' /\ Kept(i)'
  <2>1. Whole(i) /\ Kept(i)
    BY DEF FramesOK
  <2>2. wire.starts[i] \in Nat /\ LastCell(i) \in Nat /\ LastCell(i) >= wire.starts[i]
        /\ Consumed \in Nat
    BY WireCells, Counted DEF BufferOK
  <2>3. LastCell(i)' = LastCell(i) /\ (Intact(i)' <=> Intact(i))
    BY SameWire
  <2>4. wire.starts[i] > Consumed => wire.starts[i] > Consumed'
    OBVIOUS
  <2>5. Whole(i)'
    BY <2>1, <2>2, <2>3, <2>4 DEF Whole
  <2>6. LastCell(i) <= Consumed' => LastCell(i) <= Consumed
    BY <2>1, <2>2, <2>4 DEF Whole
  <2>7. Kept(i)'
    BY <2>1, <2>3, <2>6 DEF Kept
  <2> QED
    BY <2>5, <2>7
<1> QED
  BY <1>1 DEF FramesOK

LEMMA FeedStep ==
  ASSUME StreamInv, NEW n \in 0..(Len(wire.cells) - fed), Feed(n)
  PROVE  StreamInv'
<1> USE DEF StreamInv
<1>1. /\ buffer' = buffer \o SubSeq(wire.cells, fed + 1, fed + n) /\ fed' = fed + n
      /\ decoding' = TRUE /\ wire' = wire /\ frames' = frames /\ dropped' = dropped
      /\ flushes' = flushes /\ stalled' = FALSE
  BY DEF Feed
<1>2. fed \in Nat /\ Len(wire.cells) \in Nat /\ fed + n <= Len(wire.cells) /\ n \in Nat
      /\ Len(buffer) \in Nat /\ Len(buffer) <= fed /\ Consumed \in Nat
      /\ Consumed + Len(buffer) = fed
  BY Counted DEF BufferOK
<1>3. wire.cells \in Seq(Cell) /\ buffer \in Seq(Cell) /\ wire \in Wires
  BY WireCells DEF BufferOK
<1> DEFINE more == SubSeq(wire.cells, fed + 1, fed + n)
<1>4. more \in Seq(Cell) /\ Len(more) = n /\ \A k \in 1..n : more[k] = wire.cells[fed + k]
  BY <1>2, <1>3, Slice
<1> HIDE DEF more
<1>5. buffer' \in Seq(Cell) /\ Len(buffer') = Len(buffer) + n
      /\ \A k \in 1..(Len(buffer) + n) :
           buffer'[k] = IF k <= Len(buffer) THEN buffer[k] ELSE more[k - Len(buffer)]
  BY <1>1, <1>2, <1>3, <1>4 DEF more
<1>6. Consumed' = Consumed
  BY <1>1, <1>2, <1>5 DEF Consumed
<1>7. BufferOK'
  <2>1. ASSUME NEW k \in 1..Len(buffer')
        PROVE  buffer'[k] = wire.cells[Consumed + k]
    <3>1. CASE k <= Len(buffer)
      <4>1. k \in 1..Len(buffer)
        BY <1>2, <1>5, <3>1
      <4> QED
        BY <1>2, <1>5, <3>1, <4>1 DEF BufferOK
    <3>2. CASE k > Len(buffer)
      <4>0. k \in 1..(Len(buffer) + n)
        BY <1>5
      <4>1. k - Len(buffer) \in 1..n /\ fed + (k - Len(buffer)) = Consumed + k
            /\ k \in 1..(Len(buffer) + n) /\ ~(k <= Len(buffer))
        BY <1>2, <3>2, <4>0
      <4> QED
        BY <1>4, <1>5, <4>1
    <3> QED
      BY <1>2, <1>5, <3>1, <3>2
  <2>2. fed' \in 0..Len(wire.cells) /\ Len(buffer') <= fed'
    BY <1>1, <1>2, <1>5
  <2> QED
    BY <1>1, <1>3, <1>5, <1>6, <2>1, <2>2 DEF BufferOK
<1>8. FlagsOK'
  BY <1>1 DEF FlagsOK
<1>9. DeliveredOK'
  BY <1>1, <1>2, <1>6, StillDelivered
<1>10. FramesOK'
  <2>1. ASSUME Aligned, ~dropped
        PROVE  FramesOK'
    BY <1>1, <1>2, <1>6, <2>1, StillWhole
  <2>2. Aligned' <=> Aligned
    BY <1>1, SameWire
  <2> QED
    BY <1>1, <2>1, <2>2 DEF FramesOK
<1>11. BufferBounded'
  BY <1>1 DEF BufferBounded
<1> QED
  BY <1>7, <1>8, <1>9, <1>10, <1>11

\* A feed() ends with the buffer as it was, if no frame is pending in it.
LEMMA EndStep ==
  ASSUME StreamInv, decoding' = FALSE, Len(buffer) <= MaxBuffer,
         UNCHANGED <<wire, fed, buffer, frames, stalled, flushes, dropped>>,
         ASSUME Aligned, ~dropped, NEW i \in DOMAIN Payloads, Pending(i)
         PROVE  FALSE
  PROVE  StreamInv'
<1> USE DEF StreamInv
<1>1. BufferOK'
  BY DEF BufferOK, Consumed
<1>2. FlagsOK'
  BY DEF FlagsOK
<1>3. Consumed' = Consumed /\ Consumed \in Nat
  BY Counted DEF Consumed
<1>4. DeliveredOK'
  BY <1>3, StillDelivered
<1>5. FramesOK'
  <2>1. Aligned' <=> Aligned
    BY SameWire
  <2>2. ASSUME Aligned, ~dropped
        PROVE  FramesOK'
    <3>1. \A i \in DOMAIN Payloads : Pending(i)' <=> Pending(i)
      BY <1>3, SameWire DEF Pending, Received
    <3>2. \A i \in DOMAIN Payloads : ~Pending(i)
      BY <2>2
    <3> QED
      BY <1>3, <2>2, <3>1, <3>2, StillWhole
  <2> QED
    BY <2>1, <2>2 DEF FramesOK
<1>6. BufferBounded'
  BY DEF BufferBounded
<1> QED
  BY <1>1, <1>2, <1>4, <1>5, <1>6

LEMMA TooShortStep ==
  ASSUME StreamInv, TooShort
  PROVE  StreamInv'
<1>1. ASSUME NEW i \in DOMAIN Payloads, Pending(i)
      PROVE  FALSE
  <2>1. /\ wire.starts[i] > Consumed /\ LastCell(i) <= fed /\ wire.starts[i] \in Nat
        /\ LastCell(i) >= wire.starts[i] + 3 /\ LastCell(i) \in Nat
    BY <1>1, WireCells DEF StreamInv, BufferOK, Pending, Received
  <2>2. Len(buffer) < 4
    BY DEF TooShort, MinFrameSize, HeaderSize, SumSize
  <2> QED
    BY <2>1, <2>2, Counted DEF StreamInv
<1>2. Len(buffer) <= MaxBuffer
  <2>1. Len(buffer) < MinFrameSize /\ MinFrameSize = 4 /\ Len(buffer) \in Nat
    BY Counted DEF StreamInv, TooShort, MinFrameSize, HeaderSize, SumSize
  <2> QED
    BY <2>1, StreamAssumption
<1> QED
  BY <1>1, <1>2, EndStep DEF TooShort

LEMMA FlagsStep ==
  ASSUME FlagsOK, UNCHANGED <<frames, flushes>>, decoding' \in BOOLEAN, stalled' \in BOOLEAN,
         dropped' \in BOOLEAN
  PROVE  FlagsOK'
BY DEF FlagsOK

LEMMA EmptyIsBounded == ASSUME buffer' = <<>> PROVE BufferBounded'
<1>1. Len(buffer') = 0 /\ 0 <= MaxBuffer
  BY StreamAssumption
<1> QED
  BY <1>1 DEF BufferBounded

LEMMA NoMagicStep ==
  ASSUME StreamInv, NoMagic
  PROVE  StreamInv'
<1> USE DEF StreamInv
<1>1. /\ Find = -1 /\ decoding' = FALSE /\ wire' = wire /\ fed' = fed /\ frames' = frames
      /\ stalled' = stalled /\ flushes' = flushes /\ Len(buffer) >= 4
  BY DEF NoMagic, MinFrameSize, HeaderSize, SumSize
<1>2. fed \in Nat /\ Len(buffer) \in Nat /\ Consumed \in Nat /\ Consumed <= fed
  BY Counted
<1>3. ASSUME Aligned, NEW i \in DOMAIN Payloads, wire.starts[i] > Consumed
      PROVE  wire.starts[i] >= fed /\ LastCell(i) > fed /\ wire.starts[i] \in Nat
  <2>1. wire.starts[i] >= fed
    BY <1>1, <1>3, NoneBefore
  <2>2. LastCell(i) >= wire.starts[i] + 3 /\ LastCell(i) \in Nat /\ wire.starts[i] \in Nat
    BY WireCells DEF BufferOK
  <2> QED
    BY <1>2, <2>1, <2>2
<1>4. CASE ~Overfull
  <2>1. buffer' = buffer /\ dropped' = dropped
    BY <1>4 DEF NoMagic
  <2>2. ASSUME Aligned, NEW i \in DOMAIN Payloads, Pending(i)
        PROVE  FALSE
    <3>1. LastCell(i) \in Nat
      BY WireCells DEF BufferOK
    <3> QED
      BY <1>2, <1>3, <2>2, <3>1 DEF Pending, Received
  <2>3. Len(buffer) <= MaxBuffer
    BY <1>2, <1>4, StreamAssumption DEF Overfull
  <2> QED
    BY <1>1, <2>1, <2>2, <2>3, EndStep
<1>5. CASE Overfull
  <2>1. buffer' = <<>> /\ dropped' = (dropped \/ Last(buffer) = Magic[1])
    BY <1>5 DEF NoMagic
  <2>2. BufferOK' /\ Consumed' = fed
    BY <1>1, <2>1, Emptied
  <2>3. FlagsOK'
    BY <1>1, <2>1, FlagsStep DEF FlagsOK
  <2>4. DeliveredOK'
    BY <1>1, <1>2, <2>2, StillDelivered
  <2>5. ASSUME Aligned, ~dropped'
        PROVE  FramesOK'
    <3>1. ~dropped /\ Last(buffer) # Magic[1]
      BY <2>1, <2>5
    <3>2. buffer[Len(buffer)] = wire.cells[fed]
      <4>1. Len(buffer) \in 1..Len(buffer) /\ Consumed + Len(buffer) = fed
        BY <1>1, <1>2, Counted
      <4> QED
        BY <4>1 DEF BufferOK
    <3>3. ASSUME NEW i \in DOMAIN Payloads, wire.starts[i] > Consumed
          PROVE  wire.starts[i] > fed
      <4>1. wire.cells[wire.starts[i]] = Magic[1]
        BY <2>5, <3>3, MagicShows
      <4>2. wire.starts[i] # fed
        BY <3>1, <3>2, <4>1 DEF Last
      <4> QED
        BY <1>2, <1>3, <2>5, <3>3, <4>2
    <3>4. ASSUME NEW i \in DOMAIN Payloads, Pending(i)'
          PROVE  FALSE
      <4>1. wire.starts[i] > fed /\ LastCell(i) <= fed
        BY <1>1, <2>2, <3>4, SameWire DEF Pending, Received
      <4>2. LastCell(i) >= wire.starts[i] + 3 /\ LastCell(i) \in Nat /\ wire.starts[i] \in Nat
        BY WireCells DEF BufferOK
      <4> QED
        BY <1>2, <4>1, <4>2
    <3> QED
      BY <1>1, <1>2, <2>2, <2>5, <3>1, <3>3, <3>4, StillWhole
  <2>6. Aligned' <=> Aligned
    BY <1>1, SameWire
  <2>7. FramesOK'
    BY <2>5, <2>6 DEF FramesOK
  <2>8. BufferBounded'
    BY <2>1, EmptyIsBounded
  <2> QED
    BY <2>2, <2>3, <2>4, <2>7, <2>8
<1> QED
  BY <1>4, <1>5

LEMMA IncompleteStep ==
  ASSUME StreamInv, Incomplete
  PROVE  StreamInv'
<1> USE DEF StreamInv
<1>1. /\ Find # -1 /\ ~HasFrame /\ decoding' = FALSE /\ wire' = wire /\ fed' = fed
      /\ frames' = frames /\ stalled' = stalled /\ flushes' = flushes /\ dropped' = dropped
      /\ buffer' = SubSeq(buffer, Find + 1, Len(buffer)) /\ Len(buffer) >= MinFrameSize
  BY DEF Incomplete, Synced
<1>2. Find \in Nat /\ Find \in 0..Len(buffer) /\ Find + 2 <= Len(buffer)
  BY <1>1, Found, Counted
<1>3. BufferOK' /\ Consumed' = Consumed + Find
  BY <1>1, <1>2, Suffix
<1>4. /\ Consumed \in Nat /\ Consumed' \in Nat /\ Consumed <= Consumed' /\ fed \in Nat
      /\ Consumed + Len(buffer) = fed /\ Len(buffer) \in Nat
  BY <1>2, <1>3, Counted
<1>5. FlagsOK'
  BY <1>1, FlagsStep DEF FlagsOK
<1>6. DeliveredOK'
  BY <1>1, <1>4, StillDelivered
<1>7. ASSUME Aligned, ~dropped
      PROVE  FramesOK'
  <2>1. ASSUME NEW i \in DOMAIN Payloads, wire.starts[i] > Consumed
        PROVE  wire.starts[i] >= Consumed' + 1 /\ wire.starts[i] > Consumed'
    <3>1. wire.starts[i] >= Consumed + Find + 1 /\ wire.starts[i] \in Nat
      BY <1>1, <1>7, <2>1, NoneBefore, WireCells DEF BufferOK
    <3> QED
      BY <1>2, <1>3, <1>4, <3>1
  <2>2. PICK i \in DOMAIN Payloads : wire.starts[i] = Consumed + Find + 1
    BY <1>1, <1>7, FirstMagic DEF FramesOK
  <2>3. LastCell(i) > fed
    <3>1. /\ LastCell(i) = wire.starts[i] + Len(Packed(i)) - 1 /\ LastCell(i) \in Nat
          /\ wire.starts[i] \in Nat /\ wire.starts[i] > Consumed
      BY <1>2, <1>4, <2>2, WireCells DEF BufferOK
    <3>2. Len(Packed(i)) = Len(Payloads[i]) + 4 /\ Len(Payloads[i]) \in Nat
      BY PackedCells
    <3>3. SUFFICES ASSUME LastCell(i) <= fed
                   PROVE  FALSE
      BY <1>4, <3>1
    <3>4. Len(Synced) = Len(buffer) - Find
          /\ \A k \in 1..Len(Synced) : Synced[k] = wire.cells[Consumed + Find + k]
      BY <1>1, SyncedCells
    <3>5. Len(Synced) >= Len(Payloads[i]) + 4 /\ 3 \in 1..Len(Synced)
      BY <1>2, <1>4, <2>2, <3>1, <3>2, <3>3, <3>4
    <3>6. Synced[3] = wire.cells[wire.starts[i] + 2]
      <4>1. Consumed + Find + 3 = wire.starts[i] + 2
        BY <1>2, <1>4, <2>2
      <4> QED
        BY <3>4, <3>5, <4>1
    <3>7. Synced[3] = <<"length", Len(Payloads[i])>>
      BY <1>7, <3>1, <3>6, MagicShows
    <3>8. FrameSize(Synced) = Len(Payloads[i]) + 4
      BY <3>2, <3>7 DEF FrameSize, HeaderSize, SumSize
    <3>9. HasFrame
      BY <1>1, <3>2, <3>5, <3>8 DEF HasFrame, HeaderSize
    <3> QED
      BY <1>1, <3>9
  <2>4. ASSUME NEW j \in DOMAIN Payloads, Pending(j)'
        PROVE  FALSE
    <3>1. wire.starts[j] > Consumed' /\ LastCell(j) <= fed
      BY <1>1, <2>4, SameWire DEF Pending, Received
    <3>2. i # j
      BY <1>4, <2>3, <3>1, WireCells DEF BufferOK
    <3>3. /\ wire.starts[i] \in Nat /\ wire.starts[j] \in Nat /\ LastCell(i) \in Nat
          /\ LastCell(j) \in Nat /\ LastCell(j) >= wire.starts[j]
          /\ i < j => LastCell(i) < wire.starts[j]
          /\ j < i => LastCell(j) < wire.starts[i]
      BY InOrder DEF BufferOK
    <3>4. i < j \/ j < i
      BY <3>2, Numbered
    <3>5. wire.starts[j] >= wire.starts[i]
      BY <1>2, <1>3, <1>4, <2>2, <3>1, <3>3
    <3> QED
      BY <1>4, <2>3, <3>1, <3>3, <3>4, <3>5
  <2> QED
    BY <1>1, <1>4, <1>7, <2>1, <2>4, StillWhole
<1>8. Aligned' <=> Aligned
  BY <1>1, SameWire
<1>9. FramesOK'
  BY <1>1, <1>7, <1>8 DEF FramesOK
<1>10. BufferBounded'
  <2>1. buffer' = Synced /\ Len(buffer) >= MinFrameSize
    BY <1>1 DEF Synced
  <2>2. Synced \in Seq(Cell) /\ Len(Synced) \in Nat /\ Len(Synced) >= 2
    BY <1>1, <1>2, <1>4, SyncedCells
  <2>3. CASE Len(Synced) < HeaderSize
    <3>1. Len(Synced) <= MaxBuffer
      BY <2>2, <2>3, StreamAssumption DEF MinFrameSize, HeaderSize, SumSize
    <3> QED
      BY <2>1, <3>1 DEF BufferBounded
  <2>4. CASE ~(Len(Synced) >= FrameSize(Synced)) /\ Len(Synced) >= HeaderSize
    <3>1. Synced[3] \in Cell
      BY <2>2, <2>4 DEF HeaderSize
    <3>2. FrameSize(Synced) \in Nat
      BY <3>1 DEF FrameSize, HeaderSize, SumSize, Cell
    <3>3. Synced[1] = Magic[1] /\ Synced[2] = Magic[2]
      <4>1. 1 \in 1..Len(Synced) /\ 2 \in 1..Len(Synced) /\ Find + 2 = Find + 1 + 1
        BY <1>2, <2>2
      <4> QED
        BY <1>1, <4>1, SyncedCells, Found DEF MagicHere
    <3>4. SubSeq(Synced, 1, 2) = Magic
      <4>1. 1 \in 1..(Len(Synced) - 1) /\ 1 + 1 = 2
        BY <2>2
      <4> QED
        BY <2>2, <3>3, <4>1, Pairs
    <3>5. Len(Synced) < FrameSize(Synced)
      BY <2>2, <2>4, <3>2
    <3> QED
      BY <2>1, <3>4, <3>5 DEF BufferBounded, FrameSize
  <2> QED
    BY <1>1, <2>1, <2>2, <2>3, <2>4 DEF HasFrame, HeaderSize
<1> QED
  BY <1>3, <1>5, <1>6, <1>9, <1>10

LEMMA FlushStep ==
  ASSUME StreamInv, Flush
  PROVE  StreamInv'
<1> USE DEF StreamInv
<1>1. /\ wire' = wire /\ fed' = fed /\ frames' = frames /\ stalled' = stalled
      /\ decoding' = decoding /\ buffer' = <<>> /\ dropped' = (dropped \/ buffer # <<>>)
      /\ flushes' = flushes + 1 /\ flushes < MaxFlushes
  BY DEF Flush
<1>2. BufferOK' /\ Consumed' = fed
  BY <1>1, Emptied
<1>3. fed \in Nat /\ Consumed \in Nat /\ Consumed <= fed /\ Consumed + Len(buffer) = fed
  BY Counted
<1>4. FlagsOK'
  <2>1. MaxFlushes \in Nat
    BY StreamAssumption
  <2>2. flushes' \in 0..MaxFlushes
    BY <1>1, <2>1 DEF FlagsOK
  <2>3. dropped' \in BOOLEAN
    BY <1>1
  <2> QED
    BY <1>1, <2>2, <2>3 DEF FlagsOK
<1>5. DeliveredOK'
  BY <1>1, <1>2, <1>3, StillDelivered
<1>6. ASSUME Aligned, ~dropped'
      PROVE  FramesOK'
  <2>1. ~dropped /\ buffer = <<>>
    BY <1>1, <1>6
  <2>2. Consumed' = Consumed
    <3>1. Len(buffer) = 0
      BY <2>1
    <3> QED
      BY <1>2, <1>3, <3>1
  <2>3. ASSUME NEW i \in DOMAIN Payloads, Pending(i)'
        PROVE  decoding' \/ stalled'
    <3>1. Pending(i)
      BY <1>1, <2>2, <2>3, SameWire DEF Pending, Received
    <3> QED
      BY <1>1, <1>6, <2>1, <3>1 DEF FramesOK
  <2> QED
    BY <1>1, <1>3, <1>6, <2>1, <2>2, <2>3, StillWhole
<1>7. Aligned' <=> Aligned
  BY <1>1, SameWire
<1>8. FramesOK'
  BY <1>6, <1>7 DEF FramesOK
<1>9. BufferBounded'
  BY <1>1, EmptyIsBounded
<1> QED
  BY <1>2, <1>4, <1>5, <1>8, <1>9

LEMMA Appended ==
  ASSUME NEW S, NEW q \in Seq(S), NEW x \in S
  PROVE  /\ DOMAIN Append(q, x) = DOMAIN q \cup {Len(q) + 1} /\ Len(q) \in Nat
         /\ DOMAIN q = 1..Len(q)
         /\ Append(q, x)[Len(q) + 1] = x /\ \A k \in DOMAIN q : Append(q, x)[k] = q[k]
         /\ \A y : Contains(Append(q, x), y) <=> Contains(q, y) \/ y = x
<1>1. /\ Len(q) \in Nat /\ Len(Append(q, x)) = Len(q) + 1 /\ DOMAIN q = 1..Len(q)
      /\ DOMAIN Append(q, x) = 1..(Len(q) + 1)
      /\ Append(q, x)[Len(q) + 1] = x /\ \A k \in 1..Len(q) : Append(q, x)[k] = q[k]
  OBVIOUS
<1>2. 1..(Len(q) + 1) = 1..Len(q) \cup {Len(q) + 1}
  BY <1>1
<1>3. \A y : Contains(Append(q, x), y) <=> Contains(q, y) \/ y = x
  BY <1>1, <1>2 DEF Contains
<1> QED
  BY <1>1, <1>2, <1>3

\* A frame that begins after what was consumed is returned.
LEMMA OneMoreDelivered ==
  ASSUME BufferOK, DeliveredOK, FlagsOK, wire' = wire,
         NEW i \in DOMAIN Payloads, frames' = Append(frames, i), Intact(i),
         wire.starts[i] > Consumed, LastCell(i) = Consumed', Consumed <= Consumed',
         Consumed' \in Nat
  PROVE  DeliveredOK'
<1>1. /\ DOMAIN frames' = DOMAIN frames \cup {Len(frames) + 1} /\ Len(frames) \in Nat
      /\ DOMAIN frames = 1..Len(frames)
      /\ frames'[Len(frames) + 1] = i /\ \A k \in DOMAIN frames : frames'[k] = frames[k]
  BY Appended DEF FlagsOK
<1>2. ASSUME NEW k \in DOMAIN frames
      PROVE  /\ Intact(frames[k]) /\ LastCell(frames[k]) <= Consumed'
             /\ wire.starts[frames[k]] < wire.starts[i]
  <2>1. Intact(frames[k]) /\ LastCell(frames[k]) <= Consumed /\ frames[k] \in DOMAIN Payloads
    BY DEF DeliveredOK, FlagsOK
  <2>2. /\ wire.starts[frames[k]] \in Nat /\ wire.starts[i] \in Nat
        /\ LastCell(frames[k]) \in Nat /\ LastCell(frames[k]) >= wire.starts[frames[k]]
    BY <2>1, InOrder DEF BufferOK
  <2> QED
    BY <2>1, <2>2, Counted
<1>3. \A n : LastCell(n)' = LastCell(n) /\ (Intact(n)' <=> Intact(n))
  BY SameWire
<1>4. ASSUME NEW k \in DOMAIN frames'
      PROVE  Intact(frames'[k]) /\ LastCell(frames'[k]) <= Consumed'
  BY <1>1, <1>2
<1>5. ASSUME NEW k \in DOMAIN frames'
      PROVE  (Intact(frames[k]) /\ LastCell(frames[k]) <= Consumed)'
  <2>1. SubSeq(wire.cells, wire.starts[frames'[k]], LastCell(frames'[k])) = Packed(frames'[k])
    BY <1>4 DEF Intact
  <2> QED
    BY <1>4, <2>1 DEF Intact, LastCell
<1>6. ASSUME NEW j \in DOMAIN frames', NEW k \in DOMAIN frames', j < k
      PROVE  wire.starts[frames'[j]] < wire.starts[frames'[k]]
  <2>1. CASE k \in DOMAIN frames
    <3>1. j \in DOMAIN frames
      BY <1>1, <1>6, <2>1
    <3> QED
      BY <1>1, <1>6, <2>1, <3>1 DEF DeliveredOK
  <2>2. CASE k = Len(frames) + 1
    <3>1. j \in DOMAIN frames
      BY <1>1, <1>6, <2>2
    <3> QED
      BY <1>1, <1>2, <2>2, <3>1
  <2> QED
    BY <1>1, <2>1, <2>2
<1> QED
  BY <1>5, <1>6 DEF DeliveredOK

LEMMA CutFrameStep ==
  ASSUME StreamInv, CutFrame
  PROVE  StreamInv'
<1> USE DEF StreamInv
<1> DEFINE size == FrameSize(Synced)
           got == Unpacked(SubSeq(Synced, 1, size))
<1>1. /\ HasFrame /\ decoding /\ wire' = wire /\ fed' = fed /\ dropped' = dropped
      /\ flushes' = flushes /\ buffer' = SubSeq(Synced, size + 1, Len(Synced))
  BY DEF CutFrame
<1>2. \/ got = {} /\ decoding' = FALSE /\ stalled' = TRUE /\ frames' = frames
      \/ /\ \E i \in got : frames' = Append(frames, i)
         /\ decoding' = decoding /\ stalled' = stalled
  BY DEF CutFrame
<1>3. size \in Nat /\ size >= 4 /\ size <= Len(Synced) /\ size = Synced[3][2] + 4
  BY <1>1, SizeOfCut
<1>4. BufferOK' /\ Consumed' = Consumed + Find + size
  BY <1>1, AfterCut
<1>5. Find # -1 /\ Find \in Nat
  BY <1>1, Found DEF HasFrame
<1>6. \A i \in got : /\ i \in DOMAIN Payloads /\ Intact(i)
                    /\ wire.starts[i] = Consumed + Find + 1
                    /\ LastCell(i) = Consumed + Find + size
  BY <1>1, CutIsSent
<1>7. \A i : i \in got <=> i \in DOMAIN Payloads /\ SubSeq(Synced, 1, size) = Packed(i)
  BY DEF Unpacked
<1> HIDE DEF size, got
<1>8. Consumed \in Nat /\ Consumed' \in Nat /\ Consumed <= Consumed' /\ fed \in Nat
  <2>1. Consumed \in Nat /\ fed \in Nat
    BY Counted
  <2>2. Consumed' = Consumed + Find + size /\ size \in Nat /\ Find \in Nat
    BY <1>3, <1>4, <1>5
  <2> QED
    BY ONLY <2>1, <2>2
<1>9. FlagsOK'
  <2>1. \A i \in got : Append(frames, i) \in Seq(DOMAIN Payloads)
    BY <1>6 DEF FlagsOK
  <2>2. frames' \in Seq(DOMAIN Payloads)
    BY <1>2, <2>1 DEF FlagsOK
  <2> QED
    BY <1>1, <1>2, <2>2 DEF FlagsOK
<1>10. DeliveredOK'
  <2>1. CASE got = {}
    BY <1>1, <1>2, <1>8, <2>1, StillDelivered
  <2>2. ASSUME NEW i \in got, frames' = Append(frames, i)
        PROVE  DeliveredOK'
    <3>1. /\ i \in DOMAIN Payloads /\ Intact(i) /\ wire.starts[i] = Consumed + Find + 1
          /\ LastCell(i) = Consumed + Find + size
      BY <1>6
    <3>2. wire.starts[i] > Consumed
      BY <1>5, <1>8, <3>1
    <3>3. LastCell(i) = Consumed'
      BY <1>4, <3>1
    <3>4. BufferOK /\ DeliveredOK /\ FlagsOK /\ wire' = wire
      BY <1>1
    <3> QED
      BY <1>8, <2>2, <3>1, <3>2, <3>3, <3>4, OneMoreDelivered
  <2> QED
    BY <1>2, <2>1, <2>2
<1>11. ASSUME Aligned, ~dropped
       PROVE  FramesOK'
  <2>1. PICK m \in DOMAIN Payloads : wire.starts[m] = Consumed + Find + 1
    BY <1>5, <1>11, FirstMagic DEF FramesOK
  <2>2. size = Len(Packed(m)) /\ LastCell(m) = Consumed'
    <3>1. 3 \in 1..Len(Synced) /\ Synced[3] = wire.cells[Consumed + Find + 3]
      BY <1>3, <1>5, SyncedCells
    <3>2. Consumed + Find + 3 = wire.starts[m] + 2 /\ wire.starts[m] > Consumed
          /\ wire.starts[m] \in Nat
      BY <1>5, <1>8, <2>1
    <3>3. Synced[3] = <<"length", Len(Payloads[m])>>
      BY <1>11, <3>1, <3>2, MagicShows
    <3>4. size = Len(Packed(m))
      BY <1>3, <3>3, PackedCells
    <3>5. LastCell(m) = wire.starts[m] + Len(Packed(m)) - 1
      BY WireCells DEF BufferOK
    <3>6. LastCell(m) = Consumed + Find + 1 + size - 1
      BY <2>1, <3>4, <3>5
    <3>7. Consumed' = Consumed + Find + 1 + size - 1
      <4>1. Consumed' = Consumed + Find + size
        BY <1>4
      <4>2. size \in Nat /\ Find \in Nat /\ Consumed \in Nat
        BY <1>3, <1>5, <1>8
      <4> QED
        BY ONLY <4>1, <4>2
    <3> QED
      BY <3>4, <3>6, <3>7
  <2>3. ASSUME Intact(m)
        PROVE  Contains(frames', m)
    <3>1. SubSeq(Synced, 1, size) = Packed(m)
      <4>1. SubSeq(Synced, 1, size) =
              SubSeq(wire.cells, Consumed + Find + 1, Consumed + Find + 1 + size - 1)
        BY <1>1, CutCells DEF size
      <4>2. Consumed + Find + 1 + size - 1 = LastCell(m)
        BY <1>3, <1>4, <1>5, <1>8, <2>2
      <4> QED
        BY <2>1, <2>3, <4>1, <4>2 DEF Intact
    <3>2. m \in got /\ \A i \in got : i = m
      BY <1>7, <3>1, PackedInjective
    <3>3. frames' = Append(frames, m)
      BY <1>2, <3>2
    <3> QED
      BY <3>3, Appended DEF FlagsOK
  <2>4. ASSUME NEW i, Contains(frames, i)
        PROVE  Contains(frames', i)
    <3>1. \A k \in got : Contains(Append(frames, k), i)
      BY <1>6, <2>4, Appended DEF FlagsOK
    <3> QED
      BY <1>2, <2>4, <3>1
  <2>5. ASSUME NEW i \in DOMAIN Payloads, wire.starts[i] > Consumed, i # m
        PROVE  wire.starts[i] > Consumed'
    <3>1. wire.starts[i] >= wire.starts[m]
      BY <1>5, <1>11, <2>1, <2>5, NoneBefore
    <3>2. /\ wire.starts[i] \in Nat /\ wire.starts[m] \in Nat
          /\ LastCell(i) \in Nat /\ LastCell(i) >= wire.starts[i]
          /\ m < i => LastCell(m) < wire.starts[i]
          /\ i < m => LastCell(i) < wire.starts[m]
      BY InOrder DEF BufferOK
    <3>3. m < i \/ i < m
      BY <2>5, Numbered
    <3> QED
      BY <2>2, <3>1, <3>2, <3>3
  <2>6. ASSUME NEW i \in DOMAIN Payloads
        PROVE  Whole(i)' /\ Kept(i)' /\ (Pending(i)' => decoding' \/ stalled')
    <3>1. LastCell(i)' = LastCell(i) /\ (Intact(i)' <=> Intact(i)) /\ Whole(i) /\ Kept(i)
      BY <1>1, <1>11, SameWire DEF FramesOK
    <3>2. wire.starts[i] \in Nat /\ LastCell(i) \in Nat /\ LastCell(i) >= wire.starts[i]
      BY InOrder DEF BufferOK
    <3>3. Whole(i)'
      BY <1>1, <1>8, <2>2, <2>5, <3>1, <3>2 DEF Whole
    <3>4. LastCell(i) <= Consumed' => i = m \/ LastCell(i) <= Consumed
      BY <1>8, <2>5, <3>1, <3>2 DEF Whole
    <3>5. Kept(i)'
      BY <2>3, <2>4, <3>1, <3>4 DEF Kept
    <3>6. decoding' \/ stalled'
      BY <1>1, <1>2
    <3> QED
      BY <3>3, <3>5, <3>6
  <2> QED
    BY <2>6 DEF FramesOK
<1>12. Aligned' <=> Aligned
  BY <1>1, SameWire
<1>13. FramesOK'
  BY <1>1, <1>11, <1>12 DEF FramesOK
<1>14. BufferBounded'
  BY <1>1, <1>2 DEF BufferBounded
<1> QED
  BY <1>4, <1>9, <1>10, <1>13, <1>14

LEMMA StreamStep == ASSUME StreamInv, [StreamNext]_streamVars PROVE StreamInv'
<1>1. CASE UNCHANGED streamVars
  <2>1. UNCHANGED <<wire, fed, buffer, decoding, frames, stalled, dropped, flushes>>
    BY <1>1 DEF streamVars
  <2> QED
    BY <2>1 DEF StreamInv, BufferOK, FlagsOK, DeliveredOK, FramesOK, Consumed, Aligned, Header,
                Intact, LastCell, Whole, Kept, Pending, Received, BufferBounded
<1>2. CASE \E n \in 0..(Len(wire.cells) - fed) : Feed(n)
  BY <1>2, FeedStep
<1>3. CASE TooShort
  BY <1>3, TooShortStep
<1>4. CASE NoMagic
  BY <1>4, NoMagicStep
<1>5. CASE Incomplete
  BY <1>5, IncompleteStep
<1>6. CASE CutFrame
  BY <1>6, CutFrameStep
<1>7. CASE Flush
  BY <1>7, FlushStep
<1> QED
  BY <1>1, <1>2, <1>3, <1>4, <1>5, <1>6, <1>7 DEF StreamNext

LEMMA StreamAlways == StreamSpec => []StreamInv
<1>1. StreamInit => StreamInv
  BY StreamInitially
<1>2. StreamInv /\ [StreamNext]_streamVars => StreamInv'
  BY StreamStep
<1> QED
  BY <1>1, <1>2, PTL DEF StreamSpec

\* The decoder's variables keep their types, and its buffer is always the end
\* of what was fed, for any streams, chunks and buffer size.
THEOREM StreamTypes == StreamSpec => []StreamTypeOK
<1>1. ASSUME StreamInv
      PROVE  StreamTypeOK
  <2>1. BufferOK /\ FlagsOK
    BY <1>1 DEF StreamInv
  <2>2. /\ fed \in Nat /\ Len(buffer) \in Nat /\ Consumed \in 0..fed
        /\ Consumed + Len(buffer) = fed /\ fed <= Len(wire.cells) /\ Len(wire.cells) \in Nat
    BY <2>1, Counted
  <2>3. wire.cells \in Seq(Cell) /\ buffer \in Seq(Cell)
    BY <2>1, WireCells DEF BufferOK
  <2> DEFINE rest == SubSeq(wire.cells, Consumed + 1, fed)
  <2>4. rest \in Seq(Cell) /\ Len(rest) = Len(buffer)
        /\ \A k \in 1..Len(buffer) : rest[k] = wire.cells[Consumed + k]
    BY <2>2, <2>3
  <2>5. buffer = rest
    <3> HIDE DEF rest
    <3>1. \A k \in 1..Len(buffer) : buffer[k] = rest[k]
      BY <2>1, <2>4 DEF BufferOK
    <3> QED
      BY <2>3, <2>4, <3>1, Extensional
  <2> QED
    BY <2>1, <2>2, <2>5 DEF StreamTypeOK, BufferOK, FlagsOK
<1> QED
  BY <1>1, StreamAlways, PTL

\* Whatever was damaged and however the stream was cut into chunks, feed()
\* returns only frames that arrived intact, each once and in order.
THEOREM OnlySentFrames == StreamSpec => []DeliveredAreSent
<1>1. ASSUME StreamInv
      PROVE  DeliveredAreSent
  <2>1. BufferOK /\ FlagsOK /\ DeliveredOK
    BY <1>1 DEF StreamInv
  <2>2. ASSUME NEW k \in DOMAIN frames
        PROVE  Received(frames[k])
    <3>1. frames[k] \in DOMAIN Payloads /\ LastCell(frames[k]) <= Consumed
      BY <2>1 DEF FlagsOK, DeliveredOK
    <3>2. LastCell(frames[k]) \in Nat
      BY <2>1, <3>1, InOrder DEF BufferOK
    <3> QED
      BY <2>1, <3>1, <3>2, Counted DEF Received
  <2> QED
    BY <2>1, <2>2 DEF DeliveredAreSent, DeliveredOK
<1> QED
  BY <1>1, StreamAlways, PTL

\* Between calls the buffer is small or holds the beginning of a frame, unless
\* the last feed() ended at a frame it refused.
THEOREM BufferStaysBounded == StreamSpec => []BufferBounded
<1>1. StreamInv => BufferBounded
  BY DEF StreamInv
<1> QED
  BY <1>1, StreamAlways, PTL

\* If the headers of a stream arrive, damage to one frame never costs another.
THEOREM DamageIsContained == StreamSpec => []NoFrameLost
<1>1. ASSUME StreamInv, Aligned, ~dropped, NEW i \in DOMAIN Payloads, Intact(i), Received(i)
      PROVE  \/ Contains(frames, i)
             \/ wire.starts[i] > Consumed /\ (decoding \/ stalled)
  BY <1>1 DEF StreamInv, FramesOK, Whole, Kept, Pending
<1>2. StreamInv => NoFrameLost
  BY <1>1 DEF NoFrameLost
<1> QED
  BY <1>2, StreamAlways, PTL

-----------------------------------------------------------------------------
(* DOCSEARCH: the page and its index, for any documents, terms and history *)

\* An index that is there is the one the page builds or loads.
PageOK ==
  /\ prebuilt \in BOOLEAN
  /\ history \in Seq(Terms \cup {NoTerm}) /\ at \in DOMAIN history
  /\ script \in {"none", "loading", "loaded", "failed"}
  /\ search = IF script = "loaded" THEN Index ELSE Absent
  /\ onFocus <=> script = "none"
  /\ navClicks <=> script \in {"loaded", "failed"}
PageInv == PageOK /\ ContentCurrent

LEMMA PipelineKeepsWords ==
  ASSUME NEW words PROVE RunPipeline(words) = words
<1>1. "stopWordFilter" \notin Pipeline /\ "stemmer" \notin Pipeline
  BY DEF Pipeline
<1> QED
  BY <1>1 DEF RunPipeline

\* Built or loaded, the index lists the documents of every word of every field.
LEMMA IndexIsInverted ==
  ASSUME prebuilt \in BOOLEAN
  PROVE  /\ Index = [f \in Field |-> [w \in Word |-> {d \in Docs : w \in Text[d][f]}]]
         /\ Index \in [Field -> [Word -> SUBSET Docs]] /\ Index # Absent
<1>1. BuiltIndex = LoadedIndex
  BY PipelineKeepsWords DEF BuiltIndex, LoadedIndex
<1>2. Index = LoadedIndex
  BY <1>1 DEF Index
<1>3. LoadedIndex \in [Field -> [Word -> SUBSET Docs]]
  BY DEF LoadedIndex
<1> QED
  BY SearchAssumption, <1>2, <1>3 DEF LoadedIndex

LEMMA ResultsAreDocs ==
  ASSUME PageOK, search # Absent, Term \in SUBSET Word
  PROVE  Results(Term) \subseteq Docs
<1>1. search \in [Field -> [Word -> SUBSET Docs]]
  BY IndexIsInverted DEF PageOK
<1>2. \A w \in Word : StartWith[w] \subseteq Word
  BY SearchAssumption
<1>3. RunPipeline(Term) = Term
  BY PipelineKeepsWords
<1> HIDE DEF Term
<1>4. ASSUME NEW f \in Field
      PROVE  FieldSearch(RunPipeline(Term), f) \subseteq Docs
  <2>1. \A e \in Word : search[f][e] \subseteq Docs
    BY <1>1
  <2>2. UNION {StartWith[w] : w \in Term} \subseteq Word
    BY <1>2
  <2> QED
    BY <1>3, <2>1, <2>2 DEF FieldSearch
<1> QED
  BY <1>4 DEF Results

LEMMA PageInitially == ASSUME PageInit PROVE PageInv
<1>1. PICK t \in Terms \cup {NoTerm} : history = <<t>>
  BY DEF PageInit
<1>2. at = 1 /\ history \in Seq(Terms \cup {NoTerm}) /\ DOMAIN history = {1} /\ Term = t
  BY <1>1 DEF PageInit, Term
<1>3. PageOK
  BY <1>2 DEF PageInit, PageOK
<1>4. ContentCurrent
  BY <1>2 DEF PageInit, ContentCurrent, Shown
<1> QED
  BY <1>3, <1>4 DEF PageInv

LEMMA FocusStep == ASSUME PageInv, Focus PROVE PageInv'
<1>1. /\ script = "none" /\ script' = "loading" /\ onFocus' = FALSE
      /\ UNCHANGED <<prebuilt, history, at, search, content, navClicks>>
  BY DEF PageInv, PageOK, Focus
<1>2. PageOK'
  BY <1>1 DEF PageInv, PageOK
<1>3. ContentCurrent'
  BY <1>1 DEF PageInv, PageOK, ContentCurrent, Shown, Term
<1> QED
  BY <1>2, <1>3 DEF PageInv

LEMMA ScriptStep ==
  ASSUME PageInv, ScriptLoads \/ ScriptFails PROVE PageInv'
<1>1. /\ script = "loading" /\ script' \in {"loaded", "failed"} /\ navClicks' = TRUE
      /\ UNCHANGED <<prebuilt, history, at, onFocus>>
      /\ search' = IF script' = "loaded" THEN Index ELSE Absent
      /\ content' = Shown(Term)'
  BY DEF PageInv, PageOK, ScriptLoads, ScriptFails
<1>2. Index' = Index
  BY <1>1 DEF Index, BuiltIndex, LoadedIndex
<1>3. PageOK'
  BY <1>1, <1>2 DEF PageInv, PageOK
<1> QED
  BY <1>1, <1>3 DEF PageInv, ContentCurrent

\* What is shown depends on the term, the script and the index alone.
LEMMA ShownSame ==
  ASSUME UNCHANGED <<script, search>> PROVE \A t : Shown(t)' = Shown(t)
BY DEF Shown, Results, FieldSearch

\* A handler that changes the history, or the place in it, and shows the term
\* of the new place
LEMMA HistoryStep ==
  ASSUME PageInv, UNCHANGED <<prebuilt, script, search, onFocus, navClicks>>,
         history' \in Seq(Terms \cup {NoTerm}), at' \in DOMAIN history',
         content' = Shown(history'[at'])
  PROVE  PageInv'
<1>1. Index' = Index
  BY DEF Index, BuiltIndex, LoadedIndex
<1>2. PageOK'
  BY <1>1 DEF PageInv, PageOK
<1>3. ContentCurrent'
  <2>1. Shown(Term)' = IF Term' = NoTerm THEN Original
                       ELSE IF script = "failed" THEN ErrorPage
                       ELSE IF search = Absent THEN Searching
                       ELSE [shows |-> "results", term |-> Term', docs |-> Results(Term')]
    BY DEF Shown, Results, FieldSearch
  <2>2. Shown(Term)' = Shown(history'[at'])
    BY <2>1 DEF Shown, Term
  <2> QED
    BY <2>2 DEF ContentCurrent
<1> QED
  BY <1>2, <1>3 DEF PageInv

LEMMA InputStep ==
  ASSUME PageInv, NEW t \in Terms \cup {NoTerm}, Input(t) PROVE PageInv'
<1>1. /\ history' = [history EXCEPT ![at] = t] /\ at' = at /\ content' = Shown(t)
      /\ UNCHANGED <<prebuilt, script, search, onFocus, navClicks>>
  BY DEF Input
<1>2. history \in Seq(Terms \cup {NoTerm}) /\ at \in DOMAIN history
  BY DEF PageInv, PageOK
<1>3. history' \in Seq(Terms \cup {NoTerm}) /\ at' \in DOMAIN history' /\ history'[at'] = t
  BY <1>1, <1>2
<1> QED
  BY <1>1, <1>3, HistoryStep

LEMMA GoStep ==
  ASSUME PageInv, NEW n, Go(n) PROVE PageInv'
<1>1. /\ n \in DOMAIN history /\ at' = n /\ history' = history /\ content' = Shown(history[n])
      /\ UNCHANGED <<prebuilt, script, search, onFocus, navClicks>>
  BY DEF Go
<1> QED
  BY <1>1, HistoryStep DEF PageInv, PageOK

LEMMA AnchorStep ==
  ASSUME PageInv, NEW nav \in BOOLEAN, FollowAnchor(nav) PROVE PageInv'
<1> DEFINE cleared == IF nav /\ navClicks THEN [history EXCEPT ![at] = NoTerm] ELSE history
<1>1. /\ history' = Append(SubSeq(cleared, 1, at), cleared[at]) /\ at' = at + 1
      /\ content' = Shown(cleared[at])
      /\ UNCHANGED <<prebuilt, script, search, onFocus, navClicks>>
  BY DEF FollowAnchor
<1>2. history \in Seq(Terms \cup {NoTerm}) /\ at \in DOMAIN history
  BY DEF PageInv, PageOK
<1>3. cleared \in Seq(Terms \cup {NoTerm}) /\ at \in DOMAIN cleared
  BY <1>2
<1> HIDE DEF cleared
<1>4. /\ at \in Nat /\ at >= 1 /\ at <= Len(cleared) /\ Len(cleared) \in Nat
      /\ cleared[at] \in Terms \cup {NoTerm}
  BY <1>3
<1>5. SubSeq(cleared, 1, at) \in Seq(Terms \cup {NoTerm}) /\ Len(SubSeq(cleared, 1, at)) = at
  BY <1>3, <1>4
<1>6. /\ history' \in Seq(Terms \cup {NoTerm}) /\ at' \in DOMAIN history'
      /\ history'[at'] = cleared[at]
  BY <1>1, <1>4, <1>5
<1> QED
  BY <1>1, <1>6, HistoryStep

LEMMA ReloadStep == ASSUME PageInv, Reload PROVE PageInv'
<1>1. /\ script' = IF Term = NoTerm THEN "none" ELSE "loading"
      /\ search' = Absent /\ content' = IF Term = NoTerm THEN Original ELSE Searching
      /\ onFocus' = (Term = NoTerm) /\ navClicks' = FALSE
      /\ UNCHANGED <<prebuilt, history, at>>
  BY DEF Reload, Load
<1>2. PageOK'
  BY <1>1 DEF PageInv, PageOK
<1>3. Term' = Term
  BY <1>1 DEF Term
<1>4. ContentCurrent'
  BY <1>1, <1>3 DEF ContentCurrent, Shown
<1> QED
  BY <1>2, <1>4 DEF PageInv

LEMMA PageStep == ASSUME PageInv, [PageNext]_pageVars PROVE PageInv'
<1>1. CASE UNCHANGED pageVars
  BY <1>1 DEF pageVars, PageInv, PageOK, ContentCurrent, Index, BuiltIndex, LoadedIndex,
              Shown, Term, Results, FieldSearch
<1>2. CASE PageNext
  BY <1>2, FocusStep, ScriptStep, InputStep, GoStep, AnchorStep, ReloadStep DEF PageNext
<1> QED
  BY <1>1, <1>2

LEMMA PageAlways == PageSpec => []PageInv
<1>1. PageInit => PageInv
  BY PageInitially
<1>2. PageInv /\ [PageNext]_pageVars => PageInv'
  BY PageStep
<1> QED
  BY <1>1, <1>2, PTL DEF PageSpec

\* The page's variables keep their types, for any documents, terms and history.
THEOREM PageTypes == PageSpec => []PageTypeOK
<1>1. ASSUME PageInv
      PROVE  PageTypeOK
  <2>1. PageOK /\ content = Shown(Term)
    BY <1>1 DEF PageInv, ContentCurrent
  <2>2. search = Absent <=> script # "loaded"
    BY <2>1, IndexIsInverted DEF PageOK
  <2>3. Term \in Terms \cup {NoTerm}
    BY <2>1 DEF PageOK, Term
  <2>4. search # Absent /\ Term # NoTerm => Results(Term) \subseteq Docs
    BY SearchAssumption, <2>1, <2>3, ResultsAreDocs
  <2>5. content.docs \subseteq Docs
    BY <2>1, <2>4 DEF Shown, Original, Searching, ErrorPage
  <2> QED
    BY <2>1, <2>2, <2>5 DEF PageTypeOK, PageOK
<1> QED
  BY <1>1, PageAlways, PTL

\* However handlers follow one another, the page shows what belongs to its URL.
THEOREM PageShowsItsTerm == PageSpec => []ContentCurrent
<1>1. PageInv => ContentCurrent
  BY DEF PageInv
<1> QED
  BY <1>1, PageAlways, PTL

\* A typed word finds exactly the documents with a word that begins with it,
\* whether the index was built or loaded.
THEOREM WordsAreFound == PageSpec => []EveryWordFinds
<1>1. ASSUME PageInv, search # Absent, NEW w \in Word
      PROVE  Results({w}) = {d \in Docs : \E f \in Field : Text[d][f] \cap StartWith[w] # {}}
  <2>1. search = [f \in Field |-> [e \in Word |-> {d \in Docs : e \in Text[d][f]}]]
    BY <1>1, IndexIsInverted DEF PageInv, PageOK
  <2>2. StartWith[w] \subseteq Word
    BY SearchAssumption
  <2>3. RunPipeline({w}) = {w}
    BY PipelineKeepsWords
  <2>4. ASSUME NEW f \in Field, NEW e \in Word
        PROVE  search[f][e] = {d \in Docs : e \in Text[d][f]}
    BY <2>1
  <2>5. ASSUME NEW f \in Field, NEW d
        PROVE  d \in FieldSearch({w}, f) <=> d \in Docs /\ Text[d][f] \cap StartWith[w] # {}
    <3>1. d \in FieldSearch({w}, f) <=> \E e \in StartWith[w] : d \in search[f][e]
      BY Zenon DEF FieldSearch
    <3>2. \A e \in StartWith[w] : d \in search[f][e] <=> d \in Docs /\ e \in Text[d][f]
      BY <2>2, <2>4
    <3> QED
      BY <3>1, <3>2
  <2>6. ASSUME NEW d
        PROVE  d \in Results({w}) <=> \E f \in Field : d \in FieldSearch({w}, f)
    BY <2>3, Zenon DEF Results
  <2> QED
    BY <2>5, <2>6
<1>2. PageInv => EveryWordFinds
  BY <1>1 DEF EveryWordFinds
<1> QED
  BY <1>2, PageAlways, PTL
=============================================================================
