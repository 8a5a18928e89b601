---------------------------- MODULE IronPath_proofs ----------------------------
(***************************************************************************)
(* Proofs about the audit log, compliance bundles and pipelines, for any   *)
(* number of processes, any pipelines and any bounds.                      *)
(***************************************************************************)
EXTENDS IronPath, TLAPS, FiniteSetTheorems

-----------------------------------------------------------------------------
(* Types                                                                   *)

LEMMA EntryType ==
  ASSUME IronTypeOK, NEW p \in Processes, NEW record \in Record, NEW end \in Ending
  PROVE  /\ Entry(p, record, end) \in LogEntry
         /\ Append(file, Entry(p, record, end)) \in Seq(LogEntry)
<1>1. Entry(p, record, end) \in LogEntry
  BY DEF IronTypeOK, Entry, LogEntry
<1> QED
  BY <1>1 DEF IronTypeOK

LEMMA AppendType ==
  ASSUME IronTypeOK, NEW p \in Processes, NEW record \in Record, AppendEntry(p, record)
  PROVE  /\ file' \in Seq(LogEntry) /\ appends' \in Nat
         /\ head' \in [Processes -> Nat \cup {Down}]
<1>1. file' \in Seq(LogEntry)
  BY EntryType DEF AppendEntry, Ending
<1> QED
  BY <1>1 DEF AppendEntry, NewHead, IronTypeOK

LEMMA LostType ==
  ASSUME IronTypeOK, NEW p \in Processes, NEW end \in Ending
  PROVE  Append(file, Entry(p, [action |-> "lost"], end)) \in Seq(LogEntry)
<1>1. [action |-> "lost"] \in Record
  BY DEF Record
<1> QED
  BY <1>1, EntryType

LEMMA HeadType ==
  ASSUME IronTypeOK
  PROVE  LoadLastHash(file) \in Nat
<1>1. CASE file = <<>>
  BY <1>1 DEF LoadLastHash, Genesis
<1>2. CASE file # <<>>
  <2>1. file[Len(file)] \in LogEntry
    BY <1>2 DEF IronTypeOK
  <2> QED
    BY <1>2, <2>1 DEF LoadLastHash, LogEntry
<1> QED
  BY <1>1, <1>2

\* A pipeline that is under way
LEMMA RunType ==
  ASSUME IronTypeOK, NEW p \in Processes, run[p].pc = "steps"
  PROVE  /\ run[p] \in [pc: {"steps"}, config: Configs, next: Nat \ {0},
                        results: Seq(StepResult), success: BOOLEAN]
         /\ run[p].config \in Seq(Steps)
BY IronPathAssumption DEF IronTypeOK, RunState, Idle

\* The result of a step
ResultOf(p, works) ==
  LET step == run[p].config[run[p].next]
  IN  [name |-> step.name, tried |-> DepOk(p, step), success |-> DepOk(p, step) /\ works]

LEMMA StepIs ==
  ASSUME IronTypeOK, NEW p \in Processes, Step(p)
  PROVE  \E works \in BOOLEAN, next \in Nat \ {0} :
           /\ ResultOf(p, works) \in StepResult
           /\ run' = [run EXCEPT ![p] =
                [pc |-> "steps", config |-> run[p].config, next |-> next,
                 results |-> Append(run[p].results, ResultOf(p, works)),
                 success |-> run[p].success /\ ResultOf(p, works).success]]
           /\ \/ next = run[p].next + 1
              \/ ~ResultOf(p, works).success /\ next = Len(run[p].config) + 1
<1> DEFINE step == run[p].config[run[p].next]
<1>1. /\ run[p].pc = "steps" /\ run[p].next \in Nat \ {0}
      /\ run[p].next <= Len(run[p].config) /\ run[p].config \in Seq(Steps)
      /\ run[p] \in [pc: {"steps"}, config: Configs, next: Nat \ {0},
                     results: Seq(StepResult), success: BOOLEAN]
  BY RunType DEF Step
<1>2. step \in Steps
  BY <1>1
<1>3. PICK works \in BOOLEAN :
        run' = [run EXCEPT
          ![p].results = Append(@, ResultOf(p, works)),
          ![p].success = SuccessAfter(p, ResultOf(p, works)),
          ![p].next    = IF DepOk(p, step) /\ ~works /\ step.retry = 0
                         THEN Len(run[p].config) + 1 ELSE @ + 1]
  BY DEF Step, ResultOf
<1> DEFINE next == IF DepOk(p, step) /\ ~works /\ step.retry = 0
                   THEN Len(run[p].config) + 1 ELSE run[p].next + 1
<1>4. DepOk(p, step) \in BOOLEAN
  BY DEF DepOk
<1>5. ResultOf(p, works) \in StepResult
  BY <1>2, <1>4 DEF ResultOf, StepResult
<1>6. next \in Nat \ {0}
  BY <1>1
<1>7. SuccessAfter(p, ResultOf(p, works)) = (run[p].success /\ ResultOf(p, works).success)
  BY DEF SuccessAfter
<1>8. run' = [run EXCEPT ![p] =
                [pc |-> "steps", config |-> run[p].config, next |-> next,
                 results |-> Append(run[p].results, ResultOf(p, works)),
                 success |-> run[p].success /\ ResultOf(p, works).success]]
  BY <1>1, <1>3, <1>7 DEF IronTypeOK
<1>9. \/ next = run[p].next + 1
      \/ ~ResultOf(p, works).success /\ next = Len(run[p].config) + 1
  BY DEF ResultOf
<1> HIDE DEF next
<1> QED
  BY <1>5, <1>6, <1>8, <1>9

\* The record of a pipeline that has run
RecordOf(p) ==
  [action    |-> "complete",
   success   |-> run[p].success,
   completed |-> Cardinality({k \in DOMAIN run[p].results : run[p].results[k].success}),
   config    |-> run[p].config,
   results   |-> run[p].results]

LEMMA CompleteRecord ==
  ASSUME IronTypeOK, NEW p \in Processes, Complete(p)
  PROVE  RecordOf(p) \in Record /\ AppendEntry(p, RecordOf(p))
<1> DEFINE done == {k \in DOMAIN run[p].results : run[p].results[k].success}
<1>1. run[p].results \in Seq(StepResult) /\ run[p].success \in BOOLEAN /\ run[p].config \in Configs
  BY RunType DEF Complete
<1>2. Cardinality(done) \in Nat
  <2>1. DOMAIN run[p].results = 1..Len(run[p].results) /\ Len(run[p].results) \in Nat
    BY <1>1
  <2>2. \A n \in Nat : IsFiniteSet(1..n)
    BY FS_Interval
  <2>3. done \in SUBSET (1..Len(run[p].results))
    BY <2>1
  <2> HIDE DEF done
  <2>4. IsFiniteSet(done)
    BY <2>1, <2>2, <2>3, FS_Subset
  <2> QED
    BY <2>4, FS_CardinalityType
<1>3. RecordOf(p) \in Record
  BY <1>1, <1>2 DEF Record, RecordOf
<1> QED
  BY <1>3 DEF Complete, RecordOf

LEMMA TypeStep == IronTypeOK /\ [IronNext]_ironVars => IronTypeOK'
<1> SUFFICES ASSUME IronTypeOK, [IronNext]_ironVars
             PROVE  IronTypeOK'
  OBVIOUS
<1>1. ASSUME NEW p \in Processes, Open(p)
      PROVE  IronTypeOK'
  <2>1. LoadLastHash(file) \in Nat
    BY HeadType
  <2> QED
    BY <1>1, <2>1 DEF Open, IronTypeOK
<1>2. ASSUME NEW p \in Processes, LoadYaml(p)
      PROVE  IronTypeOK'
  <2>1. [action |-> "load"] \in Record
    BY DEF Record
  <2> QED
    BY <1>2, <2>1, AppendType DEF LoadYaml, IronTypeOK
<1>3. ASSUME NEW p \in Processes, Step(p)
      PROVE  IronTypeOK'
  <2>1. PICK works \in BOOLEAN, next \in Nat \ {0} :
          /\ ResultOf(p, works) \in StepResult
          /\ run' = [run EXCEPT ![p] =
               [pc |-> "steps", config |-> run[p].config, next |-> next,
                results |-> Append(run[p].results, ResultOf(p, works)),
                success |-> run[p].success /\ ResultOf(p, works).success]]
    BY <1>3, StepIs
  <2>2. /\ run[p].config \in Configs /\ run[p].results \in Seq(StepResult)
        /\ run[p].success \in BOOLEAN /\ ResultOf(p, works).success \in BOOLEAN
    BY <1>3, <2>1, RunType DEF Step, StepResult
  <2>3. Append(run[p].results, ResultOf(p, works)) \in Seq(StepResult)
    BY <2>1, <2>2
  <2>4. [pc |-> "steps", config |-> run[p].config, next |-> next,
         results |-> Append(run[p].results, ResultOf(p, works)),
         success |-> run[p].success /\ ResultOf(p, works).success] \in RunState
    BY <2>2, <2>3 DEF RunState
  <2> QED
    BY <1>3, <2>1, <2>4 DEF Step, IronTypeOK
<1>4. ASSUME NEW p \in Processes, Complete(p)
      PROVE  IronTypeOK'
  <2>1. PICK record \in Record : AppendEntry(p, record)
    BY <1>4, CompleteRecord DEF Complete
  <2> QED
    BY <1>4, <2>1, AppendType DEF Complete, IronTypeOK, RunState
<1>5. ASSUME NEW p \in Processes, NEW config \in Configs, Start(p, config)
      PROVE  IronTypeOK'
  <2>1. [action |-> "start"] \in Record
    BY DEF Record
  <2>2. [pc |-> "steps", config |-> config, next |-> 1, results |-> <<>>,
         success |-> TRUE] \in RunState
    BY DEF RunState
  <2> QED
    BY <1>5, <2>1, <2>2, AppendType DEF Start, IronTypeOK
<1>6. ASSUME NEW p \in Processes, Copy(p)
      PROVE  IronTypeOK'
  BY <1>6 DEF Copy, IronTypeOK, BundleState
<1>7. ASSUME NEW p \in Processes, Check(p)
      PROVE  IronTypeOK'
  <2>1. bundle[p].copy \in Seq(LogEntry)
    BY <1>7 DEF Check, IronTypeOK, BundleState, Idle
  <2>2. Verifies(file) \in BOOLEAN
    BY DEF Verifies
  <2>3. bundle' \in [Processes -> BundleState]
    BY <1>7, <2>1, <2>2 DEF Check, IronTypeOK, BundleState
  <2> QED
    BY <1>7, <2>3 DEF Check, IronTypeOK
<1>8. ASSUME NEW p \in Processes, Report(p)
      PROVE  IronTypeOK'
  <2>1. bundle[p].copy \in Seq(LogEntry) /\ bundle[p].integrity \in BOOLEAN
    BY <1>8 DEF Report, IronTypeOK, BundleState, Idle
  <2>2. Len(file) \in Nat
    BY DEF IronTypeOK
  <2>3. bundle' \in [Processes -> BundleState]
    BY <1>8, <2>1, <2>2 DEF Report, IronTypeOK, BundleState
  <2> QED
    BY <1>8, <2>3 DEF Report, IronTypeOK
<1>9. ASSUME NEW p \in Processes, Done(p)
      PROVE  IronTypeOK'
  BY <1>9 DEF Done, IronTypeOK, BundleState
<1>10. ASSUME NEW p \in Processes, Crash(p)
       PROVE  IronTypeOK'
  <2>1. file' \in Seq(LogEntry) /\ appends' \in Nat
    <3>1. CASE UNCHANGED <<file, appends>>
      BY <3>1 DEF IronTypeOK
    <3>2. CASE ~UNCHANGED <<file, appends>>
      BY <1>10, <3>2, LostType DEF Crash, IronTypeOK
    <3> QED
      BY <3>1, <3>2
  <2>2. Idle \in RunState /\ Idle \in BundleState
    BY DEF RunState, BundleState
  <2> QED
    BY <1>10, <2>1, <2>2 DEF Crash, IronTypeOK
<1>11. ASSUME NEW p \in Processes, DiskFull(p)
       PROVE  IronTypeOK'
  <2>1. file' \in Seq(LogEntry) /\ appends' \in Nat /\ strayed' \in BOOLEAN
    <3>1. CASE UNCHANGED <<file, appends, strayed>>
      BY <3>1 DEF IronTypeOK
    <3>2. CASE \E end \in Ending : /\ file' = Append(file, Entry(p, [action |-> "lost"], end))
                                   /\ strayed' = (strayed \/ end = "line")
      <4>1. appends' \in Nat
        BY <1>11 DEF DiskFull, IronTypeOK
      <4> QED
        BY <3>2, <4>1, LostType DEF IronTypeOK
    <3> QED
      BY <1>11, <3>1, <3>2 DEF DiskFull
  <2> QED
    BY <1>11, <2>1 DEF DiskFull, IronTypeOK, RunState
<1>12. CASE UNCHANGED ironVars
  BY <1>12 DEF ironVars, IronTypeOK
<1> QED
  BY <1>1, <1>2, <1>3, <1>4, <1>5, <1>6, <1>7, <1>8, <1>9, <1>10, <1>11, <1>12 DEF IronNext

LEMMA InitType == IronInit => IronTypeOK
<1> SUFFICES ASSUME IronInit
             PROVE  IronTypeOK
  OBVIOUS
<1>1. Idle \in RunState /\ Idle \in BundleState
  BY DEF RunState, BundleState
<1>2. file \in Seq(LogEntry)
  BY DEF IronInit
<1> QED
  BY <1>1, <1>2 DEF IronInit, IronTypeOK

\* The log, the writers' heads, pipelines and bundles keep their types.
THEOREM TypeCorrect == IronSpec => []IronTypeOK
<1> QED
  BY InitType, TypeStep, PTL DEF IronSpec

-----------------------------------------------------------------------------
(* The log of one sovereign at a time                                      *)

\* What is appended next is on a line of its own.
Clean(f) == Readable(f) /\ (f # <<>> => f[Len(f)].end = "line")

\* While no writer strayed, the one that is up goes on where the log ends, unless
\* its next line cannot be parsed anyway.
HeadOK ==
  ~strayed => /\ \A p, q \in Processes : Up(p) /\ Up(q) => p = q
              /\ \A p \in Processes : Up(p) /\ Clean(file) => head[p] = LoadLastHash(file)
\* Only a sovereign that is up runs a pipeline.
ActiveOK == \A p \in Processes : run[p].pc = "steps" => Up(p)
ChainInv == IronTypeOK /\ ActiveOK /\ HeadOK /\ SoleWriterVerifies

LEMMA AppendReads ==
  ASSUME NEW f \in Seq(LogEntry), NEW e \in LogEntry, Readable(Append(f, e))
  PROVE  Clean(f)
<1> DEFINE g == Append(f, e)
<1>1. /\ Len(f) \in Nat /\ DOMAIN f = 1..Len(f) /\ DOMAIN g = 1..(Len(f) + 1)
      /\ Len(g) = Len(f) + 1
      /\ \A k \in DOMAIN f : g[k] = f[k]
  OBVIOUS
<1> HIDE DEF g
<1>2. ASSUME NEW k \in DOMAIN f
      PROVE  f[k].end = "line"
  <2>1. Parses(g, k) /\ k < Len(g) /\ g[k] = f[k]
    BY <1>1, <1>2 DEF Readable, g
  <2> QED
    BY <2>1 DEF Parses
<1>3. ASSUME NEW k \in DOMAIN f
      PROVE  Parses(f, k)
  <2>1. k > 1 => k - 1 \in DOMAIN f
    BY <1>1, <1>3
  <2> QED
    BY <1>2, <1>3, <2>1 DEF Parses
<1>4. f # <<>> => Len(f) \in DOMAIN f
  BY <1>1
<1> QED
  BY <1>2, <1>3, <1>4 DEF Clean, Readable

LEMMA AppendVerifies ==
  ASSUME NEW f \in Seq(LogEntry), NEW e \in LogEntry,
         Verifies(f), e.prev = LoadLastHash(f)
  PROVE  Verifies(Append(f, e))
<1> DEFINE g == Append(f, e)
<1>1. /\ Len(f) \in Nat /\ DOMAIN f = 1..Len(f) /\ DOMAIN g = 1..(Len(f) + 1)
      /\ \A k \in DOMAIN f : g[k] = f[k]
      /\ g[Len(f) + 1] = e
      /\ f = <<>> <=> Len(f) = 0
  OBVIOUS
<1> HIDE DEF g
<1> SUFFICES ASSUME NEW k \in DOMAIN g
             PROVE  g[k].prev = PreviousHash(g, k)
  BY DEF Verifies, g
<1>2. CASE k \in DOMAIN f
  <2>1. k = 1 \/ k - 1 \in DOMAIN f
    BY <1>1, <1>2
  <2>2. PreviousHash(g, k) = PreviousHash(f, k)
    BY <1>1, <2>1 DEF PreviousHash
  <2> QED
    BY <1>1, <1>2, <2>2 DEF Verifies
<1>3. CASE k = Len(f) + 1
  <2>1. CASE Len(f) = 0
    BY <1>1, <1>3, <2>1 DEF PreviousHash, LoadLastHash
  <2>2. CASE Len(f) # 0
    BY <1>1, <1>3, <2>2 DEF PreviousHash, LoadLastHash
  <2> QED
    BY <2>1, <2>2
<1> QED
  BY <1>1, <1>2, <1>3

\* One process appends an entry that links to its head.
LEMMA Appended ==
  ASSUME ChainInv, NEW p \in Processes, Up(p), NEW record \in Record, NEW end \in Ending,
         file' = Append(file, Entry(p, record, end)), strayed' = strayed
  PROVE  SoleWriterVerifies' /\ (~strayed /\ Readable(file') => Clean(file))
<1> DEFINE e == Entry(p, record, end)
<1>1. e \in LogEntry /\ file \in Seq(LogEntry)
  BY EntryType DEF ChainInv, IronTypeOK
<1>2. ASSUME ~strayed, Readable(file')
      PROVE  Clean(file) /\ Verifies(file')
  <2>1. Clean(file)
    BY <1>1, <1>2, AppendReads
  <2>2. e.prev = LoadLastHash(file)
    BY <1>2, <2>1 DEF ChainInv, HeadOK, Entry
  <2>3. Verifies(file)
    BY <1>2, <2>1 DEF ChainInv, SoleWriterVerifies, Clean
  <2> QED
    BY <1>1, <2>1, <2>2, <2>3, AppendVerifies
<1> QED
  BY <1>2 DEF SoleWriterVerifies

LEMMA LastAppended ==
  ASSUME NEW f \in Seq(LogEntry), NEW e \in LogEntry
  PROVE  /\ LoadLastHash(Append(f, e)) = e.hash
         /\ Clean(Append(f, e)) => e.end = "line"
<1>1. /\ Append(f, e) # <<>> /\ Append(f, e)[Len(Append(f, e))] = e
  OBVIOUS
<1> QED
  BY <1>1 DEF LoadLastHash, Clean

LEMMA AppendEntryChain ==
  ASSUME ChainInv, NEW p \in Processes, Up(p), NEW record \in Record,
         AppendEntry(p, record), strayed' = strayed
  PROVE  SoleWriterVerifies' /\ HeadOK'
<1>1. /\ file' = Append(file, Entry(p, record, "line"))
      /\ head' = [head EXCEPT ![p] = appends + 1]
      /\ "line" \in Ending
  BY DEF AppendEntry, NewHead, Ending
<1>2. SoleWriterVerifies'
  BY <1>1, Appended
<1>3. LoadLastHash(file') = appends + 1
  <2>1. Entry(p, record, "line") \in LogEntry /\ file \in Seq(LogEntry)
    BY <1>1, EntryType DEF ChainInv, IronTypeOK
  <2> QED
    BY <1>1, <2>1, LastAppended DEF Entry
<1>4. ASSUME NEW q \in Processes
      PROVE  head'[q] = IF q = p THEN appends + 1 ELSE head[q]
  BY <1>1 DEF ChainInv, IronTypeOK
<1>5. HeadOK'
  BY <1>3, <1>4 DEF ChainInv, HeadOK, Up
<1> QED
  BY <1>2, <1>5

LEMMA ActiveStep == IronTypeOK /\ ActiveOK /\ [IronNext]_ironVars => ActiveOK'
<1> SUFFICES ASSUME IronTypeOK, ActiveOK, [IronNext]_ironVars
             PROVE  ActiveOK'
  OBVIOUS
<1>1. ASSUME NEW p \in Processes, Open(p) \/ LoadYaml(p) \/ Complete(p)
      PROVE  ActiveOK'
  <2>1. \A q \in Processes : head'[q] # head[q] => q = p /\ head'[p] \in Nat
    BY <1>1, HeadType DEF Open, LoadYaml, Complete, AppendEntry, NewHead, IronTypeOK
  <2>2. \A q \in Processes : run'[q].pc = "steps" => run[q].pc = "steps"
    BY <1>1 DEF Open, LoadYaml, Complete, IronTypeOK, Idle
  <2> QED
    BY <2>1, <2>2 DEF ActiveOK, Up, Down
<1>2. ASSUME NEW p \in Processes, NEW config \in Configs, Start(p, config)
      PROVE  ActiveOK'
  <2>1. \A q \in Processes : head'[q] # head[q] => head'[q] \in Nat
    BY <1>2 DEF Start, AppendEntry, NewHead, IronTypeOK
  <2>2. \A q \in Processes : run'[q].pc = "steps" => run[q].pc = "steps" \/ q = p
    BY <1>2 DEF Start, IronTypeOK
  <2> QED
    BY <1>2, <2>1, <2>2 DEF ActiveOK, Up, Down, Start, Ready
<1>3. ASSUME NEW p \in Processes, Step(p)
      PROVE  ActiveOK'
  <2>1. head' = head /\ run[p].pc = "steps"
    BY <1>3 DEF Step
  <2>2. \A q \in Processes \ {p} : run'[q] = run[q]
    BY <1>3, StepIs DEF IronTypeOK
  <2> QED
    BY <2>1, <2>2 DEF ActiveOK, Up
<1>4. ASSUME NEW p \in Processes, Crash(p) \/ DiskFull(p)
      PROVE  ActiveOK'
  <2>1. /\ \A q \in Processes \ {p} : head'[q] = head[q] /\ run'[q] = run[q]
        /\ run'[p].pc = "idle"
    BY <1>4 DEF Crash, DiskFull, IronTypeOK, Idle
  <2> QED
    BY <2>1 DEF ActiveOK, Up
<1>5. ASSUME NEW p \in Processes, Copy(p) \/ Check(p) \/ Report(p) \/ Done(p)
      PROVE  ActiveOK'
  BY <1>5 DEF Copy, Check, Report, Done, ActiveOK, Up
<1>6. CASE UNCHANGED ironVars
  BY <1>6 DEF ActiveOK, Up, ironVars
<1> QED
  BY <1>1, <1>2, <1>3, <1>4, <1>5, <1>6 DEF IronNext

LEMMA ChainStep == ChainInv /\ [IronNext]_ironVars => ChainInv'
<1> SUFFICES ASSUME ChainInv, [IronNext]_ironVars
             PROVE  SoleWriterVerifies' /\ HeadOK'
  BY TypeStep, ActiveStep DEF ChainInv
<1>0. IronTypeOK
  BY DEF ChainInv
<1>1. ASSUME NEW p \in Processes, Open(p)
      PROVE  SoleWriterVerifies' /\ HeadOK'
  <2>1. ~strayed' => ~strayed /\ \A q \in Processes : ~Up(q)
    BY <1>1 DEF Open
  <2>2. \A q \in Processes : head'[q] = IF q = p THEN LoadLastHash(file) ELSE head[q]
    BY <1>0, <1>1 DEF Open, IronTypeOK
  <2>3. file' = file
    BY <1>1 DEF Open
  <2> QED
    BY <2>1, <2>2, <2>3 DEF ChainInv, HeadOK, SoleWriterVerifies, Up
<1>2. ASSUME NEW p \in Processes, LoadYaml(p)
      PROVE  SoleWriterVerifies' /\ HeadOK'
  <2>1. [action |-> "load"] \in Record
    BY DEF Record
  <2> QED
    BY <1>2, <2>1, AppendEntryChain DEF LoadYaml, Ready
<1>3. ASSUME NEW p \in Processes, NEW config \in Configs, Start(p, config)
      PROVE  SoleWriterVerifies' /\ HeadOK'
  <2>1. [action |-> "start"] \in Record
    BY DEF Record
  <2> QED
    BY <1>3, <2>1, AppendEntryChain DEF Start, Ready
<1>4. ASSUME NEW p \in Processes, Complete(p)
      PROVE  SoleWriterVerifies' /\ HeadOK'
  <2>1. PICK record \in Record : AppendEntry(p, record)
    BY <1>0, <1>4, CompleteRecord DEF Complete
  <2>2. Up(p)
    BY <1>4 DEF Complete, ChainInv, ActiveOK
  <2> QED
    BY <1>4, <2>1, <2>2, AppendEntryChain DEF Complete
<1>5. ASSUME NEW p \in Processes, Crash(p)
      PROVE  SoleWriterVerifies' /\ HeadOK'
  <2>1. /\ \A q \in Processes : Up(q)' => Up(q) /\ q # p
        /\ \A q \in Processes : Up(q)' => head'[q] = head[q]
        /\ Up(p) /\ strayed' = strayed
    BY <1>0, <1>5 DEF Crash, IronTypeOK, Up
  <2>2. CASE file' = file
    BY <2>1, <2>2 DEF ChainInv, HeadOK, SoleWriterVerifies
  <2>3. CASE file' # file
    <3>1. PICK end \in Ending : file' = Append(file, Entry(p, [action |-> "lost"], end))
      BY <1>5, <2>3 DEF Crash
    <3>2. [action |-> "lost"] \in Record
      BY DEF Record
    <3>3. SoleWriterVerifies'
      BY <2>1, <3>1, <3>2, Appended
    <3> QED
      BY <2>1, <3>3 DEF ChainInv, HeadOK
  <2> QED
    BY <2>2, <2>3
<1>6. ASSUME NEW p \in Processes, DiskFull(p)
      PROVE  SoleWriterVerifies' /\ HeadOK'
  <2>1. [action |-> "lost"] \in Record /\ Up(p) /\ head' = head
    BY <1>6 DEF Record, DiskFull
  <2>2. CASE UNCHANGED <<file, appends, strayed>>
    BY <2>1, <2>2 DEF ChainInv, HeadOK, SoleWriterVerifies, Up
  <2>3. ASSUME NEW end \in Ending, file' = Append(file, Entry(p, [action |-> "lost"], end)),
               strayed' = (strayed \/ end = "line")
        PROVE  SoleWriterVerifies' /\ HeadOK'
    <3>1. CASE end = "line"
      BY <2>3, <3>1 DEF SoleWriterVerifies, HeadOK
    <3>2. CASE end # "line"
      <4>1. strayed' = strayed
        BY <2>3, <3>2 DEF ChainInv, IronTypeOK
      <4>2. SoleWriterVerifies'
        BY <2>1, <2>3, <4>1, Appended
      <4>3. Entry(p, [action |-> "lost"], end) \in LogEntry /\ file \in Seq(LogEntry)
        BY <1>0, <2>1, EntryType DEF IronTypeOK
      <4>4. ~Clean(file')
        BY <2>3, <3>2, <4>3, LastAppended DEF Entry, Ending
      <4> QED
        BY <2>1, <4>1, <4>2, <4>4 DEF ChainInv, HeadOK, Up
    <3> QED
      BY <3>1, <3>2
  <2> QED
    BY <1>6, <2>2, <2>3 DEF DiskFull
<1>7. ASSUME NEW p \in Processes, Step(p) \/ Copy(p) \/ Check(p) \/ Report(p) \/ Done(p)
      PROVE  SoleWriterVerifies' /\ HeadOK'
  <2>1. UNCHANGED <<file, head, strayed>>
    BY <1>7 DEF Step, Copy, Check, Report, Done
  <2> QED
    BY <2>1 DEF ChainInv, HeadOK, SoleWriterVerifies, Up
<1>8. CASE UNCHANGED ironVars
  BY <1>8 DEF ChainInv, HeadOK, SoleWriterVerifies, Up, ironVars
<1> QED
  BY <1>1, <1>2, <1>3, <1>4, <1>5, <1>6, <1>7, <1>8 DEF IronNext

\* While never two sovereigns are up at the same time and no append() raises
\* after its whole line, a log that can be read verifies, wherever processes
\* die and the disk fills up.
THEOREM SoleWriterChain == IronSpec => []SoleWriterVerifies
<1>1. IronInit => ChainInv
  BY InitType DEF IronInit, ChainInv, ActiveOK, HeadOK, SoleWriterVerifies, Verifies, Up, Idle
<1>2. ChainInv => SoleWriterVerifies
  BY DEF ChainInv
<1> QED
  BY <1>1, <1>2, ChainStep, PTL DEF IronSpec

-----------------------------------------------------------------------------
(* Compliance bundles                                                      *)

Prefix(f, g) == Len(f) <= Len(g) /\ \A k \in DOMAIN f : f[k] = g[k]

\* The log has grown since it was copied and checked.
BundleOK ==
  \A p \in Processes :
    LET b == bundle[p]
    IN  /\ b.pc # "idle" => Prefix(b.copy, file)
        /\ b.pc \in {"checked", "reported"} /\ b.integrity => Unbroken(b.copy)
        /\ b.pc = "reported" => Len(b.copy) <= b.count

\* Part of a log that verifies is a chain.
LEMMA PrefixUnbroken ==
  ASSUME NEW f \in Seq(LogEntry), NEW g \in Seq(LogEntry), Prefix(f, g),
         Readable(g), Verifies(g)
  PROVE  Unbroken(f)
<1>1. /\ Len(f) \in Nat /\ DOMAIN f = 1..Len(f) /\ Len(g) \in Nat /\ DOMAIN g = 1..Len(g)
      /\ f # <<>> <=> Len(f) > 0
  OBVIOUS
<1>2. Len(f) <= Len(g) /\ \A k \in DOMAIN f : f[k] = g[k]
  BY DEF Prefix
<1>3. ASSUME NEW k \in DOMAIN f
      PROVE  Parses(f, k)
  <2>1. Parses(g, k)
    BY <1>1, <1>2, <1>3 DEF Readable
  <2>2. k > 1 => f[k - 1] = g[k - 1]
    BY <1>1, <1>2, <1>3
  <2> QED
    BY <1>1, <1>2, <1>3, <2>1, <2>2 DEF Parses
<1>4. ASSUME f # <<>>
      PROVE  f[1].prev = Genesis
  BY <1>1, <1>2, <1>4 DEF Verifies, PreviousHash
<1>5. ASSUME NEW k \in DOMAIN f, k + 1 \in DOMAIN f
      PROVE  f[k + 1].prev = f[k].hash
  <2>1. k + 1 \in DOMAIN g /\ f[k + 1] = g[k + 1] /\ f[k] = g[k]
    BY <1>1, <1>2, <1>5
  <2>2. g[k + 1].prev = PreviousHash(g, k + 1)
    BY <2>1 DEF Verifies
  <2> QED
    BY <1>1, <1>5, <2>1, <2>2 DEF PreviousHash
<1> QED
  BY <1>3, <1>4, <1>5 DEF Unbroken, Readable

LEMMA PrefixGrows ==
  ASSUME NEW f \in Seq(LogEntry), NEW g \in Seq(LogEntry), NEW e \in LogEntry, Prefix(f, g)
  PROVE  Prefix(f, Append(g, e))
<1>1. /\ Len(f) \in Nat /\ Len(g) \in Nat /\ DOMAIN f = 1..Len(f) /\ Len(Append(g, e)) = Len(g) + 1
      /\ \A k \in 1..Len(g) : Append(g, e)[k] = g[k]
  OBVIOUS
<1> QED
  BY <1>1 DEF Prefix

\* Steps change the log by appending to it.
LEMMA LogGrows ==
  ASSUME IronTypeOK, NEW p \in Processes,
         \/ LoadYaml(p) \/ Complete(p) \/ Crash(p) \/ DiskFull(p)
         \/ \E config \in Configs : Start(p, config)
  PROVE  file' = file \/ \E e \in LogEntry : file' = Append(file, e)
<1>1. ASSUME NEW record \in Record, AppendEntry(p, record)
      PROVE  \E e \in LogEntry : file' = Append(file, e)
  BY <1>1, EntryType DEF AppendEntry, Ending
<1>2. \A action \in {"load", "start", "lost"} : [action |-> action] \in Record
  BY DEF Record
<1>3. \A end \in Ending : Entry(p, [action |-> "lost"], end) \in LogEntry
  BY <1>2, EntryType
<1>4. CASE LoadYaml(p)
  BY <1>1, <1>2, <1>4 DEF LoadYaml
<1>5. CASE Complete(p)
  BY <1>1, <1>5, CompleteRecord
<1>6. CASE Crash(p)
  BY <1>3, <1>6 DEF Crash
<1>7. CASE DiskFull(p)
  BY <1>3, <1>7 DEF DiskFull
<1>8. CASE \E config \in Configs : Start(p, config)
  BY <1>1, <1>2, <1>8 DEF Start
<1> QED
  BY <1>4, <1>5, <1>6, <1>7, <1>8

LEMMA BundleType ==
  ASSUME IronTypeOK, NEW p \in Processes
  PROVE  /\ bundle[p].pc # "idle" => bundle[p].copy \in Seq(LogEntry)
         /\ bundle[p].pc \in {"checked", "reported"} => bundle[p].integrity \in BOOLEAN
         /\ bundle[p].pc = "reported" => bundle[p].count \in Nat
BY DEF IronTypeOK, BundleState, Idle

LEMMA BundleStep == IronTypeOK /\ BundleOK /\ [IronNext]_ironVars => BundleOK'
<1> SUFFICES ASSUME IronTypeOK, BundleOK, [IronNext]_ironVars
             PROVE  BundleOK'
  OBVIOUS
<1> DEFINE Fine(b, f) ==
      /\ b.pc # "idle" => Prefix(b.copy, f)
      /\ b.pc \in {"checked", "reported"} /\ b.integrity => Unbroken(b.copy)
      /\ b.pc = "reported" => Len(b.copy) <= b.count
<1>0. \A p \in Processes : Fine(bundle[p], file)
  BY DEF BundleOK
<1>a. (\A p \in Processes : Fine(bundle'[p], file')) => BundleOK'
  BY DEF BundleOK
<1>b. \A f : Fine(Idle, f)
  BY DEF Idle
<1>1. ASSUME NEW p \in Processes,
             \/ LoadYaml(p) \/ Complete(p) \/ Crash(p) \/ DiskFull(p)
             \/ \E config \in Configs : Start(p, config)
      PROVE  BundleOK'
  <2>1. \A q \in Processes : bundle'[q] = bundle[q] \/ bundle'[q] = Idle
    BY <1>1 DEF LoadYaml, Complete, Crash, DiskFull, Start, IronTypeOK
  <2>2. file' = file \/ \E e \in LogEntry : file' = Append(file, e)
    BY <1>1, LogGrows
  <2>3. \A q \in Processes : bundle[q].pc # "idle" => Prefix(bundle[q].copy, file')
    BY <1>0, <2>2, PrefixGrows, BundleType DEF IronTypeOK
  <2> QED
    BY <1>0, <1>a, <1>b, <2>1, <2>3
<1>2. ASSUME NEW p \in Processes, Copy(p)
      PROVE  BundleOK'
  <2>1. bundle' = [bundle EXCEPT ![p] = [pc |-> "copied", copy |-> file]] /\ file' = file
    BY <1>2 DEF Copy
  <2>2. Prefix(file, file)
    BY DEF Prefix, IronTypeOK
  <2>3. Fine([pc |-> "copied", copy |-> file], file)
    BY <2>2
  <2>4. \A q \in Processes : bundle'[q] = IF q = p THEN [pc |-> "copied", copy |-> file]
                                           ELSE bundle[q]
    BY <2>1 DEF IronTypeOK
  <2> HIDE DEF Fine
  <2> QED
    BY <1>0, <1>a, <2>1, <2>3, <2>4
<1>3. ASSUME NEW p \in Processes, Check(p)
      PROVE  BundleOK'
  <2> DEFINE new == [pc |-> "checked", copy |-> bundle[p].copy, integrity |-> Verifies(file)]
  <2>1. /\ bundle[p].pc = "copied" /\ file' = file
        /\ bundle' = [bundle EXCEPT ![p] = IF Readable(file) THEN new ELSE Idle]
    BY <1>3 DEF Check
  <2>2. Readable(file) => Fine(new, file)
    <3>1. Prefix(bundle[p].copy, file) /\ bundle[p].copy \in Seq(LogEntry)
      BY <1>0, <2>1, BundleType
    <3> QED
      BY <3>1, PrefixUnbroken DEF IronTypeOK
  <2>3. \A q \in Processes : bundle'[q] = IF q # p THEN bundle[q]
                                           ELSE IF Readable(file) THEN new ELSE Idle
    BY <2>1 DEF IronTypeOK
  <2> HIDE DEF Fine, new
  <2> QED
    BY <1>0, <1>a, <1>b, <2>1, <2>2, <2>3
<1>4. ASSUME NEW p \in Processes, Report(p)
      PROVE  BundleOK'
  <2> DEFINE new == [pc |-> "reported", copy |-> bundle[p].copy,
                     integrity |-> bundle[p].integrity, count |-> Len(file)]
  <2>1. /\ bundle[p].pc = "checked" /\ file' = file
        /\ bundle' = [bundle EXCEPT ![p] = IF Readable(file) THEN new ELSE Idle]
    BY <1>4 DEF Report
  <2>2. Fine(new, file)
    BY <1>0, <2>1 DEF Prefix
  <2>3. \A q \in Processes : bundle'[q] = IF q # p THEN bundle[q]
                                           ELSE IF Readable(file) THEN new ELSE Idle
    BY <2>1 DEF IronTypeOK
  <2> HIDE DEF Fine, new
  <2> QED
    BY <1>0, <1>a, <1>b, <2>1, <2>2, <2>3
<1>5. ASSUME NEW p \in Processes, Done(p)
      PROVE  BundleOK'
  <2>1. \A q \in Processes : bundle'[q] = IF q = p THEN Idle ELSE bundle[q]
    BY <1>5 DEF Done, IronTypeOK
  <2>2. file' = file
    BY <1>5 DEF Done
  <2> HIDE DEF Fine
  <2> QED
    BY <1>0, <1>a, <1>b, <2>1, <2>2
<1>6. ASSUME NEW p \in Processes, Open(p) \/ Step(p)
      PROVE  BundleOK'
  BY <1>6 DEF Open, Step, BundleOK
<1>7. CASE UNCHANGED ironVars
  BY <1>7 DEF ironVars, BundleOK
<1> QED
  BY <1>1, <1>2, <1>3, <1>4, <1>5, <1>6, <1>7 DEF IronNext

\* A report that says the log is intact vouches for the copy beside it, however
\* many processes write and whatever they write in between.
THEOREM ReportsVouch == IronSpec => []ReportVouches
<1>1. IronInit => BundleOK
  BY DEF IronInit, BundleOK, Idle
<1>2. BundleOK => ReportVouches
  BY DEF BundleOK, ReportVouches
<1> QED
  BY <1>1, <1>2, InitType, TypeStep, BundleStep, PTL DEF IronSpec

-----------------------------------------------------------------------------
(* Pipelines                                                               *)

\* The results of a pipeline are those of its first steps, and it goes on with
\* the step after them or has failed.
Follows(config, results) ==
  /\ Len(results) <= Len(config)
  /\ \A k \in DOMAIN results :
       /\ results[k].name = config[k].name
       /\ results[k].success =>
            \A dep \in config[k].deps : \E j \in 1..(k - 1) : config[j].name = dep
AllSucceed(results) == \A k \in DOMAIN results : results[k].success
PipelineOK ==
  \A p \in Processes :
    run[p].pc = "steps" =>
      /\ Follows(run[p].config, run[p].results)
      /\ run[p].success <=> AllSucceed(run[p].results)
      /\ \/ run[p].next = Len(run[p].results) + 1
         \/ run[p].next = Len(run[p].config) + 1 /\ ~run[p].success

LEMMA StepFollows ==
  ASSUME IronTypeOK, PipelineOK, NEW p \in Processes, Step(p)
  PROVE  /\ run'[p].pc = "steps" /\ Follows(run'[p].config, run'[p].results)
         /\ run'[p].success <=> AllSucceed(run'[p].results)
         /\ \/ run'[p].next = Len(run'[p].results) + 1
            \/ run'[p].next = Len(run'[p].config) + 1 /\ ~run'[p].success
<1> DEFINE C == run[p].config
           R == run[p].results
<1>1. PICK works \in BOOLEAN, next \in Nat \ {0} :
        /\ ResultOf(p, works) \in StepResult
        /\ run' = [run EXCEPT ![p] =
             [pc |-> "steps", config |-> C, next |-> next,
              results |-> Append(R, ResultOf(p, works)),
              success |-> run[p].success /\ ResultOf(p, works).success]]
        /\ \/ next = run[p].next + 1
           \/ ~ResultOf(p, works).success /\ next = Len(C) + 1
  BY StepIs
<1> DEFINE result == ResultOf(p, works)
           Q == Append(R, result)
<1>2. /\ run[p].pc = "steps" /\ run[p].next <= Len(C) /\ C \in Seq(Steps)
      /\ R \in Seq(StepResult) /\ run[p].next \in Nat \ {0} /\ run[p].success \in BOOLEAN
  BY RunType DEF Step
<1>3. /\ Follows(C, R) /\ (run[p].success <=> AllSucceed(R))
      /\ run[p].next = Len(R) + 1
  BY <1>2 DEF PipelineOK
<1>4. /\ run'[p].pc = "steps" /\ run'[p].config = C /\ run'[p].results = Q
      /\ run'[p].next = next /\ run'[p].success = (run[p].success /\ result.success)
  BY <1>1 DEF IronTypeOK
<1>5. /\ Len(Q) = Len(R) + 1 /\ DOMAIN R = 1..Len(R) /\ DOMAIN Q = 1..(Len(R) + 1)
      /\ Q[Len(R) + 1] = result /\ \A k \in DOMAIN R : Q[k] = R[k]
      /\ Len(R) \in Nat
  BY <1>1, <1>2
<1>6. /\ result.name = C[Len(R) + 1].name
      /\ result.success => DepOk(p, C[Len(R) + 1])
  BY <1>3 DEF ResultOf
<1> HIDE DEF C, R, result, Q
<1>7. Follows(C, Q)
  <2>1. Len(Q) <= Len(C)
    BY <1>2, <1>3, <1>5
  <2>2. ASSUME NEW k \in DOMAIN R
        PROVE  /\ Q[k].name = C[k].name
               /\ Q[k].success => \A dep \in C[k].deps : \E j \in 1..(k - 1) : C[j].name = dep
    BY <1>3, <1>5, <2>2 DEF Follows
  <2>3. ASSUME result.success, NEW dep \in C[Len(R) + 1].deps
        PROVE  \E j \in 1..Len(R) : C[j].name = dep
    <3>1. PICK r \in DOMAIN R : R[r].name = dep
      BY <1>6, <2>3 DEF DepOk, Succeeded, R
    <3> QED
      BY <1>3, <1>5, <3>1 DEF Follows
  <2>4. (Len(R) + 1) - 1 = Len(R)
    BY <1>5
  <2>5. /\ Q[Len(R) + 1].name = C[Len(R) + 1].name
        /\ Q[Len(R) + 1].success =>
             \A dep \in C[Len(R) + 1].deps : \E j \in 1..((Len(R) + 1) - 1) : C[j].name = dep
    BY <1>5, <1>6, <2>3, <2>4
  <2>6. \A k \in DOMAIN Q : k \in DOMAIN R \/ k = Len(R) + 1
    BY <1>5
  <2> QED
    BY <2>1, <2>2, <2>5, <2>6 DEF Follows
<1>8. AllSucceed(Q) <=> AllSucceed(R) /\ result.success
  BY <1>5 DEF AllSucceed
<1>9. \/ next = Len(Q) + 1
      \/ next = Len(C) + 1 /\ ~result.success
  BY <1>1, <1>3, <1>5 DEF C, result
<1> QED
  BY <1>3, <1>4, <1>7, <1>8, <1>9

LEMMA PipelineStep == IronTypeOK /\ PipelineOK /\ [IronNext]_ironVars => PipelineOK'
<1> SUFFICES ASSUME IronTypeOK, PipelineOK, [IronNext]_ironVars
             PROVE  PipelineOK'
  OBVIOUS
<1>1. ASSUME NEW p \in Processes, NEW config \in Configs, Start(p, config)
      PROVE  PipelineOK'
  <2>1. \A q \in Processes : run'[q] =
          IF q = p THEN [pc |-> "steps", config |-> config, next |-> 1,
                         results |-> <<>>, success |-> TRUE]
          ELSE run[q]
    BY <1>1 DEF Start, IronTypeOK
  <2>2. Follows(config, <<>>) /\ AllSucceed(<<>>)
    BY IronPathAssumption DEF Follows, AllSucceed
  <2> QED
    BY <2>1, <2>2 DEF PipelineOK
<1>2. ASSUME NEW p \in Processes, Step(p)
      PROVE  PipelineOK'
  <2>1. \A q \in Processes \ {p} : run'[q] = run[q]
    BY <1>2, StepIs DEF IronTypeOK
  <2> QED
    BY <1>2, <2>1, StepFollows DEF PipelineOK
<1>3. ASSUME NEW p \in Processes,
             \/ Open(p) \/ LoadYaml(p) \/ Complete(p) \/ Copy(p) \/ Check(p) \/ Report(p)
             \/ Done(p) \/ Crash(p) \/ DiskFull(p)
      PROVE  PipelineOK'
  <2>1. \A q \in Processes : run'[q] = run[q] \/ run'[q] = Idle
    BY <1>3 DEF Open, LoadYaml, Complete, Copy, Check, Report, Done, Crash, DiskFull, IronTypeOK
  <2> QED
    BY <2>1 DEF PipelineOK, Idle
<1>4. CASE UNCHANGED ironVars
  BY <1>4 DEF PipelineOK, ironVars
<1> QED
  BY <1>1, <1>2, <1>3, <1>4 DEF IronNext

\* The number of successes tells whether all steps succeeded.
LEMMA CountSuccesses ==
  ASSUME NEW R \in Seq(StepResult)
  PROVE  Cardinality({k \in DOMAIN R : R[k].success}) = Len(R) <=> AllSucceed(R)
<1> DEFINE done == {k \in DOMAIN R : R[k].success}
<1>1. DOMAIN R = 1..Len(R) /\ Len(R) \in Nat
  OBVIOUS
<1>2. done \in SUBSET (1..Len(R))
  BY <1>1
<1>3. done = 1..Len(R) <=> AllSucceed(R)
  BY <1>1 DEF AllSucceed
<1> HIDE DEF done
<1>4. \A n \in Nat : IsFiniteSet(1..n) /\ Cardinality(1..n) = n
  BY FS_Interval
<1>5. Cardinality(1..Len(R)) = Cardinality(done) => 1..Len(R) = done
  BY <1>1, <1>2, <1>4, FS_Subset
<1>6. Cardinality(done) = Len(R) <=> AllSucceed(R)
  BY <1>1, <1>3, <1>4, <1>5
<1> QED
  BY <1>6 DEF done

LEMMA SameInterval ==
  ASSUME NEW m \in Nat, NEW n \in Nat, 1..m = 1..n
  PROVE  m = n
<1>1. (m \in 1..m <=> m # 0) /\ (n \in 1..n <=> n # 0)
  OBVIOUS
<1>2. m # 0 => m \in 1..n
  BY <1>1
<1>3. n # 0 => n \in 1..m
  BY <1>1
<1> QED
  BY <1>2, <1>3

LEMMA CompletedRight ==
  ASSUME IronTypeOK, PipelineOK, NEW p \in Processes, Complete(p)
  PROVE  RecordOf(p).success <=> AllDone(RecordOf(p))
<1> DEFINE C == run[p].config
           R == run[p].results
<1>1. /\ run[p].pc = "steps" /\ run[p].next > Len(C) /\ C \in Seq(Steps)
      /\ R \in Seq(StepResult) /\ run[p].next \in Nat \ {0} /\ run[p].success \in BOOLEAN
  BY RunType DEF Complete
<1>2. /\ Follows(C, R) /\ (run[p].success <=> AllSucceed(R))
      /\ run[p].next = Len(R) + 1 \/ ~run[p].success
  BY <1>1 DEF PipelineOK
<1> HIDE DEF C, R
<1>3. /\ DOMAIN R = 1..Len(R) /\ DOMAIN C = 1..Len(C) /\ Len(R) \in Nat /\ Len(C) \in Nat
  BY <1>1
<1> DEFINE names == [k \in DOMAIN C |-> C[k].name]
<1>4. AllDone(RecordOf(p)) <=>
        /\ Cardinality({k \in DOMAIN R : R[k].success}) = Len(C)
        /\ [k \in DOMAIN R |-> R[k].name] = names
        /\ \A k \in DOMAIN C : \A dep \in C[k].deps : \E j \in 1..(k - 1) : names[j] = dep
  BY DEF AllDone, RecordOf, C, R
<1>5. RecordOf(p).success = run[p].success
  BY DEF RecordOf
<1>6. ASSUME run[p].success
      PROVE  AllDone(RecordOf(p))
  <2>1. Len(R) = Len(C) /\ AllSucceed(R)
    <3>1. Len(R) <= Len(C)
      BY <1>2 DEF Follows
    <3>2. Len(R) \in Nat /\ Len(C) \in Nat /\ run[p].next = Len(R) + 1 /\ run[p].next > Len(C)
      BY <1>1, <1>2, <1>3, <1>6
    <3> QED
      BY <1>2, <1>6, <3>1, <3>2
  <2>2. Cardinality({k \in DOMAIN R : R[k].success}) = Len(C)
    BY <1>1, <2>1, CountSuccesses
  <2>3. [k \in DOMAIN R |-> R[k].name] = names
    BY <1>2, <1>3, <2>1 DEF Follows
  <2>4. ASSUME NEW k \in DOMAIN C, NEW dep \in C[k].deps
        PROVE  \E j \in 1..(k - 1) : names[j] = dep
    <3>1. PICK j \in 1..(k - 1) : C[j].name = dep
      BY <1>2, <1>3, <2>1, <2>4 DEF Follows, AllSucceed
    <3>2. j \in DOMAIN C
      BY <1>3, <2>4, <3>1
    <3> QED
      BY <3>1, <3>2
  <2> QED
    BY <1>4, <2>2, <2>3, <2>4
<1>7. ASSUME AllDone(RecordOf(p))
      PROVE  run[p].success
  <2>1. DOMAIN R = DOMAIN C
    <3>1. [k \in DOMAIN R |-> R[k].name] = names
      BY <1>4, <1>7
    <3>2. DOMAIN [k \in DOMAIN R |-> R[k].name] = DOMAIN R /\ DOMAIN names = DOMAIN C
      OBVIOUS
    <3> QED
      BY <3>1, <3>2
  <2>2. Len(R) = Len(C)
    BY <1>3, <2>1, SameInterval
  <2>3. AllSucceed(R)
    BY <1>1, <1>4, <1>7, <2>2, CountSuccesses
  <2> QED
    BY <1>2, <2>3
<1> QED
  BY <1>5, <1>6, <1>7

LEMMA RecordStep == IronTypeOK /\ PipelineOK /\ SuccessMeansAll /\ [IronNext]_ironVars => SuccessMeansAll'
<1> SUFFICES ASSUME IronTypeOK, PipelineOK, SuccessMeansAll, [IronNext]_ironVars
             PROVE  SuccessMeansAll'
  OBVIOUS
<1> DEFINE Fine(record) == record.action = "complete" => (record.success <=> AllDone(record))
<1>0. \A k \in DOMAIN file : Fine(file[k].record)
  BY DEF SuccessMeansAll
<1>1. (\A k \in DOMAIN file' : Fine(file'[k].record)) => SuccessMeansAll'
  BY DEF SuccessMeansAll
<1>2. Fine([action |-> "load"]) /\ Fine([action |-> "start"]) /\ Fine([action |-> "lost"])
  OBVIOUS
<1> HIDE DEF Fine
<1>3. ASSUME NEW p \in Processes, NEW record \in Record, NEW end \in Ending,
             file' = Append(file, Entry(p, record, end)), Fine(record)
      PROVE  SuccessMeansAll'
  <2>1. Entry(p, record, end) \in LogEntry /\ file \in Seq(LogEntry)
    BY EntryType DEF IronTypeOK
  <2>2. /\ DOMAIN file = 1..Len(file) /\ Len(file) \in Nat
        /\ DOMAIN file' = 1..(Len(file) + 1)
        /\ \A k \in DOMAIN file : file'[k] = file[k]
        /\ file'[Len(file) + 1] = Entry(p, record, end)
    BY <1>3, <2>1
  <2>3. Entry(p, record, end).record = record
    BY DEF Entry
  <2>4. ASSUME NEW k \in DOMAIN file'
        PROVE  Fine(file'[k].record)
    <3>1. CASE k \in DOMAIN file
      BY <1>0, <2>2, <3>1
    <3>2. CASE k = Len(file) + 1
      BY <1>3, <2>2, <2>3, <3>2
    <3> QED
      BY <2>2, <3>1, <3>2
  <2> QED
    BY <1>1, <2>4
<1>4. [action |-> "load"] \in Record /\ [action |-> "start"] \in Record /\ [action |-> "lost"] \in Record
  BY DEF Record
<1>5. ASSUME NEW p \in Processes, NEW record \in Record, AppendEntry(p, record), Fine(record)
      PROVE  SuccessMeansAll'
  BY <1>3, <1>5 DEF AppendEntry, Ending
<1>6. ASSUME NEW p \in Processes, LoadYaml(p)
      PROVE  SuccessMeansAll'
  BY <1>2, <1>4, <1>5, <1>6 DEF LoadYaml
<1>7. ASSUME NEW p \in Processes, NEW config \in Configs, Start(p, config)
      PROVE  SuccessMeansAll'
  BY <1>2, <1>4, <1>5, <1>7 DEF Start
<1>8. ASSUME NEW p \in Processes, Complete(p)
      PROVE  SuccessMeansAll'
  <2>1. Fine(RecordOf(p))
    BY <1>8, CompletedRight DEF Fine
  <2> QED
    BY <1>5, <1>8, <2>1, CompleteRecord
<1>9. ASSUME NEW p \in Processes, Crash(p) \/ DiskFull(p)
      PROVE  SuccessMeansAll'
  <2>1. file' = file \/ \E end \in Ending : file' = Append(file, Entry(p, [action |-> "lost"], end))
    BY <1>9 DEF Crash, DiskFull
  <2>2. CASE file' = file
    BY <1>0, <1>1, <2>2
  <2>3. ASSUME NEW end \in Ending, file' = Append(file, Entry(p, [action |-> "lost"], end))
        PROVE  SuccessMeansAll'
    BY <1>2, <1>3, <1>4, <2>3
  <2> QED
    BY <2>1, <2>2, <2>3
<1>10. ASSUME NEW p \in Processes,
              Open(p) \/ Step(p) \/ Copy(p) \/ Check(p) \/ Report(p) \/ Done(p)
       PROVE  SuccessMeansAll'
  BY <1>10 DEF Open, Step, Copy, Check, Report, Done, SuccessMeansAll
<1>11. CASE UNCHANGED ironVars
  BY <1>11 DEF ironVars, SuccessMeansAll
<1> QED
  BY <1>6, <1>7, <1>8, <1>9, <1>10, <1>11 DEF IronNext

\* A pipeline is recorded as successful exactly when every step was executed and
\* worked, in the order of the pipeline and after the steps it depends on.
THEOREM SuccessIsEarned == IronSpec => []SuccessMeansAll
<1>1. IronInit => PipelineOK /\ SuccessMeansAll
  BY DEF IronInit, PipelineOK, SuccessMeansAll, Idle
<1> QED
  BY <1>1, InitType, TypeStep, PipelineStep, RecordStep, PTL DEF IronSpec
=============================================================================
