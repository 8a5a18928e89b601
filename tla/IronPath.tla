------------------------------- MODULE IronPath -------------------------------
(***************************************************************************)
(* IronPathSovereign (governance/iron_path.py) over AuditLogWriter         *)
(* (governance/sovereign_runtime.py): processes that each own a sovereign  *)
(* run pipelines and record them in one JSONL file, and export compliance  *)
(* bundles.  Processes die, and the disk fills up in the middle of a line. *)
(*                                                                         *)
(* SHA-256 has no collisions and timestamps make every entry unique, so an *)
(* entry's hash is a number of its own.  A write that fails leaves an entry *)
(* "torn", or complete but without its end of line ("unended"); what is    *)
(* appended next goes on the same line, which then cannot be parsed.       *)
(***************************************************************************)
EXTENDS Integers, Sequences, FiniteSets

CONSTANTS
  Processes,
  Steps,       \* steps of pipelines, [name, deps, retry]
  Configs,     \* pipelines, sequences of steps
  MaxAppends,  \* bound: appends the model follows
  MaxOpens     \* bound: sovereigns constructed

VARIABLES
  file,      \* the log: [hash, prev, end, record]
  head,      \* _last_hash of the process's writer, or Down
  run,       \* execute_pipeline() of the process, or Idle
  bundle,    \* export_compliance_bundle() of the process, or Idle
  appends,   \* appends so far, each with a hash of its own
  opens,     \* sovereigns constructed so far
  strayed    \* history: a writer's hash may not be the last one of the log: two
             \* sovereigns were up at the same time, or an append() raised
             \* although its whole line is in the log
ironVars == <<file, head, run, bundle, appends, opens, strayed>>

Genesis == 0
Down == -1
Idle == [pc |-> "idle"]

ASSUME IronPathAssumption ==
  MaxAppends \in Nat /\ MaxOpens \in Nat /\ Configs \subseteq Seq(Steps)

IronInit ==
  /\ file = <<>> /\ head = [p \in Processes |-> Down]
  /\ run = [p \in Processes |-> Idle] /\ bundle = [p \in Processes |-> Idle]
  /\ appends = 0 /\ opens = 0 /\ strayed = FALSE

-----------------------------------------------------------------------------
(* AuditLogWriter                                                          *)

Ending == {"line", "unended", "torn"}
\* json.loads() of entry k: it is complete and on a line of its own
Parses(f, k) == /\ f[k].end # "torn"
                /\ k < Len(f) => f[k].end = "line"
                /\ k > 1 => f[k - 1].end = "line"
\* read_all() raises unless every line parses.
Readable(f) == \A k \in DOMAIN f : Parses(f, k)

\* verify_integrity() of a readable log
\* Mutant: only the entries' own hashes are checked.
MutPreviousHash(f, k) == f[k].prev
PreviousHash(f, k) == IF k = 1 THEN Genesis ELSE f[k - 1].hash
Verifies(f) == \A k \in DOMAIN f : f[k].prev = PreviousHash(f, k)

\* _load_last_hash(), which raises when the last line does not parse
CanLoad(f) == f # <<>> => Parses(f, Len(f))
LoadLastHash(f) == IF f = <<>> THEN Genesis ELSE f[Len(f)].hash

Up(p) == head[p] # Down
Open(p) ==
  /\ ~Up(p) /\ opens < MaxOpens /\ CanLoad(file)
  /\ head' = [head EXCEPT ![p] = LoadLastHash(file)]
  /\ opens' = opens + 1
  /\ strayed' = (strayed \/ \E q \in Processes : Up(q))
  /\ UNCHANGED <<file, run, bundle, appends>>

Entry(p, record, end) ==
  [hash |-> appends + 1, prev |-> head[p], end |-> end, record |-> record]

\* append(): the line is written, then the writer moves on.
\* Mutant: the writer does not move on.
MutNewHead(p) == head[p]
NewHead(p) == appends + 1
AppendEntry(p, record) ==
  /\ appends < MaxAppends
  /\ appends' = appends + 1
  /\ file' = Append(file, Entry(p, record, "line"))
  /\ head' = [head EXCEPT ![p] = NewHead(p)]

-----------------------------------------------------------------------------
(* execute_pipeline()                                                      *)

Ready(p) == Up(p) /\ run[p].pc = "idle" /\ bundle[p].pc = "idle"

\* The first record; the role signature has been set.
Start(p, config) ==
  /\ Ready(p)
  /\ AppendEntry(p, [action |-> "start"])
  /\ run' = [run EXCEPT ![p] = [pc |-> "steps", config |-> config, next |-> 1,
                               results |-> <<>>, success |-> TRUE]]
  /\ UNCHANGED <<bundle, opens, strayed>>

Succeeded(results, name) ==
  \E r \in DOMAIN results : results[r].name = name /\ results[r].success
DepOk(p, step) == \A dep \in step.deps : Succeeded(run[p].results, dep)

\* Mutant: a step whose dependencies are not satisfied is only left out.
MutSuccessAfter(p, result) == run[p].success /\ (result.success \/ ~result.tried)
SuccessAfter(p, result) == run[p].success /\ result.success

\* One turn of the loop.  _execute_step() only simulates; a step that is
\* really run may raise, and ends the loop unless retry is set.
Step(p) ==
  /\ run[p].pc = "steps" /\ run[p].next <= Len(run[p].config)
  /\ LET step == run[p].config[run[p].next]
     IN  \E works \in BOOLEAN :
           LET result == [name |-> step.name, tried |-> DepOk(p, step),
                          success |-> DepOk(p, step) /\ works]
               stop   == DepOk(p, step) /\ ~works /\ step.retry = 0
           IN  run' = [run EXCEPT
                         ![p].results = Append(@, result),
                         ![p].success = SuccessAfter(p, result),
                         ![p].next    = IF stop THEN Len(run[p].config) + 1 ELSE @ + 1]
  /\ UNCHANGED <<file, head, bundle, appends, opens, strayed>>

Complete(p) ==
  /\ run[p].pc = "steps" /\ run[p].next > Len(run[p].config)
  /\ AppendEntry(p, [action    |-> "complete",
                 success   |-> run[p].success,
                 completed |-> Cardinality({k \in DOMAIN run[p].results : run[p].results[k].success}),
                 config    |-> run[p].config,
                 results   |-> run[p].results])
  /\ run' = [run EXCEPT ![p] = Idle]
  /\ UNCHANGED <<bundle, opens, strayed>>

\* load_pipeline_yaml() records what it loaded.
LoadYaml(p) ==
  /\ Ready(p)
  /\ AppendEntry(p, [action |-> "load"])
  /\ UNCHANGED <<run, bundle, opens, strayed>>

-----------------------------------------------------------------------------
(* export_compliance_bundle()                                              *)

\* shutil.copy2() of the log
Copy(p) ==
  /\ Ready(p)
  /\ bundle' = [bundle EXCEPT ![p] = [pc |-> "copied", copy |-> file]]
  /\ UNCHANGED <<file, head, run, appends, opens, strayed>>

\* The report is made from the log itself, by a writer of its own; the export
\* raises when that cannot be opened or read.
Check(p) ==
  /\ bundle[p].pc = "copied"
  /\ bundle' = [bundle EXCEPT ![p] =
       IF Readable(file)
       THEN [pc |-> "checked", copy |-> bundle[p].copy, integrity |-> Verifies(file)]
       ELSE Idle]
  /\ UNCHANGED <<file, head, run, appends, opens, strayed>>

\* audit_entry_count is read after that.
Report(p) ==
  /\ bundle[p].pc = "checked"
  /\ bundle' = [bundle EXCEPT ![p] =
       IF Readable(file)
       THEN [pc |-> "reported", copy |-> bundle[p].copy,
             integrity |-> bundle[p].integrity, count |-> Len(file)]
       ELSE Idle]
  /\ UNCHANGED <<file, head, run, appends, opens, strayed>>

Done(p) ==
  /\ bundle[p].pc = "reported"
  /\ bundle' = [bundle EXCEPT ![p] = Idle]
  /\ UNCHANGED <<file, head, run, appends, opens, strayed>>

-----------------------------------------------------------------------------
(* Failures                                                                *)

\* The process dies, between two steps or while it appends: part of the line
\* may be in the file.
Crash(p) ==
  /\ Up(p)
  /\ head' = [head EXCEPT ![p] = Down]
  /\ run' = [run EXCEPT ![p] = Idle] /\ bundle' = [bundle EXCEPT ![p] = Idle]
  /\ \/ UNCHANGED <<file, appends>>
     \/ /\ bundle[p].pc = "idle" /\ appends < MaxAppends /\ appends' = appends + 1
        /\ \E end \in Ending : file' = Append(file, Entry(p, [action |-> "lost"], end))
  /\ UNCHANGED <<opens, strayed>>

\* The disk is full: append() raises, with nothing or with part of the line
\* written, or with all of it when only close() fails, and so does
\* execute_pipeline(); but the sovereign can still be used.
DiskFull(p) ==
  /\ Up(p) /\ bundle[p].pc = "idle" /\ appends < MaxAppends
  /\ run[p].pc = "steps" => run[p].next > Len(run[p].config)
  /\ \/ UNCHANGED <<file, appends, strayed>>
     \/ /\ appends' = appends + 1
        /\ \E end \in Ending :
             /\ file' = Append(file, Entry(p, [action |-> "lost"], end))
             /\ strayed' = (strayed \/ end = "line")
  /\ run' = [run EXCEPT ![p] = Idle]
  /\ UNCHANGED <<head, bundle, opens>>

IronNext == \E p \in Processes :
  \/ Open(p) \/ LoadYaml(p) \/ Step(p) \/ Complete(p)
  \/ \E config \in Configs : Start(p, config)
  \/ Copy(p) \/ Check(p) \/ Report(p) \/ Done(p)
  \/ Crash(p) \/ DiskFull(p)

IronSpec == IronInit /\ [][IronNext]_ironVars

-----------------------------------------------------------------------------
(* Properties                                                              *)

StepResult == [name: {step.name : step \in Steps}, tried: BOOLEAN, success: BOOLEAN]
Record == [action: {"load", "start", "lost"}] \cup
          [action: {"complete"}, success: BOOLEAN, completed: Nat,
           config: Configs, results: Seq(StepResult)]
LogEntry == [hash: Nat, prev: Nat \cup {Down}, end: Ending, record: Record]
RunState == {Idle} \cup [pc: {"steps"}, config: Configs, next: Nat \ {0},
                        results: Seq(StepResult), success: BOOLEAN]
BundleState ==
  {Idle} \cup [pc: {"copied"}, copy: Seq(LogEntry)]
         \cup [pc: {"checked"}, copy: Seq(LogEntry), integrity: BOOLEAN]
         \cup [pc: {"reported"}, copy: Seq(LogEntry), integrity: BOOLEAN, count: Nat]
IronTypeOK ==
  /\ file \in Seq(LogEntry)
  /\ head \in [Processes -> Nat \cup {Down}]
  /\ run \in [Processes -> RunState] /\ bundle \in [Processes -> BundleState]
  /\ appends \in Nat /\ opens \in Nat /\ strayed \in BOOLEAN

\* While never two sovereigns are up at the same time and no append() raises
\* after its whole line, wherever they crash or the disk fills up and whoever
\* comes next, verify_integrity() returns True or the log cannot be read: an
\* honest history is never reported as broken.
SoleWriterVerifies == ~strayed /\ Readable(file) => Verifies(file)

\* A report that says the log is intact vouches for the copy in the bundle,
\* although it was made from the log, later and with other writers at work:
\* the copy is an unbroken chain of no more entries than reported.
Unbroken(f) ==
  /\ Readable(f)
  /\ f # <<>> => f[1].prev = Genesis
  /\ \A k \in DOMAIN f : k + 1 \in DOMAIN f => f[k + 1].prev = f[k].hash
ReportVouches ==
  \A p \in Processes :
    bundle[p].pc = "reported" /\ bundle[p].integrity =>
      Unbroken(bundle[p].copy) /\ Len(bundle[p].copy) <= bundle[p].count

\* Every step was executed and worked, in the order of the pipeline, and after
\* the steps it depends on.
AllDone(record) ==
  LET names == [k \in DOMAIN record.config |-> record.config[k].name]
  IN  /\ record.completed = Len(record.config)
      /\ [k \in DOMAIN record.results |-> record.results[k].name] = names
      /\ \A k \in DOMAIN record.config : \A dep \in record.config[k].deps :
           \E j \in 1..(k - 1) : names[j] = dep
\* A pipeline is recorded as successful exactly when all its steps are done.
SuccessMeansAll ==
  \A k \in DOMAIN file :
    file[k].record.action = "complete" => (file[k].record.success <=> AllDone(file[k].record))
=============================================================================
