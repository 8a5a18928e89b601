# T.A.R.L. in TLA+

TLA+ models, model-checking runs and machine-checked proofs for Thirsty-Lang:
the governance core (`src/utf/tarl`: policy engine, policy composer, proof
certificates, audit archive, proof verifier) and what is built around it, the
interpreter with its capability gate and module system, the promotion engine of
Shadow Thirst, the stream decoder of TSCG-B, the sovereign runtime of
`governance`, and the search page of the documentation. Paths below are
relative to the repository.

## 1. The system

A host program, or the Thirsty-Lang interpreter, asks a **policy runtime**
whether an action is allowed. The runtime evaluates a policy (an ordered list of
rules, first match wins, a rule that raises means DENY) on a context and gives a
decision, ALLOW, DENY or ESCALATE. On the proof-carrying path the decision comes
with a **certificate**, which is stored in a hash-chained **audit archive**; if
the deployment requires audit, a decision whose certificate cannot be stored
becomes DENY. Somebody else, possibly in another process, checks certificates
with a **verifier**, which may refuse a certificate it has seen before
(**replay guard**) or one bound to a **revoked** policy.

Around that core: the **composer** combines policies that extend, restrict,
include or replace each other; the **interpreter** passes the effects, imports
and governed calls of a governed program through a gate that asks the policy
runtime; **Shadow Thirst** runs two versions of a block and promotes a module if
they agree; a **sovereign** runs pipelines and records them in a JSONL hash
chain of its own. The stream decoder and the search page stand alone.

| Component | State | Operations | What makes it correct |
|---|---|---|---|
| `runtime.py` `TarlRuntime`, `LRUCache` | active policy, LRU cache, pool, clock, archive; nothing is locked | `evaluate`, `set_policy`, `evaluate_with_proof` | an answer belongs to the policy asked; the cache holds only timeless rule decisions; it stays bounded; it raises only when a racing call takes its keys |
| `archive.py` `TarlAuditArchive` | rows in a SQLite file, one connection and lock per process | `store`, `query`, `count`, `head_hash`, `verify_chain`, `close` | records are never lost or altered once acknowledged; the chain links; a failed store leaves nothing, unless its COMMIT timed out |
| `verifier.py` `ProofVerifier`, `ReplayGuard` | keys, revoked hashes, seen ids | `verify` | a proof is accepted once; a revoked policy is refused; the trace proves the verdict |
| `durable.py` `DurableReplayGuard`, `RevocationStore` | two SQLite tables shared by processes | `check_and_record`, `add`, `remove`, `all` | single use across processes and restarts |
| `clock.py` | keys of time authorities | `stamp`, `verify` | a rejected assertion gives no instant |
| `broker.py` | subject, grants | `request`, `require`, `require_path` | no effect without ALLOW and its certificate |
| `composer.py` | registered policies and sets; a chain of names per call | `register`, `evaluate` | no EXTENDS, revert or INCLUDE loosens a verdict of a RESTRICTS on the way; errors are reported only for references that are wrong |
| `escalation.py` | approver keys | `resolve` | only a quorum of distinct approvers turns ESCALATE into ALLOW |
| `authority.py`, `keystore.py`, `pathguard.py` | keys, roots | issue, verify, check | forged or escaped inputs are refused |
| `core.py`, `spec.py`, `schema.py` | none | parse, evaluate, validate | first match wins, fail closed |
| `thirsty_lang/interpreter.py` | environments, pool, attached runtime and authority | execute, governed calls, `cascade`, spillage, cleanup | no effect of governed code without ALLOW; a denial ends the program outside debug mode; programs end |
| `thirsty_lang/module_system.py`, `package_manager.py` | module cache, lock file | import, resolve | a core module runs once; governed code never gets functions of the core cache |
| `shadow_thirst/core.py`, `convergence.py` | two-worker pool of the process | evaluate, compare | a module gets the verdict of its own blocks; every evaluation ends |
| `tscg`, `tscg_b` | stream buffer | encode, `feed`, `flush` | every intact frame is delivered, once and in order |
| `governance/sovereign_runtime.py`, `iron_path.py` | JSONL log, a cached head per writer | `append`, `verify_integrity`, `execute_pipeline`, `export_compliance_bundle` | an honest log verifies; a report vouches for the copy it goes with; success means every step was done |
| `docs/search.js`, `docs/src/search.js`, `docs/src/utf.html` | URL history, index, page content | input, popstate, load, focus | the page shows what belongs to the term in its URL |
| `psia/core.py`, servers, CLIs, front ends, tools | per request | | not modelled, see section 7 |

What is hard here: the runtime is shared by threads without any lock, while
`set_policy()` swaps policy and cache in two assignments; the archive and the
guard are shared by processes, and SQLite's locks are taken statement by
statement, so a read-then-insert is not atomic; transactions survive the
exceptions of the calls that opened them; processes crash between an INSERT and
its COMMIT; revocations are copied once. A log writer trusts the head it read
when it was constructed; a line may be cut off. Interpreted code nests calls,
imports, handlers, finalizers and threads, each with its own rule for the
exceptions that pass through. A comparison that timed out keeps its thread.
`PROJECT.json` lists these hazards, each at its line, with the properties that
watch it.

## 2. The modules

| Module | Models | Depends on |
|---|---|---|
| `TarlPolicy` | policies, decisions, first match, time windows, schema; when a decision is *justified* by a policy | |
| `TarlRuntime` | `evaluate()`, `set_policy()`, `LRUCache` | `TarlPolicy` |
| `AuditLog` | the promise of the archive: an append-only, durable log | |
| `AuditArchive` | `TarlAuditArchive` and SQLite's locking | `AuditLog` by refinement |
| `TarlProof` | certificates and `_check_trace()` | `TarlPolicy` |
| `ProofEngine` | `evaluate_with_proof()`, `_persist()` | `TarlProof`, an instance of `AuditArchive` |
| `ProofVerifier` | `verify()`, the replay guards, the revocation store | |
| `Composer` | `PolicyComposer.evaluate()`, registration, policy sets | |
| `Interpreter` | the interpreter's control flow, the gate, imports and `ModuleCache` | |
| `Convergence` | `PromotionEngine`, `execute_and_compare()`, `_EXEC_POOL` | |
| `StreamDecoder` | TSCG-B frames and `StreamDecoder` | |
| `IronPath` | `AuditLogWriter`, pipelines, compliance bundles | |
| `DocSearch` | the search page and its index | |
| `TarlRuntime_proofs`, `AuditArchive_proofs`, `ProofVerifier_proofs`, `Composer_proofs`, `IronPath_proofs`, `Interpreter_proofs` | theorems about the module they are named after | |
| `Standalone_proofs` | theorems about the components nothing else builds on: `Convergence`, `StreamDecoder`, `DocSearch` | the three of them |
| `ProofEngine_proofs` | theorems about `ProofEngine` | an instance of `AuditArchive_proofs` |
| `MC_*` | values for the constants of the runs | |

**TarlPolicy.** A condition is its outcome: `Fires[p][c][t][i]` says whether
rule `i` of `p` matches `c`, misses it or raises when the clock builtins read
`t`. `FirstMatch` is the loop of `evaluate_policy()`; `OutsideWindow` and
`ExpiryDecision` are `_check_policy_temporal()`. A rule that calls
`ELAPSED_SINCE` (`Elapsed`) reads the host clock even when there is a trusted
instant, every other one the trusted instant if there is one (`RuleInstants`).
No rule reads both, and dates and durations are in Python's range. `Justified(p, c, d)` says that
`d` is an answer an engine may give for `c` under `p`; without a trusted clock
each rule reads the host clock when it runs, so the rules of one evaluation may
see different instants. A directive that is set but is no date is `Absent` (the
code ignores it) with `timed` TRUE (the policy is still not cached).

**TarlRuntime.** One runtime, several callers. `pc` follows a call of
`evaluate()`: `Begin` (schema, capture of the policy, window, empty policy), or
`Refuse` (a `policy_text` that does not parse raises out of the call),
`Probe` and `Fetch` (`get()`: membership, then `move_to_end` and lookup),
`Submit`, `RunRule` for each rule in any order, `Collect` (policy order, early
return on a throw), `Store`, `Promote`, `Evict`, `Pop` (the four steps of
`put()`). `SwapPolicy` and `ClearCache` are the two assignments of
`set_policy()` that decisions depend on; calls of `set_policy()` do not overlap each other (an
operator's action). Each action is the code between two points where another
thread can change what the call reads. The `OrderedDict` is the set `cached`
with the order `older`, so that equal caches are equal states. `asked`, `clean`,
`mixed`, `faults` and `robbed` (the calls during which another caller evicted a
key or `set_policy()` cleared the cache) are history variables.

**AuditArchive.** Processes share the file; the threads of a process share its
connection and lock. `ReadHead`, `Insert` and `Commit` are the three statements
of `store()`. `tx` is the state of a connection's transaction in SQLite's
rollback-journal mode with Python's implicit BEGIN: the locks each state holds
and which statement of another connection they block were compared with SQLite 3.40
through Python's `sqlite3`. `InsertTimesOut` and `CommitTimesOut` are
the busy timeout: a timed-out INSERT leaves an open transaction, a timed-out
COMMIT leaves the inserted rows in it. `DiskFull` rolls back. `Crash` and
`Close` forget what was not committed. `BeginRead` and `EndRead` are any reading
method: its SELECT holds SHARED, and the method the process's lock, over the whole
`fetchall()`, so that a long read makes a COMMIT of another process time out
(`CommitBlocked`). `overdue` are the proofs whose COMMIT timed out. Every record
has an entry hash: rows of an archive migrated from a version without the chain,
whose `entry_hash` is NULL, are not in the model (after such a row `store()`
starts again from the genesis). An
entry hash stands for everything hashed into it (no collisions): it is the
sequence of the proofs up to that record.

**ProofEngine.** `phase` follows `evaluate_with_proof()`; the store inside it is
the archive's own actions. The active policy is read once, so a call takes any
policy; that is what makes policy swaps irrelevant on this path. The certificate that goes with a
downgraded decision is returned and not stored, so it is not in the model. `told` collects the
certificates of decisions that were returned, `cut` those of calls that a crash
found in `_persist()`.

**ProofVerifier.** `Look` and `Add` are the in-memory guard, `Insert`,
`InsertTimesOut` and `Commit` the durable one. Checks 1 to 6 of `verify()` are
whether the proof is `Genuine`, whether the call's parameters fit (`binds`, any
Boolean), and whether the policy is in the process's copy of the revocations.
`Restart` constructs the verifier again. The busy timeout is modelled at the
INSERT. The COMMIT of `check_and_record()` would wait for a connection that holds
SHARED on `seen_proofs`; nothing in the repository reads that table, and an
INSERT that timed out has given its lock back, so only a reader from outside the
repository could make that COMMIT time out. It is left out. As in the code, the guard is asked
whatever the other checks found.

**Composer.** One `evaluate()` is a stack of calls of `_evaluate_policy()`, a
frame each, with the chain of names the code passes down. The clock may move,
and other threads may register policies, between any two steps. A rule's
condition is abstracted to which INCLUDE's verdict it reads. `Files` are the
policies that may be loaded from disk, or unreadable, or malformed. `least` is a
history variable: the strictest verdict met on the path.

**Interpreter.** Python's stack is a sequence of frames (`program`, `module`,
`block`, `call`, `governed`, `spillage`, `cleanup`, ...), and `sig` is the
exception that is on its way up. The running frame takes a statement, or, when
its block is over or an exception reaches it, one of the `End...` actions does
what the code does after its `try`. The gate is `Gate`; an evaluation that
raises is any Boolean. `Child` is what an imported file runs on: a governed
importer passes on its policy engine and its authority as a bare string, but
neither the hardened flag nor the path guard, as in
`_import_thirsty_file()`. `PoolOf` gives every interpreter its own executor. A
cascade frame is a worker thread and begins a new Python stack, which is what
`Depth` counts. In debug mode (`Host.debug`, set by `thirsty run --trace`)
`_execute()` and `_evaluate()` rebuild every exception that passes them as
`type(e)(message)`. Most keep their class; a `GovernanceViolation` takes two
arguments and becomes a `TypeError`. `Reraised` is that change, made where a block
ends with the exception; an imported file runs on an interpreter without debug
mode, as in the code. With `opt_level` of 1 or more a tail call `return f()` does
not stop its block; it is then the statement `f()`. Values, expressions and loops are left out; a function has no
parameters.

**Convergence.** A block has an outcome and a pace: "prompt" ends within the
timeout once a thread runs it, "slow" ends later, "never" does not end.
`TimeOut` may happen exactly when the two seconds can pass: the block awaited is
not prompt, or every thread is kept by blocks that are not. A task given up stays
in the queue or on its thread, so it can make later modules' blocks time out.
`evaluate()` turns an exception of an analyzer into a CRITICAL failure; for the
analyzers and layers before sampling that is one of their outcomes. What the
sampling layer itself may raise is left out: it catches what blocks raise, and
only `submit()` raises, when the system gives the pool no thread.

**StreamDecoder.** A stream is a sequence of cells, each a run of bytes that is
damaged as a whole: half a magic, a length, payload, check sums. The wires of the
run are streams with and without bytes between the frames, and those with any one
cell replaced by a data byte, half a magic or another length. `StreamAssumption`
says what is assumed of a stream: its frames follow one another, and a packed
text occurs nowhere but where it was sent. So the check sums have no collisions,
and no payload holds another whole frame of the same stream; a payload may hold
a magic, or anything else that looks like a header.
`Feed` takes any number of cells; each turn of the decoding loop is an action.

**IronPath.** The file is a sequence of entries, each with its ending: a line,
a line without its end, a torn line. A writer's cached head is `head[p]`, "down"
when the process has none. `Crash` and `DiskFull` may leave part of a line,
nothing, or a whole line, the last when only `close()` fails: `append()` then
raises with its line in the log, and the writer's next entry links to the one
before (`strayed`). The
three reads of an export (copy, check, count) are three actions. A step with
`retry` is not executed again, as in the code.

**DocSearch.** Every browser event the page listens to is an action. `prebuilt`
says which of the two published `search.js` files is there: the one with the
documents, from which the page builds the index, or the one with the finished
index. Both set `pdocSearch`; a script that loads without setting it, which would
leave the page at "Searching...", is not modelled. The inverted index is a function from field and word to documents.
`SearchAssumption` gives the shape of the documents and of the terms, which are
sets of their words.

## 3. The runs

| Run | Instance | Shows |
|---|---|---|
| `runtime` | 2 threads, cache of 1, 2 contexts, 3 policies (a rule that raises, a rule that reads the clock, a time window), `policy_text`, a clock that may reject | `CacheJustified`, `AnswerIsCurrent`, `CacheBounded`, `RaisesOnlyRobbed` |
| `runtime_policy_text` | 1 thread, 2 calls | `AnswerIsFromPolicyAsked` fails: the cache key omits the policy |
| `archive` | processes with 2 and 1 threads, 3 stores, 1 fault, reads of any length | `LinksBack`, `SoleWriterExact`, refinement `AppendOnlyDurable`, liveness `EveryStoreEnds` |
| `archive_fork` | the same | `HonestArchiveVerifies` fails: two processes link to one head |
| `engine` | 2 processes with 1 thread each, 2 stores, 1 fault, reads of any length, audit required | `AuditBeforeEffect`, `RecordsAreAnswers`, `RecordsVerify` |
| `verifier` | 3 processes, 5 threads, a shared durable guard for two and a memory guard for the one with two racing threads, 3 calls, 1 fault, 2 revocations | `AcceptedOnce`, `MemorySingleUse`, `ReplayMeansRecorded`, `RestartAppliesRevocation` |
| `composer` | 3 names, a catalog of composed, including, expiring and file-backed policies, 1 policy set, 1 tick, 1 registration during the call | `ErrorsAreEarned`, `PathDecides`, `ContextScoped`, `SetDecides` |
| `interpreter` | 2 programs in one process out of 7 and 9, 7 files, 7 functions, 7 hosts, one of them tracing | `EffectsAllowed`, `HardFloor`, `ImportedOnce`, liveness `Ends` |
| `interpreter_trace` | 1 program, a denied write in a spillage block, debug mode | `DenialNotAbsorbed` fails: the handler swallows the denial |
| `standalone` | stream: 3 frames, one damaged cell, any chunks; page: 2 documents, 4 words; promotion: 3 modules, 2 seeds, 2 threads; pipelines: 2 processes, 3 appends, 3 sovereigns | `DeliveredAreSent`, `NoFrameLost`, `BufferBounded`, `ContentCurrent`, `EveryWordFinds`, `VerdictsEarned`, `SoleWriterVerifies`, `ReportVouches`, `SuccessMeansAll`, liveness `Settles`, `ModulesDecided` |
| `convergence_reject` | the promotion of 3 modules | `DivergenceRejected` fails: a divergence is flagged |
| `verifier_threads` | 1 process, 2 threads, memory guard | `SingleUseInProcess` fails: check-then-add without a lock |

Each passing run also checks the module's `TypeOK`, except that those of the
four components of `standalone` (`PromotionTypeOK`, `IronTypeOK`,
`StreamTypeOK`, `PageTypeOK`) are proved instead. No run checks for deadlock:
every call bound exhausted, every caller idle, all programs ended, or all modules
decided is a state where the system may rest. `StreamDecoder`, `DocSearch`,
`Convergence` and `IronPath` have nothing to do with each other; they are checked
side by side in one run (`MC_Standalone`), in which a behaviour belongs to one of
them while the others stay in an initial state. That is why their
specifications have names of their own (`IronInit`, `PromotionNext`).
`ModulesDecided` is `EveryModuleDecided` of the behaviours in which modules are
promoted, and the first sovereign to be opened is always the same, since
processes are alike.

**What the failing runs say.** They are disagreements between the code and its
own documentation, each with the quoted line in `PROJECT.json`:
`evaluate(ctx, policy_text=...)` may answer from another policy's cached
decision; concurrent honest writers make `verify_chain()` report tampering; two
threads may both be told that an in-memory guard saw a proof for the first time;
a traced program's spillage handler absorbs a denial
(`src/docs/WHITEPAPER.md:161`); a module whose blocks were found to differ is
FLAGGED, where `src/docs/FEATURES.md:156` and the analyzer's documentation
(`src/utf/shadow_thirst/core.py:600`) say it is rejected.
The passing properties say what does hold next to them: a call that meets no
other policy's decisions is current (`AnswerIsCurrent`), a forked chain still
has no tampered record (`LinksBack`) and a sole writer's chain is exact
(`SoleWriterExact`), a durable guard accepts once (`AcceptedOnce`), a denial ends
the program outside debug mode (`HardFloor`), and a module that differs on a seed
that was compared is at least never promoted (`VerdictsEarned`, which takes the
code's FLAGGED for it).

**Bounds.** `MaxCalls`, `MaxSwaps`, `MaxStores`, `MaxFaults` and
`MaxRevocations` cap the calls that would otherwise go on for ever; `MaxRules`
and `CacheSize` are data. Three calls are what the races need: two that overlap
and one that meets what they left (a cached decision, a recorded id). A cache of
one entry with two contexts makes every eviction path happen. Two contexts, two
instants and two rules are enough for a rule that raises after one that misses,
for a decision that depends on the clock, and for a window that opens. Two
processes, one with two threads, give every pair of actors (same connection,
other connection); with three stores a fork, a timed-out COMMIT and the later
COMMIT that publishes its row all happen, and one fault, a crash or a full disk,
can fall on any step between them. Threads are symmetric where they are
interchangeable (`SYMMETRY`, used only in runs of invariants).

The composer's three names are enough for a policy, its parent and what either
includes, for cycles of EXTENDS, RESTRICTS, INCLUDE and revert_to, alone and mixed, and for
a reference that a registration creates or repairs. A stack without INCLUDE
cycles holds a name at most twice, once handing over and once including: a chain
is checked for cycles from one INCLUDE to the next only, so a policy may come
back after an INCLUDE. `MaxDepth` (7) exceeds twice the number of names, so that
only INCLUDE cycles reach Python's limit. The interpreter runs a
core program first, so that the governed one meets a cache it filled.
`Workers` is 2 instead of 4 (three nested cascades on one interpreter then wait
for each other, two do not) and `MaxFrames` 12, which the endless recursions and
import cycles reach. Three modules let a block given up in the first take a
thread from the last. A buffer of 5 cells (65536 bytes in the code) is one more
than the smallest frame and less than a chunk, so that it overflows with and
without a magic in it. Three appends hold a pipeline and an entry of another writer inside
it, or a fork or torn line with what is written after it; three sovereigns are
two at once and one that comes later.

**Fairness.** `AuditArchive`: `FairSpec` assumes weak fairness of `Step(t)`, the
statements of a `store()` under way: a running thread goes on, and a statement
that waits for a lock is, by sqlite3's timeout (5 s unless set), either served
or fails. Calls themselves, crashes and reads are under no fairness.
`Interpreter`: weak fairness of `Next`, since the process runs and only a full
executor makes it wait; `Ends` excepts exactly those states (`Exhausted`). The
blocking `input()` of `sip` is taken to be answered.
`Convergence`: weak fairness of every action, the process, the clock and the
threads; a block with pace "never" has no action, so nothing is assumed of it.
In `standalone` this is assumed only of behaviours that promote modules.
`DocSearch`: a requested script is delivered or fails; the user need not act.

**What the passing runs except.** Some properties are worded around what the
code does. `HardFloor` is stated outside debug mode and excepts a denial that an exception of a
finalizer replaces: `_execute_cleanup()` runs the finalizer in a `finally`
clause, so a `return` or a `throw` in it takes the denial's place and a
spillage handler or the program's end swallows that
(`src/docs/WHITEPAPER.md:160` describes the hard floor without it).
`EffectsAllowed` allows an effect that the policy allows to the host's authority
"verified or at least named", because a governed import carries the authority as
a bare string. `ImportedOnce` excepts runs inside an import cycle: the cache is
filled after a module ran, so a cycle recurses until Python's limit turns it
into a spillage. `VerdictsEarned` says what is left once a block was slow: a
thread that it keeps may make any later seed time out, so later modules may be
judged on fewer seeds, but never promoted on none. `SoleWriterExact` and
`RecordsAreAnswers` except proofs whose COMMIT timed out: `store()` raises, the
caller gets the audit DENY, and the row, still in the open transaction, is
published by the next COMMIT. That takes a second process, if only one that reads
for longer than the busy timeout. `RecordsAreAnswers` also counts apart the
certificates a crash cut off from their callers. `RaisesOnlyRobbed` does not say
that `evaluate()` never raises: it raises for a `policy_text` that is no policy,
and out of the cache for a call that another caller, or `set_policy()`, robbed of
keys while it ran. `SoleWriterVerifies` excepts a log in which an `append()` raised
after its whole line.

## 4. What is proved

TLAPS checks the following for all values of the constants, from the assumptions
`PolicyAssumption`, `RuntimeAssumption`, `ArchiveAssumption`,
`EngineAssumption`, `VerifierAssumption`, `ComposerAssumption`,
`IronPathAssumption`, `ConvergenceAssumption`, `InterpreterAssumption`,
`StreamAssumption` and `SearchAssumption`. They
say what shape the parameters have; the few that say more are these. A process
has finitely many threads (`VerifierAssumption`) and a registry finitely many
names (`ComposerAssumption`), because theorems count them. Python's stack has
room for more than two frames per name (`ComposerAssumption`): with less, plain
chains of EXTENDS would exhaust it, in the code too. A file declares policies
under their own names, as `load_file()` registers them. A stream may be damaged in any way that does
not bring a packed text about where it was not sent (`StreamAssumption`).

| Theorem | Property | Argument |
|---|---|---|
| `TarlRuntime_proofs!TypeCorrect` | `TypeOK` | one lemma per action |
| `CacheHoldsRuleDecisions` | `CacheJustified` | see below |
| `AnswersAreCurrent` | `AnswerIsCurrent` | see below |
| `CacheStaysBounded` | `CacheBounded` | see below |
| `CacheErrorsAreRaces` | `RaisesOnlyRobbed` | see below |
| `AuditArchive_proofs!TypeCorrect` | `TypeOK` | one lemma per action |
| `ChainNeverTampered` | `LinksBack` | see below |
| `SoleWriterArchiveExact` | `SoleWriterExact` | see below |
| `ArchiveImplementsLog` | `AppendOnlyDurable` | every step appends to `log` and keeps `acked` inside it, or stutters |
| `EngineUsesArchive` | | every step of the engine is one of the archive or leaves it alone |
| `EngineArchiveSound` | the archive's, of the certificates | from `EngineUsesArchive` and the archive's theorems |
| `EngineArchiveDurable` | `AppendOnlyDurable`, of the certificates | the same |
| `ProofEngine_proofs!TypeCorrect` | `TypeOK` | one lemma per action |
| `AuditedBeforeEffect` | `AuditBeforeEffect` | see below |
| `OnlyAnswersAreRecorded` | `RecordsAreAnswers` | see below |
| `ArchivedRecordsVerify` | `RecordsVerify` | see below |
| `ProofVerifier_proofs!TypeCorrect` | `TypeOK` | with the locks, one case per action |
| `SingleAcceptance` | `AcceptedOnce` | see below |
| `ReplaysAreRecorded` | `ReplayMeansRecorded` | see below |
| `RestartRevokes` | `RestartAppliesRevocation` | see below |
| `OncePerRacingThread` | `MemorySingleUse` | see below |
| `Composer_proofs!TypeCorrect` | `TypeOK` | one lemma per way a step changes the stack |
| `ErrorsTellTheTruth` | `ErrorsAreEarned` | see below |
| `PathsDecide` | `PathDecides` | see below |
| `ContextsAreScoped` | `ContextScoped` | a frame that is called copies its caller's context, and the caller's does not change before the frame returns |
| `SetsDecide` | `SetDecides` | see below |
| `IronPath_proofs!TypeCorrect` | `IronTypeOK` | one lemma per action |
| `SoleWriterChain` | `SoleWriterVerifies` | see below |
| `ReportsVouch` | `ReportVouches` | see below |
| `SuccessIsEarned` | `SuccessMeansAll` | see below |
| `ConvergenceTypes` | `PromotionTypeOK` | part of the invariant of the next |
| `VerdictsAreEarned` | `VerdictsEarned` | see below |
| `StreamTypes` | `StreamTypeOK` | part of the invariant of the next |
| `OnlySentFrames` | `DeliveredAreSent` | see below |
| `BufferStaysBounded` | `BufferBounded` | see below |
| `DamageIsContained` | `NoFrameLost` | see below |
| `PageTypes` | `PageTypeOK` | part of the invariant of the next |
| `PageShowsItsTerm` | `ContentCurrent` | every handler ends by showing the term it leaves in the URL; the first focus changes neither |
| `WordsAreFound` | `EveryWordFinds` | see below |
| `Interpreter_proofs!TypeCorrect` | `TypeOK` | see below |
| `FilesRunOnce` | `ImportedOnce` | see below |
| `DenialEndsProgram` | `HardFloor` | see below |
| `EffectsAreAllowed` | `EffectsAllowed` | see below |

*The cache.* `CacheJustified` is not inductive: a decision is justified long
before it is stored. `CacheInv` adds that the outcomes collected by a call are
ones its rules can give for its captured policy and context, and that a call
about to store holds a decision that `MatchJustified` accepts, of a policy
without temporal directives. `FirstMatch` gives such a decision by a lemma on
the least deciding rule (well-founded induction on the naturals, from the
library).

*The answers.* `AnswerInv` adds three views of what other calls can still put
into the cache. `ViewOK`: for a clean call in flight, the active policy, the
policies of all calls in flight and the origins of all cached entries are among
the policies the call may be answered from. `OwnOK`: when the cache is not mixed
and no swap is between its two assignments, all of these are the active policy,
so that a call that starts then is clean. `AnsOK`: an answer ready or about to be
stored is justified by the call's own policy.

*The cache's size.* `SizeInv` counts: the cache holds at most `CacheSize` entries
and one for each call between inserting and popping and for each call that failed
there. That an eviction finds a key to pop needs the order of keys to have a
first element, which a finite strict order has; "popped from an empty cache"
would leave the count wrong.

*The cache's errors.* `RobbedOK` says that the key a call has just seen or stored
is there, and that a call about to pop finds the cache not empty, unless somebody
else removed keys since the call began. Callers that only insert do not matter,
and neither does what a call evicts itself.

*The chain.* A record hashes `prev` and its own proof, and `prev` was read from
`Visible`, so the invariant says of every record, committed or not, and of every
head that a thread holds, that it is the genesis or the entry of an earlier
record. `AccountOK` says where every row comes from: a committed one is
acknowledged or overdue, one that is not committed is overdue or belongs to the
thread at "commit"; `LoneOK`, that a COMMIT is blocked only by another process
that reads or writes. For a sole writer `SoleOK` adds that the committed records
and those its connection still holds form one chain, which the head held by a
thread about to insert ends: rows left behind by a timed-out COMMIT are part of
what the next `store()` links to, so that the chain verifies whoever reads.

*Single use.* `AcceptedOnce` says nothing of a proof that is being inserted, so
the invariant `Inv2` follows it there: `LockOK` says that a thread between
INSERT and COMMIT holds its process's lock, has its own id inserted, and that
only one process has an uncommitted row; `UseOK`, that an accepted id is
committed and that the row of a "fresh" INSERT is not committed yet; `RecordOK`,
that whatever a table or a memory remembers was recorded at least once, so that
the call which finds it there is the second. All these facts survive a
rollback and a restart because neither touches `seen`.

*The engine's archive.* The archive's theorems are about callers that store any
certificates at any time. The engine's calls are some of these, so the proof
module takes an instance of the archive's proofs, shows that each step of the
engine is a step of the archive or a stutter, and has the archive's invariants
for nothing. What is left is about the engine: `Calls` says that a thread stores
exactly its draft, `Answers` that a decision other than DENY was made from a
draft whose store was acknowledged. Since what is acknowledged stays in the log,
`AuditBeforeEffect` follows. `Tells` says that an acknowledged certificate
belongs to an answer given, to one a crash cut off, or to a thread that is about
to give it; what is in the archive without being acknowledged is overdue, by the
archive's theorem.

*Records verify.* `Walk` follows the loop over the rules: the trace holds the
misses so far, each of which the rules of the policy can have under an instant
the clock shows. When the loop ends, the trace with its last entry passes
`CheckTrace`, and the verdict is justified; `Audits` carries that through rows,
files and connections, which only move records.

*In memory.* Each acceptance of an id by the in-memory guard uses up one thread
that looked before it was added (`MemoryOK`): accepted plus racing never exceeds
the number of threads, and once the guard remembers an id no thread starts to
race for it.

*Paths.* The steps of `_evaluate_policy()` do one of six things to the stack: a
frame decides, asks another policy, asks its parent and keeps its own verdict,
goes on with the next INCLUDE, passes a verdict on, or takes the stricter one. `Owed` are
the verdicts kept by frames with no INCLUDE waiting below them. `PathInv` says
that `least` is the strictest of what is owed and, when a verdict is on its way
to the caller, of that verdict; when the stack is empty nothing is owed.

*Sets.* That a majority in the sense of `IsMajority` is more ALLOWs than other
verdicts is a lemma on cardinalities (`MajorityCounts`); UNION and INTERSECT are
the loosest and the strictest of a non-empty sequence; `CombineDecides` puts
them together.

*Errors.* `Chained` says of every frame that each name in its chain refers to
something that leads to the frame, and of every two frames that the earlier one
waits for something that leads to the later: its name is in the later one's
chain, or it included something. References are those of the policies registered
during the call (`ever`), which only grows. A name found in its own chain
is then on a circle. When the stack is full, two frames have the same name and
wait in the same way, by the pigeonhole theorem of the library; if they hand
over, the chain's check would have stopped the later one, so they include, and
what the first included leads to its own name. `Reaches(u, v)` is defined as
membership in every set that holds `u` and is closed under the references,
which can be reasoned about without induction.

*Revocation.* A policy revoked ever since a process started is in the copy its
verifier was made with (`SnapshotOK`), and every call checks that copy.

*The sovereign's log.* "Verifies if it can be read" is not inductive: it does
not say what the next entry links to. `HeadOK` adds that, as long as no writer
strayed, at most one is up, and its head is the hash of the
last entry whenever what it appends next will be on a line of its own (`Clean`).
An append to any other log leaves one that cannot be read.

*The bundle.* The copy is a prefix of the log for ever after (`BundleOK`), since
entries are only appended; a log that verifies has only prefixes that are
unbroken, and that it could be read at the later moment means that the copy can
be.

*The pipeline.* `PipelineOK` relates a running pipeline to its results: they are
those of the steps before `next`, in order, each successful only after its
dependencies; and success so far means that none failed. The recorded counter is
compared with the number of steps by cardinality lemmas of the library.

*Verdicts.* A verdict depends on blocks of other modules through the pool. The
invariant says where the awaited task is (`TaskOK`): in the pool or answered,
with the value of its block, and no thread is idle while tasks wait. `SeedsOK`
says what is known of the seeds behind `seed`: those compared agree, and those
neither compared nor missed do not run. `PromptOK` says that while every
sampled module so far was prompt no seed was missed: then the tasks of all
threads are prompt, so that `TimeOut` is not enabled.

*Frames.* The buffer is the end of what was fed, position for position
(`BufferOK`), so what is cut out of it is a piece of the stream. If that unpacks
it is a frame at the place where it was sent, and it begins after everything
consumed, behind the frames returned before (`DeliveredOK`). `NoFrameLost` is
not inductive: it does not say that no frame was cut in two. `FramesOK` adds
that every frame lies whole before or whole behind what was consumed, that the
intact ones before it were returned, and that a `feed()` which met no damaged
frame leaves no complete one in the buffer. Then the first magic found begins a
frame, even if payloads hold magics too: a frame that begins earlier would show
its own magic first (`FirstMagic`), and its length is the one that was sent. An
overfull buffer without a magic loses a frame only if it ends in half a magic,
which `dropped` records. TLC checked the invariant on the run's streams first.
`BufferBounded` is part of this invariant as it stands: bytes without a magic
are cleared once they are too many (`NoMagic`), what is left of bytes with one is
less than the frame announced (`Incomplete`), and less than the smallest frame is
less than the limit. It excepts a `feed()` that ended at a refused frame, which
leaves the rest of its chunk in the buffer unread until the next call.

*Words.* With neither stop words nor stemming a query's words are what was
typed, so built and loaded indexes are the same function (`IndexIsInverted`),
and `PageOK` says that an index which is there is that one: `prebuilt` does not
change. The results are then the documents with one of the words that begin with
the word typed, by membership.

*The hard floor.* `FloorInv` adds to `HardFloor` only that the stack is a stack:
the program's frame is the first one, and no other. Each action is a case of
"a running block" or "the top frame goes", by lemmas on how the frames that
stay are related to those before. That an interpreter is in debug mode only if the
host is comes from the invariant of the effects (`InterpIn`). A denial on its way up is in `sig`, or a
finalizer's frame waits with it; popping any frame but that keeps it.

*Imports.* Types and imports rest on `Shape`: every frame of the next state is
alike one of this state or newly made, and a module's frame is made together
with its interpreter. `OnceInv` says that a core file that has run to its end is
in `ModuleCache` (`Whole`), and that when a file was run again, outside its own
import, the earlier run had failed for good: it neither ended nor is under way
(`Failed`).

*Effects.* The effects of a step are allowed because of who runs it, so `SInv`
says who runs what in a governed program: every frame belongs to a governed
interpreter; closures that a governed interpreter knows belong to governed ones
(`HomeIn`), through `ModuleCache`, imports and cascades; and what is attached to
a governed interpreter comes from the host (`AttachedIn`). For a child made
without the hardened flag this holds only because the import itself passed the
gate of a hardened importer, which carries "authenticated and Ed25519" over to
the host. The argument is an induction over steps, for any files, functions and
programs, however deep their imports and calls.

## 5. Model-checked only

Liveness, which is out of the prover's reach: `EveryStoreEnds`, `Ends`,
`EveryModuleDecided` (as `ModulesDecided`), `Settles`. Every invariant and every other action property
of a passing run is stated by a theorem. What recursive definitions and folds compute for every input is out
of reach too: in the modules with theorems the strictest and the loosest of a
sequence are chosen by what they are, and reachability is a least fixed point.

## 6. Plan

What could come next, most important first:

1. The interpreter's gate as a client of `ProofEngine`: what a crash between
   certificate and effect leaves, and queries of an archive through a verifier.
2. The quorum of `escalation.py` together with the certificate it consumes.
3. The verifier's pure checks: freshness, `proof_id`, checkpoints.

## 7. Not modelled

- Lexers, parsers, formatters, type checker, CLIs, language servers, linters and
  reports transform text sequentially and have no protocol. The models take
  their outcome: a file parses or not, a condition fires, misses or raises.
- Cryptographic primitives are ideal: a signature is genuine or not, a hash has
  no collisions. Key stores, canonical paths and authority claims enter as the
  attributes of a host, of a proof or of a target.
- `escalation.py` counts distinct approvers in one call and keeps nothing.
- `triumvirate_server.py` and the PSIA gateway are request handlers that keep
  nothing from one request to the next; the package manager is a sequential tool
  over files.
- `examples/hello.js` is output of the compiler, straight-line code that prints.
  In `search.js` the elasticlunr library is vendored; `DocSearch` models what
  the page uses of it and leaves out scores and the order of results.
- The text encoder of TSCG, Thirst of Gods and the static analyzers of Shadow
  Thirst are sequential; the analyzers' outcome is an input of `Convergence`.
- Left out of modelled components: the hit and throw counters of the runtime,
  `set_source()`, the columns of the archive that only serve queries, key
  registration, the verifier's freshness and checkpoint arithmetic, messages,
  values and expressions of interpreted programs.
