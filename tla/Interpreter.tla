----------------------------- MODULE Interpreter -----------------------------
(***************************************************************************)
(* Thirsty-Lang's Interpreter (utf/thirsty_lang/interpreter.py) with the   *)
(* capability gate, governed functions, imports, spillage and cleanup      *)
(* blocks and cascade calls, and resolve_import() with its ModuleCache.    *)
(* A process runs a few programs, one after the other.                     *)
(*                                                                         *)
(* A statement is a record whose op names it.  Python's stack is a         *)
(* sequence of frames, the running one last, across the threads: the       *)
(* thread that calls cascade waits for the worker.  Scopes are left out:   *)
(* an interpreter has one table of the functions it knows, each with the   *)
(* interpreter its closure belongs to.                                     *)
(***************************************************************************)
EXTENDS Integers, SequencesExt

CONSTANTS
  Files,      \* Files[path]: [parses, mode, body]
  Functions,  \* Functions[name]: [governed, body]
  Programs,   \* Programs[n]: what the n-th program may be, [mode, parses, body]
  Hosts,      \* what the host attaches to the interpreter of a program:
              \* [wired, authenticated, ed25519, hardened, guard], and whether
              \* it runs it in debug mode (thirsty run --trace), debug
  Roots,      \* targets inside the roots of the path guard
  Policy,     \* requests that are ALLOWed: [action, target, authenticated]
  Workers,    \* threads of an interpreter's executor, 4 in the code
  MaxFrames   \* frames that Python's recursion limit leaves to a thread

VARIABLES
  host,      \* what this process attaches
  interps,   \* the Interpreters made so far
  cache,     \* ModuleCache: path -> the module's functions
  stack,     \* frames [kind, interp, todo, info]
  sig,       \* exception on its way up, "none" when the last frame runs
  ended,     \* how the programs that are over ended
  denied,    \* history: a GovernanceViolation was raised in this program
  replaced,  \* history: a finalizer's exception took the place of one
  effects    \* history: effects of this program, [mode, action, target]
vars == <<host, interps, cache, stack, sig, ended, denied, replaced, effects>>

ASSUME InterpreterAssumption ==
  /\ Hosts \subseteq [wired: BOOLEAN, authenticated: BOOLEAN, ed25519: BOOLEAN,
                      hardened: BOOLEAN, guard: BOOLEAN, debug: BOOLEAN]
  /\ Workers \in Nat \ {0} /\ MaxFrames \in Nat

\* The exceptions: ReturnException, SpillageException, GovernanceViolation and
\* any other
Signal == {"none", "return", "spill", "denied", "error"}
NoFunctions == [f \in {} |-> 0]
\* What new binds, and what old binds to other names
Over(new, old) ==
  [f \in DOMAIN new \cup DOMAIN old |-> IF f \in DOMAIN new THEN new[f] ELSE old[f]]

Frame(kind, i, todo, info) == [kind |-> kind, interp |-> i, todo |-> todo, info |-> info]
Top == Last(stack)
Me == Top.interp

Init ==
  /\ host \in Hosts
  /\ interps = <<>> /\ cache = [p \in {} |-> NoFunctions]
  /\ stack = <<>> /\ sig = "none" /\ ended = <<>>
  /\ denied = FALSE /\ replaced = FALSE /\ effects = {}

\* attached is what attach_tarl(), set_authority() and the rest were called with.
NewInterp(attached, mode, path, nested) ==
  [attached |-> attached, mode |-> mode, path |-> path, nested |-> nested,
   bound |-> NoFunctions, whole |-> FALSE]

\* interpret() of a program
Begin(program) ==
  /\ stack = <<>> /\ Len(ended) < Len(Programs) /\ program \in Programs[Len(ended) + 1]
  /\ interps' = Append(interps, NewInterp(host, program.mode, "", FALSE))
  /\ replaced' = FALSE /\ effects' = {}
  /\ LET refused == program.mode = "governed" /\ ~program.parses
     IN  /\ denied' = refused
         /\ IF refused
            THEN ended' = Append(ended, "denied") /\ UNCHANGED stack
            ELSE /\ stack' = <<Frame("program", Len(interps'), <<>>, 0),
                               Frame("block", Len(interps'), program.body, 0)>>
                 /\ UNCHANGED ended
  /\ UNCHANGED <<host, cache, sig>>

-----------------------------------------------------------------------------
(* Decisions                                                               *)

\* _hardened_precheck()
Unhardened(i) ==
  LET has == interps[i].attached IN has.hardened /\ ~(has.authenticated /\ has.ed25519)

\* evaluate_with_proof() says ALLOW
Allows(i, action, target) ==
  [action |-> action, target |-> target,
   authenticated |-> interps[i].attached.authenticated] \in Policy

\* _gate_capability(), by CapabilityBroker.require() or require_path(), lets
\* the action through when the evaluation does not raise.
Gate(i, action, target, isPath) ==
  interps[i].mode = "governed" =>
    /\ ~Unhardened(i)
    /\ interps[i].attached.wired
    /\ isPath /\ interps[i].attached.guard => target \in Roots
    /\ Allows(i, action, target)

\* _enforce_governance() at the entry of a governed function.  Here an
\* evaluation that raises is passed on.
Entry(i, f, contract, raises) ==
  IF interps[i].mode # "governed" \/ ~contract \/ ~interps[i].attached.wired
     \/ Unhardened(i)
  THEN "denied"
  ELSE IF raises THEN "error"
  ELSE IF ~Allows(i, "call", f) THEN "denied"
  ELSE "none"

-----------------------------------------------------------------------------
(* Statements                                                              *)

Running(op) == /\ stack # <<>> /\ sig = "none" /\ Top.kind = "block"
               /\ Top.todo # <<>> /\ Head(Top.todo).op = op
Statement == Head(Top.todo)
Rest == [stack EXCEPT ![Len(stack)].todo = Tail(@)]

\* Frames of the running thread
Depth == Cardinality({k \in DOMAIN stack : \A j \in k..Len(stack) : stack[j].kind # "cascade"})
RunFrames(frames) ==
  /\ stack' = IF Depth > MaxFrames THEN Rest ELSE Rest \o frames
  /\ sig' = IF Depth > MaxFrames THEN "error" ELSE "none"

Raise(s) == /\ sig' = s
            /\ denied' = (denied \/ s = "denied")

\* pour, and a sensitive function of thirst::fs, which is wrapped with the
\* gate of the interpreter that imported it
PourInPure == Running("pour") /\ interps[Me].mode = "pure"
Effect ==
  /\ Running("pour") \/ Running("fs")
  /\ stack' = Rest
  /\ LET s == Statement
     IN  \E raises \in BOOLEAN :
           IF PourInPure
           THEN Raise("error") /\ UNCHANGED effects
           ELSE IF Gate(Me, s.action, s.target, s.op = "fs")
                   /\ ~(raises /\ interps[Me].mode = "governed")
           THEN /\ effects' = effects \cup {[mode |-> interps[Me].mode,
                                             action |-> s.action, target |-> s.target]}
                /\ UNCHANGED <<sig, denied>>
           ELSE Raise("denied") /\ UNCHANGED effects
  /\ UNCHANGED <<host, interps, cache, ended, replaced>>

\* _execute_function_decl(), _execute_governed_function_decl()
Declare ==
  /\ Running("def")
  /\ interps' = [interps EXCEPT ![Me].bound = Over([f \in {Statement.name} |-> Me], @)]
  /\ stack' = Rest
  /\ UNCHANGED <<host, cache, sig, ended, denied, replaced, effects>>

\* A governed function is entered by a step of its own.
CallFrames(f, home) ==
  IF Functions[f].governed
  THEN <<Frame("entering", home, <<>>, f)>>
  ELSE <<Frame("call", home, <<>>, f), Frame("block", home, Functions[f].body, 0)>>

Known(f) == f \in DOMAIN interps[Me].bound

Call ==
  /\ Running("call")
  /\ LET f == Statement.name
     IN  IF Known(f) THEN RunFrames(CallFrames(f, interps[Me].bound[f]))
                     ELSE stack' = Rest /\ sig' = "error"
  /\ UNCHANGED <<host, interps, cache, ended, denied, replaced, effects>>

\* Each interpreter has an executor of its own.
\* Mutant: one executor for all interpreters.
MutPoolOf(i) == 1
PoolOf(i) == i

\* _execute_cascade(): executor.submit(), then result()
Cascade ==
  /\ Running("cascade")
  /\ LET f == Statement.name
     IN  IF Known(f) THEN RunFrames(<<Frame("queued", Me, <<>>, <<f, interps[Me].bound[f]>>)>>)
                     ELSE stack' = Rest /\ sig' = "error"
  /\ UNCHANGED <<host, interps, cache, ended, denied, replaced, effects>>

Busy(pool) == Cardinality({k \in DOMAIN stack : stack[k].kind = "cascade" /\
                                                  PoolOf(stack[k].interp) = pool})
StartTask ==
  /\ stack # <<>> /\ sig = "none" /\ Top.kind = "queued" /\ Busy(PoolOf(Me)) < Workers
  /\ stack' = Front(stack) \o <<Frame("cascade", Me, <<>>, 0)>>
                           \o CallFrames(Top.info[1], Top.info[2])
  /\ UNCHANGED <<host, interps, cache, sig, ended, denied, replaced, effects>>

EnterGoverned ==
  /\ stack # <<>> /\ sig = "none" /\ Top.kind = "entering"
  /\ \E contract, raises \in BOOLEAN :
       LET s == Entry(Me, Top.info, contract, raises)
       IN  /\ Raise(s)
           /\ stack' = IF s # "none" THEN Front(stack)
                       ELSE Front(stack) \o
                              <<Frame("governed", Me, <<>>, Top.info),
                                Frame("block", Me, Functions[Top.info].body, 0)>>
  /\ UNCHANGED <<host, interps, cache, ended, replaced, effects>>

\* (With opt_level >= 1 "return f()" raises nothing and the block goes on: it
\* is the statement "f()".)
Throw ==
  /\ Running("throw") \/ Running("return")
  /\ sig' = IF Statement.op = "throw" THEN "spill" ELSE "return"
  /\ stack' = Rest
  /\ UNCHANGED <<host, interps, cache, ended, denied, replaced, effects>>

\* _execute_spillage(), _execute_cleanup(): the body runs first.
Protect ==
  /\ Running("spillage") \/ Running("cleanup")
  /\ LET s == Statement
     IN  RunFrames(<<Frame(s.op, Me, <<>>, s.handlers), Frame("block", Me, s.body, 0)>>)
  /\ UNCHANGED <<host, interps, cache, ended, denied, replaced, effects>>

-----------------------------------------------------------------------------
(* Imports                                                                 *)

\* The module of a governed interpreter's file import runs on a child that has
\* the caller's policy engine and its authority as a bare string; any other
\* module runs on a detached interpreter, in the mode of its header.
Child(i, path) ==
  LET governed == interps[i].mode = "governed"
  IN  NewInterp([host EXCEPT !.wired = governed /\ interps[i].attached.wired,
                             !.authenticated = FALSE, !.hardened = FALSE, !.guard = FALSE,
                             !.debug = FALSE],
                IF governed THEN "governed" ELSE Files[path].mode,
                path,
                \E k \in DOMAIN stack : interps[stack[k].interp].path = path)

\* Mutant: the cache answers governed imports too.
MutCached(i, path) == path \in DOMAIN cache
Cached(i, path) == interps[i].mode # "governed" /\ path \in DOMAIN cache

Bind(i, functions) == interps' = [interps EXCEPT ![i].bound = Over(functions, @)]

\* _execute_import(), _import_thirsty_file(), resolve_import()
Import ==
  /\ Running("import")
  /\ LET path == Statement.path
     IN  \E raises \in BOOLEAN :
           IF ~Gate(Me, "import", path, FALSE) \/ (raises /\ interps[Me].mode = "governed")
           THEN stack' = Rest /\ Raise("denied") /\ UNCHANGED interps
           ELSE /\ UNCHANGED denied
                /\ IF Cached(Me, path)
                   THEN stack' = Rest /\ sig' = "none" /\ Bind(Me, cache[path])
                   ELSE IF path \notin DOMAIN Files \/ ~Files[path].parses \/ Depth > MaxFrames
                   THEN stack' = Rest /\ sig' = "spill" /\ UNCHANGED interps
                   ELSE /\ interps' = Append(interps, Child(Me, path))
                        /\ RunFrames(<<Frame("module", Len(interps'), <<>>, Me),
                                       Frame("block", Len(interps'), Files[path].body, 0)>>)
  /\ UNCHANGED <<host, cache, ended, replaced, effects>>

\* What is in the module dictionary once the module has run is kept.
\* Mutant: the module is not kept.
MutKept(path, functions) == cache
Kept(path, functions) == Over([p \in {path} |-> functions], cache)

-----------------------------------------------------------------------------
(* The end of a block, and of the frame under it                           *)

Ending(kind) == /\ stack # <<>> /\ Top.kind = kind /\ (sig = "none" => Top.todo = <<>>)

\* Mutant: _execute_import() turns every exception into a SpillageException.
MutImportError(s) == "spill"
ImportError(s) == IF s = "denied" THEN "denied" ELSE "spill"

\* interpret() ends normally on a return and on a throw.
\* Mutant: interpret() does not catch a SpillageException.
MutSwallowed == {"return"}
Swallowed == {"return", "spill"}

EndProgram ==
  /\ Ending("program")
  /\ stack' = Front(stack) /\ sig' = "none"
  /\ ended' = Append(ended, IF sig \in Swallowed THEN "none" ELSE sig)
  /\ UNCHANGED <<host, interps, cache, denied, replaced, effects>>

EndModule ==
  /\ Ending("module")
  /\ stack' = Front(stack)
  /\ LET importer == Top.info
         path     == interps[Me].path
     IN  IF sig \in Swallowed \cup {"none"}
         THEN /\ sig' = "none"
              /\ interps' = [interps EXCEPT ![importer].bound = Over(interps[Me].bound, @),
                                            ![Me].whole = TRUE]
              /\ cache' = IF interps[importer].mode = "governed" THEN cache
                          ELSE Kept(path, interps[Me].bound)
         ELSE sig' = ImportError(sig) /\ UNCHANGED <<interps, cache>>
  /\ UNCHANGED <<host, ended, denied, replaced, effects>>

\* In debug mode _execute() and _evaluate() raise type(e)(message) instead of
\* e; that fails for a GovernanceViolation, with a TypeError.
Reraised(s) == IF s = "denied" /\ interps[Me].attached.debug THEN "error" ELSE s

EndCall ==
  /\ Ending("call") \/ Ending("block") \/ Ending("cascade")
  /\ stack' = Front(stack)
  /\ sig' = CASE Top.kind = "call" -> IF sig = "return" THEN "none" ELSE sig
              [] Top.kind = "block" -> Reraised(sig)
              [] OTHER -> sig
  /\ UNCHANGED <<host, interps, cache, ended, denied, replaced, effects>>

\* The exit contract is checked when the body ended normally or returned.
EndGoverned ==
  /\ Ending("governed")
  /\ stack' = Front(stack)
  /\ IF sig \in {"none", "return"}
     THEN \E contract \in BOOLEAN : Raise(IF contract THEN "none" ELSE "denied")
     ELSE UNCHANGED <<sig, denied>>
  /\ UNCHANGED <<host, interps, cache, ended, replaced, effects>>

\* What a handler of _execute_spillage() catches
\* Mutant: every exception but a return.
MutCaught == Signal \ {"none", "return"}
Caught == {"spill", "error"}

EndSpillage ==
  /\ Ending("spillage")
  /\ IF sig \in Caught /\ Top.info # <<>>
     THEN stack' = Front(stack) \o <<Frame("block", Me, Top.info[1], 0)>> /\ sig' = "none"
     ELSE stack' = Front(stack) /\ UNCHANGED sig
  /\ UNCHANGED <<host, interps, cache, ended, denied, replaced, effects>>

\* The finalizer runs whatever happened ...
EndCleanup ==
  /\ Ending("cleanup")
  /\ stack' = Front(stack) \o <<Frame("finally", Me, <<>>, sig),
                                Frame("block", Me, Top.info[1], 0)>>
  /\ sig' = "none"
  /\ UNCHANGED <<host, interps, cache, ended, denied, replaced, effects>>

\* ... and then what happened goes on, unless the finalizer raised.
EndFinally ==
  /\ Ending("finally")
  /\ stack' = Front(stack)
  /\ sig' = IF sig = "none" THEN Top.info ELSE sig
  /\ replaced' = (replaced \/ (Top.info = "denied" /\ sig \notin {"none", "denied"}))
  /\ UNCHANGED <<host, interps, cache, ended, denied, effects>>

Next ==
  \/ \E program \in UNION {Programs[n] : n \in DOMAIN Programs} : Begin(program)
  \/ Effect \/ Declare \/ Call \/ Cascade \/ StartTask \/ EnterGoverned
  \/ Throw \/ Protect \/ Import
  \/ EndProgram \/ EndModule \/ EndCall \/ EndGoverned \/ EndSpillage \/ EndCleanup \/ EndFinally

\* The process runs: nothing but a full executor makes it wait.
Spec == Init /\ [][Next]_vars /\ WF_vars(Next)

-----------------------------------------------------------------------------
(* Properties                                                              *)

TypeOK ==
  /\ host \in Hosts
  /\ sig \in Signal /\ ended \in Seq({"none", "denied", "error"})
  /\ denied \in BOOLEAN /\ replaced \in BOOLEAN
  /\ \A k \in DOMAIN stack :
       /\ stack[k].kind \in {"program", "module", "block", "call", "entering", "governed",
                             "queued", "cascade", "spillage", "cleanup", "finally"}
       /\ stack[k].interp \in DOMAIN interps
  /\ \A i \in DOMAIN interps :
       \A f \in DOMAIN interps[i].bound : interps[i].bound[f] \in DOMAIN interps

\* Whatever a governed program imports, calls, cascades or catches, before or
\* after a core program loaded the same files, an effect happens only when the
\* host's policy allows it to the host's authority, verified or at least
\* named; under a hardened host only when that authority was verified and the
\* proofs are signed with Ed25519.
GovernedProgram == stack # <<>> /\ interps[stack[1].interp].mode = "governed"
EffectsAllowed ==
  \A e \in effects : GovernedProgram \/ e.mode = "governed" =>
    /\ host.wired
    /\ \E verified \in {FALSE, host.authenticated} :
         [action |-> e.action, target |-> e.target, authenticated |-> verified] \in Policy
    /\ host.hardened => host.authenticated /\ host.ed25519

\* A denial ends the program, through imports, calls, cascades and spillage
\* handlers; only an exception of a finalizer takes its place.  This is so
\* outside debug mode.
HardFloor ==
  denied /\ ~replaced /\ ~host.debug =>
    \/ sig = "denied"
    \/ \E k \in DOMAIN stack : stack[k].kind = "finally" /\ stack[k].info = "denied"
    \/ stack = <<>> /\ Last(ended) = "denied"

\* In core mode a file runs to its end once in a process, but for the runs
\* that an import cycle begins inside another run of the file.
ImportedOnce ==
  \A i, j \in DOMAIN interps :
    /\ interps[i].path = interps[j].path /\ interps[i].path # ""
    /\ interps[i].whole /\ interps[j].whole /\ ~interps[i].nested /\ ~interps[j].nested
    /\ interps[i].mode # "governed" /\ interps[j].mode # "governed"
    => i = j

\* Every program ends, import cycles and endless recursion included, unless
\* more cascades are nested on one interpreter than its executor has threads.
Exhausted == \E i \in DOMAIN interps :
  Cardinality({k \in DOMAIN stack : stack[k].kind \in {"cascade", "queued"} /\
                                    stack[k].interp = i}) > Workers
Ends == <>(Len(ended) = Len(Programs) \/ Exhausted)

-----------------------------------------------------------------------------
(* What the documentation says and the code does not do                    *)

\* docs/WHITEPAPER.md, 4.3: "a governed denial cannot be absorbed by
\* application error handling": a program that was denied something does not
\* end like one that was not.
DenialNotAbsorbed ==
  stack = <<>> /\ denied /\ ~replaced => Last(ended) # "none"
=============================================================================
