---------------------------- MODULE MC_Interpreter ----------------------------
(* A small instance of Interpreter: two programs in one process.           *)
EXTENDS Interpreter, TLC

Pour       == [op |-> "pour", action |-> "write", target |-> "stdout"]
Fs(t)      == [op |-> "fs", action |-> "write", target |-> t]
Def(f)     == [op |-> "def", name |-> f]
CallOf(f)  == [op |-> "call", name |-> f]
Async(f)   == [op |-> "cascade", name |-> f]
Use(p)     == [op |-> "import", path |-> p]
ThrowIt    == [op |-> "throw"]
ReturnIt   == [op |-> "return"]
Try(b, h)  == [op |-> "spillage", body |-> b, handlers |-> h]
Finally(b, f) == [op |-> "cleanup", body |-> b, handlers |-> <<f>>]

MCFunctions == [
  say   |-> [governed |-> FALSE, body |-> <<Pour, ReturnIt, Pour>>],
  save  |-> [governed |-> TRUE,  body |-> <<Fs("inside")>>],
  loop  |-> [governed |-> FALSE, body |-> <<CallOf("loop")>>],
  two   |-> [governed |-> FALSE, body |-> <<Async("say")>>],
  three |-> [governed |-> FALSE, body |-> <<Async("two")>>],
  hush  |-> [governed |-> FALSE, body |-> <<Finally(<<Pour>>, <<ReturnIt>>)>>],
  deep  |-> [governed |-> FALSE, body |-> <<Async("deep")>>]]

MCFiles == [
  lib   |-> [parses |-> TRUE,  mode |-> "core",     body |-> <<Def("say"), Def("two"), Def("three"), Pour>>],
  half  |-> [parses |-> TRUE,  mode |-> "core",     body |-> <<Def("say"), ThrowIt, Def("two")>>],
  cycle |-> [parses |-> TRUE,  mode |-> "core",     body |-> <<Use("cycle"), Def("say"), Pour>>],
  ruled |-> [parses |-> TRUE,  mode |-> "governed", body |-> <<Def("save"), Use("lib")>>],
  pure  |-> [parses |-> TRUE,  mode |-> "pure",     body |-> <<Def("say"), CallOf("say")>>],
  torn  |-> [parses |-> FALSE, mode |-> "core",     body |-> <<>>],
  crash |-> [parses |-> TRUE,  mode |-> "core",     body |-> <<CallOf("say")>>]]

Program(mode, body) == [mode |-> mode, parses |-> TRUE, body |-> body]
CoreFirst == {Program("core", <<Use("lib"), Async("three")>>),
              Program("core", <<Try(<<Use("cycle")>>, <<>>), Use("ruled"), CallOf("save")>>),
              Program("core", <<Try(<<Use("half"), Async("two")>>, << <<Use("half")>> >>)>>),
              Program("core", <<Try(<<Use("crash")>>, << <<Use("torn")>> >>)>>),
              Program("core", <<Def("loop"), Try(<<CallOf("loop")>>, << <<Use("none")>> >>)>>),
              Program("core", <<Try(<<Use("pure")>>, <<>>)>>),
              Program("core", <<Def("deep"), CallOf("deep")>>)}
Second == {Program("governed", <<Use("lib"), CallOf("two"), Fs("outside")>>),
           Program("governed", <<Try(<<Use("cycle")>>, << <<Pour>> >>), CallOf("say")>>),
           Program("governed", <<Use("ruled"), Try(<<CallOf("save")>>, << <<Pour>> >>), Async("two")>>),
           Program("governed", <<Try(<<Finally(<<Pour>>, <<ThrowIt>>)>>, << <<Use("half")>> >>), Pour>>),
           Program("governed", <<Def("save"), Finally(<<CallOf("save")>>, <<Fs("inside")>>), Async("save")>>),
           Program("governed", <<Def("hush"), CallOf("hush"), Fs("inside")>>),
           Program("core", <<Use("ruled"), Use("lib"), CallOf("say")>>),
           [mode |-> "governed", parses |-> FALSE, body |-> <<Pour>>],
           [mode |-> "core", parses |-> FALSE, body |-> <<Pour>>]}
MCPrograms == <<CoreFirst, Second>>

Host(wired, authenticated, ed25519, hardened, guard) ==
  [wired |-> wired, authenticated |-> authenticated, ed25519 |-> ed25519,
   hardened |-> hardened, guard |-> guard, debug |-> FALSE]
Traced(h) == [h EXCEPT !.debug = TRUE]
MCHosts == {Host(FALSE, FALSE, FALSE, FALSE, FALSE), Host(TRUE, FALSE, FALSE, FALSE, FALSE),
            Host(TRUE, TRUE, FALSE, FALSE, TRUE),    Host(TRUE, TRUE, TRUE, TRUE, TRUE),
            Host(TRUE, TRUE, FALSE, TRUE, FALSE),    Host(TRUE, FALSE, TRUE, TRUE, FALSE),
            Traced(Host(TRUE, FALSE, FALSE, FALSE, FALSE))}

\* A denied write in a spillage block, under thirsty run --trace
MCTraced == {Traced(Host(TRUE, FALSE, FALSE, FALSE, FALSE))}
MCGuarded == << {Program("governed", <<Try(<<Fs("outside")>>, << <<Fs("inside")>> >>)>>)} >>

\* Imports, calls of save and writing to "inside" are for everybody; writing
\* elsewhere is for a verified authority.
Requests(actions, targets, authenticated) ==
  [action : actions, target : targets, authenticated : authenticated]
MCPolicy == Requests({"import"}, {"lib", "cycle", "ruled", "half", "none"}, BOOLEAN) \cup
            Requests({"write"}, {"inside", "outside", "stdout"}, {TRUE}) \cup
            Requests({"call"}, {"save"}, BOOLEAN) \cup
            Requests({"write"}, {"inside"}, {FALSE})
=============================================================================
