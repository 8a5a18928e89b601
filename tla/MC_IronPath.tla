----------------------------- MODULE MC_IronPath -----------------------------
(* A small instance of IronPath.                                           *)
EXTENDS IronPath, TLC

CONSTANTS p1, p2

MCProcesses == {p1, p2}
S(name, deps, retry) == [name |-> name, deps |-> deps, retry |-> retry]
\* A step that is given twice and may fail without ending the pipeline, and a
\* step that depends on a later one
MCConfigs == {<<S("a", {}, 1), S("a", {}, 1), S("b", {"a"}, 0)>>,
              <<S("b", {"a"}, 0), S("a", {}, 0), S("b", {"a"}, 0)>>}
MCSteps == UNION {{config[k] : k \in DOMAIN config} : config \in MCConfigs}
=============================================================================
