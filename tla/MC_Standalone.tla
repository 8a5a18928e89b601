---------------------------- MODULE MC_Standalone ----------------------------
(***************************************************************************)
(* Small instances of four components that have nothing to do with each    *)
(* other, StreamDecoder, DocSearch, Convergence and IronPath, checked in   *)
(* one run: a behaviour is one of the stream, of the search page, of the   *)
(* promotion of modules, or of pipelines.                                  *)
(***************************************************************************)
EXTENDS MC_StreamAndSearch, MC_Convergence, MC_IronPath

VARIABLE component
mcVars == <<streamVars, pageVars, promotionVars, ironVars, component>>

\* The other components stay in one of their initial states.
MCInit ==
  /\ component \in {"stream", "search", "promotion", "pipelines"}
  /\ StreamInit /\ (component = "stream" \/ wire = Wire(<<0, 0, 0>>))
  /\ PageInit /\ (component = "search" \/ (history = <<NoTerm>> /\ prebuilt))
  /\ PromotionInit /\ (component = "promotion" \/ modules = [k \in 1..Length |-> Same])
  /\ IronInit

\* The sovereigns are alike: the first to be opened is p1's.
InOrder == opens = 0 => \A p \in Processes \ {p1} : ~Up(p)'

MCNext ==
  /\ UNCHANGED component
  /\ \/ component = "stream" /\ StreamNext /\ UNCHANGED <<pageVars, promotionVars, ironVars>>
     \/ component = "search" /\ PageNext /\ UNCHANGED <<streamVars, promotionVars, ironVars>>
     \/ component = "promotion" /\ PromotionNext /\ UNCHANGED <<streamVars, pageVars, ironVars>>
     \/ /\ component = "pipelines" /\ IronNext /\ InOrder
        /\ UNCHANGED <<streamVars, pageVars, promotionVars>>

MCSpec == /\ MCInit /\ [][MCNext]_mcVars /\ PageFairness
          /\ component = "promotion" => PromotionFairness

\* EveryModuleDecided of a behaviour in which modules are promoted
ModulesDecided == component = "promotion" => EveryModuleDecided
=============================================================================
