---------------------------- MODULE MC_Convergence ----------------------------
(* A small instance of Convergence: three modules of a small catalog, two  *)
(* seeds, two threads.                                                     *)
EXTENDS Convergence, TLC

CONSTANTS v, w

P(value) == [value |-> value, pace |-> "prompt"]
Slow  == [value |-> v, pace |-> "slow"]
Never == [value |-> v, pace |-> "never"]
Sampled(shadowBlock, canonicalBlock) ==
  [others |-> {}, static |-> "sample",
   blocks |-> [side \in Side |-> IF side = "shadow" THEN shadowBlock ELSE canonicalBlock]]

Same      == Sampled(<<P(v), P(NoReturn)>>, <<P(v), P(NoReturn)>>)
Different == Sampled(<<P(v), P(w)>>, <<P(v), P(NoReturn)>>)
Broken    == Sampled(<<P(Raises), P(v)>>, <<P(v), P(Raises)>>)
HalfSlow  == Sampled(<<P(v), Slow>>, <<P(v), P(w)>>)
Hanging   == Sampled(<<Never, P(v)>>, <<P(v), P(v)>>)
AllHang   == Sampled(<<P(v), Never>>, <<P(v), Never>>)

MCModules == {Same, Different, Broken, HalfSlow, Hanging, AllHang,
              [Same EXCEPT !.others = {"CRITICAL"}],
              [Different EXCEPT !.others = {"NON_CRITICAL"}],
              [Different EXCEPT !.static = "pass"],
              [Same EXCEPT !.static = "NON_CRITICAL"],
              [Same EXCEPT !.static = "CRITICAL"]}
=============================================================================
