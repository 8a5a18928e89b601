-------------------------- MODULE MC_StreamAndSearch --------------------------
(* Small instances of StreamDecoder and DocSearch.                         *)
EXTENDS StreamDecoder, DocSearch, TLC

(* The streams: three frames, of which the second carries the magic in its *)
(* payload, with and without bytes between them, and every stream that has *)
(* one cell replaced by a data byte, half a magic or another length.       *)

Data == <<"data", 0>>
MCPayloads == << <<>>, Magic \o <<Data>>, <<Data>> >>

\* A gap of several bytes ends with the beginning of a magic.
Gap(n) == [k \in 1..n |-> IF k = n /\ n > 1 THEN Magic[1] ELSE Data]
Wire(gaps) ==
  LET before1 == Gap(gaps[1])
      before2 == before1 \o Packed(1) \o Gap(gaps[2])
      before3 == before2 \o Packed(2) \o Gap(gaps[3])
  IN  [cells  |-> before3 \o Packed(3),
       starts |-> <<Len(before1) + 1, Len(before2) + 1, Len(before3) + 1>>]
Damaged(w, k, cell) == [w EXCEPT !.cells[k] = cell]

MCWires ==
  {Wire(<<0, 0, 0>>), Wire(<<0, 1, 0>>), Wire(<<7, 0, 2>>)} \cup
  {Damaged(Wire(<<0, 0, 0>>), k, cell) :
     k \in 1..16, cell \in {Data, Magic[2], <<"length", 2>>}}

(* The documentation: "the" is a stop word, "walks" has the stem "walk".   *)

CONSTANTS d1, d2, wa, walk, walks, the

MCDocs == {d1, d2}
MCWord == {wa, walk, walks, the}
MCStartWith == wa :> {wa, walk, walks} @@ walk :> {walk, walks} @@ walks :> {walks} @@ the :> {the}
MCStem == wa :> wa @@ walk :> walk @@ walks :> walk @@ the :> the
MCText == [d \in MCDocs |-> [f \in {"qualname", "fullname", "annotation",
             "default_value", "signature", "bases", "doc"} |->
             CASE d = d1 /\ f = "doc"   -> {the, walks}
               [] d = d2 /\ f = "bases" -> {walk}
               [] OTHER                 -> {}]]

MCStopWords == {the}
MCTerms == {{walk}, {the}}
=============================================================================
