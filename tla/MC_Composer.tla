----------------------------- MODULE MC_Composer -----------------------------
(***************************************************************************)
(* A small instance of Composer: three policies that may refer to each     *)
(* other in every way, a fourth that only a file holds, and a policy set.  *)
(***************************************************************************)
EXTENDS Composer

CONSTANTS a, b, c, filed, missing, broken

MCNames == {a, b, c}

Always(v) == <<[reads |-> Absent, is |-> Absent, then |-> v]>>
Reads(n, v, w) == <<[reads |-> n, is |-> v, then |-> w]>>
Named(n) == [of |-> n, file |-> Absent]
Filed(n, path) == [of |-> n, file |-> path]

Plain(n, rules) ==
  [name |-> n, rules |-> rules, composition |-> Absent, parent |-> Absent,
   stop |-> FALSE, includes |-> <<>>, from |-> 0, until |-> MaxTime,
   onExpiry |-> "ESCALATE", revert |-> Absent]
Extends(n, rules, p) ==
  [Plain(n, rules) EXCEPT !.composition = "EXTENDS", !.parent = p]
Restricts(n, rules, p) ==
  [Plain(n, rules) EXCEPT !.composition = "RESTRICTS", !.parent = p]
Including(p, refs) == [p EXCEPT !.includes = refs]

MCCatalog ==
  { \* a: asked for most often; composes, includes or expires
    Plain(a, Always("ALLOW")),
    Extends(a, <<>>, b),
    Restricts(a, Always("ESCALATE"), b),
    Including(Plain(a, Reads(b, "DENY", "DENY") \o Always("ALLOW")),
              <<Named(b), Filed(c, filed)>>),
    Including(Restricts(a, Reads(c, "ALLOW", "ALLOW"), b),
              <<Filed(c, missing)>>),
    [Plain(a, Always("ALLOW")) EXCEPT !.until = 0, !.revert = b],
    \* b: in the middle
    Plain(b, Always("ALLOW")),
    Restricts(b, Always("ALLOW"), c),
    [Extends(b, <<>>, c) EXCEPT !.stop = TRUE],
    Extends(b, Always("raises"), c),
    Extends(b, Reads(c, "ALLOW", "ALLOW"), c),
    Including(Extends(b, Reads(a, "DENY", "DENY"), c), <<Named(a)>>),
    Including(Plain(b, Always("ALLOW")), <<Filed(c, broken)>>),
    [Restricts(b, Always("ALLOW"), a) EXCEPT !.from = 1],
    \* c: the end of a path, or the way back
    Plain(c, Always("ESCALATE")),
    Plain(c, Always("ALLOW")),
    Extends(c, <<>>, b),
    Including(Plain(c, Always("ALLOW")), <<Named(a)>>),
    [Plain(c, Always("ALLOW")) EXCEPT !.until = 0, !.onExpiry = "DENY",
                                      !.revert = a] }

MCSetCatalog ==
  { [groups |-> <<>>, default |-> "ESCALATE"],
    [groups |-> <<[op |-> "MAJORITY", members |-> <<a, b>>],
                  [op |-> "UNION", members |-> <<b, c>>]>>, default |-> "DENY"],
    [groups |-> <<[op |-> "INTERSECT", members |-> <<a, c>>],
                  [op |-> "MAJORITY", members |-> <<a, b, c>>]>>, default |-> "DENY"] }

\* Loading filed for c also replaces b.
MCFiles ==
  [x \in {filed, missing, broken} |->
     CASE x = filed       -> [n \in MCNames |->
                           CASE n = a -> Absent
                             [] n = b -> Plain(b, Always("ALLOW"))
                             [] n = c -> Extends(c, <<>>, b)]
       [] x = missing -> Unreadable
       [] x = broken  -> Malformed]
=============================================================================
