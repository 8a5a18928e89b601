------------------------------- MODULE AuditLog -------------------------------
(***************************************************************************)
(* What the audit archive promises (the docstrings of utf/tarl/archive.py  *)
(* and durable.py: "append-only", "durable"): a log of proofs that only    *)
(* grows, and that contains every proof whose store() has returned.        *)
(***************************************************************************)
EXTENDS Naturals, Sequences

CONSTANT Proof

VARIABLES
  log,    \* the recorded proofs, oldest first
  acked   \* the proofs whose store() has returned

vars == <<log, acked>>

Init == log = <<>> /\ acked = {}

\* Proofs are appended to the log; those acknowledged are in it.
Record ==
  /\ log' \in Seq(Proof)
  /\ Len(log) <= Len(log')
  /\ \A i \in DOMAIN log : log'[i] = log[i]
  /\ acked \subseteq acked'
  /\ acked' \subseteq {log'[i] : i \in DOMAIN log'}

Next == Record

Spec == Init /\ [][Next]_vars
=============================================================================
