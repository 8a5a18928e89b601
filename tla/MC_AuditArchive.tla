--------------------------- MODULE MC_AuditArchive ---------------------------
(***************************************************************************)
(* A small instance of AuditArchive: a process with two threads, and a     *)
(* second process with one, on the same database file.                     *)
(***************************************************************************)
EXTENDS AuditArchive, TLC

CONSTANTS p1, p2, t1, t2, t3, allow, deny

MCHome == t1 :> p1 @@ t2 :> p1 @@ t3 :> p2
=============================================================================
