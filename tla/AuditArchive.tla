----------------------------- MODULE AuditArchive -----------------------------
(***************************************************************************)
(* The hash-chained audit archive (utf/tarl/archive.py): each process that *)
(* uses the database file has one TarlAuditArchive, whose lock serialises  *)
(* its own threads, and one SQLite connection.  store() reads the head of  *)
(* the chain, inserts a record linked to it and commits; SQLite takes the  *)
(* write lock of the file only at the INSERT, so stores of two processes   *)
(* interleave.  A statement that waits longer than sqlite3's busy timeout  *)
(* raises and leaves the transaction open.  The archive was created by     *)
(* this version: every record has an entry hash.                           *)
(***************************************************************************)
EXTENDS Naturals, Sequences, SequencesExt

CONSTANTS
  Process,     \* processes with the database open
  Thread,      \* threads that call store()
  Home,        \* Home[t], the process of thread t
  Proof,       \* TarlProof certificates
  None,        \* no thread, no proof
  MaxStores,   \* bound: calls of store()
  MaxFaults    \* bound: disk-full errors, crashes and close() calls

ASSUME ArchiveAssumption ==
  /\ Home \in [Thread -> Process]
  /\ MaxStores \in Nat /\ MaxFaults \in Nat
  /\ None \notin Thread \union Proof

VARIABLES
  rows,     \* the committed records, in the order of their ids
  pending,  \* pending[p]: records p has inserted and not committed
  tx,       \* tx[p]: the transaction of p's connection
  lock,     \* lock[p]: the thread that holds self._lock inside store()
  reads,    \* processes with a query() or verify_chain() under way
  pc,       \* where each thread is in store()
  proof,    \* the proof it stores
  prev,     \* the chain head it has read
  acked,    \* history: the proofs whose store() returned
  overdue,  \* history: the proofs whose COMMIT timed out
  writers,  \* history: the processes that have called store()
  readers,  \* history: the processes that have called a reading method
  stores,   \* calls of store() so far
  faults    \* faults so far

fileVars  == <<rows, pending, tx>>
localVars == <<proof, prev>>
historyVars == <<acked, overdue, writers, readers>>
countVars == <<stores, faults>>
vars == <<fileVars, lock, reads, pc, localVars, historyVars, countVars>>

Records == [proof : Proof, prev : Seq(Proof), entry : Seq(Proof)]

Genesis == <<>>

\* SHA-256 has no collisions that matter: an entry hash stands for all that
\* went into it, the proofs of the chain up to and including this one.
EntryHash(previous, x) == Append(previous, x)

MutHeadOf(records) ==   \* mutant: no genesis for an empty archive
  IF records = <<>> THEN None ELSE Last(records).entry
HeadOf(records) == IF records = <<>> THEN Genesis ELSE Last(records).entry

\* What process p reads: the committed records and its own uncommitted ones.
Visible(p) == rows \o pending[p]

Init ==
  /\ rows = <<>>
  /\ pending = [p \in Process |-> <<>>]
  /\ tx = [p \in Process |-> "none"]
  /\ lock = [p \in Process |-> None] /\ reads = {}
  /\ pc = [t \in Thread |-> "idle"]
  /\ proof = [t \in Thread |-> None]
  /\ prev = [t \in Thread |-> Genesis]
  /\ acked = {} /\ overdue = {} /\ writers = {} /\ readers = {}
  /\ stores = 0 /\ faults = 0

-----------------------------------------------------------------------------
(* SQLite, rollback journal.  The transaction of a connection is:          *)
(*   "none"     not open                                                   *)
(*   "begun"    open, without a lock on the file                           *)
(*   "reading"  open, with a SHARED lock: nobody else can commit           *)
(*   "writing"  open, with the RESERVED lock: nobody else can insert       *)
(*   "stuck"    a COMMIT failed: PENDING lock, nobody else can even read   *)

Others(p) == Process \ {p}

ReadBlocked(p) ==
  /\ tx[p] \in {"none", "begun"}
  /\ \E q \in Others(p) : tx[q] = "stuck"

InsertBlocked(p) == \E q \in Others(p) : tx[q] \in {"writing", "stuck"}

\* A SELECT under way, in a transaction or not, holds a SHARED lock.
CommitBlocked(p) == \E q \in Others(p) : tx[q] = "reading" \/ q \in reads

\* What a SELECT leaves of the transaction: outside of one nothing, once its
\* rows are fetched.
AfterRead(p) == IF tx[p] = "begun" THEN "reading" ELSE tx[p]

\* sqlite3 opens a transaction before an INSERT; a failed INSERT leaves it.
AfterBusyInsert(p) == IF tx[p] = "none" THEN "begun" ELSE tx[p]

-----------------------------------------------------------------------------
(* store()                                                                 *)

\* self._lock of process p
Unlocked(p) == lock[p] = None /\ p \notin reads

MutHold(t) == UNCHANGED lock   \* mutant: no lock around the steps of store()
Hold(t) == lock' = [lock EXCEPT ![Home[t]] = t]

\* store() ends: the "with self._lock" block is left.
End(t, how) ==
  /\ pc' = [pc EXCEPT ![t] = how]
  /\ lock' = [lock EXCEPT ![Home[t]] = None]

\* store(x) takes the lock and reads the head of the chain ...
ReadHead(t, x) ==
  LET p == Home[t]
  IN /\ pc[t] \in {"idle", "stored", "raised"}
     /\ Unlocked(p)
     /\ stores < MaxStores
     /\ stores' = stores + 1
     /\ proof' = [proof EXCEPT ![t] = x]
     /\ IF ReadBlocked(p)
        THEN /\ End(t, "raised")
             /\ UNCHANGED <<prev, tx>>
        ELSE /\ pc' = [pc EXCEPT ![t] = "insert"]
             /\ Hold(t)
             /\ prev' = [prev EXCEPT ![t] = HeadOf(Visible(p))]
             /\ tx' = [tx EXCEPT ![p] = AfterRead(p)]
     /\ writers' = writers \union {p}
     /\ UNCHANGED <<rows, pending, reads, acked, overdue, readers, faults>>

\* ... inserts a record that links to it ...
Insert(t) ==
  LET p == Home[t]
      record == [proof |-> proof[t], prev |-> prev[t],
                 entry |-> EntryHash(prev[t], proof[t])]
  IN /\ pc[t] = "insert"
     /\ ~InsertBlocked(p)
     /\ pending' = [pending EXCEPT ![p] = Append(@, record)]
     /\ tx' = [tx EXCEPT ![p] = IF @ = "stuck" THEN @ ELSE "writing"]
     /\ pc' = [pc EXCEPT ![t] = "commit"]
     /\ UNCHANGED <<rows, lock, reads, localVars, historyVars, countVars>>

\* ("database is locked": sqlite3 gave up waiting for the write lock)
InsertTimesOut(t) ==
  LET p == Home[t]
  IN /\ pc[t] = "insert"
     /\ InsertBlocked(p)
     /\ tx' = [tx EXCEPT ![p] = AfterBusyInsert(p)]
     /\ End(t, "raised")
     /\ UNCHANGED <<rows, pending, reads, localVars, historyVars, countVars>>

\* ... and commits, which publishes everything p has inserted.
Commit(t) ==
  LET p == Home[t]
  IN /\ pc[t] = "commit"
     /\ ~CommitBlocked(p)
     /\ rows' = rows \o pending[p]
     /\ pending' = [pending EXCEPT ![p] = <<>>]
     /\ tx' = [tx EXCEPT ![p] = "none"]
     /\ acked' = acked \union {proof[t]}
     /\ End(t, "stored")
     /\ UNCHANGED <<reads, localVars, overdue, writers, readers, countVars>>

\* Mutants: a commit waits without a timeout; its failure is swallowed.
MutCommitWaits(t) == FALSE
MutCommitTimesOut(t) ==
  LET p == Home[t]
  IN /\ pc[t] = "commit"
     /\ CommitBlocked(p)
     /\ tx' = [tx EXCEPT ![p] = "stuck"]
     /\ acked' = acked \union {proof[t]}
     /\ End(t, "stored")
     /\ UNCHANGED <<rows, pending, reads, localVars, overdue, writers, readers,
                    countVars>>

\* A commit that cannot get the file keeps its records and its locks.
CommitTimesOut(t) ==
  LET p == Home[t]
  IN /\ pc[t] = "commit"
     /\ CommitBlocked(p)
     /\ tx' = [tx EXCEPT ![p] = "stuck"]
     /\ overdue' = overdue \union {proof[t]}
     /\ End(t, "raised")
     /\ UNCHANGED <<rows, pending, reads, localVars, acked, writers, readers,
                    countVars>>

-----------------------------------------------------------------------------
(* Faults and the end of a process                                         *)

\* SQLite rolls the transaction back when the disk is full.
DiskFull(t) ==
  LET p == Home[t]
  IN /\ \/ pc[t] = "insert" /\ ~InsertBlocked(p)
        \/ pc[t] = "commit"
     /\ faults < MaxFaults /\ faults' = faults + 1
     /\ pending' = [pending EXCEPT ![p] = <<>>]
     /\ tx' = [tx EXCEPT ![p] = "none"]
     /\ End(t, "raised")
     /\ UNCHANGED <<rows, reads, localVars, historyVars, stores>>

\* The process dies: its locks go and SQLite forgets what it had not
\* committed.  It starts again with no call under way.
Crash(p) ==
  /\ faults < MaxFaults /\ faults' = faults + 1
  /\ pending' = [pending EXCEPT ![p] = <<>>]
  /\ tx' = [tx EXCEPT ![p] = "none"]
  /\ lock' = [lock EXCEPT ![p] = None] /\ reads' = reads \ {p}
  /\ pc' = [t \in Thread |-> IF Home[t] = p THEN "idle" ELSE pc[t]]
  /\ UNCHANGED <<rows, localVars, historyVars, stores>>

\* close(): an open transaction is rolled back; the next call reconnects.
Close(p) ==
  /\ Unlocked(p)
  /\ faults < MaxFaults /\ faults' = faults + 1
  /\ pending' = [pending EXCEPT ![p] = <<>>]
  /\ tx' = [tx EXCEPT ![p] = "none"]
  /\ UNCHANGED <<rows, lock, reads, pc, localVars, historyVars, stores>>

\* query(), count(), head_hash() or verify_chain() of a thread of p: it holds
\* self._lock, and its SELECT a SHARED lock on the file, until all rows are
\* fetched.  After a timed-out INSERT it runs in the transaction left open,
\* which holds on to the file until the next COMMIT of p.
BeginRead(p) ==
  /\ Unlocked(p)
  /\ ~ReadBlocked(p)
  /\ reads' = reads \union {p}
  /\ readers' = readers \union {p}
  /\ tx' = [tx EXCEPT ![p] = AfterRead(p)]
  /\ UNCHANGED <<rows, pending, lock, pc, localVars, acked, overdue, writers,
                 countVars>>

EndRead(p) ==
  /\ p \in reads
  /\ reads' = reads \ {p}
  /\ UNCHANGED <<fileVars, lock, pc, localVars, historyVars, countVars>>

-----------------------------------------------------------------------------

Step(t) ==
  \/ Insert(t) \/ InsertTimesOut(t)
  \/ Commit(t) \/ CommitTimesOut(t)

Next ==
  \/ \E t \in Thread, x \in Proof : ReadHead(t, x)
  \/ \E t \in Thread : Step(t) \/ DiskFull(t)
  \/ \E p \in Process : Crash(p) \/ Close(p) \/ BeginRead(p) \/ EndRead(p)

Spec == Init /\ [][Next]_vars

\* A store() under way goes on: it waits for the file at most as long as the
\* busy timeout, then raises.
FairSpec == Spec /\ \A t \in Thread : WF_vars(Step(t))

-----------------------------------------------------------------------------
(* Reading the archive                                                     *)

Rewrites(records, i) ==
  records[i].prev # (IF i = 1 THEN Genesis ELSE records[i - 1].entry)

Tampered(records, i) ==
  records[i].entry # EntryHash(records[i].prev, records[i].proof)

\* verify_chain() without a checkpoint
ChainValid(records) ==
  \A i \in DOMAIN records : ~Rewrites(records, i) /\ ~Tampered(records, i)

-----------------------------------------------------------------------------
(* Properties                                                              *)

TypeOK ==
  /\ rows \in Seq(Records)
  /\ pending \in [Process -> Seq(Records)]
  /\ tx \in [Process -> {"none", "begun", "reading", "writing", "stuck"}]
  /\ lock \in [Process -> Thread \union {None}]
  /\ pc \in [Thread -> {"idle", "insert", "commit", "stored", "raised"}]
  /\ proof \in [Thread -> Proof \union {None}]
  /\ prev \in [Thread -> Seq(Proof)]
  /\ acked \subseteq Proof /\ overdue \subseteq Proof
  /\ reads \subseteq Process /\ writers \subseteq Process /\ readers \subseteq Process
  /\ stores \in Nat /\ faults \in Nat

\* Records are appended and never lost: a proof whose store() returned stays
\* in the archive through crashes, full disks and timeouts of any process.
Log == INSTANCE AuditLog WITH log <- [i \in DOMAIN rows |-> rows[i].proof]

AppendOnlyDurable == Log!Spec

\* However many processes write, a record hashes its own contents and links
\* to the genesis or to an earlier record: verify_chain() may report a fork,
\* never a record tampered with.
LinksBack ==
  \A i \in DOMAIN rows :
    /\ ~Tampered(rows, i)
    /\ rows[i].prev = Genesis \/ \E j \in 1..(i - 1) : rows[j].entry = rows[i].prev

\* The archive holds every proof whose store() returned, and besides only
\* proofs whose COMMIT timed out: a decision downgraded because its proof was
\* not stored may be published by a later commit.  That takes a second process
\* that uses the file, if only to read it at length; while one process uses it
\* the records are exactly the proofs stored, whatever its threads, crashes
\* and full disks.  While one process writes, whoever reads, verify_chain()
\* accepts the archive.
SoleWriterExact ==
  LET recorded == {rows[i].proof : i \in DOMAIN rows}
  IN /\ acked \subseteq recorded
     /\ recorded \subseteq acked \union overdue
     /\ (\A p, q \in writers \union readers : p = q) => overdue = {}
     /\ (\A p, q \in writers : p = q) => ChainValid(rows)

\* store() always returns or raises, also when two processes block each
\* other: no lock is waited for longer than the busy timeout.
EveryStoreEnds ==
  \A t \in Thread :
    pc[t] \in {"insert", "commit"} ~> pc[t] \notin {"insert", "commit"}

-----------------------------------------------------------------------------
(* What the documentation says and the code does not do                    *)

\* "Detects record tampering ..., deletion/reordering ..., and a tampered
\* head": verify_chain() accepts an archive nobody has tampered with.
HonestArchiveVerifies == ChainValid(rows)
=============================================================================
