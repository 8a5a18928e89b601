---------------------------- MODULE ProofVerifier ----------------------------
(***************************************************************************)
(* Single use and revocation of proofs (utf/tarl/verifier.py and           *)
(* utf/tarl/durable.py).  Each process has a ProofVerifier, shared by its  *)
(* threads; its replay guard keeps what it has seen in memory, or in a     *)
(* SQLite table that all processes share; its set of revoked policies is a *)
(* copy of the RevocationStore made when the verifier was constructed.     *)
(*                                                                         *)
(* The checks that depend on the proof alone (signature, trace) and on the *)
(* call alone (policy source, expected context, freshness) are abstracted  *)
(* to whether they succeed.                                                *)
(***************************************************************************)
EXTENDS Naturals, FiniteSets

CONSTANTS
  Process, Thread, Home,   \* the processes, their threads, whose they are
  Proof,                   \* proofs that can be presented
  Genuine,                 \* those with a valid signature and a sound trace
  Policy, PolicyOf,        \* the policy each proof is bound to
  Id, IdOf,                \* ReplayGuard.proof_id(); a proof with another
                           \* key_id has the same id
  Durable,                 \* the processes with a DurableReplayGuard; the
                           \* others have a ReplayGuard
  None,
  MaxCalls,                \* bound: calls of verify()
  MaxFaults,               \* bound: full disks and restarts
  MaxRevocations           \* bound: uses of tarl revoke

ASSUME VerifierAssumption ==
  /\ IsFiniteSet(Thread) /\ Home \in [Thread -> Process]
  /\ Genuine \subseteq Proof
  /\ PolicyOf \in [Proof -> Policy]
  /\ IdOf \in [Proof -> Id]
  /\ Durable \subseteq Process
  /\ None \notin Thread \union Id \union Proof
  /\ MaxCalls \in Nat /\ MaxFaults \in Nat /\ MaxRevocations \in Nat

VARIABLES
  seen,       \* the committed rows of seen_proofs
  inserted,   \* inserted[p]: the id p has inserted and not committed, or None;
              \* p holds the write lock of the table meanwhile
  lock,       \* lock[p]: the thread that holds the guard's _lock
  memory,     \* memory[p]: ReplayGuard._seen
  revoked,    \* the rows of revoked_policies
  snapshot,   \* snapshot[p]: ProofVerifier.revoked_policy_hashes
  pc,         \* where each thread is in verify()
  proof,      \* the proof it verifies
  sound,      \* whether every check but the replay check succeeded
  calls, faults, revocations,
  accepts,    \* history: how often durable processes found this id valid
  local,      \* history: how often p did in memory, since it was started
  recorded,   \* history: how often check_and_record() returned for this id
  applied     \* history: policies revoked ever since p was last started

guardVars  == <<seen, inserted, lock, memory>>
revokeVars == <<revoked, snapshot>>
callVars   == <<pc, proof, sound>>
countVars  == <<calls, faults, revocations>>
historyVars == <<accepts, local, recorded, applied>>
vars == <<guardVars, revokeVars, callVars, countVars, historyVars>>

Init ==
  /\ seen = {}
  /\ inserted = [p \in Process |-> None]
  /\ lock = [p \in Process |-> None]
  /\ memory = [p \in Process |-> {}]
  /\ revoked = {} /\ snapshot = [p \in Process |-> {}]
  /\ pc = [t \in Thread |-> "idle"]
  /\ proof = [t \in Thread |-> None]
  /\ sound = [t \in Thread |-> FALSE]
  /\ calls = 0 /\ faults = 0 /\ revocations = 0
  /\ accepts = [i \in Id |-> 0] /\ recorded = [i \in Id |-> 0]
  /\ local = [p \in Process |-> [i \in Id |-> 0]]
  /\ applied = [p \in Process |-> {}]

-----------------------------------------------------------------------------
(* verify()                                                                *)

IdAt(t) == IdOf[proof[t]]

\* Checks 1 to 6; binds: the source, the context and the age asked for fit.
Passes(p, x, binds) == x \in Genuine /\ binds /\ PolicyOf[x] \notin snapshot[p]

\* The replay guard is asked whatever the other checks found.
Verify(t, x, binds) ==
  /\ pc[t] \in {"idle", "done", "replayed", "raised"}
  /\ calls < MaxCalls /\ calls' = calls + 1
  /\ pc' = [pc EXCEPT ![t] = "guard"]
  /\ proof' = [proof EXCEPT ![t] = x]
  /\ sound' = [sound EXCEPT ![t] = Passes(Home[t], x, binds)]
  /\ UNCHANGED <<guardVars, revokeVars, faults, revocations, historyVars>>

\* check_and_record() has returned fresh, and verify() returns.
Conclude(t, fresh) ==
  LET i == IdAt(t)
      p == Home[t]
      valid == fresh /\ sound[t]
  IN /\ pc' = [pc EXCEPT ![t] = IF fresh THEN "done" ELSE "replayed"]
     /\ recorded' = [recorded EXCEPT ![i] = @ + 1]
     /\ accepts' = [accepts EXCEPT ![i] = IF valid /\ p \in Durable THEN @ + 1 ELSE @]
     /\ local' = [local EXCEPT ![p][i] = IF valid /\ p \notin Durable THEN @ + 1 ELSE @]

-----------------------------------------------------------------------------
(* ReplayGuard: a set                                                      *)

\* "if pid in self._seen" ...
Look(t) ==
  /\ Home[t] \notin Durable /\ pc[t] = "guard"
  /\ IF IdAt(t) \in memory[Home[t]]
     THEN Conclude(t, FALSE)
     ELSE /\ pc' = [pc EXCEPT ![t] = "add"]
          /\ UNCHANGED <<accepts, local, recorded>>
  /\ UNCHANGED <<guardVars, revokeVars, proof, sound, countVars, applied>>

MutRemembered(p, i) == memory[p]   \* mutant: the proof is not remembered
Remembered(p, i) == memory[p] \union {i}

\* ... "self._seen.add(pid)": another thread may have run in between.
Add(t) ==
  /\ pc[t] = "add"
  /\ memory' = [memory EXCEPT ![Home[t]] = Remembered(Home[t], IdAt(t))]
  /\ Conclude(t, TRUE)
  /\ UNCHANGED <<seen, inserted, lock, revokeVars, proof, sound, countVars,
                 applied>>

-----------------------------------------------------------------------------
(* DurableReplayGuard: INSERT OR IGNORE, then COMMIT                       *)

\* Another process holds the write lock of the table.
InsertBlocked(p) == \E q \in Process \ {p} : inserted[q] # None

\* Under the guard's lock; the INSERT takes the write lock of the table ...
Insert(t) ==
  LET p == Home[t]
  IN /\ p \in Durable /\ pc[t] = "guard"
     /\ lock[p] = None
     /\ ~InsertBlocked(p)
     /\ lock' = [lock EXCEPT ![p] = t]
     /\ inserted' = [inserted EXCEPT ![p] = IdAt(t)]
     /\ pc' = [pc EXCEPT ![t] = IF IdAt(t) \in seen THEN "ignored" ELSE "fresh"]
     /\ UNCHANGED <<seen, memory, revokeVars, proof, sound, countVars,
                    historyVars>>

\* ... or raises when the busy timeout expires.
InsertTimesOut(t) ==
  LET p == Home[t]
  IN /\ p \in Durable /\ pc[t] = "guard"
     /\ lock[p] = None
     /\ InsertBlocked(p)
     /\ pc' = [pc EXCEPT ![t] = "raised"]
     /\ UNCHANGED <<guardVars, revokeVars, proof, sound, countVars, historyVars>>

\* Mutants: the row is never committed; it is reset before it is.
MutCommitted(p) == seen
MutResetFirst(p) == seen \union {None}
Committed(p) == seen \union {inserted[p]}

\* rowcount = 1 when the row is new
Commit(t) ==
  LET p == Home[t]
  IN /\ pc[t] \in {"fresh", "ignored"}
     /\ seen' = Committed(p)
     /\ inserted' = [inserted EXCEPT ![p] = None]
     /\ lock' = [lock EXCEPT ![p] = None]
     /\ Conclude(t, pc[t] = "fresh")
     /\ UNCHANGED <<memory, revokeVars, proof, sound, countVars, applied>>

\* Mutant: the row survives although the transaction failed.
MutDiskFull(t) ==
  LET p == Home[t]
  IN /\ pc[t] \in {"fresh", "ignored"}
     /\ faults < MaxFaults /\ faults' = faults + 1
     /\ seen' = seen \union {inserted[p]}
     /\ inserted' = [inserted EXCEPT ![p] = None]
     /\ lock' = [lock EXCEPT ![p] = None]
     /\ pc' = [pc EXCEPT ![t] = "raised"]
     /\ UNCHANGED <<memory, revokeVars, proof, sound, calls, revocations,
                    historyVars>>

\* SQLite rolls back; the exception leaves verify().
DiskFull(t) ==
  LET p == Home[t]
  IN /\ pc[t] \in {"fresh", "ignored"}
     /\ faults < MaxFaults /\ faults' = faults + 1
     /\ inserted' = [inserted EXCEPT ![p] = None]
     /\ lock' = [lock EXCEPT ![p] = None]
     /\ pc' = [pc EXCEPT ![t] = "raised"]
     /\ UNCHANGED <<seen, memory, revokeVars, proof, sound, calls, revocations,
                    historyVars>>

-----------------------------------------------------------------------------
(* Restarts and the revocation store                                       *)

MutHydrated(p) == snapshot[p]   \* mutant: the store is not read again
Hydrated(p) == revoked

\* A process dies and starts again: its memory is gone, its uncommitted row
\* too, and its new verifier is hydrated from the RevocationStore.
Restart(p) ==
  /\ faults < MaxFaults /\ faults' = faults + 1
  /\ inserted' = [inserted EXCEPT ![p] = None]
  /\ lock' = [lock EXCEPT ![p] = None]
  /\ memory' = [memory EXCEPT ![p] = {}]
  /\ snapshot' = [snapshot EXCEPT ![p] = Hydrated(p)]
  /\ pc' = [t \in Thread |-> IF Home[t] = p THEN "idle" ELSE pc[t]]
  /\ applied' = [applied EXCEPT ![p] = revoked]
  /\ local' = [local EXCEPT ![p] = [i \in Id |-> 0]]
  /\ UNCHANGED <<seen, revoked, proof, sound, calls, revocations, accepts, recorded>>

\* RevocationStore.add(), by "tarl revoke"
Revoke(h) ==
  /\ revocations < MaxRevocations /\ revocations' = revocations + 1
  /\ revoked' = revoked \union {h}
  /\ UNCHANGED <<guardVars, snapshot, callVars, calls, faults, historyVars>>

\* RevocationStore.remove()
Unrevoke(h) ==
  /\ h \in revoked
  /\ revocations < MaxRevocations /\ revocations' = revocations + 1
  /\ revoked' = revoked \ {h}
  /\ applied' = [p \in Process |-> applied[p] \ {h}]
  /\ UNCHANGED <<guardVars, snapshot, callVars, calls, faults, accepts, local, recorded>>

-----------------------------------------------------------------------------

Step(t) == Look(t) \/ Add(t) \/ Insert(t) \/ InsertTimesOut(t) \/ Commit(t)

Next ==
  \/ \E t \in Thread, x \in Proof, binds \in BOOLEAN : Verify(t, x, binds)
  \/ \E t \in Thread : Step(t) \/ DiskFull(t)
  \/ \E p \in Process : Restart(p)
  \/ \E h \in Policy : Revoke(h) \/ Unrevoke(h)

Spec == Init /\ [][Next]_vars

-----------------------------------------------------------------------------
(* Properties                                                              *)

TypeOK ==
  /\ seen \subseteq Id
  /\ inserted \in [Process -> Id \union {None}]
  /\ lock \in [Process -> Thread \union {None}]
  /\ memory \in [Process -> SUBSET Id]
  /\ revoked \subseteq Policy /\ snapshot \in [Process -> SUBSET Policy]
  /\ pc \in [Thread -> {"idle", "guard", "add", "fresh", "ignored", "done",
                        "replayed", "raised"}]
  /\ proof \in [Thread -> Proof \union {None}]
  /\ sound \in [Thread -> BOOLEAN]
  /\ calls \in Nat /\ faults \in Nat /\ revocations \in Nat
  /\ accepts \in [Id -> Nat] /\ recorded \in [Id -> Nat]
  /\ local \in [Process -> [Id -> Nat]]
  /\ applied \in [Process -> SUBSET Policy]

\* A proof is accepted at most once by all processes with a durable guard
\* together, through restarts, full disks and timeouts at any point: it is
\* recorded before anybody is told that it is valid (durable.py).
AcceptedOnce == \A i \in Id : accepts[i] <= 1

\* A process that keeps its guard in memory accepts a proof, between two
\* restarts, at most as often as it has threads to race for it: once if it
\* verifies in one thread (ReplayGuard).
MemorySingleUse ==
  \A p \in Process \ Durable, i \in Id :
    local[p][i] <= Cardinality({t \in Thread : Home[t] = p})

\* A proof is called a replay only when check_and_record() has returned
\* for it before: a verification that raised, or died before its commit, does
\* not use the proof up.
ReplayMeansRecorded ==
  \A t \in Thread : pc[t] = "replayed" => recorded[IdAt(t)] >= 2

\* A revocation reaches a process at the latest when it is restarted: a proof
\* bound to a policy revoked ever since p started does not pass p's checks.
RestartAppliesRevocation ==
  \A t \in Thread :
    pc[t] \notin {"idle", "raised"} /\ sound[t] =>
      PolicyOf[proof[t]] \notin applied[Home[t]]

-----------------------------------------------------------------------------
(* What the documentation says and the code does not do                    *)

\* durable.py: ReplayGuard and the revocation set "are correct in-process":
\* one process, never restarted, accepts a proof at most once.
SingleUseInProcess ==
  faults = 0 => \A p \in Process, i \in Id : local[p][i] <= 1
=============================================================================
