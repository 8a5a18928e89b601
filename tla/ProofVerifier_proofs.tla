------------------------- MODULE ProofVerifier_proofs -------------------------
(***************************************************************************)
(* Proofs about single use and revocation, for any number of processes and *)
(* threads, any proofs and any bounds.                                     *)
(***************************************************************************)
EXTENDS ProofVerifier, FiniteSetTheorems, TLAPS

InCall(t) == pc[t] \in {"guard", "add", "fresh", "ignored", "replayed", "done"}

Holding(t) == pc[t] \in {"fresh", "ignored"}

\* A call knows its proof; only in-memory guards are looked up in two steps.
CallOK ==
  \A t \in Thread :
    /\ InCall(t) => proof[t] \in Proof
    /\ pc[t] = "add" => Home[t] \notin Durable

\* Between INSERT and COMMIT a thread holds the lock of its process and the
\* write lock of the table, with its own id inserted.
LockOK ==
  /\ \A t \in Thread :
       Holding(t) => /\ Home[t] \in Durable
                     /\ lock[Home[t]] = t
                     /\ inserted[Home[t]] = IdAt(t)
  /\ \A p, q \in Process : inserted[p] # None /\ inserted[q] # None => p = q

Inv1 == TypeOK /\ CallOK /\ LockOK

-----------------------------------------------------------------------------
(* Types and locks                                                         *)

LEMMA IdType ==
  ASSUME NEW t \in Thread, CallOK, InCall(t)
  PROVE  IdAt(t) \in Id /\ IdAt(t) # None
BY VerifierAssumption DEF CallOK, IdAt

LEMMA InitInv1 == Init => Inv1
BY VerifierAssumption
   DEF Init, Inv1, TypeOK, CallOK, LockOK, InCall, Holding

LEMMA ConcludeType ==
  ASSUME NEW t \in Thread, NEW fresh \in BOOLEAN, Inv1, InCall(t), Conclude(t, fresh)
  PROVE  /\ pc' = [pc EXCEPT ![t] = IF fresh THEN "done" ELSE "replayed"]
         /\ recorded' \in [Id -> Nat] /\ accepts' \in [Id -> Nat]
         /\ local' \in [Process -> [Id -> Nat]]
<1>1. IdAt(t) \in Id /\ Home[t] \in Process
  BY IdType, VerifierAssumption DEF Inv1
<1>2. accepts \in [Id -> Nat] /\ recorded \in [Id -> Nat] /\ local \in [Process -> [Id -> Nat]]
  BY DEF Inv1, TypeOK
<1>3. pc' = [pc EXCEPT ![t] = IF fresh THEN "done" ELSE "replayed"]
  BY DEF Conclude
<1>4. recorded' \in [Id -> Nat] /\ accepts' \in [Id -> Nat]
  BY <1>1, <1>2 DEF Conclude
<1>5. local' \in [Process -> [Id -> Nat]]
  BY <1>1, <1>2 DEF Conclude
<1> QED
  BY <1>3, <1>4, <1>5

LEMMA TypeStep == Inv1 /\ [Next]_vars => TypeOK'
<1> SUFFICES ASSUME Inv1, [Next]_vars
             PROVE  TypeOK'
  OBVIOUS
<1>0. TypeOK
  BY DEF Inv1
<1>1. ASSUME NEW t \in Thread, NEW x \in Proof, NEW binds \in BOOLEAN, Verify(t, x, binds)
      PROVE  TypeOK'
  BY <1>0, <1>1, VerifierAssumption
     DEF Verify, Passes, TypeOK, guardVars, revokeVars, historyVars
<1>2. ASSUME NEW t \in Thread, Look(t)
      PROVE  TypeOK'
  <2>1. CASE IdAt(t) \in memory[Home[t]]
    <3>1. Conclude(t, FALSE) /\ InCall(t)
      BY <1>2, <2>1 DEF Look, InCall
    <3> QED
      BY <1>0, <1>2, <3>1, ConcludeType
         DEF Look, TypeOK, guardVars, revokeVars, countVars
  <2>2. CASE IdAt(t) \notin memory[Home[t]]
    BY <1>0, <1>2, <2>2 DEF Look, TypeOK, guardVars, revokeVars, countVars
  <2> QED
    BY <2>1, <2>2
<1>3. ASSUME NEW t \in Thread, Add(t)
      PROVE  TypeOK'
  <2>1. Conclude(t, TRUE) /\ InCall(t)
    BY <1>3 DEF Add, InCall
  <2>2. memory' \in [Process -> SUBSET Id]
    BY <1>0, <1>3, <2>1, IdType, VerifierAssumption DEF Add, Remembered, TypeOK, Inv1
  <2> QED
    BY <1>0, <1>3, <2>1, <2>2, ConcludeType DEF Add, TypeOK, revokeVars, countVars
<1>4. ASSUME NEW t \in Thread, Insert(t)
      PROVE  TypeOK'
  <2>1. IdAt(t) \in Id
    BY <1>4, IdType DEF Insert, InCall, Inv1
  <2> QED
    BY <1>0, <1>4, <2>1, VerifierAssumption
       DEF Insert, TypeOK, revokeVars, countVars, historyVars
<1>5. ASSUME NEW t \in Thread, InsertTimesOut(t)
      PROVE  TypeOK'
  BY <1>0, <1>5 DEF InsertTimesOut, TypeOK, guardVars, revokeVars, countVars, historyVars
<1>6. ASSUME NEW t \in Thread, Commit(t)
      PROVE  TypeOK'
  <2>1. Conclude(t, pc[t] = "fresh") /\ InCall(t)
    BY <1>6 DEF Commit, InCall
  <2>2. seen' \subseteq Id
    <3>1. inserted[Home[t]] = IdAt(t)
      BY <1>6 DEF Commit, Inv1, LockOK, Holding
    <3> QED
      BY <1>0, <1>6, <2>1, <3>1, IdType DEF Commit, Committed, TypeOK, Inv1
  <2>3. /\ pc' \in [Thread -> {"idle", "guard", "add", "fresh", "ignored", "done",
                               "replayed", "raised"}]
        /\ recorded' \in [Id -> Nat] /\ accepts' \in [Id -> Nat]
        /\ local' \in [Process -> [Id -> Nat]]
    BY <1>0, <2>1, ConcludeType DEF TypeOK
  <2> QED
    BY <1>0, <1>6, <2>2, <2>3 DEF Commit, TypeOK, revokeVars, countVars
<1>7. ASSUME NEW t \in Thread, DiskFull(t)
      PROVE  TypeOK'
  <2>1. /\ inserted' = [inserted EXCEPT ![Home[t]] = None] /\ faults' = faults + 1
        /\ lock' = [lock EXCEPT ![Home[t]] = None]
        /\ pc' = [pc EXCEPT ![t] = "raised"]
    BY <1>7 DEF DiskFull
  <2>2. UNCHANGED <<seen, memory, revoked, snapshot, proof, sound, calls, revocations,
                    accepts, local, recorded, applied>>
    BY <1>7 DEF DiskFull, revokeVars, historyVars
  <2>3. /\ inserted' \in [Process -> Id \union {None}]
        /\ lock' \in [Process -> Thread \union {None}]
    BY <1>0, <2>1 DEF TypeOK
  <2>4. /\ pc' \in [Thread -> {"idle", "guard", "add", "fresh", "ignored", "done",
                               "replayed", "raised"}]
        /\ faults' \in Nat
    BY <1>0, <2>1 DEF TypeOK
  <2> QED
    BY <1>0, <2>2, <2>3, <2>4 DEF TypeOK
<1>8. ASSUME NEW p \in Process, Restart(p)
      PROVE  TypeOK'
  BY <1>0, <1>8 DEF Restart, Hydrated, TypeOK
<1>9. ASSUME NEW h \in Policy, Revoke(h) \/ Unrevoke(h)
      PROVE  TypeOK'
  BY <1>0, <1>9 DEF Revoke, Unrevoke, TypeOK, guardVars, callVars, historyVars
<1>10. CASE UNCHANGED vars
  BY <1>0, <1>10
     DEF TypeOK, vars, guardVars, revokeVars, callVars, countVars, historyVars
<1> QED
  BY <1>1, <1>2, <1>3, <1>4, <1>5, <1>6, <1>7, <1>8, <1>9, <1>10 DEF Next, Step

LEMMA CallStep == Inv1 /\ [Next]_vars => CallOK'
<1> SUFFICES ASSUME Inv1, [Next]_vars
             PROVE  CallOK'
  OBVIOUS
<1>0. TypeOK /\ CallOK /\ TypeOK'
  BY TypeStep DEF Inv1
<1>1. ASSUME NEW t \in Thread, NEW x \in Proof, NEW binds \in BOOLEAN, Verify(t, x, binds)
      PROVE  CallOK'
  BY <1>0, <1>1 DEF Verify, TypeOK, CallOK, InCall
<1>2. ASSUME NEW t \in Thread, Step(t)
      PROVE  CallOK'
  <2>1. /\ proof' = proof /\ InCall(t)
        /\ \A u \in Thread \ {t} : pc'[u] = pc[u]
        /\ pc'[t] = "add" => Home[t] \notin Durable
    BY <1>0, <1>2
       DEF Step, Look, Add, Insert, InsertTimesOut, Commit, Conclude, TypeOK, InCall
  <2> QED
    BY <1>0, <2>1 DEF CallOK, InCall
<1>3. ASSUME NEW t \in Thread, DiskFull(t)
      PROVE  CallOK'
  BY <1>0, <1>3 DEF DiskFull, TypeOK, CallOK, InCall
<1>4. ASSUME NEW p \in Process, Restart(p)
      PROVE  CallOK'
  BY <1>0, <1>4 DEF Restart, CallOK, InCall
<1>5. ASSUME NEW h \in Policy, Revoke(h) \/ Unrevoke(h)
      PROVE  CallOK'
  BY <1>0, <1>5 DEF Revoke, Unrevoke, CallOK, InCall, callVars
<1>6. CASE UNCHANGED vars
  BY <1>0, <1>6 DEF CallOK, InCall, vars, callVars
<1> QED
  BY <1>1, <1>2, <1>3, <1>4, <1>5, <1>6 DEF Next

\* A step that starts or ends nobody's transaction keeps the locks.
LEMMA LockKept ==
  ASSUME Inv1, UNCHANGED <<inserted, lock>>,
         \A t \in Thread : Holding(t)' => Holding(t) /\ proof'[t] = proof[t]
  PROVE  LockOK'
BY DEF Inv1, LockOK, Holding, IdAt

\* The end of the transaction of thread t, or of all threads of a process.
LEMMA LockReleased ==
  ASSUME Inv1, NEW p \in Process, proof' = proof,
         inserted' = [inserted EXCEPT ![p] = None],
         lock' = [lock EXCEPT ![p] = None],
         \A t \in Thread : Holding(t)' => Holding(t) /\ Home[t] # p
  PROVE  LockOK'
<1>1. inserted \in [Process -> Id \union {None}] /\ lock \in [Process -> Thread \union {None}]
  BY DEF Inv1, TypeOK
<1>2. ASSUME NEW t \in Thread, Holding(t)'
      PROVE  /\ Home[t] \in Durable
             /\ lock'[Home[t]] = t
             /\ inserted'[Home[t]] = IdAt(t)'
  BY <1>1, <1>2, VerifierAssumption DEF Inv1, LockOK, IdAt
<1>3. \A q, r \in Process : inserted'[q] # None /\ inserted'[r] # None => q = r
  BY <1>1 DEF Inv1, LockOK
<1> QED
  BY <1>2, <1>3 DEF LockOK

LEMMA LockStep == Inv1 /\ [Next]_vars => LockOK'
<1> SUFFICES ASSUME Inv1, [Next]_vars
             PROVE  LockOK'
  OBVIOUS
<1>0. TypeOK /\ CallOK /\ LockOK
  BY DEF Inv1
<1>1. ASSUME NEW t \in Thread, NEW x \in Proof, NEW binds \in BOOLEAN, Verify(t, x, binds)
      PROVE  LockOK'
  <2>1. /\ UNCHANGED <<inserted, lock>>
        /\ \A u \in Thread : Holding(u)' => Holding(u) /\ proof'[u] = proof[u]
    BY <1>0, <1>1 DEF Verify, TypeOK, Holding, guardVars
  <2> QED
    BY <2>1, LockKept
<1>2. ASSUME NEW t \in Thread, Look(t) \/ Add(t) \/ InsertTimesOut(t)
      PROVE  LockOK'
  <2>1. /\ UNCHANGED <<inserted, lock>>
        /\ \A u \in Thread : Holding(u)' => Holding(u) /\ proof'[u] = proof[u]
    BY <1>0, <1>2 DEF Look, Add, InsertTimesOut, Conclude, TypeOK, Holding, guardVars
  <2> QED
    BY <2>1, LockKept
<1>3. ASSUME NEW t \in Thread, Insert(t)
      PROVE  LockOK'
  <2> DEFINE p == Home[t]
  <2>1. /\ p \in Durable /\ p \in Process
        /\ lock[p] = None /\ ~InsertBlocked(p)
        /\ lock' = [lock EXCEPT ![p] = t] /\ inserted' = [inserted EXCEPT ![p] = IdAt(t)]
        /\ pc' = [pc EXCEPT ![t] = IF IdAt(t) \in seen THEN "ignored" ELSE "fresh"]
        /\ proof' = proof
    BY <1>3, VerifierAssumption DEF Insert
  <2>2. ASSUME NEW u \in Thread, Holding(u)'
        PROVE  /\ Home[u] \in Durable
               /\ lock'[Home[u]] = u
               /\ inserted'[Home[u]] = IdAt(u)'
    <3>1. CASE u = t
      BY <1>0, <2>1, <3>1 DEF TypeOK, IdAt
    <3>2. CASE u # t
      <4>1. Holding(u)
        BY <1>0, <2>1, <2>2, <3>2 DEF TypeOK, Holding
      <4>2. lock[Home[u]] = u /\ u # None /\ Home[u] \in Process
        BY <1>0, <4>1, VerifierAssumption DEF LockOK
      <4> QED
        BY <1>0, <2>1, <4>1, <4>2 DEF LockOK, TypeOK, IdAt
    <3> QED
      BY <3>1, <3>2
  <2>3. \A q, r \in Process : inserted'[q] # None /\ inserted'[r] # None => q = r
    BY <1>0, <2>1 DEF TypeOK, InsertBlocked
  <2> QED
    BY <2>2, <2>3 DEF LockOK
<1>4. ASSUME NEW t \in Thread, Commit(t) \/ DiskFull(t)
      PROVE  LockOK'
  <2>1. /\ Holding(t) /\ proof' = proof
        /\ inserted' = [inserted EXCEPT ![Home[t]] = None]
        /\ lock' = [lock EXCEPT ![Home[t]] = None]
        /\ \A u \in Thread : Holding(u)' => Holding(u) /\ u # t
    BY <1>0, <1>4 DEF Commit, DiskFull, Conclude, TypeOK, Holding
  <2>2. Home[t] \in Process /\ lock[Home[t]] = t
    BY <1>0, <2>1, VerifierAssumption DEF LockOK
  <2>3. \A u \in Thread : Holding(u)' => Holding(u) /\ Home[u] # Home[t]
    BY <1>0, <2>1, <2>2 DEF LockOK
  <2> QED
    BY <2>1, <2>2, <2>3, LockReleased
<1>5. ASSUME NEW p \in Process, Restart(p)
      PROVE  LockOK'
  <2>1. \A u \in Thread : Holding(u)' => Holding(u) /\ Home[u] # p
    BY <1>0, <1>5 DEF Restart, Holding
  <2> QED
    BY <1>5, <2>1, LockReleased DEF Restart
<1>6. ASSUME NEW h \in Policy, Revoke(h) \/ Unrevoke(h)
      PROVE  LockOK'
  BY <1>6, LockKept DEF Revoke, Unrevoke, Holding, guardVars, callVars
<1>7. CASE UNCHANGED vars
  BY <1>7, LockKept DEF Holding, vars, guardVars, callVars
<1> QED
  BY <1>1, <1>2, <1>3, <1>4, <1>5, <1>6, <1>7 DEF Next, Step

LEMMA Inv1Invariant == Spec => []Inv1
<1>1. Inv1 /\ [Next]_vars => Inv1'
  BY TypeStep, CallStep, LockStep DEF Inv1
<1> QED
  BY InitInv1, <1>1, PTL DEF Spec

\* The verifier's variables keep their types, whoever verifies, revokes or is
\* restarted: in particular only ids of proofs are ever committed.
THEOREM TypeCorrect == Spec => []TypeOK
<1>1. Inv1 => TypeOK
  BY DEF Inv1
<1> QED
  BY <1>1, Inv1Invariant, PTL

-----------------------------------------------------------------------------
(* Single use                                                              *)

\* An accepted id is committed, and a row that counts as new is not.
UseOK ==
  /\ \A i \in Id : accepts[i] <= IF i \in seen THEN 1 ELSE 0
  /\ \A t \in Thread : pc[t] = "fresh" => IdAt(t) \notin seen

\* What the guards remember has been recorded before.
RecordOK ==
  /\ \A i \in seen : recorded[i] >= 1
  /\ \A p \in Process : \A i \in memory[p] : recorded[i] >= 1
  /\ \A t \in Thread : pc[t] = "ignored" => IdAt(t) \in seen

Inv2 == Inv1 /\ UseOK /\ RecordOK /\ ReplayMeansRecorded

LEMMA InitInv2 == Init => UseOK /\ RecordOK /\ ReplayMeansRecorded
BY DEF Init, UseOK, RecordOK, ReplayMeansRecorded

\* A step that records nothing, and moves no thread to where it would have
\* to be justified.
LEMMA UseKept ==
  ASSUME Inv2, UNCHANGED <<seen, accepts, recorded>>,
         \A p \in Process : memory'[p] \subseteq memory[p],
         \A t \in Thread : pc'[t] \in {"fresh", "ignored", "replayed"} =>
                             pc'[t] = pc[t] /\ proof'[t] = proof[t]
  PROVE  UseOK' /\ RecordOK' /\ ReplayMeansRecorded'
BY DEF Inv2, UseOK, RecordOK, ReplayMeansRecorded, IdAt

\* A step in which check_and_record() returns for thread t.
LEMMA Concluded ==
  ASSUME Inv2, NEW t \in Thread, NEW fresh \in BOOLEAN, InCall(t), Conclude(t, fresh),
         proof' = proof, seen \subseteq seen', seen' \subseteq seen \union {IdAt(t)},
         \A p \in Process : memory'[p] \subseteq memory[p] \union {IdAt(t)},
         fresh /\ Home[t] \in Durable => IdAt(t) \notin seen /\ IdAt(t) \in seen',
         ~fresh => recorded[IdAt(t)] >= 1,
         IdAt(t) \in seen' \ seen => \A u \in Thread \ {t} : pc[u] # "fresh"
  PROVE  UseOK' /\ RecordOK' /\ ReplayMeansRecorded'
<1> DEFINE i == IdAt(t)
<1>0. /\ accepts \in [Id -> Nat] /\ recorded \in [Id -> Nat]
      /\ i \in Id /\ seen \subseteq Id /\ memory \in [Process -> SUBSET Id]
      /\ UseOK /\ RecordOK /\ ReplayMeansRecorded /\ CallOK
      /\ pc \in [Thread -> {"idle", "guard", "add", "fresh", "ignored", "done",
                            "replayed", "raised"}]
  BY IdType DEF Inv2, Inv1, TypeOK
<1>1. /\ pc' = [pc EXCEPT ![t] = IF fresh THEN "done" ELSE "replayed"]
      /\ recorded' = [recorded EXCEPT ![i] = @ + 1]
      /\ accepts' = [accepts EXCEPT ![i] = IF (fresh /\ sound[t]) /\ Home[t] \in Durable
                                           THEN @ + 1 ELSE @]
  BY DEF Conclude
<1>2. /\ recorded' \in [Id -> Nat]
      /\ \A j \in Id : recorded'[j] >= recorded[j]
      /\ recorded'[i] = recorded[i] + 1
  BY <1>0, <1>1
<1>3. \A u \in Thread : IdAt(u)' = IdAt(u)
  BY DEF IdAt
<1>4. UseOK'
  <2>1. ASSUME NEW j \in Id
        PROVE  accepts'[j] <= IF j \in seen' THEN 1 ELSE 0
    <3>1. accepts[j] <= IF j \in seen THEN 1 ELSE 0
      BY <1>0 DEF UseOK
    <3>2. CASE j = i /\ (fresh /\ sound[t]) /\ Home[t] \in Durable
      <4>1. accepts'[j] = accepts[j] + 1 /\ j \notin seen /\ j \in seen'
        BY <1>0, <1>1, <3>2
      <4> QED
        BY <1>0, <3>1, <4>1
    <3>3. CASE ~(j = i /\ (fresh /\ sound[t]) /\ Home[t] \in Durable)
      <4>1. accepts'[j] = accepts[j]
        BY <1>0, <1>1, <3>3
      <4> QED
        BY <1>0, <3>1, <4>1
    <3> QED
      BY <3>2, <3>3
  <2>2. ASSUME NEW u \in Thread, pc'[u] = "fresh"
        PROVE  IdAt(u)' \notin seen'
    <3>1. u # t /\ pc[u] = "fresh"
      BY <1>0, <1>1, <2>2
    <3>2. seen' = seen
      BY <3>1
    <3> QED
      BY <1>0, <1>3, <3>1, <3>2 DEF UseOK
  <2> QED
    BY <2>1, <2>2 DEF UseOK
<1>5. RecordOK'
  <2>0. \A j \in Id : j = i \/ recorded[j] >= 1 => recorded'[j] >= 1
    BY <1>0, <1>2
  <2>1. \A j \in seen' : recorded'[j] >= 1
    <3>1. ASSUME NEW j \in seen'
          PROVE  j \in Id /\ (j = i \/ recorded[j] >= 1)
      BY <1>0, <3>1 DEF RecordOK
    <3> QED
      BY <2>0, <3>1
  <2>2. \A p \in Process : \A j \in memory'[p] : recorded'[j] >= 1
    <3>1. ASSUME NEW p \in Process, NEW j \in memory'[p]
          PROVE  j \in Id /\ (j = i \/ recorded[j] >= 1)
      <4>1. j \in memory[p] \union {i}
        BY <3>1
      <4>2. memory[p] \subseteq Id
        BY <1>0
      <4> QED
        BY <1>0, <4>1, <4>2 DEF RecordOK
    <3> QED
      BY <2>0, <3>1
  <2>3. \A u \in Thread : pc'[u] = "ignored" => IdAt(u)' \in seen'
    BY <1>0, <1>1, <1>3 DEF RecordOK
  <2> QED
    BY <2>1, <2>2, <2>3 DEF RecordOK
<1>6. ReplayMeansRecorded'
  <2> SUFFICES ASSUME NEW u \in Thread, pc'[u] = "replayed"
               PROVE  recorded'[IdAt(u)] >= 2
    BY <1>3 DEF ReplayMeansRecorded
  <2>1. CASE u = t
    BY <1>0, <1>1, <1>2, <2>1
  <2>2. CASE u # t
    <3>1. pc[u] = "replayed"
      BY <1>0, <1>1, <2>2
    <3>2. InCall(u)
      BY <3>1 DEF InCall
    <3>3. IdAt(u) \in Id
      BY <1>0, <3>2, IdType
    <3>4. recorded[IdAt(u)] >= 2
      BY <1>0, <3>1 DEF ReplayMeansRecorded
    <3> QED
      BY <1>0, <1>2, <3>3, <3>4
  <2> QED
    BY <2>1, <2>2
<1> QED
  BY <1>4, <1>5, <1>6

LEMMA UseStep ==
  Inv2 /\ [Next]_vars => UseOK' /\ RecordOK' /\ ReplayMeansRecorded'
<1> SUFFICES ASSUME Inv2, [Next]_vars
             PROVE  UseOK' /\ RecordOK' /\ ReplayMeansRecorded'
  OBVIOUS
<1>0. Inv1 /\ TypeOK /\ CallOK /\ LockOK /\ UseOK /\ RecordOK
  BY DEF Inv2, Inv1
<1>1. ASSUME NEW t \in Thread, NEW x \in Proof, NEW binds \in BOOLEAN, Verify(t, x, binds)
      PROVE  UseOK' /\ RecordOK' /\ ReplayMeansRecorded'
  <2>1. /\ UNCHANGED <<seen, accepts, recorded, memory>>
        /\ \A u \in Thread : pc'[u] \in {"fresh", "ignored", "replayed"} =>
                               pc'[u] = pc[u] /\ proof'[u] = proof[u]
    BY <1>0, <1>1 DEF Verify, TypeOK, guardVars, historyVars
  <2> QED
    BY <2>1, UseKept
<1>2. ASSUME NEW t \in Thread, Look(t)
      PROVE  UseOK' /\ RecordOK' /\ ReplayMeansRecorded'
  <2>1. /\ UNCHANGED <<seen, memory>> /\ proof' = proof /\ InCall(t)
        /\ pc[t] = "guard" /\ Home[t] \in Process
    BY <1>2, VerifierAssumption DEF Look, guardVars, InCall
  <2>2. CASE IdAt(t) \in memory[Home[t]]
    <3>1. Conclude(t, FALSE)
      BY <1>2, <2>2 DEF Look
    <3>2. recorded[IdAt(t)] >= 1
      BY <1>0, <2>1, <2>2 DEF RecordOK
    <3> QED
      BY <2>1, <3>1, <3>2, Concluded
  <2>3. CASE IdAt(t) \notin memory[Home[t]]
    <3>1. UNCHANGED <<accepts, recorded>> /\ pc' = [pc EXCEPT ![t] = "add"]
      BY <1>2, <2>3 DEF Look
    <3>2. \A u \in Thread : pc'[u] \in {"fresh", "ignored", "replayed"} => pc'[u] = pc[u]
      BY <1>0, <3>1 DEF TypeOK
    <3> QED
      BY <2>1, <3>1, <3>2, UseKept
  <2> QED
    BY <2>2, <2>3
<1>3. ASSUME NEW t \in Thread, Add(t)
      PROVE  UseOK' /\ RecordOK' /\ ReplayMeansRecorded'
  <2>1. /\ seen' = seen /\ proof' = proof /\ InCall(t) /\ Conclude(t, TRUE)
        /\ memory' = [memory EXCEPT ![Home[t]] = memory[Home[t]] \union {IdAt(t)}]
        /\ Home[t] \notin Durable
    BY <1>0, <1>3 DEF Add, Remembered, InCall, CallOK
  <2>2. \A p \in Process : memory'[p] \subseteq memory[p] \union {IdAt(t)}
    BY <1>0, <2>1 DEF TypeOK
  <2> QED
    BY <2>1, <2>2, Concluded
<1>4. ASSUME NEW t \in Thread, Insert(t)
      PROVE  UseOK' /\ RecordOK' /\ ReplayMeansRecorded'
  <2>1. /\ UNCHANGED <<seen, memory, accepts, recorded>> /\ proof' = proof
        /\ pc' = [pc EXCEPT ![t] = IF IdAt(t) \in seen THEN "ignored" ELSE "fresh"]
    BY <1>4 DEF Insert, historyVars
  <2>2. \A u \in Thread : IdAt(u)' = IdAt(u)
    BY <2>1 DEF IdAt
  <2>3. UseOK'
    BY <1>0, <2>1, <2>2 DEF UseOK, TypeOK
  <2>4. RecordOK'
    BY <1>0, <2>1, <2>2 DEF RecordOK, TypeOK
  <2>5. ReplayMeansRecorded'
    BY <1>0, <2>1, <2>2 DEF Inv2, ReplayMeansRecorded, TypeOK
  <2> QED
    BY <2>3, <2>4, <2>5
<1>5. ASSUME NEW t \in Thread, InsertTimesOut(t) \/ DiskFull(t)
      PROVE  UseOK' /\ RecordOK' /\ ReplayMeansRecorded'
  <2>1. /\ UNCHANGED <<seen, memory, accepts, recorded>> /\ proof' = proof
        /\ pc' = [pc EXCEPT ![t] = "raised"]
    BY <1>5 DEF InsertTimesOut, DiskFull, guardVars, historyVars
  <2>2. \A u \in Thread : pc'[u] \in {"fresh", "ignored", "replayed"} => pc'[u] = pc[u]
    BY <1>0, <2>1 DEF TypeOK
  <2> QED
    BY <2>1, <2>2, UseKept
<1>6. ASSUME NEW t \in Thread, Commit(t)
      PROVE  UseOK' /\ RecordOK' /\ ReplayMeansRecorded'
  <2>1. /\ Holding(t) /\ InCall(t) /\ Conclude(t, pc[t] = "fresh")
        /\ UNCHANGED memory /\ proof' = proof
        /\ seen' = seen \union {inserted[Home[t]]}
    BY <1>6 DEF Commit, Committed, Holding, InCall
  <2>2. inserted[Home[t]] = IdAt(t) /\ lock[Home[t]] = t /\ IdAt(t) # None
    BY <1>0, <2>1, IdType DEF LockOK
  <2>3. ASSUME NEW u \in Thread \ {t}
        PROVE  pc[u] # "fresh"
    <3> SUFFICES ASSUME pc[u] = "fresh"
                 PROVE  FALSE
      OBVIOUS
    <3>1. Holding(u) /\ InCall(u)
      BY DEF Holding, InCall
    <3>2. inserted[Home[u]] # None /\ lock[Home[u]] = u
      BY <1>0, <3>1, IdType DEF LockOK
    <3>3. Home[u] \in Process /\ Home[t] \in Process
      BY VerifierAssumption
    <3>4. Home[u] = Home[t]
      BY <1>0, <2>2, <3>2, <3>3 DEF LockOK
    <3> QED
      BY <2>2, <3>2, <3>4
  <2>4. pc[t] = "fresh" => IdAt(t) \notin seen
    BY <1>0 DEF UseOK
  <2>5. pc[t] # "fresh" => recorded[IdAt(t)] >= 1
    BY <1>0, <2>1 DEF RecordOK, Holding
  <2> DEFINE fresh == pc[t] = "fresh"
  <2>6. fresh \in BOOLEAN /\ Conclude(t, fresh)
    BY <2>1
  <2>7. /\ seen \subseteq seen' /\ seen' \subseteq seen \union {IdAt(t)}
        /\ IdAt(t) \in seen'
    BY <2>1, <2>2
  <2>8. \A p \in Process : memory'[p] \subseteq memory[p] \union {IdAt(t)}
    BY <2>1
  <2>9. (fresh => IdAt(t) \notin seen) /\ (~fresh => recorded[IdAt(t)] >= 1)
    BY <2>4, <2>5
  <2> HIDE DEF fresh
  <2> QED
    BY <2>1, <2>3, <2>6, <2>7, <2>8, <2>9, Concluded
<1>7. ASSUME NEW p \in Process, Restart(p)
      PROVE  UseOK' /\ RecordOK' /\ ReplayMeansRecorded'
  <2>1. /\ UNCHANGED <<seen, accepts, recorded>> /\ proof' = proof
        /\ memory' = [memory EXCEPT ![p] = {}]
        /\ pc' = [t \in Thread |-> IF Home[t] = p THEN "idle" ELSE pc[t]]
    BY <1>7 DEF Restart
  <2>2. \A q \in Process : memory'[q] \subseteq memory[q]
    BY <1>0, <2>1 DEF TypeOK
  <2>3. \A u \in Thread : pc'[u] \in {"fresh", "ignored", "replayed"} => pc'[u] = pc[u]
    BY <2>1
  <2> QED
    BY <2>1, <2>2, <2>3, UseKept
<1>8. ASSUME NEW h \in Policy, Revoke(h) \/ Unrevoke(h)
      PROVE  UseOK' /\ RecordOK' /\ ReplayMeansRecorded'
  BY <1>8, UseKept DEF Revoke, Unrevoke, guardVars, callVars, historyVars
<1>9. CASE UNCHANGED vars
  BY <1>9, UseKept DEF vars, guardVars, callVars, historyVars
<1> QED
  BY <1>1, <1>2, <1>3, <1>4, <1>5, <1>6, <1>7, <1>8, <1>9 DEF Next, Step

LEMMA Inv2Invariant == Spec => []Inv2
<1>1. Init => Inv2
  BY InitInv1, InitInv2 DEF Inv2
<1>2. Inv2 /\ [Next]_vars => Inv2'
  BY TypeStep, CallStep, LockStep, UseStep DEF Inv2, Inv1
<1> QED
  BY <1>1, <1>2, PTL DEF Spec

\* Processes that share a durable guard accept a proof at most once, wherever
\* crashes, full disks and timeouts fall: DurableReplayGuard commits the id
\* before check_and_record() returns, and INSERT OR IGNORE tells it whether
\* the id was new under the write lock.
THEOREM SingleAcceptance == Spec => []AcceptedOnce
<1>1. Inv2 => AcceptedOnce
  <2> SUFFICES ASSUME Inv2, NEW i \in Id
               PROVE  accepts[i] <= 1
    BY DEF AcceptedOnce
  <2>1. accepts[i] \in Nat /\ accepts[i] <= IF i \in seen THEN 1 ELSE 0
    BY DEF Inv2, Inv1, TypeOK, UseOK
  <2> QED
    BY <2>1
<1> QED
  BY <1>1, Inv2Invariant, PTL

\* Both guards call a proof a replay only if check_and_record() has returned
\* for its id before: verifications that raised or died use nothing up.
THEOREM ReplaysAreRecorded == Spec => []ReplayMeansRecorded
<1>1. Inv2 => ReplayMeansRecorded
  BY DEF Inv2
<1> QED
  BY <1>1, Inv2Invariant, PTL

-----------------------------------------------------------------------------
(* Revocation                                                              *)

\* What was revoked when a process started, and still is, is in its copy.
SnapshotOK == \A p \in Process : applied[p] \subseteq snapshot[p]

Inv3 == Inv1 /\ SnapshotOK /\ RestartAppliesRevocation

LEMMA RevocationStep ==
  Inv3 /\ [Next]_vars => SnapshotOK' /\ RestartAppliesRevocation'
<1> SUFFICES ASSUME Inv3, [Next]_vars
             PROVE  SnapshotOK' /\ RestartAppliesRevocation'
  OBVIOUS
<1>0. TypeOK /\ SnapshotOK /\ RestartAppliesRevocation /\ CallOK
  BY DEF Inv3, Inv1
<1>1. ASSUME NEW t \in Thread, NEW x \in Proof, NEW binds \in BOOLEAN, Verify(t, x, binds)
      PROVE  SnapshotOK' /\ RestartAppliesRevocation'
  <2>1. /\ UNCHANGED <<snapshot, applied>>
        /\ pc' = [pc EXCEPT ![t] = "guard"] /\ proof' = [proof EXCEPT ![t] = x]
        /\ sound' = [sound EXCEPT ![t] = Passes(Home[t], x, binds)]
    BY <1>1 DEF Verify, revokeVars, historyVars
  <2>2. SnapshotOK'
    BY <1>0, <2>1 DEF SnapshotOK
  <2>3. ASSUME NEW u \in Thread, pc'[u] \notin {"idle", "raised"}, sound'[u]
        PROVE  PolicyOf[proof'[u]] \notin applied'[Home[u]]
    <3>1. CASE u = t
      <4>1. proof'[u] = x /\ PolicyOf[x] \notin snapshot[Home[t]]
        BY <1>0, <2>1, <2>3, <3>1 DEF TypeOK, Passes
      <4>2. applied[Home[t]] \subseteq snapshot[Home[t]]
        BY <1>0, VerifierAssumption DEF SnapshotOK
      <4> QED
        BY <2>1, <3>1, <4>1, <4>2
    <3>2. CASE u # t
      BY <1>0, <2>1, <2>3, <3>2 DEF TypeOK, RestartAppliesRevocation
    <3> QED
      BY <3>1, <3>2
  <2> QED
    BY <2>2, <2>3 DEF RestartAppliesRevocation
<1>2. ASSUME NEW t \in Thread, Step(t) \/ DiskFull(t)
      PROVE  SnapshotOK' /\ RestartAppliesRevocation'
  <2>1. /\ UNCHANGED <<snapshot, applied, proof, sound>>
        /\ pc[t] \notin {"idle", "raised"}
        /\ \A u \in Thread \ {t} : pc'[u] = pc[u]
    BY <1>0, <1>2
       DEF Step, Look, Add, Insert, InsertTimesOut, Commit, DiskFull, Conclude, TypeOK,
           revokeVars, historyVars
  <2> QED
    BY <1>0, <2>1 DEF SnapshotOK, RestartAppliesRevocation
<1>3. ASSUME NEW p \in Process, Restart(p)
      PROVE  SnapshotOK' /\ RestartAppliesRevocation'
  <2>1. /\ snapshot' = [snapshot EXCEPT ![p] = revoked]
        /\ applied' = [applied EXCEPT ![p] = revoked]
        /\ UNCHANGED <<proof, sound>>
        /\ pc' = [t \in Thread |-> IF Home[t] = p THEN "idle" ELSE pc[t]]
    BY <1>3 DEF Restart, Hydrated
  <2>2. SnapshotOK'
    BY <1>0, <2>1 DEF SnapshotOK, TypeOK
  <2>3. RestartAppliesRevocation'
    BY <1>0, <2>1, VerifierAssumption DEF RestartAppliesRevocation, TypeOK
  <2> QED
    BY <2>2, <2>3
<1>4. ASSUME NEW h \in Policy, Revoke(h) \/ Unrevoke(h)
      PROVE  SnapshotOK' /\ RestartAppliesRevocation'
  <2>1. /\ UNCHANGED <<snapshot, pc, proof, sound>>
        /\ \A p \in Process : applied'[p] \subseteq applied[p]
    BY <1>0, <1>4 DEF Revoke, Unrevoke, callVars, historyVars
  <2>2. \A t \in Thread : Home[t] \in Process
    BY VerifierAssumption
  <2> QED
    BY <1>0, <2>1, <2>2 DEF SnapshotOK, RestartAppliesRevocation
<1>5. CASE UNCHANGED vars
  BY <1>0, <1>5
     DEF SnapshotOK, RestartAppliesRevocation, vars, revokeVars, callVars, historyVars
<1> QED
  BY <1>1, <1>2, <1>3, <1>4, <1>5 DEF Next

\* A restart applies every revocation made before it and not withdrawn: the
\* verifier hydrates its set from RevocationStore.all() when it is made.
THEOREM RestartRevokes == Spec => []RestartAppliesRevocation
<1>1. Init => Inv3
  BY InitInv1 DEF Init, Inv3, SnapshotOK, RestartAppliesRevocation
<1>2. Inv3 /\ [Next]_vars => Inv3'
  BY TypeStep, CallStep, LockStep, RevocationStep DEF Inv3, Inv1
<1>3. Inv3 => RestartAppliesRevocation
  BY DEF Inv3
<1> QED
  BY <1>1, <1>2, <1>3, PTL DEF Spec

-----------------------------------------------------------------------------
(* The guard in memory                                                     *)

Team(p) == {t \in Thread : Home[t] = p}

\* Threads that have seen that the guard of p does not know i yet.
Adders(p, i) == {t \in Team(p) : pc[t] = "add" /\ IdAt(t) = i}

\* Whoever accepts i makes the guard of p remember it, and nobody is let
\* through after that: each acceptance uses up one thread that was racing.
MemoryOK ==
  \A p \in Process \ Durable, i \in Id :
    /\ i \notin memory[p] => local[p][i] = 0
    /\ local[p][i] + Cardinality(Adders(p, i)) <= Cardinality(Team(p))

Inv4 == Inv1 /\ MemoryOK

LEMMA TeamFinite ==
  ASSUME NEW p, NEW i
  PROVE  /\ IsFiniteSet(Team(p)) /\ Cardinality(Team(p)) \in Nat
         /\ IsFiniteSet(Adders(p, i)) /\ Cardinality(Adders(p, i)) \in Nat
         /\ Cardinality(Adders(p, i)) <= Cardinality(Team(p))
<1>1. Team(p) \in SUBSET Thread /\ Adders(p, i) \in SUBSET Team(p)
  BY DEF Team, Adders
<1>2. IsFiniteSet(Team(p))
  BY <1>1, FS_Subset, VerifierAssumption
<1> QED
  BY <1>1, <1>2, FS_Subset, FS_CardinalityType

LEMMA InitMemory == Init => MemoryOK
<1> SUFFICES ASSUME Init, NEW p \in Process \ Durable, NEW i \in Id
             PROVE  /\ local[p][i] = 0
                    /\ local[p][i] + Cardinality(Adders(p, i)) <= Cardinality(Team(p))
  BY DEF MemoryOK
<1>1. local[p][i] = 0
  BY DEF Init
<1> QED
  BY <1>1, TeamFinite

\* A step that leaves the guards alone and starts no race keeps the bound.
LEMMA MemoryKept ==
  ASSUME Inv4, UNCHANGED <<memory, local>>,
         \A t \in Thread : pc'[t] = "add" => pc[t] = "add" /\ proof'[t] = proof[t]
  PROVE  MemoryOK'
<1> SUFFICES ASSUME NEW p \in Process \ Durable, NEW i \in Id
             PROVE  /\ i \notin memory[p] => local[p][i] = 0
                    /\ local[p][i] + Cardinality(Adders(p, i)') <= Cardinality(Team(p))
  BY DEF MemoryOK, Team
<1>1. Adders(p, i)' \in SUBSET Adders(p, i)
  BY DEF Adders, Team, IdAt
<1>2. /\ IsFiniteSet(Adders(p, i)') /\ Cardinality(Adders(p, i)') \in Nat
      /\ Cardinality(Adders(p, i)') <= Cardinality(Adders(p, i))
  BY <1>1, TeamFinite, FS_Subset, FS_CardinalityType
<1>3. /\ i \notin memory[p] => local[p][i] = 0
      /\ local[p][i] + Cardinality(Adders(p, i)) <= Cardinality(Team(p))
      /\ local[p][i] \in Nat
  BY DEF Inv4, Inv1, TypeOK, MemoryOK
<1>4. Cardinality(Adders(p, i)) \in Nat /\ Cardinality(Team(p)) \in Nat
  BY TeamFinite
<1> QED
  BY <1>2, <1>3, <1>4

LEMMA MemoryStep == Inv4 /\ [Next]_vars => MemoryOK'
<1> SUFFICES ASSUME Inv4, [Next]_vars
             PROVE  MemoryOK'
  OBVIOUS
<1>0. /\ TypeOK /\ CallOK /\ LockOK /\ MemoryOK
      /\ pc \in [Thread -> {"idle", "guard", "add", "fresh", "ignored", "done",
                            "replayed", "raised"}]
      /\ memory \in [Process -> SUBSET Id] /\ local \in [Process -> [Id -> Nat]]
  BY DEF Inv4, Inv1, TypeOK
<1>1. ASSUME NEW t \in Thread, NEW x \in Proof, NEW binds \in BOOLEAN, Verify(t, x, binds)
      PROVE  MemoryOK'
  <2>1. /\ UNCHANGED <<memory, local>>
        /\ \A u \in Thread : pc'[u] = "add" => pc[u] = "add" /\ proof'[u] = proof[u]
    BY <1>0, <1>1 DEF Verify, TypeOK, guardVars, historyVars
  <2> QED
    BY <2>1, MemoryKept
<1>2. ASSUME NEW t \in Thread, Look(t)
      PROVE  MemoryOK'
  <2> DEFINE p == Home[t]
             j == IdAt(t)
  <2>1. /\ UNCHANGED memory /\ proof' = proof /\ pc[t] = "guard"
        /\ p \in Process \ Durable /\ j \in Id
    BY <1>0, <1>2, VerifierAssumption, IdType DEF Look, guardVars, InCall
  <2>2. CASE j \in memory[p]
    <3>1. /\ local' = [local EXCEPT ![p][j] = @]
          /\ pc' = [pc EXCEPT ![t] = "replayed"]
      BY <1>2, <2>2 DEF Look, Conclude
    <3>2. local' = local
      BY <1>0, <2>1, <3>1
    <3>3. \A u \in Thread : pc'[u] = "add" => pc[u] = "add"
      BY <1>0, <3>1
    <3> QED
      BY <2>1, <3>2, <3>3, MemoryKept
  <2>3. CASE j \notin memory[p]
    <3>1. UNCHANGED local /\ pc' = [pc EXCEPT ![t] = "add"]
      BY <1>2, <2>3 DEF Look
    <3> SUFFICES ASSUME NEW q \in Process \ Durable, NEW i \in Id
                 PROVE  /\ i \notin memory[q] => local[q][i] = 0
                        /\ local[q][i] + Cardinality(Adders(q, i)') <= Cardinality(Team(q))
      BY <2>1, <3>1 DEF MemoryOK, Team
    <3>2. /\ i \notin memory[q] => local[q][i] = 0
          /\ local[q][i] + Cardinality(Adders(q, i)) <= Cardinality(Team(q))
      BY <1>0 DEF MemoryOK
    <3>3. CASE q = p /\ i = j
      <4>1. local[q][i] = 0
        BY <2>3, <3>2, <3>3
      <4>2. Adders(q, i)' \in SUBSET Team(q)
        BY DEF Adders, Team
      <4>3. /\ Cardinality(Adders(q, i)') <= Cardinality(Team(q))
            /\ Cardinality(Adders(q, i)') \in Nat
        BY <4>2, TeamFinite, FS_Subset, FS_CardinalityType
      <4> QED
        BY <3>2, <4>1, <4>3
    <3>4. CASE ~(q = p /\ i = j)
      <4>1. Adders(q, i)' = Adders(q, i)
        BY <1>0, <2>1, <3>1, <3>4 DEF Adders, Team, IdAt
      <4> QED
        BY <3>2, <4>1
    <3> QED
      BY <3>3, <3>4
  <2> QED
    BY <2>2, <2>3
<1>3. ASSUME NEW t \in Thread, Add(t)
      PROVE  MemoryOK'
  <2> DEFINE p == Home[t]
             j == IdAt(t)
  <2>1. /\ pc[t] = "add" /\ proof' = proof
        /\ p \in Process \ Durable /\ j \in Id
        /\ memory' = [memory EXCEPT ![p] = memory[p] \union {j}]
        /\ pc' = [pc EXCEPT ![t] = "done"]
        /\ local' = [local EXCEPT ![p][j] = IF sound[t] /\ p \notin Durable THEN @ + 1 ELSE @]
    BY <1>0, <1>3, VerifierAssumption, IdType
       DEF Add, Remembered, Conclude, InCall, CallOK, Inv4
  <2> HIDE DEF p, j
  <2> SUFFICES ASSUME NEW q \in Process \ Durable, NEW i \in Id
               PROVE  /\ i \notin memory'[q] => local'[q][i] = 0
                      /\ local'[q][i] + Cardinality(Adders(q, i)') <= Cardinality(Team(q))
    BY DEF MemoryOK, Team
  <2>2. /\ i \notin memory[q] => local[q][i] = 0
        /\ local[q][i] + Cardinality(Adders(q, i)) <= Cardinality(Team(q))
        /\ local[q][i] \in Nat
        /\ Cardinality(Adders(q, i)) \in Nat /\ Cardinality(Team(q)) \in Nat
    BY <1>0, TeamFinite DEF MemoryOK
  <2>3. CASE q = p /\ i = j
    <3>1. t \in Adders(q, i) /\ Adders(q, i)' = Adders(q, i) \ {t}
      BY <1>0, <2>1, <2>3 DEF p, j, Adders, Team, IdAt
    <3>2. Cardinality(Adders(q, i)') = Cardinality(Adders(q, i)) - 1
      BY <3>1, TeamFinite, FS_RemoveElement
    <3>3. local'[q][i] \in {local[q][i], local[q][i] + 1}
      BY <1>0, <2>1, <2>3
    <3>4. i \in memory'[q]
      BY <1>0, <2>1, <2>3
    <3> QED
      BY <2>2, <3>2, <3>3, <3>4
  <2>4. CASE ~(q = p /\ i = j)
    <3>1. Adders(q, i)' = Adders(q, i)
      BY <1>0, <2>1, <2>4 DEF p, j, Adders, Team, IdAt
    <3>2. local'[q][i] = local[q][i] /\ memory[q] \subseteq memory'[q]
      BY <1>0, <2>1, <2>4
    <3> QED
      BY <2>2, <3>1, <3>2
  <2> QED
    BY <2>3, <2>4
<1>4. ASSUME NEW t \in Thread, Insert(t) \/ InsertTimesOut(t) \/ DiskFull(t)
      PROVE  MemoryOK'
  <2>1. /\ UNCHANGED <<memory, local>> /\ proof' = proof
        /\ \A u \in Thread : pc'[u] = "add" => pc[u] = "add"
    BY <1>0, <1>4 DEF Insert, InsertTimesOut, DiskFull, guardVars, historyVars
  <2> QED
    BY <2>1, MemoryKept
<1>5. ASSUME NEW t \in Thread, Commit(t)
      PROVE  MemoryOK'
  <2>1. /\ UNCHANGED memory /\ proof' = proof /\ pc[t] \in {"fresh", "ignored"}
        /\ Conclude(t, pc[t] = "fresh")
    BY <1>5 DEF Commit
  <2>2. Home[t] \in Durable
    BY <1>0, <2>1 DEF LockOK, Holding
  <2>3. /\ local' = [local EXCEPT ![Home[t]][IdAt(t)] = @]
        /\ pc' = [pc EXCEPT ![t] = IF pc[t] = "fresh" THEN "done" ELSE "replayed"]
    BY <2>1, <2>2 DEF Conclude
  <2>4. local' = local
    BY <1>0, <2>3
  <2>5. \A u \in Thread : pc'[u] = "add" => pc[u] = "add"
    BY <1>0, <2>3
  <2> QED
    BY <2>1, <2>4, <2>5, MemoryKept
<1>6. ASSUME NEW p \in Process, Restart(p)
      PROVE  MemoryOK'
  <2>1. /\ memory' = [memory EXCEPT ![p] = {}]
        /\ local' = [local EXCEPT ![p] = [i \in Id |-> 0]]
        /\ proof' = proof
        /\ pc' = [t \in Thread |-> IF Home[t] = p THEN "idle" ELSE pc[t]]
    BY <1>6 DEF Restart
  <2> SUFFICES ASSUME NEW q \in Process \ Durable, NEW i \in Id
               PROVE  /\ i \notin memory'[q] => local'[q][i] = 0
                      /\ local'[q][i] + Cardinality(Adders(q, i)') <= Cardinality(Team(q))
    BY DEF MemoryOK, Team
  <2>2. CASE q = p
    <3>1. local'[q][i] = 0
      BY <1>0, <2>1, <2>2
    <3>2. Adders(q, i)' \in SUBSET Team(q)
      BY DEF Adders, Team
    <3>3. /\ Cardinality(Adders(q, i)') <= Cardinality(Team(q))
          /\ Cardinality(Adders(q, i)') \in Nat
      BY <3>2, TeamFinite, FS_Subset, FS_CardinalityType
    <3> QED
      BY <3>1, <3>3
  <2>3. CASE q # p
    <3>1. memory'[q] = memory[q] /\ local'[q] = local[q]
      BY <1>0, <2>1, <2>3
    <3>2. Adders(q, i)' = Adders(q, i)
      BY <2>1, <2>3 DEF Adders, Team, IdAt
    <3> QED
      BY <1>0, <3>1, <3>2 DEF MemoryOK
  <2> QED
    BY <2>2, <2>3
<1>7. ASSUME NEW h \in Policy, Revoke(h) \/ Unrevoke(h)
      PROVE  MemoryOK'
  BY <1>7, MemoryKept DEF Revoke, Unrevoke, guardVars, callVars, historyVars
<1>8. CASE UNCHANGED vars
  BY <1>8, MemoryKept DEF vars, guardVars, callVars, historyVars
<1> QED
  BY <1>1, <1>2, <1>3, <1>4, <1>5, <1>6, <1>7, <1>8 DEF Next, Step

\* A process with a guard in memory accepts a proof at most as often as it
\* has threads to race between "if pid in self._seen" and "self._seen.add",
\* and so once if it verifies in one thread (ReplayGuard.check_and_record()).
THEOREM OncePerRacingThread == Spec => []MemorySingleUse
<1>1. Init => Inv4
  BY InitInv1, InitMemory DEF Inv4
<1>2. Inv4 /\ [Next]_vars => Inv4'
  BY TypeStep, CallStep, LockStep, MemoryStep DEF Inv4, Inv1
<1>3. Inv4 => MemorySingleUse
  <2> SUFFICES ASSUME Inv4, NEW p \in Process \ Durable, NEW i \in Id
               PROVE  local[p][i] <= Cardinality(Team(p))
    BY DEF MemorySingleUse, Team
  <2>1. /\ local[p][i] \in Nat
        /\ local[p][i] + Cardinality(Adders(p, i)) <= Cardinality(Team(p))
    BY DEF Inv4, Inv1, TypeOK, MemoryOK
  <2> QED
    BY <2>1, TeamFinite
<1> QED
  BY <1>1, <1>2, <1>3, PTL DEF Spec
=============================================================================
