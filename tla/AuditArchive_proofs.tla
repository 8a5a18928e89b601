------------------------- MODULE AuditArchive_proofs -------------------------
(***************************************************************************)
(* Proofs about the audit archive, for any number of processes and threads *)
(* and any bounds.                                                         *)
(***************************************************************************)
EXTENDS AuditArchive, TLAPS

Active(t) == pc[t] \in {"insert", "commit"}

Writing(p) == tx[p] \in {"writing", "stuck"}

\* The in-process lock: a thread inside store() holds the lock of its process.
LockOK == \A t \in Thread : Active(t) => lock[Home[t]] = t /\ proof[t] \in Proof

\* SQLite's write lock: at most one process has uncommitted records.
WriterOK ==
  /\ \A p \in Process : pending[p] # <<>> => Writing(p)
  /\ \A t \in Thread : pc[t] = "commit" => Writing(Home[t])
  /\ \A p, q \in Process : Writing(p) /\ Writing(q) => p = q
  /\ \A p \in Process : p \notin writers => tx[p] = "none"
  /\ \A t \in Thread : Active(t) => Home[t] \in writers
  /\ reads \subseteq readers

Inv1 == TypeOK /\ LockOK /\ WriterOK

-----------------------------------------------------------------------------

LEMMA HeadType ==
  ASSUME NEW s \in Seq(Records)
  PROVE  HeadOf(s) \in Seq(Proof)
<1>1. CASE s = <<>>
  BY <1>1 DEF HeadOf, Genesis
<1>2. CASE s # <<>>
  <2>1. Len(s) \in DOMAIN s
    BY <1>2
  <2>2. Last(s) = s[Len(s)]
    BY DEF Last
  <2>3. s[Len(s)] \in Records
    BY <2>1
  <2> QED
    BY <1>2, <2>2, <2>3 DEF HeadOf, Records
<1> QED
  BY <1>1, <1>2

LEMMA InitInv1 == Init => Inv1
BY ArchiveAssumption
   DEF Init, Inv1, TypeOK, LockOK, WriterOK, Active, Writing, Genesis, Records

LEMMA TypeStep == Inv1 /\ [Next]_vars => TypeOK'
<1> SUFFICES ASSUME TypeOK, LockOK, [Next]_vars
             PROVE  TypeOK'
  BY DEF Inv1
<1> USE ArchiveAssumption
<1>1. ASSUME NEW t \in Thread, NEW x \in Proof, ReadHead(t, x)
      PROVE  TypeOK'
  <2> DEFINE p == Home[t]
  <2>1. p \in Process
    OBVIOUS
  <2>2. HeadOf(Visible(p)) \in Seq(Proof)
    <3>1. rows \o pending[p] \in Seq(Records)
      BY <2>1 DEF TypeOK
    <3> QED
      BY <3>1, HeadType DEF Visible
  <2>3. AfterRead(p) \in {"none", "begun", "reading", "writing", "stuck"}
    BY <2>1 DEF AfterRead, TypeOK
  <2> HIDE DEF p
  <2>4. tx' \in [Process -> {"none", "begun", "reading", "writing", "stuck"}]
    BY <1>1, <2>3 DEF ReadHead, TypeOK, p
  <2>5. prev' \in [Thread -> Seq(Proof)]
    BY <1>1, <2>2 DEF ReadHead, TypeOK, p
  <2>6. \/ lock' = [lock EXCEPT ![p] = None] /\ pc' = [pc EXCEPT ![t] = "raised"]
        \/ lock' = [lock EXCEPT ![p] = t] /\ pc' = [pc EXCEPT ![t] = "insert"]
    BY <1>1, Zenon DEF ReadHead, End, Hold, p
  <2>7. /\ lock' \in [Process -> Thread \union {None}]
        /\ pc' \in [Thread -> {"idle", "insert", "commit", "stored", "raised"}]
    <3>1. ASSUME lock' = [lock EXCEPT ![p] = None], pc' = [pc EXCEPT ![t] = "raised"]
          PROVE  /\ lock' \in [Process -> Thread \union {None}]
                 /\ pc' \in [Thread -> {"idle", "insert", "commit", "stored", "raised"}]
      BY <3>1 DEF TypeOK
    <3>2. ASSUME lock' = [lock EXCEPT ![p] = t], pc' = [pc EXCEPT ![t] = "insert"]
          PROVE  /\ lock' \in [Process -> Thread \union {None}]
                 /\ pc' \in [Thread -> {"idle", "insert", "commit", "stored", "raised"}]
      BY <3>2 DEF TypeOK
    <3> QED
      BY <2>6, <3>1, <3>2
  <2>8. proof' \in [Thread -> Proof \union {None}] /\ writers' \subseteq Process
    BY <1>1, <2>1 DEF ReadHead, TypeOK, p
  <2>9. UNCHANGED <<rows, pending, reads, acked, overdue, readers, faults>> /\ stores' \in Nat
    BY <1>1 DEF ReadHead, TypeOK
  <2> QED
    BY <2>4, <2>5, <2>7, <2>8, <2>9 DEF TypeOK
<1>2. ASSUME NEW t \in Thread, Insert(t)
      PROVE  TypeOK'
  <2> DEFINE record == [proof |-> proof[t], prev |-> prev[t],
                        entry |-> EntryHash(prev[t], proof[t])]
  <2>1. proof[t] \in Proof /\ prev[t] \in Seq(Proof)
    BY <1>2 DEF TypeOK, LockOK, Active, Insert
  <2>2. record \in Records
    BY <2>1 DEF Records, EntryHash
  <2> HIDE DEF record
  <2>3. pending' = [pending EXCEPT ![Home[t]] = Append(@, record)]
    BY <1>2 DEF Insert, record
  <2>4. pending' \in [Process -> Seq(Records)]
    BY <2>2, <2>3 DEF TypeOK
  <2>5. tx' \in [Process -> {"none", "begun", "reading", "writing", "stuck"}]
    BY <1>2 DEF Insert, TypeOK
  <2> QED
    BY <1>2, <2>4, <2>5 DEF TypeOK, Insert, localVars, historyVars, countVars
<1>3. ASSUME NEW t \in Thread, InsertTimesOut(t)
      PROVE  TypeOK'
  <2>1. tx' \in [Process -> {"none", "begun", "reading", "writing", "stuck"}]
    BY <1>3 DEF InsertTimesOut, TypeOK, AfterBusyInsert
  <2> QED
    BY <1>3, <2>1
       DEF TypeOK, InsertTimesOut, End, localVars, historyVars, countVars
<1>4. ASSUME NEW t \in Thread, Commit(t)
      PROVE  TypeOK'
  <2>1. proof[t] \in Proof
    BY <1>4 DEF LockOK, Active, Commit
  <2>2. rows' \in Seq(Records)
    BY <1>4 DEF Commit, TypeOK
  <2> QED
    BY <1>4, <2>1, <2>2 DEF TypeOK, Commit, End, localVars, countVars
<1>5. ASSUME NEW t \in Thread, CommitTimesOut(t)
      PROVE  TypeOK'
  <2>1. proof[t] \in Proof
    BY <1>5 DEF LockOK, Active, CommitTimesOut
  <2> QED
    BY <1>5, <2>1 DEF TypeOK, CommitTimesOut, End, localVars, countVars
<1>6. ASSUME NEW t \in Thread, DiskFull(t)
      PROVE  TypeOK'
  BY <1>6 DEF TypeOK, DiskFull, End, localVars, historyVars
<1>7. ASSUME NEW p \in Process, Crash(p)
      PROVE  TypeOK'
  BY <1>7 DEF TypeOK, Crash, localVars, historyVars
<1>8. ASSUME NEW p \in Process, Close(p)
      PROVE  TypeOK'
  BY <1>8 DEF TypeOK, Close, localVars, historyVars
<1>9. ASSUME NEW p \in Process, BeginRead(p) \/ EndRead(p)
      PROVE  TypeOK'
  BY <1>9 DEF TypeOK, BeginRead, EndRead, AfterRead, fileVars, localVars, historyVars,
              countVars
<1>10. CASE UNCHANGED vars
  BY <1>10 DEF TypeOK, vars, fileVars, localVars, historyVars, countVars
<1> QED
  BY <1>1, <1>2, <1>3, <1>4, <1>5, <1>6, <1>7, <1>8, <1>9, <1>10 DEF Next, Step

\* A thread enters store() only when the lock of its process is free, and
\* every way out of it, a crash included, releases the lock.
LEMMA LockStep == Inv1 /\ [Next]_vars => LockOK'
<1> SUFFICES ASSUME TypeOK, LockOK, [Next]_vars,
                    NEW u \in Thread, Active(u)'
             PROVE  lock[Home[u]]' = u /\ proof[u]' \in Proof
  BY DEF Inv1, LockOK
<1> USE ArchiveAssumption
<1>1. ASSUME NEW t \in Thread, NEW x \in Proof, ReadHead(t, x)
      PROVE  lock[Home[u]]' = u /\ proof[u]' \in Proof
  <2>1. \/ lock' = [lock EXCEPT ![Home[t]] = None] /\ pc' = [pc EXCEPT ![t] = "raised"]
        \/ lock' = [lock EXCEPT ![Home[t]] = t] /\ pc' = [pc EXCEPT ![t] = "insert"]
    BY <1>1, Zenon DEF ReadHead, End, Hold
  <2>2. lock[Home[t]] = None /\ proof' = [proof EXCEPT ![t] = x]
    BY <1>1 DEF ReadHead, Unlocked
  <2>3. CASE u = t
    BY <2>1, <2>2, <2>3 DEF Active, TypeOK
  <2>4. CASE u # t
    <3>1. Active(u)
      BY <2>1, <2>4 DEF Active, TypeOK
    <3>2. Home[u] # Home[t]
      BY <2>2, <3>1 DEF LockOK
    <3> QED
      BY <2>1, <2>2, <2>4, <3>1, <3>2 DEF LockOK, TypeOK
  <2> QED
    BY <2>3, <2>4
<1>2. ASSUME NEW t \in Thread, Active(t), pc' = [pc EXCEPT ![t] = "commit"],
             UNCHANGED <<lock, proof>>
      PROVE  lock[Home[u]]' = u /\ proof[u]' \in Proof
  BY <1>2 DEF LockOK, TypeOK, Active
<1>3. ASSUME NEW t \in Thread, Active(t), NEW how \in {"stored", "raised"},
             End(t, how), UNCHANGED proof
      PROVE  lock[Home[u]]' = u /\ proof[u]' \in Proof
  <2>1. u # t /\ Active(u)
    BY <1>3 DEF End, Active, TypeOK
  <2>2. Home[u] # Home[t]
    BY <1>3, <2>1 DEF LockOK
  <2> QED
    BY <1>3, <2>1, <2>2 DEF End, LockOK, TypeOK
<1>4. ASSUME NEW p \in Process, Crash(p)
      PROVE  lock[Home[u]]' = u /\ proof[u]' \in Proof
  <2>1. Home[u] # p /\ Active(u)
    BY <1>4 DEF Crash, Active
  <2> QED
    BY <1>4, <2>1 DEF Crash, LockOK, TypeOK, localVars
<1>5. ASSUME UNCHANGED <<lock, pc, proof>>
      PROVE  lock[Home[u]]' = u /\ proof[u]' \in Proof
  BY <1>5 DEF LockOK, Active
<1>6. ASSUME NEW t \in Thread, Insert(t)
      PROVE  lock[Home[u]]' = u /\ proof[u]' \in Proof
  BY <1>2, <1>6 DEF Insert, Active, localVars
<1>7. ASSUME NEW t \in Thread, InsertTimesOut(t) \/ CommitTimesOut(t) \/ DiskFull(t)
      PROVE  lock[Home[u]]' = u /\ proof[u]' \in Proof
  <2>1. Active(t) /\ End(t, "raised") /\ UNCHANGED proof
    BY <1>7 DEF InsertTimesOut, CommitTimesOut, DiskFull, Active, localVars
  <2> QED
    BY <1>3, <2>1
<1>8. ASSUME NEW t \in Thread, Commit(t)
      PROVE  lock[Home[u]]' = u /\ proof[u]' \in Proof
  <2>1. Active(t) /\ End(t, "stored") /\ UNCHANGED proof
    BY <1>8 DEF Commit, Active, localVars
  <2> QED
    BY <1>3, <2>1
<1>9. ASSUME NEW p \in Process, Close(p) \/ BeginRead(p) \/ EndRead(p)
      PROVE  UNCHANGED <<lock, pc, proof>>
  BY <1>9 DEF Close, BeginRead, EndRead, localVars
<1>10. CASE UNCHANGED vars
  BY <1>5, <1>10 DEF vars, localVars
<1> QED
  BY <1>1, <1>4, <1>5, <1>6, <1>7, <1>8, <1>9, <1>10 DEF Next, Step

\* Only the process that may insert has uncommitted records, and only a
\* process that has called store() has a transaction open.
LEMMA WriterStep == Inv1 /\ [Next]_vars => WriterOK'
<1> SUFFICES ASSUME TypeOK, LockOK, WriterOK, [Next]_vars
             PROVE  WriterOK'
  BY DEF Inv1
<1> USE ArchiveAssumption
<1>1. ASSUME NEW t \in Thread, NEW x \in Proof, ReadHead(t, x)
      PROVE  WriterOK'
  <2>1. pc' = [pc EXCEPT ![t] = "raised"] \/ pc' = [pc EXCEPT ![t] = "insert"]
    BY <1>1, Zenon DEF ReadHead, End
  <2>2. /\ \A p \in Process : p # Home[t] => tx'[p] = tx[p]
        /\ \/ tx'[Home[t]] = tx[Home[t]]
           \/ (tx[Home[t]] = "begun" /\ tx'[Home[t]] = "reading")
    <3>1. tx' = tx \/ tx' = [tx EXCEPT ![Home[t]] = AfterRead(Home[t])]
      BY <1>1 DEF ReadHead
    <3>2. Home[t] \in Process
      OBVIOUS
    <3>3. CASE tx' = tx
      BY <3>3
    <3>4. CASE tx' = [tx EXCEPT ![Home[t]] = AfterRead(Home[t])]
      BY <3>2, <3>4 DEF AfterRead, TypeOK
    <3> QED
      BY <3>1, <3>3, <3>4
  <2>3. /\ writers' = writers \union {Home[t]} /\ pending' = pending
        /\ UNCHANGED <<reads, readers>>
    BY <1>1 DEF ReadHead
  <2>4. \A p \in Process : Writing(p)' <=> Writing(p)
    BY <2>2 DEF Writing
  <2>5. \A u \in Thread : /\ pc'[u] = "commit" => pc[u] = "commit"
                          /\ Active(u)' => Active(u) \/ u = t
    BY <2>1 DEF Active, TypeOK
  <2>6. \A p \in Process : p \notin writers' => tx'[p] = "none"
    BY <2>2, <2>3 DEF WriterOK
  <2> QED
    BY <2>3, <2>4, <2>5, <2>6 DEF WriterOK
<1>2. ASSUME NEW t \in Thread, Insert(t)
      PROVE  WriterOK'
  <2>1. /\ \A p \in Process : p # Home[t] => tx'[p] = tx[p] /\ pending'[p] = pending[p]
        /\ Writing(Home[t])'
    BY <1>2 DEF Insert, TypeOK, Writing
  <2>2. \A p \in Process : p # Home[t] => ~Writing(p)
    BY <1>2 DEF Insert, InsertBlocked, Others, Writing
  <2>3. pc' = [pc EXCEPT ![t] = "commit"] /\ pc[t] = "insert"
        /\ UNCHANGED <<writers, reads, readers>>
    BY <1>2 DEF Insert, historyVars
  <2>4. \A u \in Thread : /\ pc'[u] = "commit" => pc[u] = "commit" \/ u = t
                          /\ Active(u)' => Active(u)
    BY <2>3 DEF Active, TypeOK
  <2>5. \A p \in Process : p # Home[t] => ~Writing(p)'
    BY <2>1, <2>2 DEF Writing
  <2>6. Home[t] \in writers
    BY <2>3 DEF WriterOK, Active
  <2>7. \A p \in Process : p \notin writers' => tx'[p] = "none"
    BY <2>1, <2>3, <2>6 DEF WriterOK
  <2>8. \A p \in Process : pending'[p] # <<>> => Writing(p)'
    BY <2>1, <2>2 DEF WriterOK
  <2>9. \A u \in Thread : pc'[u] = "commit" => Writing(Home[u])'
    BY <2>1, <2>2, <2>4 DEF WriterOK
  <2> QED
    BY <2>1, <2>3, <2>4, <2>5, <2>7, <2>8, <2>9 DEF WriterOK
<1>3. ASSUME NEW t \in Thread, InsertTimesOut(t)
      PROVE  WriterOK'
  <2>1. \A p \in Process : tx'[p] = tx[p] \/ (tx[p] = "none" /\ tx'[p] = "begun" /\ p = Home[t])
    BY <1>3 DEF InsertTimesOut, AfterBusyInsert, TypeOK
  <2>2. /\ pc[t] = "insert" /\ pc' = [pc EXCEPT ![t] = "raised"]
        /\ pending' = pending /\ UNCHANGED <<writers, reads, readers>>
    BY <1>3 DEF InsertTimesOut, End, historyVars
  <2>3. \A p \in Process : Writing(p)' <=> Writing(p)
    BY <2>1 DEF Writing
  <2>4. \A u \in Thread : /\ pc'[u] = "commit" => pc[u] = "commit"
                          /\ Active(u)' => Active(u)
    BY <2>2 DEF Active, TypeOK
  <2>5. Home[t] \in writers
    BY <2>2 DEF WriterOK, Active
  <2>6. \A p \in Process : p \notin writers' => tx'[p] = "none"
    BY <2>1, <2>2, <2>5 DEF WriterOK
  <2> QED
    BY <2>2, <2>3, <2>4, <2>6 DEF WriterOK
<1>4. ASSUME NEW t \in Thread, NEW how, End(t, how), how \notin {"insert", "commit"},
             Active(t), pending' = [pending EXCEPT ![Home[t]] = <<>>],
             tx' = [tx EXCEPT ![Home[t]] = "none"],
             UNCHANGED <<writers, reads, readers>>
      PROVE  WriterOK'
  <2>1. \A u \in Thread : Active(u)' => u # t /\ pc'[u] = pc[u] /\ Home[u] # Home[t]
    BY <1>4 DEF End, Active, LockOK, TypeOK
  <2> QED
    BY <1>4, <2>1 DEF WriterOK, Writing, Active, TypeOK
<1>5. ASSUME NEW t \in Thread, CommitTimesOut(t)
      PROVE  WriterOK'
  <2>1. /\ pc[t] = "commit" /\ pc' = [pc EXCEPT ![t] = "raised"]
        /\ pending' = pending /\ UNCHANGED <<writers, reads, readers>>
        /\ tx' = [tx EXCEPT ![Home[t]] = "stuck"]
    BY <1>5 DEF CommitTimesOut, End
  <2> QED
    BY <2>1 DEF WriterOK, Writing, Active, TypeOK
<1>6. ASSUME NEW p \in Process, Crash(p)
      PROVE  WriterOK'
  BY <1>6 DEF Crash, WriterOK, Writing, Active, TypeOK, historyVars
<1>7. ASSUME NEW p \in Process, Close(p)
      PROVE  WriterOK'
  <2>1. \A u \in Thread : Active(u) => Home[u] # p
    BY <1>7 DEF Close, Unlocked, LockOK
  <2> QED
    BY <1>7, <2>1 DEF Close, WriterOK, Writing, Active, TypeOK, historyVars
<1>8. ASSUME NEW p \in Process, BeginRead(p) \/ EndRead(p)
      PROVE  WriterOK'
  <2>1. CASE BeginRead(p)
    BY <2>1 DEF BeginRead, AfterRead, WriterOK, Writing, Active, TypeOK
  <2>2. CASE EndRead(p)
    BY <2>2 DEF EndRead, WriterOK, Writing, Active, fileVars, historyVars
  <2> QED
    BY <1>8, <2>1, <2>2
<1>9. ASSUME NEW t \in Thread, Commit(t) \/ DiskFull(t)
      PROVE  WriterOK'
  <2>1. Commit(t) => End(t, "stored")
    BY DEF Commit
  <2>2. DiskFull(t) => End(t, "raised")
    BY DEF DiskFull
  <2>3. /\ Active(t) /\ pending' = [pending EXCEPT ![Home[t]] = <<>>]
        /\ tx' = [tx EXCEPT ![Home[t]] = "none"]
        /\ UNCHANGED <<writers, reads, readers>>
    BY <1>9 DEF Commit, DiskFull, Active, historyVars
  <2> QED
    BY <1>4, <1>9, <2>1, <2>2, <2>3
<1>10. CASE UNCHANGED vars
  BY <1>10 DEF vars, fileVars, historyVars, WriterOK, Writing, Active
<1> QED
  BY <1>1, <1>2, <1>3, <1>5, <1>6, <1>7, <1>8, <1>9, <1>10 DEF Next, Step

LEMMA Inv1Invariant == Spec => []Inv1
<1>1. Inv1 /\ [Next]_vars => Inv1'
  BY TypeStep, LockStep, WriterStep DEF Inv1
<1> QED
  BY InitInv1, <1>1, PTL DEF Spec

\* Type correctness of the archive's state.
THEOREM TypeCorrect == Spec => []TypeOK
BY Inv1Invariant, PTL DEF Inv1

-----------------------------------------------------------------------------
(* The chain, with any number of writers                                   *)

\* h is the genesis or the hash of a record of s.
Follows(h, s) == h = Genesis \/ \E j \in DOMAIN s : s[j].entry = h

Linked(s) ==
  \A i \in DOMAIN s :
    /\ ~Tampered(s, i)
    /\ s[i].prev = Genesis \/ \E j \in 1..(i - 1) : s[j].entry = s[i].prev

LinkOK ==
  /\ Linked(rows)
  /\ \A p \in Process : Linked(rows \o pending[p])
  /\ \A t \in Thread : pc[t] = "insert" => Follows(prev[t], rows \o pending[Home[t]])

LEMMA HeadFollows ==
  ASSUME NEW s \in Seq(Records)
  PROVE  Follows(HeadOf(s), s)
<1>1. CASE s = <<>>
  BY <1>1 DEF Follows, HeadOf
<1>2. CASE s # <<>>
  <2>1. Len(s) \in DOMAIN s /\ HeadOf(s) = s[Len(s)].entry
    BY <1>2 DEF HeadOf, Last
  <2> QED
    BY <2>1 DEF Follows
<1> QED
  BY <1>1, <1>2

LEMMA FollowsLonger ==
  ASSUME NEW s \in Seq(Records), NEW u \in Seq(Records), NEW h, Follows(h, s)
  PROVE  Follows(h, s \o u)
<1>1. CASE h = Genesis
  BY <1>1 DEF Follows
<1>2. ASSUME NEW j \in DOMAIN s, s[j].entry = h
      PROVE  Follows(h, s \o u)
  <2>1. j \in DOMAIN (s \o u) /\ (s \o u)[j] = s[j]
    OBVIOUS
  <2> QED
    BY <1>2, <2>1 DEF Follows
<1> QED
  BY <1>1, <1>2 DEF Follows

LEMMA LinkedAppend ==
  ASSUME NEW s \in Seq(Records), Linked(s), NEW r \in Records,
         r.entry = EntryHash(r.prev, r.proof), Follows(r.prev, s)
  PROVE  Linked(Append(s, r))
<1> DEFINE a == Append(s, r)
<1>1. /\ DOMAIN a = 1..(Len(s) + 1)
      /\ \A i \in 1..Len(s) : a[i] = s[i]
      /\ a[Len(s) + 1] = r
      /\ Len(s) \in Nat /\ DOMAIN s = 1..Len(s)
  OBVIOUS
<1> HIDE DEF a
<1>2. ASSUME NEW i \in 1..Len(s)
      PROVE  /\ ~Tampered(a, i)
             /\ a[i].prev = Genesis \/ \E j \in 1..(i - 1) : a[j].entry = a[i].prev
  <2>1. a[i] = s[i] /\ \A j \in 1..(i - 1) : a[j] = s[j]
    BY <1>1
  <2>2. /\ ~Tampered(s, i)
        /\ s[i].prev = Genesis \/ \E j \in 1..(i - 1) : s[j].entry = s[i].prev
    BY <1>1 DEF Linked
  <2> QED
    BY <2>1, <2>2 DEF Tampered
<1>3. /\ ~Tampered(a, Len(s) + 1)
      /\ \/ a[Len(s) + 1].prev = Genesis
         \/ \E j \in 1..Len(s) : a[j].entry = a[Len(s) + 1].prev
  BY <1>1 DEF Tampered, Follows
<1> QED
  BY <1>1, <1>2, <1>3 DEF Linked, a

LEMMA InitLinkOK == Init => LinkOK
BY ArchiveAssumption DEF Init, LinkOK, Linked

LEMMA LinkStep == Inv1 /\ LinkOK /\ [Next]_vars => LinkOK'
<1> SUFFICES ASSUME TypeOK, LockOK, WriterOK, LinkOK, [Next]_vars
             PROVE  LinkOK'
  BY DEF Inv1
<1> USE ArchiveAssumption
<1>a. \A p \in Process : rows \o pending[p] \in Seq(Records)
  BY DEF TypeOK
<1>b. rows \o <<>> = rows
  BY DEF TypeOK
<1>1. ASSUME NEW t \in Thread, NEW x \in Proof, ReadHead(t, x)
      PROVE  LinkOK'
  <2>1. UNCHANGED <<rows, pending>>
    BY <1>1 DEF ReadHead
  <2>2. ASSUME NEW u \in Thread, pc'[u] = "insert"
        PROVE  Follows(prev'[u], rows \o pending[Home[u]])
    <3>1. CASE u # t
      <4>1. pc[u] = "insert" /\ prev'[u] = prev[u]
        <5>1. \/ pc' = [pc EXCEPT ![t] = "raised"]
              \/ pc' = [pc EXCEPT ![t] = "insert"]
          BY <1>1, Zenon DEF ReadHead, End
        <5>2. prev' = prev \/ prev' = [prev EXCEPT ![t] = HeadOf(Visible(Home[t]))]
          BY <1>1 DEF ReadHead
        <5> QED
          BY <2>2, <3>1, <5>1, <5>2 DEF TypeOK
      <4> QED
        BY <4>1 DEF LinkOK
    <3>2. CASE u = t
      <4>1. prev' = [prev EXCEPT ![t] = HeadOf(Visible(Home[t]))]
        <5>1. \/ pc' = [pc EXCEPT ![t] = "raised"]
              \/ prev' = [prev EXCEPT ![t] = HeadOf(Visible(Home[t]))]
          BY <1>1, Zenon DEF ReadHead, End
        <5> QED
          BY <2>2, <3>2, <5>1 DEF TypeOK
      <4>2. prev'[t] = HeadOf(rows \o pending[Home[t]])
        BY <4>1 DEF TypeOK, Visible
      <4> QED
        BY <1>a, <3>2, <4>2, HeadFollows
    <3> QED
      BY <3>1, <3>2
  <2> QED
    BY <2>1, <2>2 DEF LinkOK
<1>2. ASSUME NEW t \in Thread, Insert(t)
      PROVE  LinkOK'
  <2> DEFINE p == Home[t]
             r == [proof |-> proof[t], prev |-> prev[t],
                   entry |-> EntryHash(prev[t], proof[t])]
  <2>1. p \in Process /\ r \in Records
    BY <1>2 DEF TypeOK, LockOK, Active, Insert, Records, EntryHash
  <2>2. r.entry = EntryHash(r.prev, r.proof) /\ r.prev = prev[t]
    OBVIOUS
  <2>3. /\ pending' = [pending EXCEPT ![p] = Append(@, r)]
        /\ pc' = [pc EXCEPT ![t] = "commit"]
        /\ pc[t] = "insert" /\ rows' = rows /\ prev' = prev
    BY <1>2 DEF Insert, localVars
  <2>4. Follows(prev[t], rows \o pending[p])
    BY <2>3 DEF LinkOK
  <2> HIDE DEF r, p
  <2>5. Linked(Append(rows \o pending[p], r))
    BY <1>a, <2>1, <2>2, <2>4, LinkedAppend DEF LinkOK
  <2>6. rows \o Append(pending[p], r) = Append(rows \o pending[p], r)
    BY <2>1 DEF TypeOK
  <2>7. ASSUME NEW q \in Process
        PROVE  Linked(rows' \o pending'[q])
    <3>1. CASE q = p
      BY <2>1, <2>3, <2>5, <2>6, <3>1 DEF TypeOK
    <3>2. CASE q # p
      BY <2>1, <2>3, <3>2 DEF TypeOK, LinkOK
    <3> QED
      BY <3>1, <3>2
  <2>8. ASSUME NEW u \in Thread, pc'[u] = "insert"
        PROVE  Follows(prev'[u], rows' \o pending'[Home[u]])
    <3>1. u # t /\ pc[u] = "insert"
      BY <2>3, <2>8 DEF TypeOK
    <3>2. Home[u] # Home[t]
      BY <2>3, <3>1 DEF LockOK, Active
    <3>3. pending'[Home[u]] = pending[Home[u]]
      BY <2>3, <3>2 DEF TypeOK, p
    <3> QED
      BY <2>3, <3>1, <3>3 DEF LinkOK
  <2> QED
    BY <2>3, <2>7, <2>8 DEF LinkOK
<1>3. ASSUME NEW t \in Thread, Commit(t)
      PROVE  LinkOK'
  <2>1. /\ pc[t] = "commit" /\ pc' = [pc EXCEPT ![t] = "stored"]
        /\ rows' = rows \o pending[Home[t]]
        /\ pending' = [pending EXCEPT ![Home[t]] = <<>>]
        /\ prev' = prev
    BY <1>3 DEF Commit, End, localVars
  <2>2. \A q \in Process : q # Home[t] => pending[q] = <<>>
    BY <2>1 DEF WriterOK
  <2>3. \A q \in Process : pending'[q] = <<>>
    BY <2>1, <2>2 DEF TypeOK
  <2>4. rows' \o <<>> = rows'
    BY <1>a, <2>1
  <2>5. Linked(rows')
    BY <2>1 DEF LinkOK
  <2>6. ASSUME NEW u \in Thread, pc'[u] = "insert"
        PROVE  Follows(prev'[u], rows' \o pending'[Home[u]])
    <3>1. u # t /\ pc[u] = "insert"
      BY <2>1, <2>6 DEF TypeOK
    <3>2. Home[u] # Home[t]
      BY <2>1, <3>1 DEF LockOK, Active
    <3>3. Follows(prev[u], rows \o <<>>)
      BY <2>2, <3>1, <3>2 DEF LinkOK
    <3>4. Follows(prev[u], rows \o pending[Home[t]])
      BY <1>b, <3>3, FollowsLonger DEF TypeOK
    <3> QED
      BY <2>1, <2>3, <2>4, <3>4
  <2> QED
    BY <2>3, <2>4, <2>5, <2>6 DEF LinkOK
<1>4. ASSUME NEW p \in Process, pending' = [pending EXCEPT ![p] = <<>>],
             UNCHANGED <<rows, prev>>,
             \A u \in Thread : pc'[u] = "insert" => pc[u] = "insert" /\ Home[u] # p
      PROVE  LinkOK'
  <2>1. \A q \in Process : \/ pending'[q] = pending[q]
                            \/ pending'[q] = <<>>
    BY <1>4 DEF TypeOK
  <2>2. \A u \in Thread : pc'[u] = "insert" => pending'[Home[u]] = pending[Home[u]]
    BY <1>4 DEF TypeOK
  <2> QED
    BY <1>4, <1>b, <2>1, <2>2 DEF LinkOK
<1>5. ASSUME NEW t \in Thread, DiskFull(t)
      PROVE  LinkOK'
  <2>1. /\ Active(t) /\ pc' = [pc EXCEPT ![t] = "raised"]
        /\ pending' = [pending EXCEPT ![Home[t]] = <<>>]
        /\ UNCHANGED <<rows, prev>>
    BY <1>5 DEF DiskFull, End, Active, localVars
  <2>2. \A u \in Thread : pc'[u] = "insert" => pc[u] = "insert" /\ Home[u] # Home[t]
    BY <2>1 DEF LockOK, Active, TypeOK
  <2> QED
    BY <1>4, <2>1, <2>2
<1>6. ASSUME NEW p \in Process, Crash(p)
      PROVE  LinkOK'
  <2>1. \A u \in Thread : pc'[u] = "insert" => pc[u] = "insert" /\ Home[u] # p
    BY <1>6 DEF Crash
  <2> QED
    BY <1>4, <1>6, <2>1 DEF Crash, localVars
<1>7. ASSUME NEW p \in Process, Close(p)
      PROVE  LinkOK'
  <2>1. \A u \in Thread : pc'[u] = "insert" => pc[u] = "insert" /\ Home[u] # p
    BY <1>7 DEF Close, Unlocked, LockOK, Active
  <2> QED
    BY <1>4, <1>7, <2>1 DEF Close, localVars
<1>8. ASSUME UNCHANGED <<rows, pending, prev>>,
             \A u \in Thread : pc'[u] = "insert" => pc[u] = "insert"
      PROVE  LinkOK'
  BY <1>8 DEF LinkOK
<1>9. ASSUME NEW t \in Thread, InsertTimesOut(t) \/ CommitTimesOut(t)
      PROVE  LinkOK'
  BY <1>8, <1>9 DEF InsertTimesOut, CommitTimesOut, End, localVars, TypeOK
<1>10. ASSUME NEW p \in Process, BeginRead(p) \/ EndRead(p)
       PROVE  LinkOK'
  BY <1>8, <1>10 DEF BeginRead, EndRead, fileVars, localVars
<1>11. CASE UNCHANGED vars
  BY <1>8, <1>11 DEF vars, fileVars, localVars
<1> QED
  BY <1>1, <1>2, <1>3, <1>5, <1>6, <1>7, <1>9, <1>10, <1>11 DEF Next, Step

\* Every record hashes its own contents and follows the genesis or an earlier
\* record, however many processes write to the file.
THEOREM ChainNeverTampered == Spec => []LinksBack
<1>1. LinkOK => LinksBack
  BY DEF LinkOK, Linked, LinksBack
<1> QED
  BY InitLinkOK, LinkStep, Inv1Invariant, <1>1, PTL DEF Spec

-----------------------------------------------------------------------------
(* The archive implements the append-only, durable log                     *)

ProofsOf(s) == {s[i].proof : i \in DOMAIN s}

\* What store() is about to acknowledge is among the records it commits.
AckedOK ==
  /\ acked \subseteq ProofsOf(rows)
  /\ \A t \in Thread : pc[t] = "commit" => proof[t] \in ProofsOf(pending[Home[t]])

LEMMA ProofsOfConcat ==
  ASSUME NEW s \in Seq(Records), NEW u \in Seq(Records)
  PROVE  ProofsOf(s \o u) = ProofsOf(s) \union ProofsOf(u)
<1> DEFINE a == s \o u
<1>1. /\ DOMAIN a = 1..(Len(s) + Len(u)) /\ DOMAIN s = 1..Len(s) /\ DOMAIN u = 1..Len(u)
      /\ \A i \in 1..Len(s) : a[i] = s[i]
      /\ Len(s) \in Nat /\ Len(u) \in Nat
  OBVIOUS
<1>2. \A i \in 1..Len(u) : a[Len(s) + i] = u[i]
  OBVIOUS
<1>3. \A i \in DOMAIN a : i \notin 1..Len(s) => i - Len(s) \in 1..Len(u) /\ a[i] = u[i - Len(s)]
  OBVIOUS
<1> HIDE DEF a
<1>4. ProofsOf(a) \subseteq ProofsOf(s) \union ProofsOf(u)
  BY <1>1, <1>3 DEF ProofsOf
<1>5. ProofsOf(s) \subseteq ProofsOf(a)
  BY <1>1 DEF ProofsOf
<1>6. ProofsOf(u) \subseteq ProofsOf(a)
  <2>1. \A i \in 1..Len(u) : Len(s) + i \in DOMAIN a
    BY <1>1
  <2> QED
    BY <1>1, <1>2, <2>1 DEF ProofsOf
<1> QED
  BY <1>4, <1>5, <1>6 DEF a

LEMMA AckedStep == Inv1 /\ AckedOK /\ [Next]_vars => AckedOK'
<1> SUFFICES ASSUME TypeOK, LockOK, WriterOK, AckedOK, [Next]_vars
             PROVE  AckedOK'
  BY DEF Inv1
<1> USE ArchiveAssumption
<1>1. ASSUME NEW t \in Thread, Insert(t)
      PROVE  AckedOK'
  <2> DEFINE p == Home[t]
             r == [proof |-> proof[t], prev |-> prev[t],
                   entry |-> EntryHash(prev[t], proof[t])]
  <2>1. p \in Process /\ r \in Records /\ r.proof = proof[t]
    BY <1>1 DEF TypeOK, LockOK, Active, Insert, Records, EntryHash
  <2>2. /\ pending' = [pending EXCEPT ![p] = Append(@, r)]
        /\ pc' = [pc EXCEPT ![t] = "commit"] /\ pc[t] = "insert"
        /\ UNCHANGED <<rows, acked, proof>>
    BY <1>1 DEF Insert, localVars, historyVars
  <2> HIDE DEF p, r
  <2>3. proof[t] \in ProofsOf(Append(pending[p], r))
    <3>1. /\ Len(pending[p]) + 1 \in DOMAIN Append(pending[p], r)
          /\ Append(pending[p], r)[Len(pending[p]) + 1] = r
      BY <2>1 DEF TypeOK
    <3> QED
      BY <2>1, <3>1 DEF ProofsOf
  <2>4. pending'[p] = Append(pending[p], r)
    BY <2>1, <2>2 DEF TypeOK
  <2>5. ASSUME NEW u \in Thread, u # t, pc'[u] = "commit"
        PROVE  proof[u] \in ProofsOf(pending'[Home[u]])
    <3>1. pc[u] = "commit"
      BY <2>2, <2>5 DEF TypeOK
    <3>2. Home[u] # p
      BY <2>2, <2>5, <3>1 DEF LockOK, Active, p
    <3>3. pending'[Home[u]] = pending[Home[u]]
      BY <2>1, <2>2, <3>2 DEF TypeOK
    <3> QED
      BY <3>1, <3>3 DEF AckedOK
  <2> QED
    BY <2>2, <2>3, <2>4, <2>5 DEF AckedOK, p
<1>2. ASSUME NEW t \in Thread, Commit(t)
      PROVE  AckedOK'
  <2>1. /\ pc[t] = "commit" /\ pc' = [pc EXCEPT ![t] = "stored"]
        /\ rows' = rows \o pending[Home[t]]
        /\ acked' = acked \union {proof[t]} /\ proof' = proof
    BY <1>2 DEF Commit, End, localVars
  <2>2. ProofsOf(rows') = ProofsOf(rows) \union ProofsOf(pending[Home[t]])
    BY <2>1, ProofsOfConcat DEF TypeOK
  <2>3. acked' \subseteq ProofsOf(rows')
    BY <2>1, <2>2 DEF AckedOK
  <2>4. \A u \in Thread : pc'[u] # "commit"
    <3>1. \A u \in Thread : pc[u] = "commit" => u = t
      BY <2>1 DEF WriterOK, LockOK, Active
    <3> QED
      BY <2>1, <3>1 DEF TypeOK
  <2> QED
    BY <2>3, <2>4 DEF AckedOK
<1>3. ASSUME UNCHANGED <<rows, acked>>,
             \A u \in Thread : pc'[u] = "commit" =>
               /\ pc[u] = "commit" /\ proof'[u] = proof[u]
               /\ pending'[Home[u]] = pending[Home[u]]
      PROVE  AckedOK'
  BY <1>3 DEF AckedOK
<1>4. ASSUME NEW t \in Thread, NEW x \in Proof, ReadHead(t, x)
      PROVE  AckedOK'
  <2>1. pc' = [pc EXCEPT ![t] = "raised"] \/ pc' = [pc EXCEPT ![t] = "insert"]
    BY <1>4, Zenon DEF ReadHead, End
  <2>2. UNCHANGED <<rows, acked, pending>> /\ proof' = [proof EXCEPT ![t] = x]
    BY <1>4 DEF ReadHead
  <2> QED
    BY <1>3, <2>1, <2>2 DEF TypeOK
<1>5. ASSUME NEW t \in Thread, InsertTimesOut(t) \/ CommitTimesOut(t)
      PROVE  AckedOK'
  <2>1. /\ pc' = [pc EXCEPT ![t] = "raised"]
        /\ UNCHANGED <<rows, acked, pending, proof>>
    BY <1>5 DEF InsertTimesOut, CommitTimesOut, End, localVars, historyVars
  <2> QED
    BY <1>3, <2>1 DEF TypeOK
<1>6. ASSUME NEW t \in Thread, DiskFull(t)
      PROVE  AckedOK'
  <2>1. /\ Active(t) /\ pc' = [pc EXCEPT ![t] = "raised"]
        /\ pending' = [pending EXCEPT ![Home[t]] = <<>>]
        /\ UNCHANGED <<rows, acked, proof>>
    BY <1>6 DEF DiskFull, End, Active, localVars, historyVars
  <2>2. \A u \in Thread : pc'[u] = "commit" => pc[u] = "commit" /\ Home[u] # Home[t]
    BY <2>1 DEF LockOK, Active, TypeOK
  <2> QED
    BY <1>3, <2>1, <2>2 DEF TypeOK
<1>7. ASSUME NEW p \in Process, Crash(p)
      PROVE  AckedOK'
  BY <1>3, <1>7 DEF Crash, localVars, historyVars, TypeOK
<1>8. ASSUME NEW p \in Process, Close(p)
      PROVE  AckedOK'
  <2>1. \A u \in Thread : pc[u] = "commit" => Home[u] # p
    BY <1>8 DEF Close, Unlocked, LockOK, Active
  <2> QED
    BY <1>3, <1>8, <2>1 DEF Close, localVars, historyVars, TypeOK
<1>9. ASSUME NEW p \in Process, BeginRead(p) \/ EndRead(p)
      PROVE  AckedOK'
  BY <1>3, <1>9 DEF BeginRead, EndRead, fileVars, localVars, historyVars
<1>10. CASE UNCHANGED vars
  BY <1>3, <1>10 DEF vars, fileVars, localVars, historyVars
<1> QED
  BY <1>1, <1>2, <1>4, <1>5, <1>6, <1>7, <1>8, <1>9, <1>10 DEF Next, Step

LEMMA InitAckedOK == Init => AckedOK
BY ArchiveAssumption DEF Init, AckedOK, ProofsOf

\* A proof whose store() returned is in the archive.
LEMMA AckedInvariant == Spec => []AckedOK
BY InitAckedOK, AckedStep, Inv1Invariant, PTL DEF Spec

LEMMA LogStep == Inv1 /\ AckedOK /\ AckedOK' /\ [Next]_vars => [Log!Next]_(Log!vars)
<1> SUFFICES ASSUME TypeOK, WriterOK, AckedOK, AckedOK', [Next]_vars,
                    ~ UNCHANGED <<rows, acked>>
             PROVE  Log!Next
  BY DEF Inv1, Log!vars
<1> USE ArchiveAssumption
<1>1. PICK t \in Thread : Commit(t)
  BY DEF Next, Step, ReadHead, Insert, InsertTimesOut, CommitTimesOut, DiskFull,
         Crash, Close, BeginRead, EndRead, vars, fileVars, historyVars
<1>2. /\ rows' = rows \o pending[Home[t]]
      /\ acked' = acked \union {proof[t]}
  BY <1>1 DEF Commit
<1> DEFINE log == [i \in DOMAIN rows |-> rows[i].proof]
           logNext == [i \in DOMAIN rows' |-> rows'[i].proof]
<1>3. rows \in Seq(Records) /\ rows' \in Seq(Records)
  BY <1>2 DEF TypeOK
<1>4. logNext \in Seq(Proof) /\ log \in Seq(Proof)
  <2>1. ASSUME NEW s \in Seq(Records)
        PROVE  [i \in DOMAIN s |-> s[i].proof] \in Seq(Proof)
    <3> DEFINE f == [i \in DOMAIN s |-> s[i].proof]
    <3>1. DOMAIN s = 1..Len(s) /\ Len(s) \in Nat
      OBVIOUS
    <3>2. \A i \in 1..Len(s) : s[i] \in Records
      OBVIOUS
    <3>3. f \in [1..Len(s) -> Proof]
      BY <3>1, <3>2 DEF Records
    <3> HIDE DEF f
    <3>4. f \in Seq(Proof)
      BY <3>1, <3>3
    <3> QED
      BY <3>4 DEF f
  <2> QED
    BY <1>3, <2>1
<1>5. /\ Len(log) = Len(rows) /\ Len(logNext) = Len(rows')
      /\ Len(rows) <= Len(rows')
      /\ \A i \in DOMAIN rows : i \in DOMAIN rows' /\ rows'[i] = rows[i]
  BY <1>2, <1>3 DEF TypeOK
<1>6. \A i \in DOMAIN log : logNext[i] = log[i]
  BY <1>5
<1>7. acked \subseteq acked' /\ acked' \subseteq {logNext[i] : i \in DOMAIN logNext}
  <2>1. acked' \subseteq {rows'[i].proof : i \in DOMAIN rows'}
    BY DEF AckedOK, ProofsOf
  <2>2. {rows'[i].proof : i \in DOMAIN rows'} = {logNext[i] : i \in DOMAIN logNext}
    OBVIOUS
  <2> QED
    BY <1>2, <2>1, <2>2
<1>8. Len(log) <= Len(logNext)
  BY <1>5
<1> HIDE DEF log, logNext
<1>9. /\ logNext \in Seq(Proof)
      /\ Len(log) <= Len(logNext)
      /\ \A i \in DOMAIN log : logNext[i] = log[i]
      /\ acked \subseteq acked'
      /\ acked' \subseteq {logNext[i] : i \in DOMAIN logNext}
  BY <1>4, <1>6, <1>7, <1>8
<1> QED
  BY <1>9 DEF Log!Next, Log!Record, log, logNext

\* Through crashes, full disks and timeouts of any process, records are only
\* appended and an acknowledged proof is never lost.
THEOREM ArchiveImplementsLog == Spec => AppendOnlyDurable
<1>1. Init => Log!Init
  BY DEF Init, Log!Init
<1> QED
  BY <1>1, AckedInvariant, LogStep, Inv1Invariant, PTL DEF Spec, AppendOnlyDurable, Log!Spec

-----------------------------------------------------------------------------
(* What the archive holds besides the acknowledged proofs                  *)

\* A record is acknowledged or overdue; one that is not committed yet is
\* overdue or belongs to the store() that is about to commit it.
AccountOK ==
  /\ ProofsOf(rows) \subseteq acked \union overdue
  /\ \A p \in Process : \A x \in ProofsOf(pending[p]) :
       \/ x \in overdue
       \/ \E t \in Thread : Home[t] = p /\ pc[t] = "commit" /\ proof[t] = x

LEMMA InitAccountOK == Init => AccountOK
BY ArchiveAssumption DEF Init, AccountOK, ProofsOf

LEMMA AccountStep == Inv1 /\ AccountOK /\ [Next]_vars => AccountOK'
<1> SUFFICES ASSUME TypeOK, LockOK, WriterOK, AccountOK, [Next]_vars
             PROVE  AccountOK'
  BY DEF Inv1
<1> USE ArchiveAssumption
<1>a. ProofsOf(<<>>) = {}
  BY DEF ProofsOf
\* Steps that neither insert nor commit.
<1>1. ASSUME UNCHANGED <<rows, acked>>, overdue \subseteq overdue',
             \A p \in Process : pending'[p] \in {pending[p], <<>>},
             \A t \in Thread : pc[t] = "commit" /\ pending'[Home[t]] # <<>> =>
               \/ proof[t] \in overdue'
               \/ pc'[t] = "commit" /\ proof'[t] = proof[t]
      PROVE  AccountOK'
  <2>1. ProofsOf(rows') \subseteq acked' \union overdue'
    BY <1>1 DEF AccountOK
  <2>2. ASSUME NEW p \in Process, NEW x \in ProofsOf(pending'[p])
        PROVE  \/ x \in overdue'
               \/ \E t \in Thread : Home[t] = p /\ pc'[t] = "commit" /\ proof'[t] = x
    <3>1. pending'[p] = pending[p] /\ pending'[p] # <<>>
      BY <1>1, <1>a, <2>2
    <3>2. CASE x \in overdue
      BY <1>1, <3>2
    <3>3. ASSUME NEW t \in Thread, Home[t] = p, pc[t] = "commit", proof[t] = x
          PROVE  \/ x \in overdue'
                 \/ \E u \in Thread : Home[u] = p /\ pc'[u] = "commit" /\ proof'[u] = x
      BY <1>1, <3>1, <3>3
    <3> QED
      BY <2>2, <3>1, <3>2, <3>3 DEF AccountOK
  <2> QED
    BY <2>1, <2>2 DEF AccountOK
<1>2. ASSUME NEW t \in Thread, NEW x \in Proof, ReadHead(t, x)
      PROVE  AccountOK'
  <2>1. pc' = [pc EXCEPT ![t] = "raised"] \/ pc' = [pc EXCEPT ![t] = "insert"]
    BY <1>2, Zenon DEF ReadHead, End
  <2>2. /\ UNCHANGED <<rows, acked, overdue, pending>>
        /\ proof' = [proof EXCEPT ![t] = x] /\ pc[t] # "commit"
    BY <1>2 DEF ReadHead
  <2> QED
    BY <1>1, <2>1, <2>2 DEF TypeOK
<1>3. ASSUME NEW t \in Thread, Insert(t)
      PROVE  AccountOK'
  <2> DEFINE p == Home[t]
             r == [proof |-> proof[t], prev |-> prev[t],
                   entry |-> EntryHash(prev[t], proof[t])]
  <2>1. p \in Process /\ r \in Records /\ r.proof = proof[t]
    BY <1>3 DEF TypeOK, LockOK, Active, Insert, Records, EntryHash
  <2>2. /\ pending' = [pending EXCEPT ![p] = Append(@, r)]
        /\ pc' = [pc EXCEPT ![t] = "commit"]
        /\ UNCHANGED <<rows, acked, overdue, proof>>
    BY <1>3 DEF Insert, localVars, historyVars
  <2> HIDE DEF p, r
  <2>3. ProofsOf(Append(pending[p], r)) = ProofsOf(pending[p]) \union {proof[t]}
    <3> DEFINE s == pending[p]
               a == Append(s, r)
    <3>1. /\ DOMAIN a = 1..(Len(s) + 1) /\ DOMAIN s = 1..Len(s) /\ Len(s) \in Nat
          /\ \A i \in 1..Len(s) : a[i] = s[i]
          /\ a[Len(s) + 1] = r
      BY <2>1 DEF TypeOK
    <3> HIDE DEF a
    <3>2. ProofsOf(a) = ProofsOf(s) \union {r.proof}
      BY <3>1 DEF ProofsOf
    <3> QED
      BY <2>1, <3>2 DEF a
  <2>4. ASSUME NEW q \in Process, NEW x \in ProofsOf(pending'[q])
        PROVE  \/ x \in overdue
               \/ \E u \in Thread : Home[u] = q /\ pc'[u] = "commit" /\ proof[u] = x
    <3>0. pc'[t] = "commit" /\ \A u \in Thread : pc[u] = "commit" => pc'[u] = "commit"
      BY <2>2 DEF TypeOK
    <3>1. CASE q = p /\ x = proof[t]
      BY <3>0, <3>1 DEF p
    <3>2. CASE ~(q = p /\ x = proof[t])
      <4>1. x \in ProofsOf(pending[q])
        <5>1. CASE q = p
          <6>1. pending'[q] = Append(pending[p], r)
            BY <2>1, <2>2, <5>1 DEF TypeOK
          <6> QED
            BY <2>3, <2>4, <3>2, <5>1, <6>1
        <5>2. CASE q # p
          <6>1. pending'[q] = pending[q]
            BY <2>1, <2>2, <5>2 DEF TypeOK
          <6> QED
            BY <2>4, <6>1
        <5> QED
          BY <5>1, <5>2
      <4> QED
        BY <3>0, <4>1 DEF AccountOK
    <3> QED
      BY <3>1, <3>2
  <2> QED
    BY <2>2, <2>4 DEF AccountOK
<1>4. ASSUME NEW t \in Thread, InsertTimesOut(t)
      PROVE  AccountOK'
  <2>1. /\ pc[t] = "insert" /\ pc' = [pc EXCEPT ![t] = "raised"]
        /\ UNCHANGED <<rows, acked, overdue, pending, proof>>
    BY <1>4 DEF InsertTimesOut, End, localVars, historyVars
  <2> QED
    BY <1>1, <2>1 DEF TypeOK
<1>5. ASSUME NEW t \in Thread, Commit(t)
      PROVE  AccountOK'
  <2>1. /\ pc[t] = "commit" /\ Home[t] \in Process
        /\ rows' = rows \o pending[Home[t]]
        /\ pending' = [pending EXCEPT ![Home[t]] = <<>>]
        /\ acked' = acked \union {proof[t]} /\ overdue' = overdue
    BY <1>5 DEF Commit
  <2>2. ProofsOf(rows') = ProofsOf(rows) \union ProofsOf(pending[Home[t]])
    BY <2>1, ProofsOfConcat DEF TypeOK
  <2>3. \A u \in Thread : Home[u] = Home[t] /\ pc[u] = "commit" => u = t
    BY <2>1 DEF LockOK, Active
  <2>4. ProofsOf(pending[Home[t]]) \subseteq overdue \union {proof[t]}
    BY <2>1, <2>3 DEF AccountOK
  <2>5. \A q \in Process : pending'[q] = <<>>
    <3>1. \A q \in Process : q # Home[t] => pending[q] = <<>>
      BY <2>1 DEF WriterOK
    <3> QED
      BY <2>1, <3>1 DEF TypeOK
  <2>6. ProofsOf(rows') \subseteq acked' \union overdue'
    BY <2>1, <2>2, <2>4 DEF AccountOK
  <2> QED
    BY <1>a, <2>5, <2>6 DEF AccountOK
<1>6. ASSUME NEW t \in Thread, CommitTimesOut(t)
      PROVE  AccountOK'
  <2>1. /\ pc' = [pc EXCEPT ![t] = "raised"] /\ overdue' = overdue \union {proof[t]}
        /\ UNCHANGED <<rows, acked, pending, proof>>
    BY <1>6 DEF CommitTimesOut, End, localVars
  <2> QED
    BY <1>1, <2>1 DEF TypeOK
<1>7. ASSUME NEW t \in Thread, DiskFull(t)
      PROVE  AccountOK'
  <2>1. /\ Active(t) /\ pc' = [pc EXCEPT ![t] = "raised"]
        /\ pending' = [pending EXCEPT ![Home[t]] = <<>>]
        /\ UNCHANGED <<rows, acked, overdue, proof>>
    BY <1>7 DEF DiskFull, End, Active, localVars, historyVars
  <2>2. \A u \in Thread : pc[u] = "commit" /\ pending'[Home[u]] # <<>> => u # t
    BY <2>1 DEF TypeOK
  <2> QED
    BY <1>1, <2>1, <2>2 DEF TypeOK
<1>8. ASSUME NEW p \in Process, Crash(p) \/ Close(p)
      PROVE  AccountOK'
  <2>1. /\ pending' = [pending EXCEPT ![p] = <<>>]
        /\ UNCHANGED <<rows, acked, overdue, proof>>
        /\ \A u \in Thread : Home[u] # p => pc'[u] = pc[u]
    BY <1>8 DEF Crash, Close, localVars, historyVars
  <2> QED
    BY <1>1, <2>1 DEF TypeOK
<1>9. ASSUME UNCHANGED <<rows, acked, overdue, pending, pc, proof>>
      PROVE  AccountOK'
  BY <1>9 DEF AccountOK
<1>10. ASSUME NEW p \in Process, BeginRead(p) \/ EndRead(p)
       PROVE  AccountOK'
  BY <1>9, <1>10 DEF BeginRead, EndRead, fileVars, localVars, historyVars
<1>11. CASE UNCHANGED vars
  BY <1>9, <1>11 DEF vars, fileVars, localVars, historyVars
<1> QED
  BY <1>2, <1>3, <1>4, <1>5, <1>6, <1>7, <1>8, <1>10, <1>11 DEF Next, Step

\* A COMMIT times out only because of a second process that uses the file.
LoneOK == (\A p, q \in writers \union readers : p = q) => overdue = {}

LEMMA LoneStep == Inv1 /\ LoneOK /\ [Next]_vars => LoneOK'
<1> SUFFICES ASSUME TypeOK, WriterOK, LoneOK, [Next]_vars,
                    \A p, q \in writers' \union readers' : p = q
             PROVE  overdue' = {}
  BY DEF Inv1, LoneOK
<1>1. ASSUME NEW t \in Thread, CommitTimesOut(t)
      PROVE  FALSE
  <2>1. PICK q \in Others(Home[t]) : tx[q] = "reading" \/ q \in reads
    BY <1>1 DEF CommitTimesOut, CommitBlocked
  <2>2. Home[t] \in writers /\ writers' = writers /\ readers' = readers
    BY <1>1 DEF CommitTimesOut, WriterOK, Active
  <2>3. q \in writers \union readers /\ q # Home[t]
    BY <2>1 DEF WriterOK, Others
  <2> QED
    BY <2>2, <2>3
<1>2. writers \subseteq writers' /\ readers \subseteq readers' /\ overdue' = overdue
  BY <1>1 DEF Next, Step, ReadHead, Insert, InsertTimesOut, Commit,
              DiskFull, Crash, Close, BeginRead, EndRead, vars, historyVars
<1> QED
  BY <1>2 DEF LoneOK

-----------------------------------------------------------------------------
(* The chain while one process writes                                      *)

Sole == \A p, q \in writers : p = q

\* The only writer has read the head of what it is about to extend: the
\* committed records and those it has inserted and not yet committed.
SoleOK ==
  Sole =>
    /\ ChainValid(rows)
    /\ \A p \in Process : ChainValid(rows \o pending[p])
    /\ \A t \in Thread :
         pc[t] = "insert" => prev[t] = HeadOf(rows \o pending[Home[t]])

LEMMA ChainExtends ==
  ASSUME NEW s \in Seq(Records), ChainValid(s), NEW r \in Records,
         r.prev = HeadOf(s), r.entry = EntryHash(r.prev, r.proof)
  PROVE  ChainValid(Append(s, r))
<1> DEFINE a == Append(s, r)
<1>1. /\ DOMAIN a = 1..(Len(s) + 1)
      /\ \A i \in 1..Len(s) : a[i] = s[i]
      /\ a[Len(s) + 1] = r
      /\ Len(s) \in Nat /\ DOMAIN s = 1..Len(s)
  OBVIOUS
<1>2. HeadOf(s) = IF Len(s) = 0 THEN Genesis ELSE s[Len(s)].entry
  BY DEF HeadOf, Last
<1> HIDE DEF a
<1>3. ASSUME NEW i \in 1..Len(s)
      PROVE  ~Rewrites(a, i) /\ ~Tampered(a, i)
  <2>1. a[i] = s[i] /\ (i # 1 => a[i - 1] = s[i - 1])
    BY <1>1
  <2>2. ~Rewrites(s, i) /\ ~Tampered(s, i)
    BY <1>1 DEF ChainValid
  <2> QED
    BY <2>1, <2>2 DEF Rewrites, Tampered
<1>4. ~Rewrites(a, Len(s) + 1) /\ ~Tampered(a, Len(s) + 1)
  <2>1. CASE Len(s) = 0
    BY <1>1, <1>2, <2>1 DEF Rewrites, Tampered
  <2>2. CASE Len(s) # 0
    <3>1. a[Len(s)] = s[Len(s)] /\ (Len(s) + 1) - 1 = Len(s)
      BY <1>1, <2>2
    <3> QED
      BY <1>1, <1>2, <2>2, <3>1 DEF Rewrites, Tampered
  <2> QED
    BY <2>1, <2>2
<1>5. ChainValid(a)
  BY <1>1, <1>3, <1>4 DEF ChainValid
<1> QED
  BY <1>5 DEF a

LEMMA InitSoleOK == Init => SoleOK
BY ArchiveAssumption DEF Init, SoleOK, ChainValid

LEMMA SoleStep == Inv1 /\ SoleOK /\ [Next]_vars => SoleOK'
<1> SUFFICES ASSUME TypeOK, LockOK, WriterOK, SoleOK, [Next]_vars, Sole'
             PROVE  SoleOK'
  BY DEF Inv1, SoleOK
<1> USE ArchiveAssumption
<1>a. Sole /\ writers \subseteq writers'
  <2>1. writers \subseteq writers'
    BY DEF Next, Step, ReadHead, Insert, InsertTimesOut, Commit, CommitTimesOut,
           DiskFull, Crash, Close, BeginRead, EndRead, vars, historyVars
  <2> QED
    BY <2>1 DEF Sole
<1>b. /\ ChainValid(rows)
      /\ \A p \in Process : ChainValid(rows \o pending[p])
      /\ \A t \in Thread : pc[t] = "insert" => prev[t] = HeadOf(rows \o pending[Home[t]])
  BY <1>a DEF SoleOK
<1>c. \A t, u \in Thread : Active(t) /\ Active(u) => t = u
  BY <1>a DEF Sole, WriterOK, LockOK
<1>d. rows \o <<>> = rows /\ \A p \in Process : rows \o pending[p] \in Seq(Records)
  BY DEF TypeOK
<1>1. ASSUME NEW t \in Thread, NEW x \in Proof, ReadHead(t, x)
      PROVE  SoleOK'
  <2>1. UNCHANGED <<rows, pending>>
    BY <1>1 DEF ReadHead
  <2>2. \/ pc' = [pc EXCEPT ![t] = "raised"] /\ prev' = prev
        \/ /\ pc' = [pc EXCEPT ![t] = "insert"]
           /\ prev' = [prev EXCEPT ![t] = HeadOf(rows \o pending[Home[t]])]
    BY <1>1, Zenon DEF ReadHead, End, Visible
  <2>3. \A u \in Thread : pc'[u] = "insert" =>
          prev'[u] = HeadOf(rows \o pending[Home[u]])
    BY <1>b, <2>2 DEF TypeOK
  <2> QED
    BY <1>b, <2>1, <2>3 DEF SoleOK
<1>2. ASSUME NEW t \in Thread, Insert(t)
      PROVE  SoleOK'
  <2> DEFINE p == Home[t]
             r == [proof |-> proof[t], prev |-> prev[t],
                   entry |-> EntryHash(prev[t], proof[t])]
             s == rows \o pending[p]
  <2>1. p \in Process /\ r \in Records /\ s \in Seq(Records) /\ ChainValid(s)
    <3>1. p \in Process /\ proof[t] \in Proof /\ prev[t] \in Seq(Proof)
      BY <1>2 DEF TypeOK, LockOK, Active, Insert
    <3>2. r \in Records
      BY <3>1 DEF Records, EntryHash
    <3> QED
      BY <1>b, <1>d, <3>1, <3>2
  <2>2. r.prev = HeadOf(s) /\ r.entry = EntryHash(r.prev, r.proof)
    BY <1>2, <1>b DEF Insert
  <2>3. /\ pending' = [pending EXCEPT ![p] = Append(@, r)]
        /\ pc' = [pc EXCEPT ![t] = "commit"] /\ pc[t] = "insert"
        /\ rows' = rows
    BY <1>2 DEF Insert
  <2> HIDE DEF p, r
  <2>4. rows \o Append(pending[p], r) = Append(s, r)
    BY <2>1 DEF TypeOK
  <2>5. ChainValid(Append(s, r))
    <3> HIDE DEF s
    <3> QED
      BY <2>1, <2>2, ChainExtends
  <2>6. ASSUME NEW q \in Process
        PROVE  ChainValid(rows \o pending'[q])
    <3>1. CASE q = p
      BY <2>1, <2>3, <2>4, <2>5, <3>1 DEF TypeOK
    <3>2. CASE q # p
      BY <1>b, <2>1, <2>3, <3>2 DEF TypeOK
    <3> QED
      BY <3>1, <3>2
  <2>7. \A u \in Thread : pc'[u] # "insert"
    BY <1>c, <2>3 DEF Active, TypeOK
  <2> QED
    BY <1>b, <2>3, <2>6, <2>7 DEF SoleOK
<1>3. ASSUME NEW t \in Thread, Commit(t)
      PROVE  SoleOK'
  <2>1. /\ pc[t] = "commit" /\ pc' = [pc EXCEPT ![t] = "stored"] /\ Home[t] \in Process
        /\ rows' = rows \o pending[Home[t]]
        /\ pending' = [pending EXCEPT ![Home[t]] = <<>>]
    BY <1>3 DEF Commit, End
  <2>2. \A q \in Process : pending'[q] = <<>>
    <3>1. \A q \in Process : q # Home[t] => pending[q] = <<>>
      BY <2>1 DEF WriterOK
    <3> QED
      BY <2>1, <3>1 DEF TypeOK
  <2>3. rows' \o <<>> = rows'
    BY <1>d, <2>1
  <2>4. \A u \in Thread : pc'[u] # "insert"
    BY <1>c, <2>1 DEF Active, TypeOK
  <2>5. ChainValid(rows')
    BY <1>b, <2>1
  <2> QED
    BY <2>2, <2>3, <2>4, <2>5 DEF SoleOK
<1>4. ASSUME NEW p \in Process, pending' = [pending EXCEPT ![p] = <<>>],
             UNCHANGED <<rows, prev>>,
             \A u \in Thread : pc'[u] = "insert" => pc[u] = "insert" /\ Home[u] # p
      PROVE  SoleOK'
  <2>1. \A q \in Process : IF q = p THEN pending'[q] = <<>> ELSE pending'[q] = pending[q]
    BY <1>4 DEF TypeOK
  <2>2. \A q \in Process : ChainValid(rows \o pending'[q])
    BY <1>b, <1>d, <2>1
  <2>3. \A u \in Thread : pc'[u] = "insert" => prev[u] = HeadOf(rows \o pending'[Home[u]])
    BY <1>4, <1>b, <2>1
  <2> QED
    BY <1>4, <1>b, <2>2, <2>3 DEF SoleOK
<1>5. ASSUME NEW t \in Thread, DiskFull(t)
      PROVE  SoleOK'
  <2>1. /\ Active(t) /\ pc' = [pc EXCEPT ![t] = "raised"]
        /\ pending' = [pending EXCEPT ![Home[t]] = <<>>]
        /\ UNCHANGED <<rows, prev>>
    BY <1>5 DEF DiskFull, End, Active, localVars
  <2>2. \A u \in Thread : pc'[u] = "insert" => pc[u] = "insert" /\ Home[u] # Home[t]
    BY <2>1 DEF LockOK, Active, TypeOK
  <2> QED
    BY <1>4, <2>1, <2>2
<1>6. ASSUME NEW p \in Process, Crash(p)
      PROVE  SoleOK'
  <2>1. \A u \in Thread : pc'[u] = "insert" => pc[u] = "insert" /\ Home[u] # p
    BY <1>6 DEF Crash
  <2> QED
    BY <1>4, <1>6, <2>1 DEF Crash, localVars
<1>7. ASSUME NEW p \in Process, Close(p)
      PROVE  SoleOK'
  <2>1. \A u \in Thread : pc'[u] = "insert" => pc[u] = "insert" /\ Home[u] # p
    BY <1>7 DEF Close, Unlocked, LockOK, Active
  <2> QED
    BY <1>4, <1>7, <2>1 DEF Close, localVars
<1>8. ASSUME UNCHANGED <<rows, pending, prev>>,
             \A u \in Thread : pc'[u] = "insert" => pc[u] = "insert"
      PROVE  SoleOK'
  BY <1>8, <1>b DEF SoleOK
<1>9. ASSUME NEW t \in Thread, InsertTimesOut(t) \/ CommitTimesOut(t)
      PROVE  SoleOK'
  BY <1>8, <1>9 DEF InsertTimesOut, CommitTimesOut, End, localVars, TypeOK
<1>10. ASSUME NEW p \in Process, BeginRead(p) \/ EndRead(p)
       PROVE  SoleOK'
  BY <1>8, <1>10 DEF BeginRead, EndRead, fileVars, localVars
<1>11. CASE UNCHANGED vars
  BY <1>8, <1>11 DEF vars, fileVars, localVars
<1> QED
  BY <1>1, <1>2, <1>3, <1>5, <1>6, <1>7, <1>9, <1>10, <1>11 DEF Next, Step

\* The archive holds the acknowledged proofs and, besides, at most proofs
\* whose COMMIT timed out, of which there are none while one process uses the
\* file; and while one process writes its chain verifies, whoever reads.
THEOREM SoleWriterArchiveExact == Spec => []SoleWriterExact
<1>1. AckedOK /\ AccountOK /\ LoneOK /\ SoleOK => SoleWriterExact
  BY DEF AckedOK, AccountOK, LoneOK, SoleOK, Sole, ProofsOf, SoleWriterExact
<1>2. Init => LoneOK
  BY DEF Init, LoneOK
<1> QED
  BY InitAccountOK, AccountStep, <1>2, LoneStep, InitSoleOK, SoleStep, AckedInvariant,
     Inv1Invariant, <1>1, PTL DEF Spec
=============================================================================
