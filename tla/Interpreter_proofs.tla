-------------------------- MODULE Interpreter_proofs --------------------------
(***************************************************************************)
(* Proofs about the governed mode of the interpreter, for any files,       *)
(* functions, programs, policy and number of threads.                      *)
(***************************************************************************)
EXTENDS Interpreter, TLAPS

-----------------------------------------------------------------------------
(* Sequences of frames                                                     *)

\* Frames hold data of every kind: a stack is a sequence of its own elements.
Elements(s) == {s[k] : k \in DOMAIN s}
IsSeq(s) == s \in Seq(Elements(s))

LEMMA SeqIs ==
  ASSUME NEW S, NEW s \in Seq(S)
  PROVE  IsSeq(s) /\ Len(s) \in Nat /\ DOMAIN s = 1..Len(s) /\ (s = <<>> <=> Len(s) = 0)
BY DEF IsSeq, Elements

LEMMA IsSeqIs ==
  ASSUME NEW s, IsSeq(s)
  PROVE  Len(s) \in Nat /\ DOMAIN s = 1..Len(s) /\ (s = <<>> <=> Len(s) = 0)
BY SeqIs DEF IsSeq

LEMMA Tuples ==
  ASSUME NEW f, NEW g
  PROVE  /\ IsSeq(<<>>) /\ Len(<<>>) = 0
         /\ IsSeq(<<f>>) /\ Len(<<f>>) = 1 /\ <<f>>[1] = f
         /\ IsSeq(<<f, g>>) /\ Len(<<f, g>>) = 2 /\ <<f, g>>[1] = f /\ <<f, g>>[2] = g
<1> DEFINE S == {f, g}
<1>1. <<>> \in Seq(S) /\ <<f>> \in Seq(S) /\ <<f, g>> \in Seq(S)
  OBVIOUS
<1> HIDE DEF S
<1>2. IsSeq(<<>>) /\ IsSeq(<<f>>) /\ IsSeq(<<f, g>>)
  BY <1>1, SeqIs
<1> QED
  BY <1>2

LEMMA Appended ==
  ASSUME NEW s, IsSeq(s), NEW x
  PROVE  /\ IsSeq(Append(s, x)) /\ Len(Append(s, x)) = Len(s) + 1
         /\ \A k \in 1..Len(s) : Append(s, x)[k] = s[k]
         /\ Append(s, x)[Len(s) + 1] = x
<1> DEFINE S == Elements(s) \cup {x}
<1>1. s \in Seq(S) /\ x \in S
  BY IsSeqIs DEF IsSeq, Elements
<1> HIDE DEF S
<1>2. Append(s, x) \in Seq(S)
  BY <1>1
<1>3. /\ Len(Append(s, x)) = Len(s) + 1
      /\ \A k \in 1..Len(s) : Append(s, x)[k] = s[k]
      /\ Append(s, x)[Len(s) + 1] = x
  BY <1>1
<1> QED
  BY <1>2, <1>3, SeqIs

LEMMA Excepted ==
  ASSUME NEW s, IsSeq(s), NEW i \in DOMAIN s, NEW x
  PROVE  /\ IsSeq([s EXCEPT ![i] = x]) /\ Len([s EXCEPT ![i] = x]) = Len(s)
         /\ \A k \in 1..Len(s) : [s EXCEPT ![i] = x][k] = IF k = i THEN x ELSE s[k]
<1> DEFINE S == Elements(s) \cup {x}
<1>1. s \in Seq(S) /\ x \in S
  BY IsSeqIs DEF IsSeq, Elements
<1> HIDE DEF S
<1>2. [s EXCEPT ![i] = x] \in Seq(S) /\ Len([s EXCEPT ![i] = x]) = Len(s)
  BY <1>1
<1> QED
  BY <1>1, <1>2, SeqIs

Joins(n, s, t) ==
  /\ IsSeq(n) /\ Len(n) = Len(s) + Len(t)
  /\ \A k \in 1..Len(s) : n[k] = s[k]
  /\ \A k \in 1..Len(t) : n[Len(s) + k] = t[k]

LEMMA Concatenated == ASSUME NEW s, IsSeq(s), NEW t, IsSeq(t) PROVE Joins(s \o t, s, t)
<1> DEFINE S == Elements(s) \cup Elements(t)
<1>1. s \in Seq(S) /\ t \in Seq(S)
  BY IsSeqIs DEF IsSeq, Elements
<1> HIDE DEF S
<1>2. s \o t \in Seq(S)
  BY <1>1
<1>3. /\ Len(s \o t) = Len(s) + Len(t)
      /\ \A k \in 1..Len(s) : (s \o t)[k] = s[k]
      /\ \A k \in 1..Len(t) : (s \o t)[Len(s) + k] = t[k]
  BY <1>1
<1>4. IsSeq(s \o t)
  BY <1>2, SeqIs
<1> QED
  BY <1>3, <1>4 DEF Joins

LEMMA Fronted ==
  ASSUME NEW s, IsSeq(s), s # <<>>
  PROVE  /\ IsSeq(Front(s)) /\ Len(Front(s)) = Len(s) - 1
         /\ \A k \in 1..(Len(s) - 1) : Front(s)[k] = s[k]
         /\ Last(s) = s[Len(s)] /\ Len(s) \in DOMAIN s
<1> DEFINE S == Elements(s)
<1>1. s \in Seq(S) /\ Len(s) \in Nat \ {0} /\ DOMAIN s = 1..Len(s)
  BY IsSeqIs DEF IsSeq
<1> HIDE DEF S
<1>2. Front(s) \in Seq(S) /\ Len(Front(s)) = Len(s) - 1
      /\ \A k \in 1..(Len(s) - 1) : Front(s)[k] = s[k]
  BY <1>1 DEF Front
<1> QED
  BY <1>1, <1>2, SeqIs DEF Last

-----------------------------------------------------------------------------
(* The stack                                                               *)

Fields == {"kind", "interp", "todo", "info"}
Alike(f, g) == f.kind = g.kind /\ f.interp = g.interp /\ f.info = g.info /\ DOMAIN f = DOMAIN g

\* The program's frame is the first one, and only that.
StackOK(s) ==
  /\ IsSeq(s)
  /\ \A k \in DOMAIN s : DOMAIN s[k] = Fields /\ (s[k].kind = "program" <=> k = 1)

\* n has the first j frames of s, but for what is left of a block, and then t's.
Replaces(n, s, j, t) ==
  /\ IsSeq(n) /\ IsSeq(t) /\ j \in 0..Len(s) /\ Len(n) = j + Len(t)
  /\ \A k \in 1..j : Alike(n[k], s[k])
  /\ \A k \in 1..Len(t) : n[j + k] = t[k]

LEMMA FrontReplaces ==
  ASSUME NEW s, StackOK(s), s # <<>>, NEW t, IsSeq(t)
  PROVE  /\ Replaces(Front(s), s, Len(s) - 1, <<>>)
         /\ Replaces(Front(s) \o t, s, Len(s) - 1, t)
<1>1. /\ IsSeq(s) /\ IsSeq(Front(s)) /\ Len(s) \in Nat \ {0} /\ Len(Front(s)) = Len(s) - 1
      /\ \A k \in 1..(Len(s) - 1) : Front(s)[k] = s[k]
  BY Fronted, IsSeqIs DEF StackOK
<1> DEFINE f == Front(s)
<1>a. IsSeq(f) /\ Len(f) = Len(s) - 1
  BY <1>1
<1> HIDE DEF f
<1>b. Joins(f \o t, f, t)
  BY <1>a, Concatenated
<1>2. /\ IsSeq(Front(s) \o t) /\ Len(Front(s) \o t) = Len(s) - 1 + Len(t)
      /\ \A k \in 1..(Len(s) - 1) : (Front(s) \o t)[k] = s[k]
      /\ \A k \in 1..Len(t) : (Front(s) \o t)[Len(s) - 1 + k] = t[k]
  BY <1>1, <1>a, <1>b DEF f, Joins
<1>3. Len(t) \in Nat /\ Len(s) - 1 \in 0..Len(s)
  BY <1>1, IsSeqIs
<1>4. IsSeq(<<>>) /\ Len(<<>>) = 0
  BY Tuples
<1>5. Replaces(Front(s), s, Len(s) - 1, <<>>)
  BY <1>1, <1>3, <1>4 DEF Replaces, Alike
<1>6. Replaces(Front(s) \o t, s, Len(s) - 1, t)
  BY <1>2, <1>3 DEF Replaces, Alike
<1> QED
  BY <1>5, <1>6

LEMMA RestReplaces ==
  ASSUME StackOK(stack), stack # <<>>, NEW t, IsSeq(t)
  PROVE  /\ Replaces(Rest, stack, Len(stack), <<>>)
         /\ Replaces(Rest \o t, stack, Len(stack), t)
<1> DEFINE n == Len(stack)
           top == [stack[n] EXCEPT !.todo = Tail(@)]
<1>1. /\ IsSeq(stack) /\ n \in Nat \ {0} /\ DOMAIN stack = 1..n /\ n \in DOMAIN stack
      /\ DOMAIN stack[n] = Fields
  BY IsSeqIs, Fronted DEF StackOK
<1>2. Rest = [stack EXCEPT ![n] = top]
  BY DEF Rest
<1>3. Alike(top, stack[n])
  BY <1>1 DEF Alike, Fields
<1> HIDE DEF n, top
<1>4. /\ IsSeq(Rest) /\ Len(Rest) = n
      /\ \A k \in 1..n : Rest[k] = IF k = n THEN top ELSE stack[k]
  BY <1>1, <1>2, Excepted DEF n
<1>5. \A k \in 1..n : Alike(Rest[k], stack[k])
  BY <1>3, <1>4 DEF Alike
<1> HIDE DEF Rest
<1>a. Joins(Rest \o t, Rest, t)
  BY <1>4, Concatenated
<1>6. /\ IsSeq(Rest \o t) /\ Len(Rest \o t) = n + Len(t)
      /\ \A k \in 1..n : (Rest \o t)[k] = Rest[k]
      /\ \A k \in 1..Len(t) : (Rest \o t)[n + k] = t[k]
  BY <1>4, <1>a DEF Joins
<1>7. IsSeq(<<>>) /\ Len(<<>>) = 0 /\ n \in 0..n
  <2>1. n \in 0..n
    BY <1>1
  <2> QED
    BY <2>1, Tuples
<1>8. Replaces(Rest, stack, n, <<>>)
  BY <1>1, <1>4, <1>5, <1>7 DEF Replaces
<1>9. Replaces(Rest \o t, stack, n, t)
  BY <1>1, <1>5, <1>6, <1>7 DEF Replaces
<1> QED
  BY <1>8, <1>9 DEF n

\* What RunFrames(frames) leaves
LEMMA RunReplaces ==
  ASSUME StackOK(stack), stack # <<>>, NEW t, IsSeq(t), RunFrames(t)
  PROVE  \/ Replaces(stack', stack, Len(stack), <<>>) /\ sig' = "error"
         \/ Replaces(stack', stack, Len(stack), t) /\ sig' = "none"
BY RestReplaces DEF RunFrames

\* A finalizer runs that a denial is waiting for.
Waiting(s) == \E k \in DOMAIN s : s[k].kind = "finally" /\ s[k].info = "denied"

NoProgram(t) == \A k \in 1..Len(t) : DOMAIN t[k] = Fields /\ t[k].kind # "program"

LEMMA ReplacedOK ==
  ASSUME NEW s, StackOK(s), NEW n, NEW t, NEW j, Replaces(n, s, j, t), NoProgram(t),
         j = 0 => Len(t) = 0
  PROVE  StackOK(n)
<1>1. /\ Len(n) \in Nat /\ DOMAIN n = 1..Len(n) /\ DOMAIN s = 1..Len(s) /\ Len(s) \in Nat
      /\ Len(t) \in Nat
  BY IsSeqIs DEF StackOK, Replaces
<1>2. ASSUME NEW k \in DOMAIN n
      PROVE  DOMAIN n[k] = Fields /\ (n[k].kind = "program" <=> k = 1)
  <2>1. CASE k <= j
    <3>1. k \in 1..j /\ k \in DOMAIN s
      BY <1>1, <1>2, <2>1 DEF Replaces
    <3>2. Alike(n[k], s[k])
      BY <3>1 DEF Replaces
    <3> QED
      BY <3>1, <3>2 DEF Alike, StackOK
  <2>2. CASE k > j
    <3>1. k - j \in 1..Len(t) /\ k = j + (k - j) /\ k # 1
      BY <1>1, <1>2, <2>2 DEF Replaces
    <3>2. n[k] = t[k - j]
      BY <3>1 DEF Replaces
    <3> QED
      BY <3>1, <3>2 DEF NoProgram
  <2> QED
    BY <1>1, <2>1, <2>2 DEF Replaces
<1> QED
  BY <1>2 DEF StackOK, Replaces

LEMMA ReplacedWaits ==
  ASSUME NEW s, StackOK(s), NEW n, NEW t, NEW j \in Nat, Replaces(n, s, j, t),
         Waiting(s),
         \A k \in DOMAIN s : s[k].kind = "finally" /\ s[k].info = "denied" => k <= j
  PROVE  Waiting(n)
<1>1. /\ Len(n) \in Nat /\ DOMAIN n = 1..Len(n) /\ DOMAIN s = 1..Len(s) /\ Len(s) \in Nat
      /\ Len(t) \in Nat
  BY IsSeqIs DEF StackOK, Replaces
<1>2. PICK k \in DOMAIN s : s[k].kind = "finally" /\ s[k].info = "denied"
  BY DEF Waiting
<1>3. k \in 1..j
  BY <1>1, <1>2
<1>4. k \in DOMAIN n
  BY <1>1, <1>3 DEF Replaces
<1>5. Alike(n[k], s[k])
  BY <1>3 DEF Replaces
<1> QED
  BY <1>2, <1>4, <1>5 DEF Waiting, Alike

\* Frames that are not the program's
FramesNew(t) == IsSeq(t) /\ NoProgram(t)

\* Every frame of n is one of s's, or one of t's.
From(n, s, t) ==
  \A k \in DOMAIN n : \/ \E l \in DOMAIN s : Alike(n[k], s[l])
                      \/ \E l \in 1..Len(t) : n[k] = t[l]

LEMMA ReplacedFrom ==
  ASSUME NEW s, StackOK(s), NEW n, NEW t, NEW j, Replaces(n, s, j, t)
  PROVE  From(n, s, t)
<1>1. /\ Len(n) \in Nat /\ DOMAIN n = 1..Len(n) /\ DOMAIN s = 1..Len(s) /\ Len(s) \in Nat
      /\ Len(t) \in Nat
  BY IsSeqIs DEF StackOK, Replaces
<1>2. j \in Nat /\ j <= Len(s) /\ Len(n) = j + Len(t)
  <2>1. j \in 0..Len(s) /\ Len(n) = j + Len(t)
    BY DEF Replaces
  <2> QED
    BY <1>1, <2>1
<1>3. ASSUME NEW k \in DOMAIN n
      PROVE  \/ \E l \in DOMAIN s : Alike(n[k], s[l])
             \/ \E l \in 1..Len(t) : n[k] = t[l]
  <2>1. CASE k <= j
    <3>1. k \in 1..j /\ k \in DOMAIN s
      BY <1>1, <1>2, <1>3, <2>1
    <3> QED
      BY <3>1 DEF Replaces
  <2>2. CASE k > j
    <3>1. k - j \in 1..Len(t) /\ k = j + (k - j)
      BY <1>1, <1>2, <1>3, <2>2
    <3>2. n[k] = t[k - j]
      BY <3>1 DEF Replaces
    <3> QED
      BY <3>1, <3>2
  <2> QED
    BY <1>1, <1>2, <1>3, <2>1, <2>2
<1> QED
  BY <1>3 DEF From

LEMMA NoFrame == FramesNew(<<>>)
<1>1. <<>> \in Seq({}) /\ Len(<<>>) = 0
  OBVIOUS
<1>2. IsSeq(<<>>)
  BY <1>1, SeqIs
<1> QED
  BY <1>1, <1>2 DEF FramesNew, NoProgram

LEMMA FrameIs ==
  ASSUME NEW k, NEW i, NEW t, NEW x
  PROVE  LET f == Frame(k, i, t, x)
         IN  DOMAIN f = Fields /\ f.kind = k /\ f.interp = i /\ f.todo = t /\ f.info = x
BY DEF Frame, Fields

LEMMA OneFrame ==
  ASSUME NEW f, DOMAIN f = Fields, f.kind # "program"
  PROVE  FramesNew(<<f>>)
<1>1. IsSeq(<<f>>) /\ Len(<<f>>) = 1 /\ <<f>>[1] = f
  BY Tuples
<1> QED
  BY <1>1 DEF FramesNew, NoProgram

LEMMA TwoFrames ==
  ASSUME NEW f, DOMAIN f = Fields, f.kind # "program",
         NEW g, DOMAIN g = Fields, g.kind # "program"
  PROVE  FramesNew(<<f, g>>)
<1>1. IsSeq(<<f, g>>) /\ Len(<<f, g>>) = 2 /\ <<f, g>>[1] = f /\ <<f, g>>[2] = g
  BY Tuples
<1>2. \A k \in 1..2 : k = 1 \/ k = 2
  OBVIOUS
<1> QED
  BY <1>1, <1>2 DEF FramesNew, NoProgram

\* What the steps that run a block, push, or pop frames do to the stack
LEMMA Pushed ==
  ASSUME StackOK(stack), stack # <<>>, NEW t, FramesNew(t), stack' \in {Rest, Rest \o t}
  PROVE  StackOK(stack') /\ (Waiting(stack) => Waiting(stack')) /\ From(stack', stack, t)
<1>1. PICK u : u \in {<<>>, t} /\ Replaces(stack', stack, Len(stack), u)
  BY RestReplaces DEF FramesNew
<1>2. Len(stack) \in Nat \ {0} /\ DOMAIN stack = 1..Len(stack)
  BY IsSeqIs DEF StackOK
<1>3. NoProgram(u)
  BY <1>1, Tuples DEF FramesNew, NoProgram
<1>4. StackOK(stack')
  BY <1>1, <1>2, <1>3, ReplacedOK
<1>5. \A k \in DOMAIN stack : k <= Len(stack)
  BY <1>2
<1>6. Waiting(stack) => Waiting(stack')
  BY <1>1, <1>2, <1>5, ReplacedWaits
<1>7. From(stack', stack, t)
  BY <1>1, ReplacedFrom, NoFrame DEF From, FramesNew
<1> QED
  BY <1>4, <1>6, <1>7

LEMMA Popped ==
  ASSUME StackOK(stack), stack # <<>>, Top.kind # "program", NEW t, FramesNew(t),
         stack' \in {Front(stack), Front(stack) \o t}
  PROVE  /\ StackOK(stack') /\ From(stack', stack, t)
         /\ Waiting(stack) /\ ~(Top.kind = "finally" /\ Top.info = "denied") => Waiting(stack')
<1>1. PICK u : u \in {<<>>, t} /\ Replaces(stack', stack, Len(stack) - 1, u)
  BY FrontReplaces DEF FramesNew
<1>2. /\ Len(stack) \in Nat \ {0} /\ DOMAIN stack = 1..Len(stack)
      /\ Top = stack[Len(stack)]
  BY IsSeqIs DEF StackOK, Top, Last
<1>3. NoProgram(u)
  BY <1>1, Tuples DEF FramesNew, NoProgram
<1>4. Len(stack) - 1 # 0 /\ Len(stack) - 1 \in Nat
  BY <1>2 DEF StackOK
<1>5. StackOK(stack')
  BY <1>1, <1>3, <1>4, ReplacedOK
<1>6. ASSUME ~(Top.kind = "finally" /\ Top.info = "denied"), Waiting(stack)
      PROVE  Waiting(stack')
  <2>1. \A k \in DOMAIN stack : k <= Len(stack) - 1 \/ k = Len(stack)
    BY <1>2
  <2>2. \A k \in DOMAIN stack :
          stack[k].kind = "finally" /\ stack[k].info = "denied" => k <= Len(stack) - 1
    BY <1>2, <1>6, <2>1
  <2> QED
    BY <1>1, <1>4, <1>6, <2>2, ReplacedWaits
<1>7. From(stack', stack, t)
  BY <1>1, ReplacedFrom DEF From
<1> QED
  BY <1>5, <1>6, <1>7

LEMMA CallFramesNew == ASSUME NEW f, NEW home PROVE FramesNew(CallFrames(f, home))
BY FrameIs, OneFrame, TwoFrames DEF CallFrames

\* Every frame of n is one of s's, c, or one of t's.
FromAll(n, s, c, t) ==
  \A k \in DOMAIN n : \/ \E l \in DOMAIN s : Alike(n[k], s[l])
                      \/ n[k] = c
                      \/ \E l \in 1..Len(t) : n[k] = t[l]

\* A worker runs a task.
LEMMA Started ==
  ASSUME StackOK(stack), stack # <<>>, Top.kind = "queued", NEW c, FramesNew(<<c>>),
         NEW t, FramesNew(t), stack' = Front(stack) \o <<c>> \o t
  PROVE  /\ StackOK(stack') /\ (Waiting(stack) => Waiting(stack'))
         /\ FromAll(stack', stack, c, t)
<1> DEFINE base == Front(stack) \o <<c>>
<1>1. /\ Len(stack) \in Nat \ {0} /\ DOMAIN stack = 1..Len(stack) /\ Top = stack[Len(stack)]
      /\ Len(stack) - 1 \in Nat
  BY IsSeqIs DEF StackOK, Top, Last
<1>2. Replaces(base, stack, Len(stack) - 1, <<c>>)
  BY FrontReplaces DEF FramesNew
<1>3. Len(stack) - 1 # 0
  BY <1>1 DEF StackOK
<1> HIDE DEF base
<1>4. StackOK(base)
  BY <1>1, <1>2, <1>3, ReplacedOK DEF FramesNew
<1>5. Waiting(stack) => Waiting(base)
  <2>1. \A k \in DOMAIN stack : k <= Len(stack) - 1 \/ k = Len(stack)
    BY <1>1
  <2>2. \A k \in DOMAIN stack :
          stack[k].kind = "finally" /\ stack[k].info = "denied" => k <= Len(stack) - 1
    BY <1>1, <2>1
  <2> QED
    BY <1>1, <1>2, <2>2, ReplacedWaits
<1>6. /\ Len(base) \in Nat /\ DOMAIN base = 1..Len(base) /\ Len(<<c>>) = 1
      /\ IsSeq(base) /\ IsSeq(t)
  BY <1>4, IsSeqIs, Tuples DEF StackOK, FramesNew
<1>7. Len(base) # 0
  BY <1>1, <1>2, <1>6 DEF Replaces
<1>8. Joins(base \o t, base, t)
  BY <1>6, Concatenated
<1>9. Replaces(base \o t, base, Len(base), t)
  <2>1. Len(base) \in 0..Len(base)
    BY <1>6
  <2> QED
    BY <1>6, <1>8, <2>1 DEF Joins, Replaces, Alike
<1>10. StackOK(base \o t)
  BY <1>4, <1>7, <1>9, ReplacedOK DEF FramesNew
<1>11. \A k \in DOMAIN base : k <= Len(base)
  BY <1>6
<1>12. Waiting(base) => Waiting(base \o t)
  BY <1>4, <1>6, <1>9, <1>11, ReplacedWaits
<1>13. stack' = base \o t
  BY DEF base
<1>14. From(base, stack, <<c>>) /\ From(base \o t, base, t)
  BY <1>2, <1>4, <1>9, ReplacedFrom
<1>15. \A l \in 1..1 : <<c>>[l] = c
  OBVIOUS
<1>16. ASSUME NEW k \in DOMAIN (base \o t)
       PROVE  \/ \E l \in DOMAIN stack : Alike((base \o t)[k], stack[l])
              \/ (base \o t)[k] = c
              \/ \E l \in 1..Len(t) : (base \o t)[k] = t[l]
  BY <1>6, <1>14, <1>15 DEF From, Alike
<1>17. FromAll(base \o t, stack, c, t)
  BY <1>16 DEF FromAll
<1> QED
  BY <1>5, <1>10, <1>12, <1>13, <1>17

-----------------------------------------------------------------------------
(* Effects                                                                 *)

\* Interpreters s with host h: a closure of a governed interpreter belongs to
\* a governed one, and what is attached to that comes from the host.
InterpFields == {"attached", "mode", "path", "nested", "bound", "whole"}
HomeIn(s, i, home) == home \in DOMAIN s /\ (s[i].mode = "governed" => s[home].mode = "governed")
AttachedIn(a, h) ==
  /\ a.wired => h.wired /\ (h.hardened => a.hardened \/ (h.authenticated /\ h.ed25519))
  /\ a.authenticated \in {FALSE, h.authenticated}
  /\ a.ed25519 => h.ed25519
InterpIn(s, i, h) ==
  /\ DOMAIN s[i] = InterpFields
  /\ \A f \in DOMAIN s[i].bound : HomeIn(s, i, s[i].bound[f])
  /\ s[i].mode = "governed" => AttachedIn(s[i].attached, h)
  /\ s[i].attached.debug => h.debug
InterpsIn(s, h) == IsSeq(s) /\ \A i \in DOMAIN s : InterpIn(s, i, h)
CacheIn(c, s) == \A path \in DOMAIN c : \A f \in DOMAIN c[path] : c[path][f] \in DOMAIN s

\* Frames and interpreters: what a governed program runs is governed.
FrameIn(f, s) ==
  /\ f.interp \in DOMAIN s
  /\ f.kind = "module" => f.info \in DOMAIN s /\ HomeIn(s, f.info, f.interp)
  /\ f.kind = "queued" => HomeIn(s, f.interp, f.info[2])
GovernedIn(st, s) == st # <<>> /\ s[st[1].interp].mode = "governed"
FramesIn(st, s) ==
  \A k \in DOMAIN st : /\ FrameIn(st[k], s)
                       /\ GovernedIn(st, s) => s[st[k].interp].mode = "governed"

\* n is s with more interpreters, or with more bound to those it has.
Grows(s, n) ==
  \A i \in DOMAIN s : i \in DOMAIN n /\ n[i].mode = s[i].mode /\ n[i].attached = s[i].attached

LEMMA GrowsKeeps ==
  ASSUME NEW s, NEW n, Grows(s, n)
  PROVE  /\ \A i \in DOMAIN s : \A x : HomeIn(s, i, x) => HomeIn(n, i, x)
         /\ \A f : FrameIn(f, s) => FrameIn(f, n)
         /\ \A c : CacheIn(c, s) => CacheIn(c, n)
<1>1. \A i \in DOMAIN s : \A x : HomeIn(s, i, x) => HomeIn(n, i, x)
  BY DEF Grows, HomeIn
<1>2. \A f : FrameIn(f, s) => FrameIn(f, n)
  BY <1>1 DEF Grows, FrameIn
<1>3. \A c : CacheIn(c, s) => CacheIn(c, n)
  BY DEF Grows, CacheIn
<1> QED
  BY <1>1, <1>2, <1>3

\* An interpreter gets more functions.
LEMMA BoundGrows ==
  ASSUME NEW s, NEW h, InterpsIn(s, h), NEW i \in DOMAIN s, NEW b,
         \A f \in DOMAIN b : HomeIn(s, i, b[f])
  PROVE  /\ InterpsIn([s EXCEPT ![i].bound = Over(b, @)], h)
         /\ Grows(s, [s EXCEPT ![i].bound = Over(b, @)])
<1> DEFINE new == [s[i] EXCEPT !.bound = Over(b, @)]
           n == [s EXCEPT ![i] = new]
<1>1. DOMAIN s[i] = InterpFields /\ IsSeq(s) /\ DOMAIN s = 1..Len(s)
  BY IsSeqIs DEF InterpsIn, InterpIn
<1>2. /\ DOMAIN new = InterpFields /\ new.mode = s[i].mode /\ new.attached = s[i].attached
      /\ new.bound = Over(b, s[i].bound)
  BY <1>1 DEF InterpFields
<1>3. \A f \in DOMAIN new.bound : HomeIn(s, i, new.bound[f])
  <2>1. \A f \in DOMAIN Over(b, s[i].bound) :
          \/ f \in DOMAIN b /\ Over(b, s[i].bound)[f] = b[f]
          \/ f \in DOMAIN s[i].bound /\ Over(b, s[i].bound)[f] = s[i].bound[f]
    BY DEF Over
  <2> QED
    BY <1>2, <2>1 DEF InterpsIn, InterpIn
<1> HIDE DEF new
<1>4. /\ IsSeq(n) /\ Len(n) = Len(s) /\ DOMAIN n = DOMAIN s
      /\ \A k \in DOMAIN s : n[k] = IF k = i THEN new ELSE s[k]
  BY <1>1, Excepted, IsSeqIs
<1> HIDE DEF n
<1>5. Grows(s, n)
  BY <1>2, <1>4 DEF Grows
<1>6. ASSUME NEW k \in DOMAIN n
      PROVE  InterpIn(n, k, h)
  <2>1. CASE k = i
    <3>1. n[k] = new
      BY <1>4, <2>1
    <3>2. \A f \in DOMAIN n[k].bound : HomeIn(n, k, n[k].bound[f])
      BY <1>3, <1>5, <2>1, <3>1, GrowsKeeps
    <3> QED
      BY <1>2, <2>1, <3>1, <3>2 DEF InterpIn, InterpsIn
  <2>2. CASE k # i
    <3>1. n[k] = s[k] /\ k \in DOMAIN s
      BY <1>4, <1>6, <2>2
    <3>2. \A f \in DOMAIN n[k].bound : HomeIn(n, k, n[k].bound[f])
      BY <1>5, <3>1, GrowsKeeps DEF InterpIn, InterpsIn
    <3> QED
      BY <3>1, <3>2 DEF InterpIn, InterpsIn
  <2> QED
    BY <2>1, <2>2
<1>7. InterpsIn(n, h)
  BY <1>4, <1>6 DEF InterpsIn
<1>8. [s EXCEPT ![i].bound = Over(b, @)] = n
  BY DEF n, new
<1> QED
  BY <1>5, <1>7, <1>8

\* A module is whole.
LEMMA WholeGrows ==
  ASSUME NEW s, NEW h, InterpsIn(s, h), NEW i \in DOMAIN s
  PROVE  /\ InterpsIn([s EXCEPT ![i].whole = TRUE], h)
         /\ Grows(s, [s EXCEPT ![i].whole = TRUE])
<1> DEFINE new == [s[i] EXCEPT !.whole = TRUE]
           n == [s EXCEPT ![i] = new]
<1>1. DOMAIN s[i] = InterpFields /\ IsSeq(s) /\ DOMAIN s = 1..Len(s)
  BY IsSeqIs DEF InterpsIn, InterpIn
<1>2. /\ DOMAIN new = InterpFields /\ new.mode = s[i].mode /\ new.attached = s[i].attached
      /\ new.bound = s[i].bound
  BY <1>1 DEF InterpFields
<1> HIDE DEF new
<1>4. /\ IsSeq(n) /\ Len(n) = Len(s) /\ DOMAIN n = DOMAIN s
      /\ \A k \in DOMAIN s : n[k] = IF k = i THEN new ELSE s[k]
  BY <1>1, Excepted, IsSeqIs
<1> HIDE DEF n
<1>5. Grows(s, n)
  BY <1>2, <1>4 DEF Grows
<1>6. ASSUME NEW k \in DOMAIN n
      PROVE  InterpIn(n, k, h)
  <2>1. /\ k \in DOMAIN s /\ DOMAIN n[k] = InterpFields /\ n[k].bound = s[k].bound
        /\ n[k].mode = s[k].mode /\ n[k].attached = s[k].attached
    BY <1>2, <1>4, <1>6 DEF InterpIn, InterpsIn
  <2>2. \A f \in DOMAIN n[k].bound : HomeIn(n, k, n[k].bound[f])
    BY <1>5, <2>1, GrowsKeeps DEF InterpIn, InterpsIn
  <2> QED
    BY <2>1, <2>2 DEF InterpIn, InterpsIn
<1>7. InterpsIn(n, h)
  BY <1>4, <1>6 DEF InterpsIn
<1>8. [s EXCEPT ![i].whole = TRUE] = n
  BY DEF n, new
<1> QED
  BY <1>5, <1>7, <1>8

\* An interpreter is made.
LEMMA NewGrows ==
  ASSUME NEW s, NEW h, InterpsIn(s, h), NEW a, NEW mode, NEW path, NEW nested,
         mode = "governed" => AttachedIn(a, h), a.debug => h.debug
  PROVE  LET n == Append(s, NewInterp(a, mode, path, nested))
         IN  /\ InterpsIn(n, h) /\ Grows(s, n)
             /\ Len(n) \in DOMAIN n /\ n[Len(n)].mode = mode
<1> DEFINE new == NewInterp(a, mode, path, nested)
           n == Append(s, new)
<1>1. IsSeq(s) /\ DOMAIN s = 1..Len(s) /\ Len(s) \in Nat
  BY IsSeqIs DEF InterpsIn
<1>2. /\ DOMAIN new = InterpFields /\ new.mode = mode /\ new.attached = a
      /\ DOMAIN new.bound = {}
  BY DEF InterpFields, NewInterp, NoFunctions
<1> HIDE DEF new
<1>3. /\ IsSeq(n) /\ Len(n) = Len(s) + 1
      /\ \A k \in 1..Len(s) : n[k] = s[k]
      /\ n[Len(s) + 1] = new
  BY <1>1, Appended
<1>4. DOMAIN n = 1..(Len(s) + 1)
  BY <1>3, IsSeqIs
<1> HIDE DEF n
<1>5. Grows(s, n)
  BY <1>1, <1>3, <1>4 DEF Grows
<1>6. ASSUME NEW k \in DOMAIN n
      PROVE  InterpIn(n, k, h)
  <2>1. CASE k = Len(s) + 1
    BY <1>2, <1>3, <2>1 DEF InterpIn
  <2>2. CASE k # Len(s) + 1
    <3>1. n[k] = s[k] /\ k \in DOMAIN s
      BY <1>1, <1>3, <1>4, <1>6, <2>2
    <3>2. \A f \in DOMAIN n[k].bound : HomeIn(n, k, n[k].bound[f])
      BY <1>5, <3>1, GrowsKeeps DEF InterpIn, InterpsIn
    <3> QED
      BY <3>1, <3>2 DEF InterpIn, InterpsIn
  <2> QED
    BY <2>1, <2>2
<1>7. InterpsIn(n, h)
  BY <1>3, <1>6 DEF InterpsIn
<1>8. Len(n) \in DOMAIN n /\ n[Len(n)].mode = mode
  BY <1>1, <1>2, <1>3, <1>4
<1> QED
  BY <1>5, <1>7, <1>8 DEF n, new

\* The frames of a step are old ones, or new ones of interpreters that exist
\* and, in a governed program, are governed.
NewFrame(f, s, i1, i2) ==
  /\ f.kind # "program" /\ FrameIn(f, i2)
  /\ GovernedIn(s, i1) => i2[f.interp].mode = "governed"

LEMMA FramesStep ==
  ASSUME NEW s, StackOK(s), NEW n, StackOK(n), NEW i1, NEW i2, Grows(i1, i2), FramesIn(s, i1),
         \A k \in DOMAIN n : (\E l \in DOMAIN s : Alike(n[k], s[l])) \/ NewFrame(n[k], s, i1, i2)
  PROVE  FramesIn(n, i2) /\ (GovernedIn(n, i2) => GovernedIn(s, i1))
<1>0. /\ IsSeq(n) /\ DOMAIN n = 1..Len(n) /\ Len(n) \in Nat /\ (n = <<>> <=> Len(n) = 0)
      /\ IsSeq(s) /\ DOMAIN s = 1..Len(s) /\ Len(s) \in Nat /\ (s = <<>> <=> Len(s) = 0)
  BY IsSeqIs DEF StackOK
<1>1. ASSUME GovernedIn(n, i2)
      PROVE  GovernedIn(s, i1)
  <2>1. n # <<>> /\ i2[n[1].interp].mode = "governed"
    BY <1>1 DEF GovernedIn
  <2>2. 1 \in DOMAIN n
    BY <1>0, <2>1
  <2>3. n[1].kind = "program"
    BY <2>2 DEF StackOK
  <2>4. PICK l \in DOMAIN s : Alike(n[1], s[l])
    BY <2>2, <2>3 DEF NewFrame
  <2>5. l = 1
    BY <2>3, <2>4 DEF Alike, StackOK
  <2>6. s # <<>> /\ n[1].interp = s[1].interp /\ s[1].interp \in DOMAIN i1
    BY <1>0, <2>4, <2>5 DEF Alike, FramesIn, FrameIn
  <2> QED
    BY <2>1, <2>6 DEF GovernedIn, Grows
<1>2. ASSUME NEW k \in DOMAIN n
      PROVE  FrameIn(n[k], i2) /\ (GovernedIn(n, i2) => i2[n[k].interp].mode = "governed")
  <2>1. CASE \E l \in DOMAIN s : Alike(n[k], s[l])
    <3>1. PICK l \in DOMAIN s : Alike(n[k], s[l])
      BY <2>1
    <3>2. /\ FrameIn(s[l], i1) /\ FrameIn(s[l], i2)
          /\ GovernedIn(s, i1) => i1[s[l].interp].mode = "governed"
      BY <3>1, GrowsKeeps DEF FramesIn
    <3>3. FrameIn(n[k], i2)
      BY <3>1, <3>2 DEF FrameIn, Alike
    <3>4. s[l].interp \in DOMAIN i1 /\ n[k].interp = s[l].interp
      BY <3>1, <3>2 DEF FrameIn, Alike
    <3> QED
      BY <1>1, <3>2, <3>3, <3>4 DEF Grows
  <2>2. CASE NewFrame(n[k], s, i1, i2)
    BY <1>1, <2>2 DEF NewFrame
  <2> QED
    BY <1>2, <2>1, <2>2
<1> QED
  BY <1>1, <1>2 DEF FramesIn

SInv ==
  /\ StackOK(stack) /\ host \in Hosts
  /\ InterpsIn(interps, host) /\ CacheIn(cache, interps) /\ FramesIn(stack, interps)
  /\ EffectsAllowed

LEMMA EffectsIs ==
  EffectsAllowed <=>
    \A e \in effects : GovernedIn(stack, interps) \/ e.mode = "governed" =>
      /\ host.wired
      /\ \E verified \in {FALSE, host.authenticated} :
           [action |-> e.action, target |-> e.target, authenticated |-> verified] \in Policy
      /\ host.hardened => host.authenticated /\ host.ed25519
BY DEF EffectsAllowed, GovernedProgram, GovernedIn

\* Steps without an effect
LEMMA SKept ==
  ASSUME SInv, StackOK(stack'),
         \A k \in DOMAIN stack' : \/ \E l \in DOMAIN stack : Alike(stack'[k], stack[l])
                                  \/ NewFrame(stack'[k], stack, interps, interps'),
         Grows(interps, interps'), InterpsIn(interps', host), CacheIn(cache', interps'),
         UNCHANGED <<host, effects>>
  PROVE  SInv'
<1>1. FramesIn(stack', interps') /\ (GovernedIn(stack', interps') => GovernedIn(stack, interps))
  BY FramesStep DEF SInv
<1>2. EffectsAllowed'
  BY <1>1 DEF SInv, EffectsAllowed, GovernedProgram, GovernedIn
<1> QED
  BY <1>1, <1>2 DEF SInv

\* Steps that leave the interpreters alone, too
LEMMA SSame ==
  ASSUME SInv, StackOK(stack'),
         \A k \in DOMAIN stack' : \/ \E l \in DOMAIN stack : Alike(stack'[k], stack[l])
                                  \/ NewFrame(stack'[k], stack, interps, interps),
         UNCHANGED <<interps, cache, host, effects>>
  PROVE  SInv'
<1>1. Grows(interps, interps')
  BY DEF Grows
<1> QED
  BY <1>1, SKept DEF SInv

LEMMA TopIs ==
  ASSUME SInv, stack # <<>>
  PROVE  /\ Me \in DOMAIN interps /\ FrameIn(Top, interps) /\ InterpIn(interps, Me, host)
         /\ GovernedIn(stack, interps) => interps[Me].mode = "governed"
<1>1. Top \in {stack[k] : k \in DOMAIN stack}
  BY Fronted DEF SInv, StackOK, Top
<1>2. FrameIn(Top, interps) /\ (GovernedIn(stack, interps) => interps[Top.interp].mode = "governed")
  BY <1>1 DEF SInv, FramesIn
<1> QED
  BY <1>2 DEF FrameIn, SInv, InterpsIn, Me

\* Frames of a call of a function with this home
LEMMA CallFramesIn ==
  ASSUME NEW f, NEW home, NEW l \in 1..Len(CallFrames(f, home))
  PROVE  /\ CallFrames(f, home)[l].interp = home
         /\ CallFrames(f, home)[l].kind \in {"entering", "call", "block"}
<1> DEFINE a == Frame("entering", home, <<>>, f)
           b == Frame("call", home, <<>>, f)
           c == Frame("block", home, Functions[f].body, 0)
<1>1. /\ a.interp = home /\ a.kind = "entering" /\ b.interp = home /\ b.kind = "call"
      /\ c.interp = home /\ c.kind = "block"
  BY FrameIs
<1>2. CallFrames(f, home) = <<a>> \/ CallFrames(f, home) = <<b, c>>
  BY DEF CallFrames
<1> HIDE DEF a, b, c
<1>3. CASE CallFrames(f, home) = <<a>>
  BY <1>1, <1>3
<1>4. CASE CallFrames(f, home) = <<b, c>>
  BY <1>1, <1>4
<1> QED
  BY <1>2, <1>3, <1>4

LEMMA PlainFrame ==
  ASSUME NEW s, NEW i1, NEW i2, NEW k, k \notin {"program", "module", "queued"},
         NEW i \in DOMAIN i2, GovernedIn(s, i1) => i2[i].mode = "governed", NEW t, NEW x
  PROVE  NewFrame(Frame(k, i, t, x), s, i1, i2)
<1>1. Frame(k, i, t, x).kind = k /\ Frame(k, i, t, x).interp = i
  BY FrameIs
<1> QED
  BY <1>1 DEF NewFrame, FrameIn

LEMMA TuplesHold ==
  /\ \A f : \A l \in 1..Len(<<f>>) : <<f>>[l] = f
  /\ \A f, g : \A l \in 1..Len(<<f, g>>) : <<f, g>>[l] = f \/ <<f, g>>[l] = g
<1>1. \A f : \A l \in 1..Len(<<f>>) : <<f>>[l] = f
  OBVIOUS
<1>2. \A f, g : \A l \in 1..Len(<<f, g>>) : <<f, g>>[l] = f \/ <<f, g>>[l] = g
  OBVIOUS
<1> QED
  BY <1>1, <1>2

\* Steps of a running block
LEMMA SRunning ==
  ASSUME SInv, NEW op, Running(op), NEW t, FramesNew(t), stack' \in {Rest, Rest \o t},
         \A l \in 1..Len(t) : NewFrame(t[l], stack, interps, interps'),
         Grows(interps, interps'), InterpsIn(interps', host), CacheIn(cache', interps'),
         UNCHANGED <<host, effects>>
  PROVE  SInv'
<1>1. stack # <<>>
  BY DEF Running
<1>2. StackOK(stack') /\ From(stack', stack, t)
  BY <1>1, Pushed DEF SInv
<1>3. \A k \in DOMAIN stack' : \/ \E l \in DOMAIN stack : Alike(stack'[k], stack[l])
                               \/ NewFrame(stack'[k], stack, interps, interps')
  BY <1>2 DEF From
<1> QED
  BY <1>2, <1>3, SKept

\* Steps that pop the top frame
LEMMA SPop ==
  ASSUME SInv, stack # <<>>, Top.kind # "program", NEW t, FramesNew(t),
         stack' \in {Front(stack), Front(stack) \o t},
         \A l \in 1..Len(t) : NewFrame(t[l], stack, interps, interps'),
         Grows(interps, interps'), InterpsIn(interps', host), CacheIn(cache', interps'),
         UNCHANGED <<host, effects>>
  PROVE  SInv'
<1>2. StackOK(stack') /\ From(stack', stack, t)
  BY Popped DEF SInv
<1>3. \A k \in DOMAIN stack' : \/ \E l \in DOMAIN stack : Alike(stack'[k], stack[l])
                               \/ NewFrame(stack'[k], stack, interps, interps')
  BY <1>2 DEF From
<1> QED
  BY <1>2, <1>3, SKept

\* Nothing happens to the interpreters.
Idle == UNCHANGED <<interps, cache, host, effects>>
LEMMA IdleIs ==
  ASSUME SInv, Idle
  PROVE  /\ Grows(interps, interps') /\ InterpsIn(interps', host) /\ CacheIn(cache', interps')
         /\ UNCHANGED <<host, effects>> /\ interps' = interps
BY DEF SInv, Idle, Grows

\* Nothing gets through a gate of a governed interpreter that the policy does
\* not allow to the host's authority.
LEMMA GateIs ==
  ASSUME NEW i, interps[i].mode = "governed", AttachedIn(interps[i].attached, host),
         NEW action, NEW target, NEW isPath, Gate(i, action, target, isPath)
  PROVE  /\ host.wired
         /\ \E verified \in {FALSE, host.authenticated} :
              [action |-> action, target |-> target, authenticated |-> verified] \in Policy
         /\ host.hardened => host.authenticated /\ host.ed25519
<1> DEFINE a == interps[i].attached
<1>1. a.wired /\ (a.hardened => a.authenticated /\ a.ed25519)
      /\ [action |-> action, target |-> target, authenticated |-> a.authenticated] \in Policy
  BY DEF Gate, Unhardened, Allows
<1>2. /\ a.wired => host.wired /\ (host.hardened => a.hardened \/ (host.authenticated /\ host.ed25519))
      /\ a.authenticated \in {FALSE, host.authenticated}
      /\ a.ed25519 => host.ed25519
  BY DEF AttachedIn
<1> HIDE DEF a
<1> QED
  BY <1>1, <1>2

LEMMA SEffect == SInv /\ Effect => SInv'
<1> SUFFICES ASSUME SInv, Effect
             PROVE  SInv'
  OBVIOUS
<1> DEFINE s == Statement
           e == [mode |-> interps[Me].mode, action |-> s.action, target |-> s.target]
<1>1. /\ stack # <<>> /\ stack' = Rest /\ UNCHANGED <<host, interps, cache>>
      /\ \/ UNCHANGED effects
         \/ Gate(Me, s.action, s.target, s.op = "fs") /\ effects' = effects \cup {e}
  BY DEF Effect, Running
<1>2. StackOK(stack') /\ From(stack', stack, <<>>)
  BY <1>1, NoFrame, Pushed DEF SInv
<1>3. Grows(interps, interps)
  BY DEF Grows
<1>4. \A k \in DOMAIN stack' : \E l \in DOMAIN stack : Alike(stack'[k], stack[l])
  <2>1. 1..Len(<<>>) = {}
    OBVIOUS
  <2> QED
    BY <1>2, <2>1 DEF From
<1>5. FramesIn(stack', interps) /\ (GovernedIn(stack', interps) => GovernedIn(stack, interps))
  BY <1>2, <1>3, <1>4, FramesStep DEF SInv
<1>6. EffectsAllowed'
  <2>1. CASE UNCHANGED effects
    BY <1>1, <1>5, <2>1 DEF SInv, EffectsAllowed, GovernedProgram, GovernedIn
  <2>2. CASE Gate(Me, s.action, s.target, s.op = "fs") /\ effects' = effects \cup {e}
    <3>1. /\ InterpIn(interps, Me, host)
          /\ GovernedIn(stack, interps) => interps[Me].mode = "governed"
      BY <1>1, TopIs
    <3>2. e.mode = interps[Me].mode /\ e.action = s.action /\ e.target = s.target
      OBVIOUS
    <3>3. GovernedIn(stack', interps) \/ e.mode = "governed" =>
            /\ host.wired
            /\ \E verified \in {FALSE, host.authenticated} :
                 [action |-> e.action, target |-> e.target, authenticated |-> verified] \in Policy
            /\ host.hardened => host.authenticated /\ host.ed25519
      BY <1>5, <2>2, <3>1, <3>2, GateIs DEF InterpIn
    <3> HIDE DEF e
    <3>4. \A d \in effects' : GovernedIn(stack', interps) \/ d.mode = "governed" =>
            /\ host.wired
            /\ \E verified \in {FALSE, host.authenticated} :
                 [action |-> d.action, target |-> d.target, authenticated |-> verified] \in Policy
            /\ host.hardened => host.authenticated /\ host.ed25519
      BY <1>5, <2>2, <3>3, EffectsIs DEF SInv
    <3> QED
      BY <1>1, <3>4 DEF EffectsAllowed, GovernedProgram, GovernedIn
  <2> QED
    BY <1>1, <2>1, <2>2
<1> QED
  BY <1>1, <1>2, <1>5, <1>6 DEF SInv

LEMMA SCalls == SInv /\ (Declare \/ Call \/ Cascade \/ Throw \/ Protect) => SInv'
<1>1. ASSUME SInv, Declare PROVE SInv'
  <2> DEFINE b == [f \in {Statement.name} |-> Me]
  <2>1. /\ Running("def") /\ stack' = Rest /\ UNCHANGED <<host, cache, effects>>
        /\ interps' = [interps EXCEPT ![Me].bound = Over(b, @)]
    BY <1>1 DEF Declare
  <2>2. Me \in DOMAIN interps
    BY <1>1, <2>1, TopIs DEF Running
  <2>3. \A f \in DOMAIN b : HomeIn(interps, Me, b[f])
    BY <2>2 DEF HomeIn
  <2> HIDE DEF b
  <2>4. InterpsIn(interps', host) /\ Grows(interps, interps')
    BY <1>1, <2>1, <2>2, <2>3, BoundGrows DEF SInv
  <2>5. CacheIn(cache', interps')
    BY <1>1, <2>1, <2>4, GrowsKeeps DEF SInv
  <2>6. FramesNew(<<>>) /\ 1..Len(<<>>) = {}
    BY NoFrame
  <2> QED
    BY <1>1, <2>1, <2>4, <2>5, <2>6, SRunning
<1>2. ASSUME SInv, Call PROVE SInv'
  <2> DEFINE f == Statement.name
             home == interps[Me].bound[f]
             t == CallFrames(f, home)
  <2>1. Running("call") /\ Idle /\ (stack' = Rest \/ (stack' \in {Rest, Rest \o t} /\ Known(f)))
    BY <1>2 DEF Call, RunFrames, Idle
  <2>2. CASE stack' = Rest
    <3>1. FramesNew(<<>>) /\ 1..Len(<<>>) = {}
      BY NoFrame
    <3> QED
      BY <1>2, <2>1, <2>2, <3>1, IdleIs, SRunning
  <2>3. CASE stack' \in {Rest, Rest \o t} /\ Known(f)
    <3>1. /\ HomeIn(interps, Me, home)
          /\ GovernedIn(stack, interps) => interps[Me].mode = "governed"
      BY <1>2, <2>1, <2>3, TopIs DEF Known, InterpIn, Running
    <3>2. \A l \in 1..Len(t) : NewFrame(t[l], stack, interps, interps)
      BY <3>1, CallFramesIn DEF NewFrame, FrameIn, HomeIn
    <3>3. FramesNew(t)
      BY CallFramesNew
    <3> HIDE DEF t
    <3> QED
      BY <1>2, <2>1, <2>3, <3>2, <3>3, IdleIs, SRunning
  <2> QED
    BY <2>1, <2>2, <2>3
<1>3. ASSUME SInv, Cascade PROVE SInv'
  <2> DEFINE f == Statement.name
             home == interps[Me].bound[f]
             q == Frame("queued", Me, <<>>, <<f, home>>)
             t == <<q>>
  <2>1. Running("cascade") /\ Idle /\ (stack' = Rest \/ (stack' \in {Rest, Rest \o t} /\ Known(f)))
    BY <1>3 DEF Cascade, RunFrames, Idle
  <2>2. CASE stack' = Rest
    <3>1. FramesNew(<<>>) /\ 1..Len(<<>>) = {}
      BY NoFrame
    <3> QED
      BY <1>3, <2>1, <2>2, <3>1, IdleIs, SRunning
  <2>3. CASE stack' \in {Rest, Rest \o t} /\ Known(f)
    <3>1. /\ HomeIn(interps, Me, home) /\ Me \in DOMAIN interps
          /\ GovernedIn(stack, interps) => interps[Me].mode = "governed"
      BY <1>3, <2>1, <2>3, TopIs DEF Known, InterpIn, Running
    <3>2. /\ q.kind = "queued" /\ q.interp = Me /\ q.info = <<f, home>> /\ DOMAIN q = Fields
          /\ <<f, home>>[2] = home
      BY FrameIs
    <3> HIDE DEF q, home
    <3>3. NewFrame(q, stack, interps, interps)
      BY <3>1, <3>2 DEF NewFrame, FrameIn
    <3>4. FramesNew(t)
      BY <3>2, OneFrame
    <3>5. \A l \in 1..Len(t) : NewFrame(t[l], stack, interps, interps)
      BY <3>3, TuplesHold
    <3> HIDE DEF t
    <3> QED
      BY <1>3, <2>1, <2>3, <3>4, <3>5, IdleIs, SRunning
  <2> QED
    BY <2>1, <2>2, <2>3
<1>4. ASSUME SInv, Throw PROVE SInv'
  <2>1. (Running("throw") \/ Running("return")) /\ stack' = Rest /\ Idle
    BY <1>4 DEF Throw, Idle
  <2>2. FramesNew(<<>>) /\ 1..Len(<<>>) = {}
    BY NoFrame
  <2> QED
    BY <1>4, <2>1, <2>2, IdleIs, SRunning
<1>5. ASSUME SInv, Protect PROVE SInv'
  <2>1. PICK op \in {"spillage", "cleanup"} : Running(op)
    BY <1>5 DEF Protect
  <2> DEFINE f == Frame(op, Me, <<>>, Statement.handlers)
             g == Frame("block", Me, Statement.body, 0)
             t == <<f, g>>
  <2>2. Statement.op = op
    BY <2>1 DEF Running, Statement
  <2>3. stack' \in {Rest, Rest \o t} /\ Idle
    BY <1>5, <2>2 DEF Protect, RunFrames, Idle
  <2>4. FramesNew(t)
    BY FrameIs, TwoFrames
  <2>5. Me \in DOMAIN interps /\ (GovernedIn(stack, interps) => interps[Me].mode = "governed")
    BY <1>5, <2>1, TopIs DEF Running
  <2>6. NewFrame(f, stack, interps, interps) /\ NewFrame(g, stack, interps, interps)
    BY <2>5, PlainFrame
  <2> HIDE DEF f, g
  <2>7. \A l \in 1..Len(t) : NewFrame(t[l], stack, interps, interps)
    BY <2>6, TuplesHold
  <2> HIDE DEF t
  <2> QED
    BY <1>5, <2>1, <2>3, <2>4, <2>7, IdleIs, SRunning
<1> QED
  BY <1>1, <1>2, <1>3, <1>4, <1>5

\* A program begins: nothing has happened yet.
LEMMA SBegin == ASSUME SInv, NEW program, Begin(program) PROVE SInv'
<1> DEFINE refused == program.mode = "governed" /\ ~program.parses
           n == Append(interps, NewInterp(host, program.mode, "", FALSE))
           f == Frame("program", Len(n), <<>>, 0)
           g == Frame("block", Len(n), program.body, 0)
<1>1. /\ stack = <<>> /\ interps' = n /\ effects' = {} /\ UNCHANGED <<host, cache>>
      /\ stack' = IF refused THEN stack ELSE <<f, g>>
  BY DEF Begin
<1>2. AttachedIn(host, host)
  BY InterpreterAssumption DEF SInv, AttachedIn
<1>3. InterpsIn(n, host) /\ Grows(interps, n) /\ Len(n) \in DOMAIN n
  BY <1>2, NewGrows DEF SInv
<1>4. DOMAIN f = Fields /\ f.kind = "program" /\ DOMAIN g = Fields /\ g.kind = "block"
      /\ f.interp = Len(n) /\ g.interp = Len(n)
  BY FrameIs
<1> HIDE DEF n, f, g, refused
<1>5. CacheIn(cache', interps')
  BY <1>1, <1>3, GrowsKeeps DEF SInv
<1>6. EffectsAllowed'
  BY <1>1 DEF EffectsAllowed
<1>7. StackOK(stack') /\ FramesIn(stack', interps')
  <2>1. CASE refused
    <3>1. stack' = <<>> /\ DOMAIN <<>> = {}
      BY <1>1, <2>1
    <3> QED
      BY <1>1, <3>1 DEF SInv, FramesIn
  <2>2. CASE ~refused
    <3>1. /\ IsSeq(<<f, g>>) /\ Len(<<f, g>>) = 2 /\ <<f, g>>[1] = f /\ <<f, g>>[2] = g
          /\ DOMAIN <<f, g>> = 1..2
      BY Tuples, IsSeqIs
    <3>2. \A k \in 1..2 : k = 1 \/ k = 2
      OBVIOUS
    <3>3. StackOK(<<f, g>>)
      BY <1>4, <3>1, <3>2 DEF StackOK
    <3>4. FrameIn(f, n) /\ FrameIn(g, n)
      BY <1>3, <1>4 DEF FrameIn
    <3>5. \A k \in DOMAIN <<f, g>> : FrameIn(<<f, g>>[k], n) /\ <<f, g>>[k].interp = Len(n)
      BY <1>4, <3>1, <3>2, <3>4
    <3>6. FramesIn(<<f, g>>, n)
      BY <1>4, <3>1, <3>5 DEF FramesIn, GovernedIn
    <3> QED
      BY <1>1, <2>2, <3>3, <3>6
  <2> QED
    BY <2>1, <2>2
<1> QED
  BY <1>1, <1>3, <1>5, <1>6, <1>7 DEF SInv

LEMMA SThreads == SInv /\ (StartTask \/ EnterGoverned) => SInv'
<1>1. ASSUME SInv, StartTask PROVE SInv'
  <2> DEFINE c == Frame("cascade", Me, <<>>, 0)
             home == Top.info[2]
             t == CallFrames(Top.info[1], home)
  <2>1. /\ stack # <<>> /\ Top.kind = "queued" /\ stack' = Front(stack) \o <<c>> \o t
        /\ UNCHANGED <<interps, cache, host, effects>>
    BY <1>1 DEF StartTask
  <2>2. FramesNew(<<c>>)
    BY FrameIs, OneFrame
  <2>3. FramesNew(t)
    BY CallFramesNew
  <2>4. /\ Me \in DOMAIN interps /\ HomeIn(interps, Me, home)
        /\ GovernedIn(stack, interps) => interps[Me].mode = "governed"
    BY <1>1, <2>1, TopIs DEF FrameIn, Me
  <2>5. NewFrame(c, stack, interps, interps)
    BY <2>4, PlainFrame
  <2>6. \A l \in 1..Len(t) : NewFrame(t[l], stack, interps, interps)
    BY <2>4, CallFramesIn DEF NewFrame, FrameIn, HomeIn
  <2> HIDE DEF c, t
  <2>7. StackOK(stack') /\ FromAll(stack', stack, c, t)
    BY <1>1, <2>1, <2>2, <2>3, Started DEF SInv
  <2>8. \A k \in DOMAIN stack' : \/ \E l \in DOMAIN stack : Alike(stack'[k], stack[l])
                                 \/ NewFrame(stack'[k], stack, interps, interps)
    BY <2>5, <2>6, <2>7 DEF FromAll
  <2> QED
    BY <1>1, <2>1, <2>7, <2>8, SSame
<1>2. ASSUME SInv, EnterGoverned PROVE SInv'
  <2> DEFINE f == Frame("governed", Me, <<>>, Top.info)
             g == Frame("block", Me, Functions[Top.info].body, 0)
             t == <<f, g>>
  <2>1. /\ stack # <<>> /\ Top.kind = "entering" /\ Idle
        /\ stack' \in {Front(stack), Front(stack) \o t}
    BY <1>2 DEF EnterGoverned, Idle
  <2>2. FramesNew(t)
    BY FrameIs, TwoFrames
  <2>3. Me \in DOMAIN interps /\ (GovernedIn(stack, interps) => interps[Me].mode = "governed")
    BY <1>2, <2>1, TopIs
  <2>4. NewFrame(f, stack, interps, interps) /\ NewFrame(g, stack, interps, interps)
    BY <2>3, PlainFrame
  <2> HIDE DEF f, g
  <2>5. \A l \in 1..Len(t) : NewFrame(t[l], stack, interps, interps)
    BY <2>4, TuplesHold
  <2> HIDE DEF t
  <2> QED
    BY <1>2, <2>1, <2>2, <2>5, IdleIs, SPop
<1> QED
  BY <1>1, <1>2

LEMMA SImport == SInv /\ Import => SInv'
<1> SUFFICES ASSUME SInv, Import
             PROVE  SInv'
  OBVIOUS
<1> DEFINE path == Statement.path
           child == Child(Me, path)
           n == Append(interps, child)
           f == Frame("module", Len(n), <<>>, Me)
           g == Frame("block", Len(n), Files[path].body, 0)
           t == <<f, g>>
<1>1. Running("import") /\ stack # <<>> /\ UNCHANGED <<host, cache, effects>>
  BY DEF Import, Running
<1>2. /\ Me \in DOMAIN interps /\ InterpIn(interps, Me, host)
      /\ GovernedIn(stack, interps) => interps[Me].mode = "governed"
  BY <1>1, TopIs
<1>3. \/ stack' = Rest /\ UNCHANGED interps
      \/ stack' = Rest /\ Cached(Me, path) /\ Bind(Me, cache[path])
      \/ /\ stack' \in {Rest, Rest \o t} /\ interps' = n
         /\ Gate(Me, "import", path, FALSE)
  BY DEF Import, RunFrames
<1>a. FramesNew(<<>>) /\ 1..Len(<<>>) = {}
  BY NoFrame
<1>4. CASE stack' = Rest /\ UNCHANGED interps
  BY <1>1, <1>4, <1>a, IdleIs, SRunning DEF Idle
<1>5. CASE stack' = Rest /\ Cached(Me, path) /\ Bind(Me, cache[path])
  <2> DEFINE b == cache[path]
  <2>1. interps[Me].mode # "governed" /\ interps' = [interps EXCEPT ![Me].bound = Over(b, @)]
    BY <1>5 DEF Cached, Bind
  <2>2. \A x \in DOMAIN b : HomeIn(interps, Me, b[x])
    BY <1>5, <2>1 DEF SInv, CacheIn, Cached, HomeIn
  <2> HIDE DEF b
  <2>3. InterpsIn(interps', host) /\ Grows(interps, interps')
    BY <1>2, <2>1, <2>2, BoundGrows DEF SInv
  <2>4. CacheIn(cache', interps')
    BY <1>1, <2>3, GrowsKeeps DEF SInv
  <2> QED
    BY <1>1, <1>5, <1>a, <2>3, <2>4, SRunning
<1>6. CASE /\ stack' \in {Rest, Rest \o t} /\ interps' = n
           /\ Gate(Me, "import", path, FALSE)
  <2> DEFINE governed == interps[Me].mode = "governed"
             a == [host EXCEPT !.wired = governed /\ interps[Me].attached.wired,
                               !.authenticated = FALSE, !.hardened = FALSE, !.guard = FALSE,
                               !.debug = FALSE]
             mode == IF governed THEN "governed" ELSE Files[path].mode
             nested == \E k \in DOMAIN stack : interps[stack[k].interp].path = path
  <2>1. child = NewInterp(a, mode, path, nested)
    BY DEF Child
  <2>2. AttachedIn(a, host)
    <3>1. /\ a.wired = (governed /\ interps[Me].attached.wired)
          /\ a.authenticated = FALSE /\ a.ed25519 = host.ed25519
      BY InterpreterAssumption DEF SInv
    <3>2. governed => host.wired /\ (host.hardened => host.authenticated /\ host.ed25519)
      BY <1>2, <1>6, GateIs DEF InterpIn
    <3> HIDE DEF a, governed
    <3> QED
      BY <3>1, <3>2 DEF AttachedIn
  <2>3. (governed => mode = "governed") /\ a.debug = FALSE
    BY InterpreterAssumption DEF SInv
  <2> HIDE DEF a, mode, nested
  <2>4. /\ InterpsIn(n, host) /\ Grows(interps, n) /\ Len(n) \in DOMAIN n
        /\ n[Len(n)].mode = mode
    BY <2>1, <2>2, <2>3, NewGrows DEF SInv
  <2>5. CacheIn(cache', n)
    BY <1>1, <2>4, GrowsKeeps DEF SInv
  <2>6. FramesNew(t)
    BY FrameIs, TwoFrames
  <2>7. /\ f.kind = "module" /\ f.interp = Len(n) /\ f.info = Me
    BY FrameIs
  <2>8. GovernedIn(stack, interps) => n[Len(n)].mode = "governed"
    BY <1>2, <2>3, <2>4
  <2>9. NewFrame(g, stack, interps, n)
    BY <2>4, <2>8, PlainFrame
  <2> HIDE DEF f, g, child, n
  <2>10. HomeIn(n, Me, Len(n)) /\ Me \in DOMAIN n
    BY <1>2, <2>3, <2>4 DEF HomeIn, Grows
  <2>11. NewFrame(f, stack, interps, n)
    BY <2>4, <2>7, <2>8, <2>10 DEF NewFrame, FrameIn
  <2>12. \A l \in 1..Len(t) : NewFrame(t[l], stack, interps, n)
    BY <2>9, <2>11, TuplesHold
  <2> HIDE DEF t
  <2> QED
    BY <1>1, <1>6, <2>4, <2>5, <2>6, <2>12, SRunning
<1> QED
  BY <1>3, <1>4, <1>5, <1>6

LEMMA SProgram == SInv /\ EndProgram => SInv'
<1> SUFFICES ASSUME SInv, EndProgram
             PROVE  SInv'
  OBVIOUS
<1>1. /\ stack # <<>> /\ Top.kind = "program" /\ stack' = Front(stack)
      /\ UNCHANGED <<interps, cache, host, effects>>
  BY DEF EndProgram, Ending
<1>2. Len(stack) = 1
  <2>1. Len(stack) \in DOMAIN stack /\ Top = stack[Len(stack)]
    BY <1>1, Fronted DEF SInv, StackOK, Top
  <2> QED
    BY <1>1, <2>1 DEF SInv, StackOK
<1>3. stack' = <<>> /\ IsSeq(stack') /\ DOMAIN stack' = {}
  <2>1. IsSeq(Front(stack)) /\ Len(Front(stack)) = 0
    BY <1>1, <1>2, Fronted DEF SInv, StackOK
  <2>2. Front(stack) = <<>> /\ DOMAIN Front(stack) = 1..0
    BY <2>1, IsSeqIs
  <2> QED
    BY <1>1, <2>1, <2>2
<1>4. StackOK(stack') /\ FramesIn(stack', interps')
  BY <1>3 DEF StackOK, FramesIn
<1>5. EffectsAllowed'
  BY <1>1, <1>3 DEF SInv, EffectsAllowed, GovernedProgram
<1> QED
  BY <1>1, <1>4, <1>5 DEF SInv

\* What a module has is bound in its importer, and kept for core importers.
LEMMA SModule == SInv /\ EndModule => SInv'
<1> SUFFICES ASSUME SInv, EndModule
             PROVE  SInv'
  OBVIOUS
<1> DEFINE importer == Top.info
           b == interps[Me].bound
           n == [interps EXCEPT ![importer].bound = Over(b, @)]
           m == [n EXCEPT ![Me].whole = TRUE]
<1>1. /\ stack # <<>> /\ Top.kind = "module" /\ stack' = Front(stack)
      /\ UNCHANGED <<host, effects>>
  BY DEF EndModule, Ending
<1>2. /\ Me \in DOMAIN interps /\ InterpIn(interps, Me, host)
      /\ importer \in DOMAIN interps /\ HomeIn(interps, importer, Me)
  BY <1>1, TopIs DEF FrameIn, Me
<1>3. FramesNew(<<>>) /\ 1..Len(<<>>) = {}
  BY NoFrame
<1>4. CASE UNCHANGED <<interps, cache>>
  BY <1>1, <1>3, <1>4, IdleIs, SPop DEF Idle
<1>5. CASE /\ interps' = [interps EXCEPT ![importer].bound = Over(interps[Me].bound, @),
                                        ![Me].whole = TRUE]
           /\ cache' = IF interps[importer].mode = "governed" THEN cache
                       ELSE Kept(interps[Me].path, interps[Me].bound)
  <2>1. interps' = m
    BY <1>5
  <2>2. \A f \in DOMAIN b : HomeIn(interps, importer, b[f])
    BY <1>2 DEF InterpIn, HomeIn
  <2>3. \A f \in DOMAIN b : b[f] \in DOMAIN interps
    BY <2>2 DEF HomeIn
  <2>4. cache' = cache \/ cache' = Over([p \in {interps[Me].path} |-> b], cache)
    BY <1>5 DEF Kept
  <2> HIDE DEF b, importer
  <2>5. InterpsIn(n, host) /\ Grows(interps, n)
    BY <1>2, <2>2, BoundGrows DEF SInv
  <2>6. Me \in DOMAIN n
    BY <1>2, <2>5 DEF Grows
  <2> HIDE DEF n
  <2>7. InterpsIn(m, host) /\ Grows(n, m)
    BY <2>5, <2>6, WholeGrows
  <2> HIDE DEF m
  <2>8. Grows(interps, m)
    BY <2>5, <2>7 DEF Grows
  <2>9. CacheIn(cache', interps)
    <3> DEFINE o == [p \in {interps[Me].path} |-> b]
               c == Over(o, cache)
    <3>1. \A p \in DOMAIN o : o[p] = b
      OBVIOUS
    <3> HIDE DEF o
    <3>2. \A p \in DOMAIN c : \/ c[p] = b
                              \/ p \in DOMAIN cache /\ c[p] = cache[p]
      BY <3>1 DEF Over
    <3> HIDE DEF c
    <3>3. CacheIn(c, interps)
      BY <2>3, <3>2 DEF SInv, CacheIn
    <3> QED
      BY <2>4, <3>3 DEF SInv, c, o
  <2>10. CacheIn(cache', m)
    BY <2>8, <2>9, GrowsKeeps
  <2> QED
    BY <1>1, <1>3, <2>1, <2>7, <2>8, <2>10, SPop
<1> QED
  BY <1>4, <1>5 DEF EndModule

LEMMA SEnds ==
  SInv /\ (EndCall \/ EndGoverned \/ EndSpillage \/ EndCleanup \/ EndFinally) => SInv'
<1>0. FramesNew(<<>>) /\ 1..Len(<<>>) = {}
  BY NoFrame
<1>1. ASSUME SInv, EndCall PROVE SInv'
  <2>1. stack # <<>> /\ Top.kind \in {"call", "block", "cascade"} /\ stack' = Front(stack) /\ Idle
    BY <1>1 DEF EndCall, Ending, Idle
  <2> QED
    BY <1>0, <1>1, <2>1, IdleIs, SPop
<1>2. ASSUME SInv, EndGoverned PROVE SInv'
  <2>1. stack # <<>> /\ Top.kind = "governed" /\ stack' = Front(stack) /\ Idle
    BY <1>2 DEF EndGoverned, Ending, Idle
  <2> QED
    BY <1>0, <1>2, <2>1, IdleIs, SPop
<1>3. ASSUME SInv, EndFinally PROVE SInv'
  <2>1. stack # <<>> /\ Top.kind = "finally" /\ stack' = Front(stack) /\ Idle
    BY <1>3 DEF EndFinally, Ending, Idle
  <2> QED
    BY <1>0, <1>3, <2>1, IdleIs, SPop
<1>4. ASSUME SInv, EndSpillage PROVE SInv'
  <2> DEFINE f == Frame("block", Me, Top.info[1], 0)
             t == <<f>>
  <2>1. /\ stack # <<>> /\ Top.kind = "spillage" /\ stack' \in {Front(stack), Front(stack) \o t}
        /\ Idle
    BY <1>4 DEF EndSpillage, Ending, Idle
  <2>2. FramesNew(t)
    BY FrameIs, OneFrame
  <2>3. Me \in DOMAIN interps /\ (GovernedIn(stack, interps) => interps[Me].mode = "governed")
    BY <1>4, <2>1, TopIs
  <2>4. NewFrame(f, stack, interps, interps)
    BY <2>3, PlainFrame
  <2> HIDE DEF f
  <2>5. \A l \in 1..Len(t) : NewFrame(t[l], stack, interps, interps)
    BY <2>4, TuplesHold
  <2> HIDE DEF t
  <2> QED
    BY <1>4, <2>1, <2>2, <2>5, IdleIs, SPop
<1>5. ASSUME SInv, EndCleanup PROVE SInv'
  <2> DEFINE f == Frame("finally", Me, <<>>, sig)
             g == Frame("block", Me, Top.info[1], 0)
             t == <<f, g>>
  <2>1. stack # <<>> /\ Top.kind = "cleanup" /\ stack' = Front(stack) \o t /\ Idle
    BY <1>5 DEF EndCleanup, Ending, Idle
  <2>2. FramesNew(t)
    BY FrameIs, TwoFrames
  <2>3. Me \in DOMAIN interps /\ (GovernedIn(stack, interps) => interps[Me].mode = "governed")
    BY <1>5, <2>1, TopIs
  <2>4. NewFrame(f, stack, interps, interps) /\ NewFrame(g, stack, interps, interps)
    BY <2>3, PlainFrame
  <2> HIDE DEF f, g
  <2>5. \A l \in 1..Len(t) : NewFrame(t[l], stack, interps, interps)
    BY <2>4, TuplesHold
  <2> HIDE DEF t
  <2> QED
    BY <1>5, <2>1, <2>2, <2>5, IdleIs, SPop
<1> QED
  BY <1>1, <1>2, <1>3, <1>4, <1>5

LEMMA SInit == Init => SInv
<1>1. IsSeq(<<>>) /\ DOMAIN <<>> = {}
  BY NoFrame DEF FramesNew
<1>2. InterpsIn(<<>>, host) /\ StackOK(<<>>) /\ FramesIn(<<>>, <<>>)
  BY <1>1 DEF InterpsIn, StackOK, FramesIn
<1> QED
  BY <1>2 DEF Init, SInv, CacheIn, EffectsAllowed

LEMMA SStep == SInv /\ [Next]_vars => SInv'
<1>1. SInv /\ UNCHANGED vars => SInv'
  BY DEF SInv, vars, StackOK, InterpsIn, InterpIn, CacheIn, FramesIn, FrameIn, GovernedIn,
         EffectsAllowed, GovernedProgram, IsSeq, Elements
<1> QED
  BY <1>1, SBegin, SEffect, SCalls, SThreads, SImport, SProgram, SModule, SEnds DEF Next

\* An effect of a governed program, or of a governed module, is one that the
\* host's policy allows, whatever was imported, called or caught before it.
THEOREM EffectsAreAllowed == Spec => []EffectsAllowed
<1>1. SInv => EffectsAllowed
  BY DEF SInv
<1> QED
  BY SInit, SStep, <1>1, PTL DEF Spec

-----------------------------------------------------------------------------
(* The hard floor                                                          *)

FloorInv == StackOK(stack) /\ IsSeq(ended) /\ HardFloor

LEMMA FloorIs ==
  HardFloor <=> (denied /\ ~replaced /\ ~host.debug =>
                   sig = "denied" \/ Waiting(stack) \/ (stack = <<>> /\ Last(ended) = "denied"))
BY DEF HardFloor, Waiting

\* Steps inside a program, while no denial is on its way up
LEMMA FloorKept ==
  ASSUME HardFloor, stack # <<>>, sig # "denied",
         Waiting(stack) => Waiting(stack') \/ sig' = "denied",
         denied' => denied \/ sig' = "denied",
         replaced => replaced', host' = host
  PROVE  HardFloor'
<1>1. HardFloor' <=> (denied' /\ ~replaced' /\ ~host'.debug =>
        sig' = "denied" \/ Waiting(stack') \/ (stack' = <<>> /\ Last(ended') = "denied"))
  BY DEF HardFloor, Waiting
<1> QED
  BY <1>1, FloorIs

\* Steps of a running block
LEMMA RunningKept ==
  ASSUME FloorInv, NEW op, Running(op), NEW t, FramesNew(t), stack' \in {Rest, Rest \o t},
         denied' => denied \/ sig' = "denied", UNCHANGED <<host, ended, replaced>>
  PROVE  FloorInv'
<1>1. stack # <<>> /\ sig = "none"
  BY DEF Running
<1>2. StackOK(stack') /\ (Waiting(stack) => Waiting(stack'))
  BY <1>1, Pushed DEF FloorInv
<1>3. HardFloor'
  BY <1>1, <1>2, FloorKept DEF FloorInv
<1> QED
  BY <1>2, <1>3 DEF FloorInv, StackOK

\* Steps that pop the top frame
LEMMA PopKept ==
  ASSUME FloorInv, stack # <<>>, Top.kind \notin {"program", "finally"}, NEW t, FramesNew(t),
         stack' \in {Front(stack), Front(stack) \o t},
         sig = "denied" => sig' = "denied" \/ Waiting(stack') \/ host.debug,
         denied' => denied \/ sig' = "denied", UNCHANGED <<host, ended, replaced>>
  PROVE  FloorInv'
<1>1. StackOK(stack') /\ (Waiting(stack) => Waiting(stack'))
  BY Popped DEF FloorInv
<1>2. HardFloor'
  <2>1. HardFloor' <=> (denied' /\ ~replaced' /\ ~host'.debug =>
          sig' = "denied" \/ Waiting(stack') \/ (stack' = <<>> /\ Last(ended') = "denied"))
    BY DEF HardFloor, Waiting
  <2> QED
    BY <1>1, <2>1, FloorIs DEF FloorInv
<1> QED
  BY <1>1, <1>2 DEF FloorInv

LEMMA FloorRunning ==
  FloorInv /\ (Effect \/ Declare \/ Call \/ Cascade \/ Throw \/ Protect \/ Import) => FloorInv'
<1>0. FramesNew(<<>>)
  BY NoFrame
<1>1. ASSUME FloorInv, Effect PROVE FloorInv'
  <2>1. Running("pour") \/ Running("fs")
    BY <1>1 DEF Effect
  <2>2. stack' = Rest /\ UNCHANGED <<host, ended, replaced>>
    BY <1>1 DEF Effect
  <2>3. denied' => denied \/ sig' = "denied"
    BY <1>1 DEF Effect, Raise
  <2> QED
    BY <1>0, <1>1, <2>1, <2>2, <2>3, RunningKept
<1>2. ASSUME FloorInv, Declare PROVE FloorInv'
  <2>1. Running("def") /\ stack' = Rest /\ UNCHANGED <<host, ended, replaced, denied>>
    BY <1>2 DEF Declare
  <2> QED
    BY <1>0, <1>2, <2>1, RunningKept
<1>3. ASSUME FloorInv, Call PROVE FloorInv'
  <2> DEFINE t == CallFrames(Statement.name, interps[Me].bound[Statement.name])
  <2>1. FramesNew(t)
    BY CallFramesNew
  <2>2. Running("call") /\ stack' \in {Rest, Rest \o t} /\ UNCHANGED <<host, ended, replaced, denied>>
    BY <1>3 DEF Call, RunFrames
  <2> HIDE DEF t
  <2> QED
    BY <1>3, <2>1, <2>2, RunningKept
<1>4. ASSUME FloorInv, Cascade PROVE FloorInv'
  <2> DEFINE t == <<Frame("queued", Me, <<>>,
                          <<Statement.name, interps[Me].bound[Statement.name]>>)>>
  <2>1. FramesNew(t)
    BY FrameIs, OneFrame, TwoFrames
  <2>2. Running("cascade") /\ stack' \in {Rest, Rest \o t} /\ UNCHANGED <<host, ended, replaced, denied>>
    BY <1>4 DEF Cascade, RunFrames
  <2> HIDE DEF t
  <2> QED
    BY <1>4, <2>1, <2>2, RunningKept
<1>5. ASSUME FloorInv, Throw PROVE FloorInv'
  <2>1. /\ Running("throw") \/ Running("return")
        /\ stack' = Rest /\ UNCHANGED <<host, ended, replaced, denied>>
    BY <1>5 DEF Throw
  <2> QED
    BY <1>0, <1>5, <2>1, RunningKept
<1>6. ASSUME FloorInv, Protect PROVE FloorInv'
  <2>1. PICK op \in {"spillage", "cleanup"} : Running(op)
    BY <1>6 DEF Protect
  <2> DEFINE t == <<Frame(op, Me, <<>>, Statement.handlers),
                    Frame("block", Me, Statement.body, 0)>>
  <2>2. Statement.op = op
    BY <2>1 DEF Running, Statement
  <2>3. stack' \in {Rest, Rest \o t} /\ UNCHANGED <<host, ended, replaced, denied>>
    BY <1>6, <2>2 DEF Protect, RunFrames
  <2>4. FramesNew(t)
    BY FrameIs, OneFrame, TwoFrames
  <2> HIDE DEF t
  <2> QED
    BY <1>6, <2>1, <2>3, <2>4, RunningKept
<1>7. ASSUME FloorInv, Import PROVE FloorInv'
  <2> DEFINE path == Statement.path
             t == <<Frame("module", Len(interps'), <<>>, Me),
                    Frame("block", Len(interps'), Files[path].body, 0)>>
  <2>1. Running("import") /\ stack' \in {Rest, Rest \o t} /\ UNCHANGED <<host, ended, replaced>>
    BY <1>7 DEF Import, RunFrames, Bind
  <2>2. denied' => denied \/ sig' = "denied"
    BY <1>7 DEF Import, Raise
  <2>3. FramesNew(t)
    BY FrameIs, OneFrame, TwoFrames
  <2> HIDE DEF t
  <2> QED
    BY <1>7, <2>1, <2>2, <2>3, RunningKept
<1> QED
  BY <1>1, <1>2, <1>3, <1>4, <1>5, <1>6, <1>7

LEMMA FloorThreads == FloorInv /\ (StartTask \/ EnterGoverned) => FloorInv'
<1>1. ASSUME FloorInv, StartTask PROVE FloorInv'
  <2> DEFINE c == Frame("cascade", Me, <<>>, 0)
             t == CallFrames(Top.info[1], Top.info[2])
  <2>1. /\ stack # <<>> /\ sig = "none" /\ Top.kind = "queued"
        /\ stack' = Front(stack) \o <<c>> \o t
        /\ UNCHANGED <<host, sig, ended, denied, replaced>>
    BY <1>1 DEF StartTask
  <2>2. FramesNew(<<c>>)
    BY FrameIs, OneFrame
  <2>3. FramesNew(t)
    BY CallFramesNew
  <2> HIDE DEF c, t
  <2>4. StackOK(stack') /\ (Waiting(stack) => Waiting(stack'))
    BY <1>1, <2>1, <2>2, <2>3, Started DEF FloorInv
  <2>5. HardFloor'
    BY <1>1, <2>1, <2>4, FloorKept DEF FloorInv
  <2> QED
    BY <1>1, <2>1, <2>4, <2>5 DEF FloorInv
<1>2. ASSUME FloorInv, EnterGoverned PROVE FloorInv'
  <2> DEFINE t == <<Frame("governed", Me, <<>>, Top.info),
                    Frame("block", Me, Functions[Top.info].body, 0)>>
  <2>1. /\ stack # <<>> /\ sig = "none" /\ Top.kind = "entering"
        /\ stack' \in {Front(stack), Front(stack) \o t}
        /\ UNCHANGED <<host, ended, replaced>>
    BY <1>2 DEF EnterGoverned
  <2>2. denied' => denied \/ sig' = "denied"
    BY <1>2 DEF EnterGoverned, Raise
  <2>3. FramesNew(t)
    BY FrameIs, TwoFrames
  <2> HIDE DEF t
  <2> QED
    BY <1>2, <2>1, <2>2, <2>3, PopKept
<1> QED
  BY <1>1, <1>2

LEMMA FloorBegin == ASSUME FloorInv, NEW program, Begin(program) PROVE FloorInv'
<1>1. CASE program.mode = "governed" /\ ~program.parses
  <2>1. stack' = <<>> /\ ended' = Append(ended, "denied") /\ stack = <<>>
    BY <1>1 DEF Begin
  <2>2. IsSeq(ended') /\ Len(ended') \in Nat \ {0} /\ Last(ended') = "denied"
    <3>1. /\ IsSeq(Append(ended, "denied")) /\ Len(ended) \in Nat
          /\ Len(Append(ended, "denied")) = Len(ended) + 1
          /\ Append(ended, "denied")[Len(ended) + 1] = "denied"
      BY Appended, IsSeqIs DEF FloorInv
    <3> QED
      BY <2>1, <3>1 DEF Last
  <2> QED
    BY <2>1, <2>2 DEF FloorInv, HardFloor
<1>2. CASE ~(program.mode = "governed" /\ ~program.parses)
  <2> DEFINE f == Frame("program", Len(interps'), <<>>, 0)
             g == Frame("block", Len(interps'), program.body, 0)
  <2>1. denied' = FALSE /\ stack' = <<f, g>> /\ UNCHANGED ended
    BY <1>2 DEF Begin
  <2>2. DOMAIN f = Fields /\ f.kind = "program" /\ DOMAIN g = Fields /\ g.kind = "block"
    BY FrameIs
  <2> HIDE DEF f, g
  <2>3. /\ IsSeq(<<f, g>>) /\ Len(<<f, g>>) = 2 /\ <<f, g>>[1] = f /\ <<f, g>>[2] = g
        /\ DOMAIN <<f, g>> = 1..2
    BY Tuples, IsSeqIs
  <2>4. \A k \in 1..2 : k = 1 \/ k = 2
    OBVIOUS
  <2>5. StackOK(<<f, g>>)
    BY <2>2, <2>3, <2>4 DEF StackOK
  <2>6. HardFloor'
    BY <2>1 DEF HardFloor
  <2>7. StackOK(stack')
    BY <2>1, <2>5
  <2> QED
    BY <2>1, <2>6, <2>7 DEF FloorInv
<1> QED
  BY <1>1, <1>2

\* The program's frame is the only one when it ends.
LEMMA FloorProgram == FloorInv /\ EndProgram => FloorInv'
<1> SUFFICES ASSUME FloorInv, EndProgram
             PROVE  FloorInv'
  OBVIOUS
<1> DEFINE end == IF sig \in Swallowed THEN "none" ELSE sig
<1>1. /\ stack # <<>> /\ Top.kind = "program" /\ stack' = Front(stack) /\ sig' = "none"
      /\ ended' = Append(ended, end) /\ UNCHANGED <<host, denied, replaced>>
  BY DEF EndProgram, Ending
<1>2. sig = "denied" => end = "denied"
  BY DEF Swallowed
<1> HIDE DEF end
<1>3. Len(stack) = 1 /\ DOMAIN stack = 1..1 /\ stack[1].kind = "program"
  <2>1. Len(stack) \in DOMAIN stack /\ Top = stack[Len(stack)] /\ DOMAIN stack = 1..Len(stack)
    BY <1>1, Fronted, IsSeqIs DEF FloorInv, StackOK, Top
  <2> QED
    BY <1>1, <2>1 DEF FloorInv, StackOK
<1>4. ~Waiting(stack)
  <2>1. \A k \in 1..1 : k = 1
    OBVIOUS
  <2> QED
    BY <1>3, <2>1 DEF Waiting
<1>5. StackOK(stack') /\ stack' = <<>>
  <2>1. IsSeq(Front(stack)) /\ Len(Front(stack)) = 0
    BY <1>1, <1>3, Fronted DEF FloorInv, StackOK
  <2>2. Front(stack) = <<>> /\ DOMAIN Front(stack) = 1..0
    BY <2>1, IsSeqIs
  <2> QED
    BY <1>1, <2>1, <2>2 DEF StackOK
<1>6. IsSeq(ended') /\ Last(ended') = end
  <2>1. /\ IsSeq(Append(ended, end)) /\ Len(ended) \in Nat
        /\ Len(Append(ended, end)) = Len(ended) + 1
        /\ Append(ended, end)[Len(ended) + 1] = end
    BY Appended, IsSeqIs DEF FloorInv
  <2> QED
    BY <1>1, <2>1 DEF Last
<1>7. HardFloor'
  BY <1>1, <1>2, <1>4, <1>5, <1>6, FloorIs DEF FloorInv, HardFloor
<1> QED
  BY <1>5, <1>6, <1>7 DEF FloorInv

LEMMA FloorEnds ==
  SInv /\ FloorInv /\ (EndModule \/ EndCall \/ EndGoverned \/ EndSpillage \/ EndCleanup) => FloorInv'
<1>0. FramesNew(<<>>)
  BY NoFrame
<1>1. ASSUME FloorInv, EndModule PROVE FloorInv'
  <2>1. /\ stack # <<>> /\ Top.kind = "module" /\ stack' = Front(stack)
        /\ UNCHANGED <<host, ended, denied, replaced>>
    BY <1>1 DEF EndModule, Ending
  <2>2. sig = "denied" => sig' = "denied"
    BY <1>1 DEF EndModule, Swallowed, ImportError
  <2> QED
    BY <1>0, <1>1, <2>1, <2>2, PopKept
<1>2. ASSUME SInv, FloorInv, EndCall PROVE FloorInv'
  <2>1. /\ stack # <<>> /\ Top.kind \in {"call", "block", "cascade"} /\ stack' = Front(stack)
        /\ UNCHANGED <<host, ended, denied, replaced>>
    BY <1>2 DEF EndCall, Ending
  <2>2. interps[Me].attached.debug => host.debug
    BY <1>2, <2>1, TopIs DEF InterpIn
  <2>3. sig = "denied" => sig' = "denied" \/ host.debug
    BY <1>2, <2>2 DEF EndCall, Reraised
  <2> QED
    BY <1>0, <1>2, <2>1, <2>3, PopKept
<1>3. ASSUME FloorInv, EndGoverned PROVE FloorInv'
  <2>1. /\ stack # <<>> /\ Top.kind = "governed" /\ stack' = Front(stack)
        /\ UNCHANGED <<host, ended, replaced>>
    BY <1>3 DEF EndGoverned, Ending
  <2>2. (sig = "denied" => sig' = "denied") /\ (denied' => denied \/ sig' = "denied")
    BY <1>3 DEF EndGoverned, Raise
  <2> QED
    BY <1>0, <1>3, <2>1, <2>2, PopKept
<1>4. ASSUME FloorInv, EndSpillage PROVE FloorInv'
  <2> DEFINE t == <<Frame("block", Me, Top.info[1], 0)>>
  <2>1. /\ stack # <<>> /\ Top.kind = "spillage" /\ stack' \in {Front(stack), Front(stack) \o t}
        /\ UNCHANGED <<host, ended, denied, replaced>>
    BY <1>4 DEF EndSpillage, Ending
  <2>2. sig = "denied" => sig' = "denied"
    BY <1>4 DEF EndSpillage, Caught
  <2>3. FramesNew(t)
    BY FrameIs, OneFrame
  <2> HIDE DEF t
  <2> QED
    BY <1>4, <2>1, <2>2, <2>3, PopKept
<1>5. ASSUME FloorInv, EndCleanup PROVE FloorInv'
  <2> DEFINE f == Frame("finally", Me, <<>>, sig)
             t == <<f, Frame("block", Me, Top.info[1], 0)>>
  <2>1. /\ stack # <<>> /\ Top.kind = "cleanup" /\ stack' = Front(stack) \o t
        /\ UNCHANGED <<host, ended, denied, replaced>>
    BY <1>5 DEF EndCleanup, Ending
  <2>2. FramesNew(t) /\ Len(t) = 2 /\ t[1].kind = "finally" /\ t[1].info = sig
    BY FrameIs, TwoFrames, Tuples
  <2> HIDE DEF t, f
  <2>3. sig = "denied" => Waiting(stack')
    <3>1. Replaces(stack', stack, Len(stack) - 1, t)
      BY <1>5, <2>1, <2>2, FrontReplaces DEF FloorInv, FramesNew
    <3>2. Len(stack) \in Nat \ {0}
      BY <1>5, <2>1, IsSeqIs DEF FloorInv, StackOK
    <3>3. Len(stack') = Len(stack) + 1 /\ stack'[Len(stack)] = t[1]
      BY <2>2, <3>1, <3>2 DEF Replaces
    <3>4. Len(stack) \in DOMAIN stack'
      BY <3>1, <3>2, <3>3, IsSeqIs DEF Replaces
    <3> QED
      BY <2>2, <3>3, <3>4 DEF Waiting
  <2> QED
    BY <1>5, <2>1, <2>2, <2>3, PopKept
<1> QED
  BY <1>1, <1>2, <1>3, <1>4, <1>5

LEMMA FloorFinally == FloorInv /\ EndFinally => FloorInv'
<1> SUFFICES ASSUME FloorInv, EndFinally
             PROVE  FloorInv'
  OBVIOUS
<1>1. /\ stack # <<>> /\ Top.kind = "finally" /\ stack' = Front(stack)
      /\ sig' = (IF sig = "none" THEN Top.info ELSE sig)
      /\ replaced' = (replaced \/ (Top.info = "denied" /\ sig \notin {"none", "denied"}))
      /\ UNCHANGED <<host, ended, denied>>
  BY DEF EndFinally, Ending
<1>2. StackOK(stack') /\ (Waiting(stack) /\ Top.info # "denied" => Waiting(stack'))
  BY <1>1, NoFrame, Popped DEF FloorInv
<1>3. HardFloor'
  <2>1. HardFloor' <=> (denied' /\ ~replaced' /\ ~host'.debug =>
          sig' = "denied" \/ Waiting(stack') \/ (stack' = <<>> /\ Last(ended') = "denied"))
    BY DEF HardFloor, Waiting
  <2> QED
    BY <1>1, <1>2, <2>1, FloorIs DEF FloorInv
<1> QED
  BY <1>1, <1>2, <1>3 DEF FloorInv

\* A denial ends the program: no handler, call, cascade or import boundary
\* gets rid of it, and only an exception of a finalizer takes its place, as
\* long as the host does not run the program in debug mode.
THEOREM DenialEndsProgram == Spec => []HardFloor
<1>1. Init => FloorInv
  <2>1. IsSeq(<<>>) /\ DOMAIN <<>> = {}
    BY NoFrame DEF FramesNew
  <2> QED
    BY <2>1 DEF Init, FloorInv, StackOK, HardFloor
<1>2. SInv /\ FloorInv /\ [Next]_vars => FloorInv'
  <2>1. FloorInv /\ UNCHANGED vars => FloorInv'
    BY DEF FloorInv, vars, StackOK, HardFloor, IsSeq, Elements
  <2> QED
    BY <2>1, FloorRunning, FloorThreads, FloorBegin, FloorProgram, FloorEnds, FloorFinally
       DEF Next
<1>3. FloorInv => HardFloor
  BY DEF FloorInv
<1> QED
  BY <1>1, <1>2, <1>3, SInit, SStep, PTL DEF Spec

-----------------------------------------------------------------------------
(* Frames that a step makes                                                *)

Kinds == {"program", "module", "block", "call", "entering", "governed",
          "queued", "cascade", "spillage", "cleanup", "finally"}

\* A finalizer keeps the exception that was on its way, and a module's frame
\* is made with its interpreter.
Made(f) ==
  /\ f.kind \in Kinds
  /\ f.kind = "finally" => f.info = sig
  /\ f.kind = "module" => f.interp \notin DOMAIN interps

Shape ==
  \A k \in DOMAIN stack' :
    (\E l \in DOMAIN stack : Alike(stack'[k], stack[l])) \/ Made(stack'[k])

LEMMA ShapeFrom ==
  ASSUME NEW t, From(stack', stack, t), \A l \in 1..Len(t) : Made(t[l])
  PROVE  Shape
BY DEF From, Shape

LEMMA NoneMade == FramesNew(<<>>) /\ \A l \in 1..Len(<<>>) : Made(<<>>[l])
<1>1. 1..Len(<<>>) = {}
  OBVIOUS
<1> QED
  BY <1>1, NoFrame

LEMMA PlainMade ==
  ASSUME NEW k \in Kinds \ {"program", "module", "finally"}, NEW i, NEW t, NEW x
  PROVE  /\ Made(Frame(k, i, t, x)) /\ DOMAIN Frame(k, i, t, x) = Fields
         /\ Frame(k, i, t, x).kind # "program"
<1>1. Frame(k, i, t, x).kind = k /\ DOMAIN Frame(k, i, t, x) = Fields
  BY FrameIs
<1> QED
  BY <1>1 DEF Made

LEMMA OneMade ==
  ASSUME NEW f, Made(f), DOMAIN f = Fields, f.kind # "program"
  PROVE  FramesNew(<<f>>) /\ \A l \in 1..Len(<<f>>) : Made(<<f>>[l])
BY OneFrame, TuplesHold

LEMMA TwoMade ==
  ASSUME NEW f, Made(f), DOMAIN f = Fields, f.kind # "program",
         NEW g, Made(g), DOMAIN g = Fields, g.kind # "program"
  PROVE  FramesNew(<<f, g>>) /\ \A l \in 1..Len(<<f, g>>) : Made(<<f, g>>[l])
<1>1. FramesNew(<<f, g>>)
  BY TwoFrames
<1>2. \A l \in 1..Len(<<f, g>>) : <<f, g>>[l] = f \/ <<f, g>>[l] = g
  BY TuplesHold
<1> DEFINE t == <<f, g>>
<1> HIDE DEF t
<1>3. \A l \in 1..Len(t) : Made(t[l])
  BY <1>2 DEF t
<1> QED
  BY <1>1, <1>3 DEF t

LEMMA CallMade ==
  ASSUME NEW f, NEW home
  PROVE  /\ FramesNew(CallFrames(f, home))
         /\ \A l \in 1..Len(CallFrames(f, home)) : Made(CallFrames(f, home)[l])
<1>1. "entering" \in Kinds /\ "call" \in Kinds /\ "block" \in Kinds
  BY DEF Kinds
<1> QED
  BY <1>1, CallFramesNew, CallFramesIn DEF Made

LEMMA ShapeRunning ==
  ASSUME StackOK(stack), NEW op, Running(op), NEW t, FramesNew(t),
         \A l \in 1..Len(t) : Made(t[l]), stack' \in {Rest, Rest \o t}
  PROVE  Shape
BY Pushed, ShapeFrom DEF Running

LEMMA ShapePop ==
  ASSUME StackOK(stack), stack # <<>>, NEW t, FramesNew(t),
         \A l \in 1..Len(t) : Made(t[l]), stack' \in {Front(stack), Front(stack) \o t}
  PROVE  Shape
<1>1. PICK u : u \in {<<>>, t} /\ Replaces(stack', stack, Len(stack) - 1, u)
  BY FrontReplaces DEF FramesNew
<1>2. From(stack', stack, u)
  BY <1>1, ReplacedFrom
<1>3. \A l \in 1..Len(u) : Made(u[l])
  BY <1>1, NoneMade
<1> QED
  BY <1>2, <1>3, ShapeFrom

LEMMA ShapeBlocks ==
  StackOK(stack) /\ (Effect \/ Declare \/ Call \/ Cascade \/ Throw \/ Protect) => Shape
<1>1. ASSUME StackOK(stack), Effect \/ Declare \/ Throw PROVE Shape
  <2>1. /\ \E op \in {"pour", "fs", "def", "throw", "return"} : Running(op)
        /\ stack' = Rest
    BY <1>1 DEF Effect, Declare, Throw
  <2> QED
    BY <1>1, <2>1, NoneMade, ShapeRunning
<1>2. ASSUME StackOK(stack), Call PROVE Shape
  <2> DEFINE t == CallFrames(Statement.name, interps[Me].bound[Statement.name])
  <2>1. FramesNew(t) /\ \A l \in 1..Len(t) : Made(t[l])
    BY CallMade
  <2>2. Running("call") /\ stack' \in {Rest, Rest \o t}
    BY <1>2 DEF Call, RunFrames
  <2> HIDE DEF t
  <2> QED
    BY <1>2, <2>1, <2>2, ShapeRunning
<1>3. ASSUME StackOK(stack), Cascade PROVE Shape
  <2> DEFINE f == Frame("queued", Me, <<>>,
                        <<Statement.name, interps[Me].bound[Statement.name]>>)
             t == <<f>>
  <2>1. "queued" \in Kinds \ {"program", "module", "finally"}
    BY DEF Kinds
  <2>2. Made(f) /\ DOMAIN f = Fields /\ f.kind # "program"
    BY <2>1, PlainMade
  <2>3. Running("cascade") /\ stack' \in {Rest, Rest \o t}
    BY <1>3 DEF Cascade, RunFrames
  <2> HIDE DEF f
  <2>4. FramesNew(t) /\ \A l \in 1..Len(t) : Made(t[l])
    BY <2>2, OneMade
  <2> HIDE DEF t
  <2> QED
    BY <1>3, <2>3, <2>4, ShapeRunning
<1>4. ASSUME StackOK(stack), Protect PROVE Shape
  <2>1. PICK op \in {"spillage", "cleanup"} : Running(op)
    BY <1>4 DEF Protect
  <2> DEFINE f == Frame(op, Me, <<>>, Statement.handlers)
             g == Frame("block", Me, Statement.body, 0)
             t == <<f, g>>
  <2>2. Statement.op = op
    BY <2>1 DEF Running, Statement
  <2>3. stack' \in {Rest, Rest \o t}
    BY <1>4, <2>2 DEF Protect, RunFrames
  <2>4. {op, "block"} \subseteq Kinds \ {"program", "module", "finally"}
    BY DEF Kinds
  <2>5. /\ Made(f) /\ DOMAIN f = Fields /\ f.kind # "program"
        /\ Made(g) /\ DOMAIN g = Fields /\ g.kind # "program"
    BY <2>4, PlainMade
  <2> HIDE DEF f, g
  <2>6. FramesNew(t) /\ \A l \in 1..Len(t) : Made(t[l])
    BY <2>5, TwoMade
  <2> HIDE DEF t
  <2> QED
    BY <1>4, <2>1, <2>3, <2>6, ShapeRunning
<1> QED
  BY <1>1, <1>2, <1>3, <1>4

\* The only frame of a module that a step makes is that of a new interpreter.
LEMMA ShapeImport == SInv /\ Import => Shape
<1> SUFFICES ASSUME SInv, Import
             PROVE  Shape
  OBVIOUS
<1> DEFINE path == Statement.path
           child == Child(Me, path)
           n == Append(interps, child)
           f == Frame("module", Len(n), <<>>, Me)
           g == Frame("block", Len(n), Files[path].body, 0)
           t == <<f, g>>
<1>1. Running("import") /\ StackOK(stack)
  BY DEF Import, SInv
<1>2. stack' \in {Rest, Rest \o t}
  BY DEF Import, RunFrames
<1>3. Len(n) \notin DOMAIN interps
  <2>1. /\ IsSeq(interps) /\ DOMAIN interps = 1..Len(interps) /\ Len(interps) \in Nat
    BY IsSeqIs DEF SInv, InterpsIn
  <2>2. Len(n) = Len(interps) + 1
    BY <2>1, Appended
  <2> QED
    BY <2>1, <2>2
<1>4. Made(f) /\ DOMAIN f = Fields /\ f.kind # "program"
  <2>1. DOMAIN f = Fields /\ f.kind = "module" /\ f.interp = Len(n)
    BY FrameIs
  <2> HIDE DEF f, n
  <2> QED
    BY <1>3, <2>1 DEF Made, Kinds
<1>5. Made(g) /\ DOMAIN g = Fields /\ g.kind # "program"
  <2>1. "block" \in Kinds \ {"program", "module", "finally"}
    BY DEF Kinds
  <2> QED
    BY <2>1, PlainMade
<1> HIDE DEF f, g
<1>6. FramesNew(t) /\ \A l \in 1..Len(t) : Made(t[l])
  BY <1>4, <1>5, TwoMade
<1> HIDE DEF t
<1> QED
  BY <1>1, <1>2, <1>6, ShapeRunning

LEMMA ShapeThreads == StackOK(stack) /\ (StartTask \/ EnterGoverned) => Shape
<1>0. {"cascade", "governed", "block"} \subseteq Kinds \ {"program", "module", "finally"}
  BY DEF Kinds
<1>1. ASSUME StackOK(stack), StartTask PROVE Shape
  <2> DEFINE c == Frame("cascade", Me, <<>>, 0)
             t == CallFrames(Top.info[1], Top.info[2])
  <2>1. stack # <<>> /\ Top.kind = "queued" /\ stack' = Front(stack) \o <<c>> \o t
    BY <1>1 DEF StartTask
  <2>2. Made(c) /\ DOMAIN c = Fields /\ c.kind # "program"
    BY <1>0, PlainMade
  <2>3. FramesNew(t) /\ \A l \in 1..Len(t) : Made(t[l])
    BY CallMade
  <2> HIDE DEF c, t
  <2>4. FromAll(stack', stack, c, t)
    BY <1>1, <2>1, <2>2, <2>3, OneFrame, Started
  <2> QED
    BY <2>2, <2>3, <2>4 DEF FromAll, Shape
<1>2. ASSUME StackOK(stack), EnterGoverned PROVE Shape
  <2> DEFINE f == Frame("governed", Me, <<>>, Top.info)
             g == Frame("block", Me, Functions[Top.info].body, 0)
             t == <<f, g>>
  <2>1. stack # <<>> /\ stack' \in {Front(stack), Front(stack) \o t}
    BY <1>2 DEF EnterGoverned
  <2>2. /\ Made(f) /\ DOMAIN f = Fields /\ f.kind # "program"
        /\ Made(g) /\ DOMAIN g = Fields /\ g.kind # "program"
    BY <1>0, PlainMade
  <2> HIDE DEF f, g
  <2>3. FramesNew(t) /\ \A l \in 1..Len(t) : Made(t[l])
    BY <2>2, TwoMade
  <2> HIDE DEF t
  <2> QED
    BY <1>2, <2>1, <2>3, ShapePop
<1> QED
  BY <1>1, <1>2

LEMMA ShapeEnds ==
  StackOK(stack) /\ (EndProgram \/ EndModule \/ EndCall \/ EndGoverned \/ EndSpillage
                     \/ EndCleanup \/ EndFinally) => Shape
<1>0. "block" \in Kinds \ {"program", "module", "finally"} /\ "finally" \in Kinds
  BY DEF Kinds
<1>1. ASSUME StackOK(stack), EndProgram \/ EndModule \/ EndCall \/ EndGoverned \/ EndFinally
      PROVE  Shape
  <2>1. stack # <<>> /\ stack' = Front(stack)
    BY <1>1 DEF EndProgram, EndModule, EndCall, EndGoverned, EndFinally, Ending
  <2> QED
    BY <1>1, <2>1, NoneMade, ShapePop
<1>2. ASSUME StackOK(stack), EndSpillage PROVE Shape
  <2> DEFINE f == Frame("block", Me, Top.info[1], 0)
             t == <<f>>
  <2>1. stack # <<>> /\ stack' \in {Front(stack), Front(stack) \o t}
    BY <1>2 DEF EndSpillage, Ending
  <2>2. Made(f) /\ DOMAIN f = Fields /\ f.kind # "program"
    BY <1>0, PlainMade
  <2> HIDE DEF f
  <2>3. FramesNew(t) /\ \A l \in 1..Len(t) : Made(t[l])
    BY <2>2, OneMade
  <2> HIDE DEF t
  <2> QED
    BY <1>2, <2>1, <2>3, ShapePop
<1>3. ASSUME StackOK(stack), EndCleanup PROVE Shape
  <2> DEFINE f == Frame("finally", Me, <<>>, sig)
             g == Frame("block", Me, Top.info[1], 0)
             t == <<f, g>>
  <2>1. stack # <<>> /\ stack' = Front(stack) \o t
    BY <1>3 DEF EndCleanup, Ending
  <2>2. Made(f) /\ DOMAIN f = Fields /\ f.kind # "program"
    <3>1. DOMAIN f = Fields /\ f.kind = "finally" /\ f.info = sig
      BY FrameIs
    <3> HIDE DEF f
    <3> QED
      BY <1>0, <3>1 DEF Made
  <2>3. Made(g) /\ DOMAIN g = Fields /\ g.kind # "program"
    BY <1>0, PlainMade
  <2> HIDE DEF f, g
  <2>4. FramesNew(t) /\ \A l \in 1..Len(t) : Made(t[l])
    BY <2>2, <2>3, TwoMade
  <2> HIDE DEF t
  <2> QED
    BY <1>3, <2>1, <2>4, ShapePop
<1> QED
  BY <1>1, <1>2, <1>3

LEMMA ShapeBegin == ASSUME NEW program, Begin(program) PROVE Shape
<1> DEFINE f == Frame("program", Len(interps'), <<>>, 0)
           g == Frame("block", Len(interps'), program.body, 0)
<1>1. stack = <<>> /\ stack' \in {<<>>, <<f, g>>}
  BY DEF Begin
<1>2. /\ f.kind = "program" /\ g.kind = "block"
      /\ "program" \in Kinds /\ "block" \in Kinds
  BY FrameIs DEF Kinds
<1> HIDE DEF f, g
<1>3. Made(f) /\ Made(g)
  BY <1>2 DEF Made
<1>4. CASE stack' = <<>>
  BY <1>4 DEF Shape
<1>5. CASE stack' = <<f, g>>
  <2>1. DOMAIN <<f, g>> = {1, 2} /\ <<f, g>>[1] = f /\ <<f, g>>[2] = g
    OBVIOUS
  <2> QED
    BY <1>3, <1>5, <2>1 DEF Shape
<1> QED
  BY <1>1, <1>4, <1>5

LEMMA ShapeStep == SInv /\ Next => Shape
<1>1. SInv => StackOK(stack)
  BY DEF SInv
<1> QED
  BY <1>1, ShapeBlocks, ShapeImport, ShapeThreads, ShapeEnds, ShapeBegin DEF Next

-----------------------------------------------------------------------------
(* Types                                                                   *)

Outcomes == {"none", "denied", "error"}

FrameTypes(s) ==
  \A k \in DOMAIN s : s[k].kind \in Kinds /\ (s[k].kind = "finally" => s[k].info \in Signal)

TypeInv ==
  /\ SInv /\ FrameTypes(stack)
  /\ sig \in Signal /\ ended \in Seq(Outcomes)
  /\ denied \in BOOLEAN /\ replaced \in BOOLEAN

LEMMA FrameTypesStep == TypeInv /\ Next => FrameTypes(stack')
<1> SUFFICES ASSUME TypeInv, Next, NEW k \in DOMAIN stack'
             PROVE  /\ stack'[k].kind \in Kinds
                    /\ stack'[k].kind = "finally" => stack'[k].info \in Signal
  BY DEF FrameTypes
<1>1. (\E l \in DOMAIN stack : Alike(stack'[k], stack[l])) \/ Made(stack'[k])
  BY ShapeStep DEF TypeInv, Shape
<1> QED
  BY <1>1 DEF TypeInv, FrameTypes, Alike, Made

\* What is raised is an exception of the code, or none.
LEMMA RaiseTypes ==
  ASSUME TypeInv, NEW s \in Signal, Raise(s)
  PROVE  sig' \in Signal /\ denied' \in BOOLEAN
BY DEF Raise, TypeInv

LEMMA SignalStep ==
  TypeInv /\ Next =>
    sig' \in Signal /\ ended' \in Seq(Outcomes) /\ denied' \in BOOLEAN /\ replaced' \in BOOLEAN
<1> DEFINE Goal == /\ sig' \in Signal /\ ended' \in Seq(Outcomes)
                   /\ denied' \in BOOLEAN /\ replaced' \in BOOLEAN
<1> SUFFICES ASSUME TypeInv, Next
             PROVE  Goal
  OBVIOUS
<1>0. /\ sig \in Signal /\ ended \in Seq(Outcomes) /\ denied \in BOOLEAN /\ replaced \in BOOLEAN
      /\ {"none", "return", "spill", "denied", "error"} \subseteq Signal
  BY DEF TypeInv, Signal
<1>1. ASSUME NEW program, Begin(program) PROVE Goal
  <2>1. sig' = sig /\ replaced' = FALSE /\ ended' \in {ended, Append(ended, "denied")}
        /\ denied' = (program.mode = "governed" /\ ~program.parses)
    BY <1>1 DEF Begin
  <2>2. ended' \in Seq(Outcomes)
    BY <1>0, <2>1 DEF Outcomes
  <2> QED
    BY <1>0, <2>1, <2>2
<1>2. ASSUME Effect PROVE Goal
  <2>1. /\ UNCHANGED <<ended, replaced>>
        /\ Raise("error") \/ Raise("denied") \/ UNCHANGED <<sig, denied>>
    BY <1>2 DEF Effect
  <2> QED
    BY <1>0, <2>1, RaiseTypes
<1>3. ASSUME Declare \/ Call \/ Cascade \/ Throw \/ Protect \/ StartTask \/ EndCall
             \/ EndSpillage \/ EndCleanup
      PROVE  Goal
  <2>1. /\ UNCHANGED <<ended, denied, replaced>>
        /\ sig' \in {sig, "none", "error", "spill", "return"}
    BY <1>3 DEF Declare, Call, Cascade, Throw, Protect, StartTask, EndCall, EndSpillage,
                EndCleanup, RunFrames, Reraised
  <2> QED
    BY <1>0, <2>1
<1>4. ASSUME EnterGoverned PROVE Goal
  <2>1. PICK contract \in BOOLEAN, raises \in BOOLEAN :
          Raise(Entry(Me, Top.info, contract, raises))
    BY <1>4 DEF EnterGoverned
  <2>2. Entry(Me, Top.info, contract, raises) \in Signal
    BY <1>0 DEF Entry
  <2>3. UNCHANGED <<ended, replaced>>
    BY <1>4 DEF EnterGoverned
  <2> QED
    BY <1>0, <2>1, <2>2, <2>3, RaiseTypes
<1>5. ASSUME Import PROVE Goal
  <2>1. /\ UNCHANGED <<ended, replaced>>
        /\ Raise("denied") \/ (UNCHANGED denied /\ sig' \in {"none", "spill", "error"})
    BY <1>5 DEF Import, RunFrames
  <2> QED
    BY <1>0, <2>1, RaiseTypes
<1>6. ASSUME EndProgram PROVE Goal
  <2> DEFINE end == IF sig \in Swallowed THEN "none" ELSE sig
  <2>1. sig' = "none" /\ ended' = Append(ended, end) /\ UNCHANGED <<host, denied, replaced>>
    BY <1>6 DEF EndProgram
  <2>2. end \in Outcomes
    BY <1>0 DEF Swallowed, Signal, Outcomes
  <2> HIDE DEF end
  <2> QED
    BY <1>0, <2>1, <2>2
<1>7. ASSUME EndModule PROVE Goal
  <2>1. UNCHANGED <<ended, denied, replaced>> /\ sig' \in {"none", "denied", "spill"}
    BY <1>7 DEF EndModule, ImportError
  <2> QED
    BY <1>0, <2>1
<1>8. ASSUME EndGoverned PROVE Goal
  <2>1. /\ UNCHANGED <<ended, replaced>>
        /\ Raise("none") \/ Raise("denied") \/ UNCHANGED <<sig, denied>>
    BY <1>8 DEF EndGoverned
  <2> QED
    BY <1>0, <2>1, RaiseTypes
<1>9. ASSUME EndFinally PROVE Goal
  <2>1. /\ stack # <<>> /\ Top.kind = "finally"
        /\ UNCHANGED <<ended, denied>>
        /\ sig' \in {Top.info, sig}
        /\ replaced' = (replaced \/ (Top.info = "denied" /\ sig \notin {"none", "denied"}))
    BY <1>9 DEF EndFinally, Ending
  <2>2. Top.info \in Signal
    <3>1. Top \in {stack[k] : k \in DOMAIN stack}
      BY <2>1, Fronted DEF TypeInv, SInv, StackOK, Top
    <3> QED
      BY <2>1, <3>1 DEF TypeInv, FrameTypes
  <2> QED
    BY <1>0, <2>1, <2>2
<1> QED
  BY <1>1, <1>2, <1>3, <1>4, <1>5, <1>6, <1>7, <1>8, <1>9 DEF Next

\* The interpreter's state keeps its types: exceptions are those the code
\* raises, every frame runs on an interpreter that was made, and every closure
\* belongs to one.
THEOREM TypeCorrect == Spec => []TypeOK
<1>1. Init => TypeInv
  <2>1. DOMAIN <<>> = {} /\ <<>> \in Seq(Outcomes)
    OBVIOUS
  <2> QED
    BY <2>1, SInit DEF Init, TypeInv, FrameTypes, Signal
<1>2. TypeInv /\ [Next]_vars => TypeInv'
  <2>1. TypeInv /\ Next => TypeInv'
    <3>1. TypeInv /\ Next => SInv'
      BY SStep DEF TypeInv
    <3> QED
      BY <3>1, FrameTypesStep, SignalStep DEF TypeInv
  <2>2. TypeInv /\ UNCHANGED vars => TypeInv'
    <3>1. TypeInv /\ UNCHANGED vars => SInv'
      BY SStep DEF TypeInv
    <3> QED
      BY <3>1 DEF TypeInv, vars, FrameTypes
  <2> QED
    BY <2>1, <2>2
<1>3. TypeInv => TypeOK
  <2> SUFFICES ASSUME TypeInv
               PROVE  TypeOK
    OBVIOUS
  <2>1. \A k \in DOMAIN stack : stack[k].kind \in Kinds /\ stack[k].interp \in DOMAIN interps
    BY DEF TypeInv, FrameTypes, SInv, FramesIn, FrameIn
  <2>2. \A i \in DOMAIN interps :
          \A f \in DOMAIN interps[i].bound : interps[i].bound[f] \in DOMAIN interps
    BY DEF TypeInv, SInv, InterpsIn, InterpIn, HomeIn
  <2> QED
    BY <2>1, <2>2 DEF TypeOK, TypeInv, SInv, Kinds, Outcomes
<1> QED
  BY <1>1, <1>2, <1>3, PTL DEF Spec

-----------------------------------------------------------------------------
(* One run of a file                                                       *)

\* A file that a core interpreter has run to its end is in the cache.
Whole(s, c) ==
  \A i \in DOMAIN s : s[i].whole /\ s[i].mode # "governed" /\ s[i].path # "" =>
                        s[i].path \in DOMAIN c

\* The import of the module that runs on interpreter i is under way.
Importing(st, i) == \E k \in DOMAIN st : st[k].kind = "module" /\ st[k].interp = i

\* i and j run the same file in core mode, and no run of it was under way when j was
\* made.
Repeats(s, i, j) ==
  /\ s[i].path = s[j].path /\ s[i].path # ""
  /\ s[i].mode # "governed" /\ s[j].mode # "governed" /\ ~s[j].nested

\* A file is run again only when its earlier runs have failed: they will not
\* end any more.
Failed(s, st) ==
  \A i, j \in DOMAIN s : i < j /\ Repeats(s, i, j) => ~s[i].whole /\ ~Importing(st, i)

OnceInv == SInv /\ Whole(interps, cache) /\ Failed(interps, stack)

\* n is s with more bound
Bound(s, n) ==
  /\ DOMAIN n = DOMAIN s
  /\ \A i \in DOMAIN s : /\ n[i].mode = s[i].mode /\ n[i].path = s[i].path
                         /\ n[i].nested = s[i].nested /\ n[i].whole = s[i].whole

LEMMA ImportingKept ==
  ASSUME SInv, Shape, NEW i \in DOMAIN interps, Importing(stack', i)
  PROVE  Importing(stack, i)
<1>1. PICK k \in DOMAIN stack' : stack'[k].kind = "module" /\ stack'[k].interp = i
  BY DEF Importing
<1>2. PICK l \in DOMAIN stack : Alike(stack'[k], stack[l])
  BY <1>1 DEF Shape, Made
<1> QED
  BY <1>1, <1>2 DEF Importing, Alike

LEMMA Ordered == SInv => \A i, j \in DOMAIN interps : i # j => i < j \/ j < i
<1> SUFFICES ASSUME SInv
             PROVE  \A i, j \in DOMAIN interps : i # j => i < j \/ j < i
  OBVIOUS
<1>1. DOMAIN interps = 1..Len(interps) /\ Len(interps) \in Nat
  BY IsSeqIs DEF SInv, InterpsIn
<1> QED
  BY <1>1

\* Steps that make no interpreter and end no module
LEMMA OnceKept ==
  ASSUME OnceInv, Shape, Bound(interps, interps'), DOMAIN cache \subseteq DOMAIN cache'
  PROVE  Whole(interps', cache') /\ Failed(interps', stack')
<1>1. Whole(interps', cache')
  BY DEF OnceInv, Whole, Bound
<1>2. ASSUME NEW i \in DOMAIN interps', NEW j \in DOMAIN interps', i < j, Repeats(interps', i, j)
      PROVE  ~interps'[i].whole /\ ~Importing(stack', i)
  <2>1. i \in DOMAIN interps /\ j \in DOMAIN interps /\ Repeats(interps, i, j)
    BY <1>2 DEF Bound, Repeats
  <2>2. ~interps[i].whole /\ ~Importing(stack, i)
    BY <1>2, <2>1 DEF OnceInv, Failed
  <2> QED
    BY <2>1, <2>2, ImportingKept DEF Bound, OnceInv
<1>3. Failed(interps', stack')
  BY <1>2 DEF Failed
<1> QED
  BY <1>1, <1>3

LEMMA BoundIs ==
  ASSUME NEW s, NEW h, InterpsIn(s, h), NEW i \in DOMAIN s, NEW b
  PROVE  Bound(s, [s EXCEPT ![i].bound = Over(b, @)])
<1> DEFINE new == [s[i] EXCEPT !.bound = Over(b, @)]
           n == [s EXCEPT ![i] = new]
<1>1. DOMAIN s[i] = InterpFields /\ IsSeq(s) /\ DOMAIN s = 1..Len(s)
  BY IsSeqIs DEF InterpsIn, InterpIn
<1>2. /\ new.mode = s[i].mode /\ new.path = s[i].path
      /\ new.nested = s[i].nested /\ new.whole = s[i].whole
  BY <1>1 DEF InterpFields
<1> HIDE DEF new
<1>3. /\ DOMAIN n = DOMAIN s
      /\ \A k \in DOMAIN s : n[k] = IF k = i THEN new ELSE s[k]
  BY <1>1, Excepted, IsSeqIs
<1>4. Bound(s, n)
  BY <1>2, <1>3 DEF Bound
<1>5. [s EXCEPT ![i].bound = Over(b, @)] = n
  BY DEF n, new
<1> QED
  BY <1>4, <1>5

\* An interpreter is made: what holds of the others, and of the new one
NewLast(s, n, mode, path, nested) ==
  /\ DOMAIN n = DOMAIN s \cup {Len(n)} /\ \A i \in DOMAIN n : ~(Len(n) < i)
  /\ \A i \in DOMAIN s : n[i] = s[i]
  /\ n[Len(n)].mode = mode /\ n[Len(n)].path = path /\ n[Len(n)].nested = nested
  /\ ~n[Len(n)].whole

LEMMA NewIs ==
  ASSUME SInv, NEW a, NEW mode, NEW path, NEW nested
  PROVE  NewLast(interps, Append(interps, NewInterp(a, mode, path, nested)),
                 mode, path, nested)
<1> DEFINE new == NewInterp(a, mode, path, nested)
           n == Append(interps, new)
<1>1. IsSeq(interps) /\ DOMAIN interps = 1..Len(interps) /\ Len(interps) \in Nat
  BY IsSeqIs DEF SInv, InterpsIn
<1>2. new.mode = mode /\ new.path = path /\ new.nested = nested /\ ~new.whole
  BY DEF NewInterp
<1> HIDE DEF new
<1>3. /\ IsSeq(n) /\ Len(n) = Len(interps) + 1
      /\ \A k \in 1..Len(interps) : n[k] = interps[k]
      /\ n[Len(interps) + 1] = new
  BY <1>1, Appended
<1>4. DOMAIN n = 1..(Len(interps) + 1)
  BY <1>3, IsSeqIs
<1>5. /\ DOMAIN n = DOMAIN interps \cup {Len(n)}
      /\ \A i \in DOMAIN n : ~(Len(n) < i)
  BY <1>1, <1>3, <1>4
<1> HIDE DEF n
<1>6. NewLast(interps, n, mode, path, nested)
  BY <1>1, <1>2, <1>3, <1>5 DEF NewLast
<1> QED
  BY <1>6 DEF n, new

LEMMA OnceMade ==
  ASSUME OnceInv, Shape, NEW a, NEW mode, NEW path, NEW nested,
         interps' = Append(interps, NewInterp(a, mode, path, nested)), cache' = cache,
         mode # "governed" /\ path # "" => path \notin DOMAIN cache,
         ~nested /\ path # "" =>
           \A i \in DOMAIN interps : interps[i].path = path => ~Importing(stack, i)
  PROVE  Whole(interps', cache') /\ Failed(interps', stack')
<1> DEFINE n == Append(interps, NewInterp(a, mode, path, nested))
           new == Len(n)
<1>0. interps' = n
  OBVIOUS
<1>a. NewLast(interps, n, mode, path, nested)
  BY NewIs DEF OnceInv
<1> HIDE DEF n
<1>1. /\ \A i \in DOMAIN interps : n[i] = interps[i]
      /\ n[new].mode = mode /\ n[new].path = path /\ n[new].nested = nested /\ ~n[new].whole
  BY <1>a DEF NewLast
<1>2. DOMAIN n = DOMAIN interps \cup {new} /\ \A i \in DOMAIN n : ~(new < i)
  BY <1>a DEF NewLast
<1> HIDE DEF new
<1>3. Whole(n, cache')
  BY <1>1, <1>2 DEF OnceInv, Whole
<1>4. ASSUME NEW i \in DOMAIN n, NEW j \in DOMAIN n, i < j, Repeats(n, i, j)
      PROVE  ~n[i].whole /\ ~Importing(stack', i)
  <2>1. i \in DOMAIN interps /\ n[i] = interps[i]
    <3>1. i # new
      BY <1>2, <1>4
    <3> QED
      BY <1>1, <1>2, <3>1
  <2>2. ~interps[i].whole /\ ~Importing(stack, i)
    <3>1. CASE j \in DOMAIN interps
      <4>1. Repeats(interps, i, j)
        BY <1>1, <1>4, <2>1, <3>1 DEF Repeats
      <4> QED
        BY <1>4, <2>1, <3>1, <4>1 DEF OnceInv, Failed
    <3>2. CASE j = new
      <4>1. /\ interps[i].path = path /\ path # "" /\ ~nested
            /\ interps[i].mode # "governed" /\ mode # "governed"
        BY <1>1, <1>4, <2>1, <3>2 DEF Repeats
      <4>2. path \notin DOMAIN cache
        BY <4>1
      <4>3. ~interps[i].whole
        BY <2>1, <4>1, <4>2 DEF OnceInv, Whole
      <4>4. ~Importing(stack, i)
        BY <2>1, <4>1
      <4> QED
        BY <4>3, <4>4
    <3> QED
      BY <1>2, <3>1, <3>2
  <2>3. ~Importing(stack', i)
    BY <2>1, <2>2, ImportingKept DEF OnceInv
  <2> QED
    BY <2>1, <2>2, <2>3
<1>5. Failed(n, stack')
  BY <1>4 DEF Failed
<1> QED
  BY <1>0, <1>3, <1>5

LEMMA OnceImport == OnceInv /\ Shape /\ Import => Whole(interps', cache') /\ Failed(interps', stack')
<1> SUFFICES ASSUME OnceInv, Shape, Import
             PROVE  Whole(interps', cache') /\ Failed(interps', stack')
  OBVIOUS
<1> DEFINE path == Statement.path
           a == [host EXCEPT !.wired = interps[Me].mode = "governed" /\ interps[Me].attached.wired,
                             !.authenticated = FALSE, !.hardened = FALSE, !.guard = FALSE,
                             !.debug = FALSE]
           mode == IF interps[Me].mode = "governed" THEN "governed" ELSE Files[path].mode
           nested == \E k \in DOMAIN stack : interps[stack[k].interp].path = path
<1>1. stack # <<>> /\ cache' = cache
  BY DEF Import, Running
<1>2. Me \in DOMAIN interps /\ InterpsIn(interps, host)
  BY <1>1, TopIs DEF OnceInv, SInv
<1>3. \/ UNCHANGED interps
      \/ Bind(Me, cache[path])
      \/ ~Cached(Me, path) /\ interps' = Append(interps, Child(Me, path))
  BY DEF Import
<1>4. CASE UNCHANGED interps
  <2>1. Bound(interps, interps')
    BY <1>4 DEF Bound
  <2> QED
    BY <1>1, <2>1, OnceKept
<1>5. CASE Bind(Me, cache[path])
  <2>1. interps' = [interps EXCEPT ![Me].bound = Over(cache[path], @)]
    BY <1>5 DEF Bind
  <2>2. Bound(interps, interps')
    BY <1>2, <2>1, BoundIs
  <2> QED
    BY <1>1, <2>2, OnceKept
<1>6. CASE ~Cached(Me, path) /\ interps' = Append(interps, Child(Me, path))
  <2>1. Child(Me, path) = NewInterp(a, mode, path, nested)
    BY DEF Child
  <2>2. mode # "governed" => path \notin DOMAIN cache
    BY <1>6 DEF Cached
  <2>3. ~nested => \A i \in DOMAIN interps : interps[i].path = path => ~Importing(stack, i)
    BY DEF Importing
  <2> HIDE DEF a, mode, nested
  <2> QED
    BY <1>1, <1>6, <2>1, <2>2, <2>3, OnceMade
<1> QED
  BY <1>3, <1>4, <1>5, <1>6

LEMMA OnceBegin ==
  ASSUME OnceInv, Shape, NEW program, Begin(program)
  PROVE  Whole(interps', cache') /\ Failed(interps', stack')
<1>1. /\ interps' = Append(interps, NewInterp(host, program.mode, "", FALSE))
      /\ cache' = cache
  BY DEF Begin
<1> QED
  BY <1>1, OnceMade

\* A module ends: no later run of its file has begun outside it.
LEMMA OnceModule ==
  OnceInv /\ Shape /\ EndModule => Whole(interps', cache') /\ Failed(interps', stack')
<1> SUFFICES ASSUME OnceInv, Shape, EndModule
             PROVE  Whole(interps', cache') /\ Failed(interps', stack')
  OBVIOUS
<1> DEFINE importer == Top.info
           b == interps[Me].bound
           path == interps[Me].path
           n == [interps EXCEPT ![importer].bound = Over(b, @)]
           m == [n EXCEPT ![Me].whole = TRUE]
<1>0. SInv /\ InterpsIn(interps, host)
  BY DEF OnceInv, SInv
<1>1. stack # <<>> /\ Top.kind = "module"
  BY DEF EndModule, Ending
<1>2. /\ Me \in DOMAIN interps
      /\ importer \in DOMAIN interps /\ HomeIn(interps, importer, Me)
  BY <1>0, <1>1, TopIs DEF FrameIn, Me
<1>3. Importing(stack, Me)
  <2>1. Top \in {stack[k] : k \in DOMAIN stack}
    BY <1>0, <1>1, Fronted DEF SInv, StackOK, Top
  <2> QED
    BY <1>1, <2>1 DEF Importing, Me
<1>4. CASE UNCHANGED <<interps, cache>>
  <2>1. Bound(interps, interps')
    BY <1>4 DEF Bound
  <2> QED
    BY <1>4, <2>1, OnceKept
<1>5. CASE /\ interps' = [interps EXCEPT ![importer].bound = Over(interps[Me].bound, @),
                                        ![Me].whole = TRUE]
           /\ cache' = IF interps[importer].mode = "governed" THEN cache
                       ELSE Kept(interps[Me].path, interps[Me].bound)
  <2>1. interps' = m
    BY <1>5
  <2>2. /\ DOMAIN cache \subseteq DOMAIN cache'
        /\ interps[importer].mode # "governed" => path \in DOMAIN cache'
    BY <1>5 DEF Kept, Over
  <2> HIDE DEF b, importer
  <2>3. Bound(interps, n)
    BY <1>0, <1>2, BoundIs
  <2>4. InterpsIn(n, host)
    <3>1. \A f \in DOMAIN b : HomeIn(interps, importer, b[f])
      BY <1>0, <1>2 DEF InterpsIn, InterpIn, HomeIn, b
    <3> QED
      BY <1>0, <1>2, <3>1, BoundGrows
  <2> DEFINE new == [n[Me] EXCEPT !.whole = TRUE]
  <2>5. DOMAIN n = DOMAIN interps /\ DOMAIN n[Me] = InterpFields /\ IsSeq(n) /\ Me \in DOMAIN n
    BY <1>2, <2>3, <2>4 DEF Bound, InterpsIn, InterpIn
  <2> HIDE DEF n
  <2>6. new.mode = n[Me].mode /\ new.path = n[Me].path /\ new.nested = n[Me].nested
    BY <2>5 DEF InterpFields
  <2>7. m = [n EXCEPT ![Me] = new]
    OBVIOUS
  <2> HIDE DEF m, new
  <2>8. DOMAIN m = DOMAIN n /\ \A k \in DOMAIN n : m[k] = IF k = Me THEN new ELSE n[k]
    BY <2>5, <2>7, Excepted, IsSeqIs
  <2>9. /\ DOMAIN m = DOMAIN interps
        /\ \A k \in DOMAIN interps :
             /\ m[k].mode = interps[k].mode /\ m[k].path = interps[k].path
             /\ m[k].nested = interps[k].nested
             /\ k # Me => m[k].whole = interps[k].whole
    BY <2>3, <2>6, <2>8 DEF Bound
  <2>10. ASSUME NEW k \in DOMAIN m, m[k].whole, m[k].mode # "governed", m[k].path # ""
         PROVE  m[k].path \in DOMAIN cache'
    <3>1. CASE k = Me
      <4>1. interps[importer].mode # "governed"
        BY <1>2, <2>9, <2>10, <3>1 DEF HomeIn
      <4> QED
        BY <1>2, <2>2, <2>9, <3>1, <4>1
    <3>2. CASE k # Me
      <4>1. /\ k \in DOMAIN interps /\ interps[k].whole
            /\ interps[k].mode # "governed" /\ interps[k].path # ""
        BY <2>9, <2>10, <3>2
      <4> QED
        BY <2>2, <2>9, <4>1 DEF OnceInv, Whole
    <3> QED
      BY <3>1, <3>2
  <2>11. ASSUME NEW i \in DOMAIN m, NEW j \in DOMAIN m, i < j, Repeats(m, i, j)
         PROVE  ~m[i].whole /\ ~Importing(stack', i)
    <3>1. i \in DOMAIN interps /\ j \in DOMAIN interps /\ Repeats(interps, i, j)
      BY <2>9, <2>11 DEF Repeats
    <3>2. ~interps[i].whole /\ ~Importing(stack, i)
      BY <2>11, <3>1 DEF OnceInv, Failed
    <3>3. i # Me
      BY <1>3, <3>2
    <3> QED
      BY <1>0, <2>9, <3>1, <3>2, <3>3, ImportingKept
  <2> QED
    BY <2>1, <2>10, <2>11 DEF Whole, Failed
<1> QED
  BY <1>4, <1>5 DEF EndModule

LEMMA OnceStep == OnceInv /\ Next => Whole(interps', cache') /\ Failed(interps', stack')
<1> SUFFICES ASSUME OnceInv, Next
             PROVE  Whole(interps', cache') /\ Failed(interps', stack')
  OBVIOUS
<1>0. Shape
  BY ShapeStep DEF OnceInv
<1>1. CASE UNCHANGED <<interps, cache>>
  <2>1. Bound(interps, interps') /\ DOMAIN cache \subseteq DOMAIN cache'
    BY <1>1 DEF Bound
  <2> QED
    BY <1>0, <2>1, OnceKept
<1>2. CASE Declare
  <2> DEFINE b == [f \in {Statement.name} |-> Me]
  <2>1. /\ stack # <<>> /\ cache' = cache
        /\ interps' = [interps EXCEPT ![Me].bound = Over(b, @)]
    BY <1>2 DEF Declare, Running
  <2>2. Me \in DOMAIN interps /\ InterpsIn(interps, host)
    BY <2>1, TopIs DEF OnceInv, SInv
  <2> HIDE DEF b
  <2>3. Bound(interps, interps')
    BY <2>1, <2>2, BoundIs
  <2> QED
    BY <1>0, <2>1, <2>3, OnceKept
<1>3. CASE Effect \/ Call \/ Cascade \/ Throw \/ Protect \/ StartTask \/ EnterGoverned
           \/ EndProgram \/ EndCall \/ EndGoverned \/ EndSpillage \/ EndCleanup \/ EndFinally
  <2>1. UNCHANGED <<interps, cache>>
    BY <1>3 DEF Effect, Call, Cascade, Throw, Protect, StartTask, EnterGoverned, EndProgram,
                EndCall, EndGoverned, EndSpillage, EndCleanup, EndFinally
  <2> QED
    BY <1>1, <2>1
<1> QED
  BY <1>0, <1>2, <1>3, OnceBegin, OnceImport, OnceModule DEF Next

\* In core mode a file that has run to its end is not run again in the process:
\* ModuleCache answers every later import of it, and the runs that failed
\* before it stay failed; only an import cycle repeats a run inside another.
THEOREM FilesRunOnce == Spec => []ImportedOnce
<1>1. Init => OnceInv
  <2>1. DOMAIN <<>> = {}
    OBVIOUS
  <2> QED
    BY <2>1, SInit DEF Init, OnceInv, Whole, Failed
<1>2. OnceInv /\ [Next]_vars => OnceInv'
  <2>1. OnceInv /\ [Next]_vars => SInv'
    BY SStep DEF OnceInv
  <2>2. OnceInv /\ UNCHANGED vars => Whole(interps', cache') /\ Failed(interps', stack')
    BY DEF OnceInv, vars
  <2> QED
    BY <2>1, <2>2, OnceStep DEF OnceInv
<1>3. OnceInv => ImportedOnce
  <2> SUFFICES ASSUME OnceInv, NEW i \in DOMAIN interps, NEW j \in DOMAIN interps,
                      interps[i].path = interps[j].path, interps[i].path # "",
                      interps[i].whole, interps[j].whole,
                      ~interps[i].nested, ~interps[j].nested,
                      interps[i].mode # "governed", interps[j].mode # "governed",
                      i # j
               PROVE  FALSE
    BY DEF ImportedOnce
  <2>1. i < j \/ j < i
    BY Ordered DEF OnceInv
  <2>2. Repeats(interps, i, j) /\ Repeats(interps, j, i)
    BY DEF Repeats
  <2> QED
    BY <2>1, <2>2 DEF OnceInv, Failed
<1> QED
  BY <1>1, <1>2, <1>3, PTL DEF Spec
=============================================================================
