---------------------------- MODULE RecursionProofs ----------------------------
(***************************************************************************)
(* Induction over the naturals, in a form the provers can use: what is to  *)
(* be shown of every n is said as membership in a set.  And from it, that  *)
(* a function defined by recursion over the naturals exists; with it, what *)
(* FlattenSeq of the community modules makes of a sequence of sequences.   *)
(***************************************************************************)
EXTENDS Naturals, SequencesExt, SequenceTheorems, WellFoundedInduction, TLAPS

\* A set that has 0, and with each number its successor, has every number.
LEMMA NatSetInduction ==
  ASSUME NEW S, 0 \in S, \A n \in Nat : n \in S => n + 1 \in S
  PROVE  \A n \in Nat : n \in S
<1> DEFINE R == OpToRel(<, Nat)
           T == {n \in Nat : n \notin S}
<1>1. \A m, n \in Nat : m < n => <<m, n>> \in R
  BY DEF OpToRel
<1>2. IsWellFoundedOn(R, Nat)
  BY NatLessThanWellFounded
<1> HIDE DEF R
<1> SUFFICES ASSUME T # {} PROVE FALSE
  OBVIOUS
<1>3. T \subseteq Nat
  OBVIOUS
<1> HIDE DEF T
<1>4. PICK n \in T : \A m \in T : ~ (<<m, n>> \in R)
  BY <1>2, <1>3, WFMin
<1>5. n \in Nat /\ n \notin S
  BY <1>4 DEF T
<1>6. n # 0
  BY <1>5
<1>7. n - 1 \in Nat /\ n - 1 < n
  BY <1>5, <1>6
<1>8. n - 1 \in S
  BY <1>1, <1>4, <1>5, <1>7 DEF T
<1>9. (n - 1) + 1 = n
  BY <1>5
<1> QED
  BY <1>5, <1>7, <1>8, <1>9

\* The function f on 0 .. N has the value base at 0, and at n it has what step
\* makes of n and of the value at n - 1.
Recurs(f, N, V, base, step) ==
  /\ f \in [0 .. N -> V]
  /\ f[0] = base
  /\ \A n \in 1 .. N : f[n] = step[n][f[n - 1]]

\* There is such a function, on any range of numbers from 0 on.
LEMMA RecursionExists ==
  ASSUME NEW V, NEW base \in V, NEW step \in [Nat -> [V -> V]], NEW M \in Nat
  PROVE  \E f : Recurs(f, M, V, base, step)
<1> USE DEF Recurs
<1> DEFINE Fits(N, f) == Recurs(f, N, V, base, step)
           S == {N \in Nat : \E f : Fits(N, f)}
<1>1. 0 \in S
  <2> DEFINE f == [n \in 0 .. 0 |-> base]
  <2>1. f \in [0 .. 0 -> V] /\ f[0] = base
    OBVIOUS
  <2>2. Fits(0, f)
    BY <2>1
  <2> QED
    BY <2>2
<1>2. ASSUME NEW N \in Nat, N \in S
      PROVE  N + 1 \in S
  <2>1. PICK f : Fits(N, f)
    BY <1>2
  <2> DEFINE last == step[N + 1][f[N]]
             g == [n \in 0 .. N + 1 |-> IF n = N + 1 THEN last ELSE f[n]]
  <2>2. f[N] \in V
    BY <2>1
  <2>3. last \in V
    BY <2>2
  <2>4. ASSUME NEW n \in 0 .. N
        PROVE  n \in 0 .. N + 1 /\ g[n] = f[n] /\ f[n] \in V
    BY <2>1
  <2>5. g[N + 1] = last /\ DOMAIN g = 0 .. N + 1
    OBVIOUS
  <2>6. g \in [0 .. N + 1 -> V]
    <3>1. \A n \in 0 .. N + 1 : n = N + 1 \/ n \in 0 .. N
      OBVIOUS
    <3> HIDE DEF last
    <3> QED
      BY <2>3, <2>4, <3>1
  <2> HIDE DEF g
  <2>7. g[0] = base
    BY <2>1, <2>4
  <2>8. ASSUME NEW n \in 1 .. N + 1
        PROVE  g[n] = step[n][g[n - 1]]
    <3>1. n - 1 \in 0 .. N
      OBVIOUS
    <3>2. g[n - 1] = f[n - 1]
      BY <2>4, <3>1
    <3>3. CASE n = N + 1
      <4>1. n - 1 = N
        BY <3>3
      <4> QED
        BY <2>5, <3>2, <3>3, <4>1
    <3>4. CASE n \in 1 .. N
      BY <2>1, <2>4, <3>2, <3>4
    <3> QED
      BY <3>3, <3>4
  <2>9. Fits(N + 1, g)
    BY <2>6, <2>7, <2>8
  <2> QED
    BY <2>9
<1>3. \A N \in Nat : N \in S
  <2> HIDE DEF S
  <2> QED
    BY <1>1, <1>2, NatSetInduction
<1> QED
  BY <1>3
--------------------------------------------------------------------------------
(* FlattenSeq of SequencesExt. *)

\* The parts a concatenation is made of: F[i] is s[1] to s[i] in a row.
Concatenates(F, n, s, V) ==
  /\ F \in [1 .. n -> V]
  /\ F[1] = s[1]
  /\ \A i \in 2 .. n : F[i] = F[i - 1] \o s[i]

\* FlattenSeq is what its recursion says.
LEMMA FlattenSeqDef ==
  ASSUME NEW S, NEW s \in Seq(Seq(S)), NEW n \in Nat, n = Len(s), n # 0
  PROVE  \E F : Concatenates(F, n, s, Seq(S)) /\ FlattenSeq(s) = F[n]
<1> DEFINE V == Seq(S)
           step == [i \in Nat |-> [v \in V |-> IF i \in 1 .. n THEN v \o s[i] ELSE v]]
           body(F) == [i \in 1 .. n |-> IF i = 1 THEN s[i] ELSE F[i - 1] \o s[i]]
           flatten == CHOOSE F : F = body(F)
<1>1. \A i \in 1 .. n : s[i] \in V
  BY ElementOfSeq
<1>2. \A v, w \in V : v \o w \in V
  BY ConcatProperties
<1>3. <<>> \in V /\ \A v \in V : <<>> \o v = v
  BY ConcatEmptySeq
<1>4. FlattenSeq(s) = flatten[n]
  BY DEF FlattenSeq
<1> HIDE DEF V
<1>5. step \in [Nat -> [V -> V]]
  BY <1>1, <1>2
<1>6. \A i \in 1 .. n, v \in V : step[i][v] = v \o s[i]
  OBVIOUS
<1> HIDE DEF step
<1>7. PICK f : Recurs(f, n, V, <<>>, step)
  BY <1>3, <1>5, RecursionExists, Zenon
<1>8. ASSUME NEW i \in 1 .. n
      PROVE  f[i] \in V /\ f[i] = f[i - 1] \o s[i]
  <2>0. i - 1 \in 0 .. n /\ i \in 0 .. n
    OBVIOUS
  <2>1. f[i - 1] \in V /\ f[i] \in V
    BY <1>7, <2>0, Zenon DEF Recurs
  <2> QED
    BY <1>6, <1>7, <2>1 DEF Recurs
<1> DEFINE F == [i \in 1 .. n |-> f[i]]
<1>9. F \in [1 .. n -> V]
  BY <1>8
<1>10. F[1] = s[1]
  <2>1. 1 \in 1 .. n /\ 1 - 1 = 0 /\ s[1] \in V
    BY <1>1
  <2>2. f[1] = f[0] \o s[1]
    BY <1>8, <2>1
  <2>3. f[0] = <<>>
    BY <1>7 DEF Recurs
  <2> QED
    BY <1>3, <2>1, <2>2, <2>3
<1>11. ASSUME NEW i \in 2 .. n
       PROVE  F[i] = F[i - 1] \o s[i]
  <2>1. i \in 1 .. n /\ i - 1 \in 1 .. n
    OBVIOUS
  <2> QED
    BY <1>8, <2>1
<1> HIDE DEF F
<1>12. F = body(F)
  <2>1. \A i \in 1 .. n : i = 1 \/ i \in 2 .. n
    OBVIOUS
  <2>2. \A i \in 1 .. n : F[i] = IF i = 1 THEN s[i] ELSE F[i - 1] \o s[i]
    BY <1>10, <1>11, <2>1
  <2> QED
    BY <1>9, <2>2
<1>13. flatten = body(flatten)
  BY <1>12
<1> HIDE DEF flatten
<1>14. \A i \in 1 .. n : flatten[i] = IF i = 1 THEN s[i] ELSE flatten[i - 1] \o s[i]
  BY <1>13
<1> HIDE DEF body
<1> DEFINE A == {j \in Nat : j \in 1 .. n => flatten[j] = F[j]}
<1>15. 0 \in A
  OBVIOUS
<1>16. ASSUME NEW j \in Nat, j \in A
       PROVE  j + 1 \in A
  <2> SUFFICES ASSUME j + 1 \in 1 .. n PROVE flatten[j + 1] = F[j + 1]
    OBVIOUS
  <2>1. CASE j = 0
    BY <1>10, <1>14, <2>1
  <2>2. CASE j # 0
    <3>1. j + 1 \in 2 .. n /\ j \in 1 .. n /\ j + 1 # 1 /\ (j + 1) - 1 = j
      BY <2>2
    <3>2. flatten[j] = F[j]
      BY <1>16, <3>1
    <3>3. flatten[j + 1] = flatten[j] \o s[j + 1]
      BY <1>14, <3>1
    <3>4. F[j + 1] = F[j] \o s[j + 1]
      BY <1>11, <3>1
    <3> QED
      BY <3>2, <3>3, <3>4
  <2> QED
    BY <2>1, <2>2
<1> HIDE DEF A
<1>17. \A j \in Nat : j \in A
  BY <1>15, <1>16, NatSetInduction
<1>18. flatten[n] = F[n]
  BY <1>17 DEF A
<1> QED
  BY <1>4, <1>9, <1>10, <1>11, <1>18, Zenon DEF V, Concatenates

Associates(V) == \A u, v, w \in V : (u \o v) \o w = u \o (v \o w)

LEMMA SequencesAssociate ==
  ASSUME NEW S
  PROVE  Associates(Seq(S))
BY ConcatAssociative DEF Associates

\* t is s without its first element.
Follows(t, s, m, V) == \A i \in 1 .. m : t[i] \in V /\ t[i] = s[i + 1]

\* F does so for a sequence, and G for the same without its first element.
BothConcatenate(F, G, s, t, m, V) ==
  /\ Associates(V) /\ Follows(t, s, m, V) /\ s[1] \in V
  /\ Concatenates(F, m + 1, s, V) /\ Concatenates(G, m, t, V)
SameInTheEnd(F, G, s, m) == m # 0 => F[m + 1] = s[1] \o G[m]

LEMMA ConcatenatesRest ==
  ASSUME NEW V, NEW m \in Nat, NEW s, NEW t, NEW F, NEW G, BothConcatenate(F, G, s, t, m, V)
  PROVE  SameInTheEnd(F, G, s, m)
<1>0. /\ \A i \in 1 .. m : G[i] \in V /\ t[i] \in V /\ t[i] = s[i + 1]
      /\ F[1] = s[1] /\ \A i \in 2 .. m + 1 : F[i] = F[i - 1] \o s[i]
      /\ G[1] = t[1] /\ \A i \in 2 .. m : G[i] = G[i - 1] \o t[i]
      /\ s[1] \in V /\ Associates(V)
  BY DEF BothConcatenate, Concatenates, Follows
<1> DEFINE A == {j \in Nat : j \in 1 .. m => F[j + 1] = s[1] \o G[j]}
<1>1. 0 \in A
  OBVIOUS
<1>2. ASSUME NEW j \in Nat, j \in A
      PROVE  j + 1 \in A
  <2>1. ASSUME j + 1 \in 1 .. m
        PROVE  F[(j + 1) + 1] = s[1] \o G[j + 1]
    <3>1. (j + 1) + 1 \in 2 .. m + 1 /\ ((j + 1) + 1) - 1 = j + 1
      BY <2>1
    <3>2. F[(j + 1) + 1] = F[j + 1] \o t[j + 1]
      BY <1>0, <2>1, <3>1
    <3>3. CASE j = 0
      <4>1. j + 1 = 1
        BY <3>3
      <4> QED
        BY <1>0, <3>2, <4>1, Zenon
    <3>4. CASE j # 0
      <4>1. j \in 1 .. m /\ j + 1 \in 2 .. m /\ (j + 1) - 1 = j
        BY <2>1, <3>4
      <4>2. F[j + 1] = s[1] \o G[j]
        BY <1>2, <4>1
      <4>3. G[j + 1] = G[j] \o t[j + 1]
        BY <1>0, <4>1
      <4>4. (s[1] \o G[j]) \o t[j + 1] = s[1] \o (G[j] \o t[j + 1])
        BY <1>0, <2>1, <4>1 DEF Associates
      <4>5. F[(j + 1) + 1] = (s[1] \o G[j]) \o t[j + 1]
        BY <3>2, <4>2, Zenon
      <4>6. s[1] \o G[j + 1] = s[1] \o (G[j] \o t[j + 1])
        BY <4>3, Zenon
      <4> QED
        BY <4>4, <4>5, <4>6, Zenon
    <3> QED
      BY <3>3, <3>4
  <2>2. j + 1 \in Nat
    OBVIOUS
  <2> QED
    BY <2>1, <2>2, Zenon
<1> HIDE DEF A
<1>3. \A j \in Nat : j \in A
  BY <1>1, <1>2, NatSetInduction
<1>4. m # 0 => m \in 1 .. m
  OBVIOUS
<1> QED
  BY <1>3, <1>4, Zenon DEF A, SameInTheEnd

\* What comes first comes first.
LEMMA FlattenFirst ==
  ASSUME NEW S, NEW s \in Seq(Seq(S)), s # <<>>
  PROVE  /\ FlattenSeq(s) \in Seq(S) /\ FlattenSeq(Tail(s)) \in Seq(S)
         /\ FlattenSeq(s) = Head(s) \o FlattenSeq(Tail(s))
<1>1. PICK n \in Nat : n = Len(s)
  OBVIOUS
<1>2. n # 0 /\ Head(s) = s[1] /\ s[1] \in Seq(S)
  BY <1>1
<1>3. PICK F : Concatenates(F, n, s, Seq(S)) /\ FlattenSeq(s) = F[n]
  BY <1>1, <1>2, FlattenSeqDef, Zenon
<1>4. FlattenSeq(s) \in Seq(S)
  BY <1>2, <1>3 DEF Concatenates
<1> DEFINE t == Tail(s)
<1>5. t \in Seq(Seq(S)) /\ Len(t) = n - 1 /\ \A i \in 1 .. n - 1 : t[i] = s[i + 1]
  BY <1>1, <1>2, HeadTailProperties
<1> HIDE DEF t
<1>6. CASE n = 1
  <2>1. t = <<>>
    BY <1>5, <1>6
  <2>2. FlattenSeq(t) = <<>>
    BY <2>1 DEF FlattenSeq
  <2>3. s[1] \o <<>> = s[1] /\ <<>> \in Seq(S)
    BY <1>2, ConcatEmptySeq
  <2>4. FlattenSeq(s) = s[1]
    BY <1>3, <1>6 DEF Concatenates
  <2> QED
    BY <1>2, <1>4, <2>2, <2>3, <2>4 DEF t
<1>7. CASE n # 1
  <2>1. PICK m \in Nat : m = n - 1 /\ m = Len(t) /\ m # 0
    BY <1>2, <1>5, <1>7
  <2>2. PICK G : Concatenates(G, m, t, Seq(S)) /\ FlattenSeq(t) = G[m]
    BY <1>5, <2>1, FlattenSeqDef, Zenon
  <2>3. m + 1 = n /\ m \in 1 .. m
    BY <2>1
  <2>4. Associates(Seq(S))
    BY SequencesAssociate, Zenon
  <2>5. \A i \in 1 .. m : t[i] \in Seq(S)
    BY <1>5, <2>1, ElementOfSeq
  <2>6. Follows(t, s, m, Seq(S))
    BY <1>5, <2>1, <2>5 DEF Follows
  <2>7. Concatenates(F, m + 1, s, Seq(S))
    BY <1>3, <2>3, Zenon
  <2>8. F[m + 1] = s[1] \o G[m]
    <3>1. BothConcatenate(F, G, s, t, m, Seq(S))
      BY <1>2, <2>2, <2>4, <2>6, <2>7, Zenon DEF BothConcatenate
    <3>2. SameInTheEnd(F, G, s, m)
      BY <3>1, ConcatenatesRest, Zenon
    <3> QED
      BY <2>1, <3>2, Zenon DEF SameInTheEnd
  <2>9. FlattenSeq(s) = s[1] \o FlattenSeq(t)
    BY <1>3, <2>2, <2>3, <2>8, Zenon
  <2>10. FlattenSeq(t) \in Seq(S)
    BY <2>2, <2>3, Zenon DEF Concatenates
  <2> QED
    BY <1>2, <1>4, <2>9, <2>10 DEF t
<1> QED
  BY <1>6, <1>7

\* A sequence of sequences put together is a sequence.
LEMMA FlattenType ==
  ASSUME NEW S, NEW s \in Seq(Seq(S))
  PROVE  FlattenSeq(s) \in Seq(S)
<1>1. CASE s = <<>>
  BY <1>1 DEF FlattenSeq
<1>2. CASE s # <<>>
  BY <1>2, FlattenFirst
<1> QED
  BY <1>1, <1>2

\* Any number but 0 has one before it.
LEMMA OneBefore ==
  ASSUME NEW k \in Nat \ {0}
  PROVE  \E n \in Nat : k = n + 1
<1>1. k - 1 \in Nat /\ k = (k - 1) + 1
  OBVIOUS
<1> QED
  BY <1>1

\* Of a sequence made point by point, the rest is made of the rest.
OneMore(F, G, n, S) ==
  F \in [1 .. n + 1 -> Seq(S)] /\ G \in [1 .. n -> Seq(S)] /\ \A i \in 1 .. n : G[i] = F[i + 1]

LEMMA FlattenMapped ==
  ASSUME NEW S, NEW n \in Nat, NEW F, NEW G, OneMore(F, G, n, S)
  PROVE  FlattenSeq(F) \in Seq(S) /\ FlattenSeq(G) \in Seq(S) /\ FlattenSeq(F) = F[1] \o FlattenSeq(G)
<1>1. F \in Seq(Seq(S)) /\ Len(F) = n + 1 /\ F # <<>> /\ Head(F) = F[1]
  BY DEF OneMore
<1>2. Tail(F) \in Seq(Seq(S)) /\ Len(Tail(F)) = n /\ \A i \in 1 .. n : Tail(F)[i] = F[i + 1]
  BY <1>1, HeadTailProperties
<1>3. G \in Seq(Seq(S)) /\ Len(G) = n /\ \A i \in 1 .. n : G[i] = F[i + 1]
  BY DEF OneMore
<1>4. Tail(F) = G
  BY <1>2, <1>3, SeqEqual
<1> QED
  BY <1>1, <1>4, FlattenFirst, Zenon

================================================================================
