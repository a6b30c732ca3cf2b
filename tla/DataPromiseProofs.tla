--------------------------- MODULE DataPromiseProofs ---------------------------
(***************************************************************************)
(* A data query gives the answer and leaves the table it promises,         *)
(* whichever branch it takes and however its tasks interleave.  First what *)
(* wrapping numbers, loops and the promises are; then that every row has   *)
(* one turn; that the partial results, each of its part of the rows, make  *)
(* up the result of all; and what SELECT prints.                           *)
(***************************************************************************)
EXTENDS DataQueriesProofs, FiniteSetTheorems

(* Numbers that wrap. *)

\* What % takes off is a multiple.
LEMMA Remainder ==
  ASSUME NEW x \in Int, NEW m \in Nat, m # 0
  PROVE  \E k \in Int : x % m = x + m * k
<1>1. x = m * (x \div m) + (x % m) /\ x \div m \in Int /\ x % m \in Int
  BY SMT
<1> DEFINE d == x \div m
           k == -d
<1>2. x = m * d + (x % m) /\ d \in Int
  BY <1>1
<1> HIDE DEF d
<1>3. m * k = -(m * d) /\ k \in Int
  BY <1>2, SMT
<1> HIDE DEF k
<1>4. x % m = x + m * k
  BY <1>1, <1>2, <1>3, SMT
<1> QED
  BY <1>3, <1>4

\* Two numbers of one remainder in a range as wide as the modulus are one.
LEMMA RemainderOnce ==
  ASSUME NEW m \in Nat, NEW y \in Int, NEW z \in Int, NEW k \in Int, y = z + m * k,
         y - z < m, z - y < m
  PROVE  y = z
<1>1. CASE k = 0
  BY <1>1
<1>2. CASE k >= 1
  <2>1. m * k >= m
    BY <1>2, SMT
  <2> QED
    BY <2>1, SMT
<1>3. CASE k <= -1
  <2>1. m * k <= -m
    BY <1>3, SMT
  <2> QED
    BY <2>1, SMT
<1> QED
  BY <1>1, <1>2, <1>3

\* Wrap adds a multiple of 2^Bits, and is the only int that does.
LEMMA WrapOnce ==
  ASSUME NEW x \in Int
  PROVE  /\ \E k \in Int : Wrap(x) = x + 2 ^ Bits * k
         /\ \A y \in Int32, k \in Int : y = x + 2 ^ Bits * k => y = Wrap(x)
<1>1. PICK half \in Nat : half = 2 ^ (Bits - 1) /\ half # 0 /\ 2 ^ Bits = 2 * half
  BY BitsAssumption
<1> DEFINE M == 2 ^ Bits
<1>2. IntMin = -half /\ IntMax = half - 1 /\ M = 2 * half /\ M \in Nat /\ M # 0
  BY <1>1 DEF IntMin, IntMax
<1>3. Wrap(x) = ((x + half) % M) - half
  BY <1>1, <1>2 DEF Wrap
<1> HIDE DEF M
<1>4. PICK k \in Int : (x + half) % M = x + half + M * k
  <2>1. x + half \in Int
    OBVIOUS
  <2> QED
    BY <1>2, <2>1, Remainder, Zenon
<1>5. M * k \in Int
  BY <1>2
<1>6. Wrap(x) = x + M * k
  BY <1>2, <1>3, <1>4, <1>5
<1>7. ASSUME NEW y \in Int32, NEW j \in Int, y = x + M * j
      PROVE  y = Wrap(x)
  <2>1. Wrap(x) \in Int32
    BY WrapType
  <2>2. y \in Int /\ Wrap(x) \in Int /\ y - Wrap(x) < M /\ Wrap(x) - y < M
    BY <1>2, <2>1 DEF Int32
  <2>3. y = Wrap(x) + M * (j - k)
    <3>1. M * (j - k) = M * j - M * k /\ M * j \in Int
      BY <1>2, SMT
    <3> QED
      BY <1>5, <1>6, <1>7, <3>1
  <2>4. j - k \in Int
    OBVIOUS
  <2> HIDE DEF Int32
  <2> QED
    BY <1>2, <2>2, <2>3, <2>4, RemainderOnce
<1> QED
  BY <1>6, <1>7 DEF M

LEMMA WrapFits ==
  ASSUME NEW x \in Int32
  PROVE  Wrap(x) = x
<1>1. x \in Int
  BY SmallInts
<1>2. x = x + 2 ^ Bits * 0
  BY <1>1, BitsAssumption
<1> QED
  BY <1>1, <1>2, WrapOnce

\* A wrapped number may stand for the number in a sum that is wrapped.
LEMMA WrapSum ==
  ASSUME NEW a \in Int, NEW b \in Int
  PROVE  Wrap(Wrap(a) + b) = Wrap(a + b)
<1> DEFINE M == 2 ^ Bits
<1>0. M \in Nat
  BY BitsAssumption
<1>1. PICK k \in Int : Wrap(a) = a + M * k
  BY WrapOnce
<1>2. PICK j \in Int : Wrap(a + b) = (a + b) + M * j
  BY WrapOnce
<1> HIDE DEF M
<1>3. M * (j - k) = M * j - M * k /\ M * j \in Int /\ M * k \in Int
  BY <1>0, SMT
<1>4. Wrap(a + b) = (Wrap(a) + b) + M * (j - k)
  BY <1>1, <1>2, <1>3
<1>5. Wrap(a + b) \in Int32 /\ Wrap(a) + b \in Int /\ j - k \in Int
  BY <1>1, <1>3, WrapType
<1> QED
  BY <1>4, <1>5, WrapOnce DEF M
-------------------------------------------------------------------------------
(* Loops. *)

\* A loop of no turns.
LEMMA LoopZero ==
  ASSUME NEW V, NEW v \in V, NEW turns \in [1 .. 0 -> [V -> V]]
  PROVE  Loop(v, turns) = v
<1>1. PICK f : Recurs(f, 0, V, v, turns) /\ Loop(v, turns) = f[0]
  BY LoopDef, Zenon
<1> QED
  BY <1>1 DEF Recurs

\* The last turn comes after the others.
LEMMA LoopStep ==
  ASSUME NEW V, NEW v \in V, NEW n \in Nat, NEW turns \in [1 .. n + 1 -> [V -> V]]
  PROVE  \A others \in [1 .. n -> [V -> V]] :
           (\A i \in 1 .. n : others[i] = turns[i])
             => Loop(v, turns) = turns[n + 1][Loop(v, others)]
<1>1. n + 1 \in Nat
  OBVIOUS
<1>2. PICK f : Recurs(f, n + 1, V, v, turns) /\ Loop(v, turns) = f[n + 1]
  BY <1>1, LoopDef, Zenon
<1> SUFFICES ASSUME NEW others \in [1 .. n -> [V -> V]],
                    \A i \in 1 .. n : others[i] = turns[i]
             PROVE  Loop(v, turns) = turns[n + 1][Loop(v, others)]
  OBVIOUS
<1>3. PICK g : Recurs(g, n, V, v, others) /\ Loop(v, others) = g[n]
  BY LoopDef, Zenon
<1> DEFINE A == {i \in Nat : i \in 0 .. n => f[i] = g[i]}
<1>4. 0 \in A
  BY <1>2, <1>3 DEF Recurs
<1>5. ASSUME NEW i \in Nat, i \in A
      PROVE  i + 1 \in A
  <2> SUFFICES ASSUME i + 1 \in 0 .. n PROVE f[i + 1] = g[i + 1]
    OBVIOUS
  <2>1. i \in 0 .. n /\ i + 1 \in 1 .. n /\ i + 1 \in 1 .. n + 1 /\ (i + 1) - 1 = i
    OBVIOUS
  <2>2. f[i + 1] = turns[i + 1][f[i]] /\ g[i + 1] = others[i + 1][g[i]]
    BY <1>2, <1>3, <2>1 DEF Recurs
  <2> QED
    BY <1>5, <2>1, <2>2
<1> HIDE DEF A
<1>6. \A i \in Nat : i \in A
  BY <1>4, <1>5, NatSetInduction
<1>7. f[n] = g[n]
  BY <1>6 DEF A
<1>8. f[n + 1] = turns[n + 1][f[n]]
  <2>1. n + 1 \in 1 .. n + 1 /\ (n + 1) - 1 = n
    OBVIOUS
  <2> QED
    BY <1>2, <2>1 DEF Recurs
<1> QED
  BY <1>2, <1>3, <1>7, <1>8
-------------------------------------------------------------------------------
(* One row. *)

\* To wrap at every turn of a sum is to wrap once.
LEMMA WrapsThrough ==
  ASSUME NEW n \in Nat, NEW g \in [1 .. n -> Int], NEW v \in Int32
  PROVE  LET sum == Loop(v, [i \in 1 .. n |-> [s \in Int |-> s + g[i]]])
         IN /\ Loop(v, [i \in 1 .. n |-> [s \in Int32 |-> Wrap(s + g[i])]]) = Wrap(sum)
            /\ sum \in Int
<1> DEFINE wraps == [i \in 1 .. n |-> [s \in Int32 |-> Wrap(s + g[i])]]
           adds == [i \in 1 .. n |-> [s \in Int |-> s + g[i]]]
<1>0. v \in Int
  BY SmallInts
<1>1. \A i \in 1 .. n : \A s \in Int32 : Wrap(s + g[i]) \in Int32
  BY SmallInts, WrapType
<1>2. wraps \in [1 .. n -> [Int32 -> Int32]] /\ adds \in [1 .. n -> [Int -> Int]]
  BY <1>1
<1>3. /\ \A i \in 1 .. n : \A s \in Int32 : wraps[i][s] = Wrap(s + g[i])
      /\ \A i \in 1 .. n : \A s \in Int : adds[i][s] = s + g[i]
  OBVIOUS
<1> HIDE DEF wraps, adds
<1>4. PICK f : Recurs(f, n, Int32, v, wraps) /\ Loop(v, wraps) = f[n]
  BY <1>2, LoopDef, Zenon
<1>5. PICK h : Recurs(h, n, Int, v, adds) /\ Loop(v, adds) = h[n]
  BY <1>0, <1>2, LoopDef, Zenon
<1> DEFINE A == {i \in Nat : i \in 0 .. n => f[i] = Wrap(h[i])}
<1>6. 0 \in A
  BY <1>4, <1>5, WrapFits DEF Recurs
<1>7. ASSUME NEW i \in Nat, i \in A
      PROVE  i + 1 \in A
  <2> SUFFICES ASSUME i + 1 \in 0 .. n PROVE f[i + 1] = Wrap(h[i + 1])
    OBVIOUS
  <2>1. i \in 0 .. n /\ i + 1 \in 1 .. n /\ (i + 1) - 1 = i
    OBVIOUS
  <2>2. f[i] \in Int32 /\ h[i] \in Int
    BY <1>4, <1>5, <2>1 DEF Recurs
  <2>3. f[i + 1] = wraps[i + 1][f[i]] /\ h[i + 1] = adds[i + 1][h[i]]
    BY <1>4, <1>5, <2>1 DEF Recurs
  <2>4. f[i + 1] = Wrap(Wrap(h[i]) + g[i + 1]) /\ h[i + 1] = h[i] + g[i + 1]
    BY <1>3, <1>7, <2>1, <2>2, <2>3
  <2>5. g[i + 1] \in Int
    BY <2>1
  <2> QED
    BY <2>2, <2>4, <2>5, WrapSum
<1> HIDE DEF A
<1>8. \A i \in Nat : i \in A
  BY <1>6, <1>7, NatSetInduction
<1>9. f[n] = Wrap(h[n]) /\ h[n] \in Int
  BY <1>5, <1>8 DEF A, Recurs
<1> QED
  BY <1>4, <1>5, <1>9 DEF wraps, adds

\* To take numbers off one by one is to take off their sum.
LEMMA MinusSum ==
  ASSUME NEW n \in Nat, NEW g \in [1 .. n -> Int], NEW v \in Int
  PROVE  LET sum == Loop(0, [i \in 1 .. n |-> [s \in Int |-> s + g[i]]])
         IN Loop(v, [i \in 1 .. n |-> [s \in Int |-> s + (-g[i])]]) = v - sum /\ sum \in Int
<1> DEFINE offs == [i \in 1 .. n |-> [s \in Int |-> s + (-g[i])]]
           adds == [i \in 1 .. n |-> [s \in Int |-> s + g[i]]]
<1>2. offs \in [1 .. n -> [Int -> Int]] /\ adds \in [1 .. n -> [Int -> Int]] /\ 0 \in Int
  OBVIOUS
<1>3. /\ \A i \in 1 .. n : \A s \in Int : offs[i][s] = s + (-g[i])
      /\ \A i \in 1 .. n : \A s \in Int : adds[i][s] = s + g[i]
  OBVIOUS
<1> HIDE DEF offs, adds
<1>4. PICK f : Recurs(f, n, Int, v, offs) /\ Loop(v, offs) = f[n]
  BY <1>2, LoopDef, Zenon
<1>5. PICK h : Recurs(h, n, Int, 0, adds) /\ Loop(0, adds) = h[n]
  BY <1>2, LoopDef, Zenon
<1> DEFINE A == {i \in Nat : i \in 0 .. n => f[i] = v - h[i]}
<1>6. 0 \in A
  BY <1>4, <1>5 DEF Recurs
<1>7. ASSUME NEW i \in Nat, i \in A
      PROVE  i + 1 \in A
  <2> SUFFICES ASSUME i + 1 \in 0 .. n PROVE f[i + 1] = v - h[i + 1]
    OBVIOUS
  <2>1. i \in 0 .. n /\ i + 1 \in 1 .. n /\ (i + 1) - 1 = i
    OBVIOUS
  <2>2. f[i] \in Int /\ h[i] \in Int
    BY <1>4, <1>5, <2>1 DEF Recurs
  <2>3. f[i + 1] = offs[i + 1][f[i]] /\ h[i + 1] = adds[i + 1][h[i]]
    BY <1>4, <1>5, <2>1 DEF Recurs
  <2>4. f[i + 1] = f[i] + (-g[i + 1]) /\ h[i + 1] = h[i] + g[i + 1] /\ g[i + 1] \in Int
    BY <1>3, <2>1, <2>2, <2>3
  <2>5. f[i] = v - h[i]
    BY <1>7, <2>1
  <2> QED
    BY <2>2, <2>4, <2>5
<1> HIDE DEF A
<1>8. \A i \in Nat : i \in A
  BY <1>6, <1>7, NatSetInduction
<1>9. f[n] = v - h[n] /\ h[n] \in Int
  BY <1>5, <1>8 DEF A, Recurs
<1> QED
  BY <1>4, <1>5, <1>9 DEF offs, adds

LEMMA PlainType ==
  ASSUME NEW ops \in Seq(Fields), NEW row \in Rows
  PROVE  \E g \in [1 .. Len(ops) -> Int] :
           /\ \A i \in 1 .. Len(ops) : g[i] = row.f[ops[i]]
           /\ Plain(row, ops) = Loop(0, [i \in 1 .. Len(ops) |-> [s \in Int |-> s + g[i]]])
<1> DEFINE g == [i \in 1 .. Len(ops) |-> row.f[ops[i]]]
<1>1. \A i \in 1 .. Len(ops) : row.f[ops[i]] \in Int
  <2>1. \A i \in 1 .. Len(ops) : ops[i] \in Fields
    OBVIOUS
  <2> QED
    BY <2>1, FieldType, SmallInts
<1>2. [i \in DOMAIN ops |-> [s \in Int |-> s + row.f[ops[i]]]]
        = [i \in 1 .. Len(ops) |-> [s \in Int |-> s + g[i]]]
  OBVIOUS
<1>3. Plain(row, ops) = Loop(0, [i \in 1 .. Len(ops) |-> [s \in Int |-> s + g[i]]])
  BY <1>2 DEF Plain
<1>4. g \in [1 .. Len(ops) -> Int]
  BY <1>1
<1>5. \A i \in 1 .. Len(ops) : g[i] = row.f[ops[i]]
  OBVIOUS
<1> HIDE DEF g
<1> QED
  BY <1>3, <1>4, <1>5

\* What ADD and SUB write is the plain result, wrapped.
LEMMA AddIsPlain ==
  ASSUME NEW ops \in Seq(Fields), NEW row \in Rows
  PROVE  Add(ops, row) = Wrap(Plain(row, ops))
<1> DEFINE n == Len(ops)
<1>1. PICK g \in [1 .. n -> Int] :
        /\ \A i \in 1 .. n : g[i] = row.f[ops[i]]
        /\ Plain(row, ops) = Loop(0, [i \in 1 .. n |-> [s \in Int |-> s + g[i]]])
  BY PlainType, Zenon
<1>2. [i \in DOMAIN ops |-> [s \in Int32 |-> Wrap(s + row.f[ops[i]])]]
        = [i \in 1 .. n |-> [s \in Int32 |-> Wrap(s + g[i])]]
  BY <1>1
<1>3. Add(ops, row) = Loop(0, [i \in 1 .. n |-> [s \in Int32 |-> Wrap(s + g[i])]])
  BY <1>2 DEF Add
<1>4. n \in Nat /\ 0 \in Int32
  BY SmallInts
<1> HIDE DEF n
<1> QED
  BY <1>1, <1>3, <1>4, WrapsThrough, Zenon

LEMMA SubIsPlain ==
  ASSUME NEW v \in Int32, NEW ops \in Seq(Fields), NEW row \in Rows
  PROVE  Sub(v, ops, row) = Wrap(v - Plain(row, ops))
<1> DEFINE n == Len(ops)
<1>1. PICK g \in [1 .. n -> Int] :
        /\ \A i \in 1 .. n : g[i] = row.f[ops[i]]
        /\ Plain(row, ops) = Loop(0, [i \in 1 .. n |-> [s \in Int |-> s + g[i]]])
  BY PlainType, Zenon
<1> DEFINE h == [i \in 1 .. n |-> -g[i]]
<1>2. h \in [1 .. n -> Int] /\ \A i \in 1 .. n : h[i] = -g[i]
  BY SMT
<1>3. v \in Int /\ Int32 \subseteq Int
  BY SmallInts
<1>4. \A i \in 1 .. n : \A s \in Int32 : s - row.f[ops[i]] = s + h[i]
  BY <1>1, <1>2, <1>3
<1>5. Sub(v, ops, row) = Loop(v, [i \in 1 .. n |-> [s \in Int32 |-> Wrap(s + h[i])]])
  <2>1. [i \in DOMAIN ops |-> [s \in Int32 |-> Wrap(s - row.f[ops[i]])]]
          = [i \in 1 .. n |-> [s \in Int32 |-> Wrap(s + h[i])]]
    <3> HIDE DEF h
    <3>1. DOMAIN ops = 1 .. n
      OBVIOUS
    <3> QED
      BY <1>4, <3>1
  <2> QED
    BY <2>1 DEF Sub
<1>6. Loop(v, [i \in 1 .. n |-> [s \in Int |-> s + h[i]]])
        = Loop(v, [i \in 1 .. n |-> [s \in Int |-> s + (-g[i])]])
  <2>1. [i \in 1 .. n |-> [s \in Int |-> s + h[i]]]
          = [i \in 1 .. n |-> [s \in Int |-> s + (-g[i])]]
    OBVIOUS
  <2> QED
    BY <2>1
<1>7. n \in Nat
  OBVIOUS
<1> HIDE DEF n, h
<1>8. Sub(v, ops, row) = Wrap(Loop(v, [i \in 1 .. n |-> [s \in Int |-> s + h[i]]]))
  BY <1>2, <1>5, <1>7, WrapsThrough, Zenon
<1>9. Loop(v, [i \in 1 .. n |-> [s \in Int |-> s + (-g[i])]]) = v - Plain(row, ops)
  BY <1>1, <1>3, <1>7, MinusSum, Zenon
<1> QED
  BY <1>6, <1>8, <1>9

LEMMA ChangeIsWritten ==
  ASSUME NEW q \in QuerySet, NEW row \in Rows, OperandsFit(q), NoField \notin ToSet(q.ops)
  PROVE  Change(q, row) = [row EXCEPT !.f = [k \in DOMAIN @ |-> Written(q, row, k)]]
<1> DEFINE ops == q.ops
           new == [row EXCEPT !.f = [k \in DOMAIN @ |-> Written(q, row, k)]]
<1>1. ops \in Seq(Fields)
  BY OperandsAreFields
<1> HIDE DEF ops
<1>2. row = [key |-> row.key, f |-> row.f] /\ row.f \in [Fields -> Int32]
  BY DEF Rows
<1>3. new = [key |-> row.key, f |-> [k \in Fields |-> Written(q, row, k)]]
  BY <1>2
<1> HIDE DEF new
<1>4. CASE q.kind \in {"ADD", "SUB"}
  <2>1. Len(ops) >= 2
    BY <1>4 DEF OperandsFit, Gatherers, Extrema, ops
  <2>2. Front(ops) \in Seq(Fields) /\ Len(Front(ops)) = Len(ops) - 1
    BY <1>1, <2>1 DEF Front
  <2>3. Last(ops) \in Fields /\ Head(ops) \in Fields
    BY <1>1, <2>1 DEF Last
  <2>4. Tail(Front(ops)) \in Seq(Fields)
    BY <2>1, <2>2
  <2>5. CASE q.kind = "ADD"
    <3> DEFINE v == Add(Front(ops), row)
    <3>1. v = Wrap(Plain(row, Front(ops)))
      BY <2>2, AddIsPlain
    <3>2. Change(q, row) = [row EXCEPT !.f = [@ EXCEPT ![Last(ops)] = v]]
      BY <2>5 DEF Change, AddRow, ops
    <3>3. \A k \in Fields : Written(q, row, k) = IF k = Last(ops) THEN v ELSE row.f[k]
      BY <2>5, <3>1 DEF Written, ops
    <3> HIDE DEF v
    <3> QED
      BY <1>2, <1>3, <2>3, <3>2, <3>3
  <2>6. CASE q.kind = "SUB"
    <3> DEFINE v == Sub(row.f[Head(ops)], Tail(Front(ops)), row)
    <3>1. v = Wrap(row.f[Head(ops)] - Plain(row, Tail(Front(ops))))
      BY <2>3, <2>4, FieldType, SubIsPlain
    <3>2. Change(q, row) = [row EXCEPT !.f = [@ EXCEPT ![Last(ops)] = v]]
      BY <2>6 DEF Change, SubRow, ops
    <3>3. \A k \in Fields : Written(q, row, k) = IF k = Last(ops) THEN v ELSE row.f[k]
      BY <2>6, <3>1 DEF Written, ops
    <3> HIDE DEF v
    <3> QED
      BY <1>2, <1>3, <2>3, <3>2, <3>3
  <2> QED
    BY <1>4, <2>5, <2>6
<1>5. CASE q.kind = "SWAP"
  <2>1. Len(ops) = 2
    BY <1>5 DEF OperandsFit, Gatherers, Extrema, ops
  <2>2. ops[1] \in Fields /\ ops[2] \in Fields
    <3>1. 1 \in 1 .. Len(ops) /\ 2 \in 1 .. Len(ops)
      BY <2>1
    <3> QED
      BY <1>1, <3>1, ElementOfSeq
  <2>3. Change(q, row) = SwapRow(ops, row)
    BY <1>5 DEF Change, ops
  <2>4. \A k \in Fields : Written(q, row, k) =
          IF k = ops[1] THEN row.f[ops[2]] ELSE IF k = ops[2] THEN row.f[ops[1]] ELSE row.f[k]
    BY <1>5 DEF Written, ops
  <2> QED
    BY <1>2, <1>3, <2>2, <2>3, <2>4 DEF SwapRow
<1>6. CASE q.kind \notin {"ADD", "SUB", "SWAP"}
  <2>1. Change(q, row) = row
    BY <1>6 DEF Change
  <2>2. \A k \in Fields : Written(q, row, k) = row.f[k]
    BY <1>6 DEF Written
  <2> QED
    BY <1>2, <1>3, <2>1, <2>2
<1> QED
  BY <1>3, <1>4, <1>5, <1>6 DEF new
-------------------------------------------------------------------------------
(* WHERE clauses. *)

\* No condition compares a field with a number that is no int.
ValuesFit ==
  \A q \in QuerySet : \A i \in DOMAIN q.conds :
    ~OnKey(q.conds[i]) => q.conds[i].value \in Int32

LEMMA CondsOfQuery ==
  ASSUME NEW q \in QuerySet
  PROVE  /\ q.conds \in Seq(Conditions) /\ Len(q.conds) \in Nat
         /\ DOMAIN q.conds = 1 .. Len(q.conds)
<1>1. q.conds \in Seq(Conditions)
  BY DataAssumption
<1> QED
  BY <1>1

\* The rows the loops act on are those the clause means.
LEMMA MatchingIsMeant ==
  ASSUME ValuesFit, NEW q \in QuerySet, initCondition(q.conds) # "throws", NEW t
  PROVE  Matching(q, t) = Meant(q, t)
<1> DEFINE conds == q.conds
           Holds(c, row) == IF OnKey(c) THEN row.key = c.value
                            ELSE comp(c.op, row.f[c.field], c.value)
<1>1. Meant(q, t) = {i \in DOMAIN t : \A j \in DOMAIN conds : Holds(conds[j], t[i])}
  BY DEF Meant, ToSet
<1>2. \A j \in DOMAIN conds : ~OnKey(conds[j]) => valueParsed(conds[j]) = conds[j].value
  BY WrapFits DEF ValuesFit, valueParsed
<1>3. ASSUME NEW row
      PROVE  evalCondition(conds, row) <=> \A j \in DOMAIN conds : Holds(conds[j], row)
  BY <1>2 DEF evalCondition
<1>4. CASE result(q)
  BY <1>1, <1>3, <1>4 DEF Matching
<1>5. CASE ~result(q)
  <2>1. initCondition(conds) = "false"
    BY <1>5 DEF result, initCondition
  <2>2. \A row : ~evalCondition(conds, row)
    BY <2>1, FalseIsNever, CondsOfQuery
  <2>3. Meant(q, t) = {}
    BY <1>1, <1>3, <2>2
  <2> QED
    BY <1>5, <2>3 DEF Matching
<1> QED
  BY <1>4, <1>5

\* The first condition of a set of them.
LEMMA FirstOf ==
  ASSUME NEW D \in SUBSET Nat, D # {}
  PROVE  \E i \in D : \A j \in D : i <= j
<1> DEFINE v == [i \in D |-> i]
<1>1. v \in [D -> Nat] /\ \A i \in D : v[i] = i
  OBVIOUS
<1> HIDE DEF v
<1>2. PICK i \in D : \A j \in D : v[i] <= v[j]
  BY <1>1, LeastElement, Zenon
<1> QED
  BY <1>1, <1>2

\* Where no condition contradicts the first one on the key, all agree.
LEMMA KeysAgree ==
  ASSUME NEW q \in QuerySet, NEW i \in DOMAIN q.conds
  PROVE  (\A j \in 1 .. i - 1 : ~Contradicts(q.conds, j))
           <=> \A j, k \in 1 .. i - 1 : OnKey(q.conds[j]) /\ OnKey(q.conds[k])
                                          => q.conds[j].value = q.conds[k].value
<1> DEFINE conds == q.conds
           D == {j \in 1 .. i - 1 : OnKey(conds[j])}
<1>0. i \in Nat
  BY CondsOfQuery
<1>1. ASSUME \A j \in 1 .. i - 1 : ~Contradicts(conds, j), NEW j \in D, NEW k \in D
      PROVE  conds[j].value = conds[k].value
  <2>1. D \in SUBSET Nat /\ D # {}
    BY <1>0
  <2>2. PICK m \in D : \A x \in D : m <= x
    BY <2>1, FirstOf, Zenon
  <2>3. \A x \in 1 .. m - 1 : ~OnKey(conds[x])
    <3>1. \A x \in 1 .. m - 1 : x \in 1 .. i - 1 /\ ~(m <= x)
      BY <1>0
    <3> QED
      BY <2>2, <3>1
  <2>4. ASSUME NEW x \in D PROVE conds[x].value = conds[m].value
    <3>1. CASE x = m
      BY <3>1
    <3>2. CASE x # m
      <4>1. m \in 1 .. x - 1 /\ x \in 1 .. i - 1 /\ OnKey(conds[x]) /\ OnKey(conds[m])
        BY <1>0, <2>2, <3>2
      <4>2. ~Contradicts(conds, x)
        BY <1>1, <4>1
      <4> QED
        BY <2>3, <4>1, <4>2 DEF Contradicts
    <3> QED
      BY <3>1, <3>2
  <2> QED
    BY <2>4
<1>2. ASSUME \A j, k \in D : conds[j].value = conds[k].value, NEW j \in 1 .. i - 1
      PROVE  ~Contradicts(conds, j)
  <2> SUFFICES ASSUME Contradicts(conds, j) PROVE FALSE
    OBVIOUS
  <2>1. PICK k \in 1 .. j - 1 : OnKey(conds[k]) /\ conds[k].value # conds[j].value
    BY DEF Contradicts
  <2>2. OnKey(conds[j]) /\ k \in 1 .. i - 1
    BY <1>0 DEF Contradicts
  <2> QED
    BY <1>2, <2>1, <2>2
<1> QED
  BY <1>1, <1>2

LEMMA WhereFailsIsThrown ==
  ASSUME NEW q \in QuerySet
  PROVE  WhereFails(q) <=> initCondition(q.conds) = "throws"
BY KeysAgree DEF WhereFails, initCondition
-------------------------------------------------------------------------------
(* What a query promises. *)

\* A query that is refused is in error, and one that met no field that is not
\* there is not.
LEMMA PromiseOfRefused ==
  ASSUME NEW q \in QuerySet, Refused(q), NEW t
  PROVE  Promise(q, t) = <<"error">>
<1>1. WhereFails(q) <=> initCondition(q.conds) = "throws"
  BY WhereFailsIsThrown
<1>2. CASE ~OperandsFit(q) \/ WhereFails(q)
  BY <1>2 DEF Promise
<1>3. CASE OperandsFit(q) /\ ~WhereFails(q)
  <2>1. q.kind = "SWAP" /\ NoField \in ToSet(q.ops)
    BY <1>1, <1>3 DEF Refused
  <2> QED
    BY <1>3, <2>1 DEF Promise
<1> QED
  BY <1>2, <1>3

LEMMA PromiseOfNoField ==
  ASSUME NEW q \in QuerySet, NEW t, Meant(q, t) # {}, NoField \in ToSet(q.ops)
  PROVE  Promise(q, t) = <<"error">>
BY DEF Promise

LEMMA PromiseOfValue ==
  ASSUME NEW q \in QuerySet, ~Refused(q), NEW t, Meant(q, t) = {} \/ NoField \notin ToSet(q.ops)
  PROVE  Promise(q, t) = Value(q, t, Meant(q, t))
<1>1. OperandsFit(q) /\ ~WhereFails(q) /\ ~(q.kind = "SWAP" /\ NoField \in ToSet(q.ops))
  BY WhereFailsIsThrown DEF Refused
<1> QED
  BY <1>1 DEF Promise

\* A row is its key and its fields.
LEMMA RowsAreRecords ==
  ASSUME NEW row \in Rows
  PROVE  [row EXCEPT !.f = [k \in DOMAIN @ |-> @[k]]] = row
BY DEF Rows

\* The rows of a table after a query that is not in error.
LEMMA RowsAfter ==
  ASSUME NEW q \in QuerySet, ~Refused(q), NEW t \in Seq(Rows),
         Meant(q, t) = {} \/ NoField \notin ToSet(q.ops)
  PROVE  [i \in DOMAIN t |->
            [t[i] EXCEPT !.f = [k \in DOMAIN @ |->
               IF i \in Meant(q, t) THEN Written(q, t[i], k) ELSE @[k]]]]
         = [i \in DOMAIN t |-> IF i \in Meant(q, t) THEN Change(q, t[i]) ELSE t[i]]
<1> DEFINE M == Meant(q, t)
           New(i) == [t[i] EXCEPT !.f = [k \in DOMAIN @ |->
                        IF i \in M THEN Written(q, t[i], k) ELSE @[k]]]
<1>1. \A i \in DOMAIN t : t[i] \in Rows
  OBVIOUS
<1> SUFFICES ASSUME NEW i \in DOMAIN t
             PROVE  New(i) = IF i \in M THEN Change(q, t[i]) ELSE t[i]
  OBVIOUS
<1>2. CASE i \in M
  <2>1. OperandsFit(q) /\ NoField \notin ToSet(q.ops)
    BY <1>2 DEF Refused
  <2>2. Change(q, t[i]) = [t[i] EXCEPT !.f = [k \in DOMAIN @ |-> Written(q, t[i], k)]]
    BY <1>1, <2>1, ChangeIsWritten
  <2>3. New(i) = [t[i] EXCEPT !.f = [k \in DOMAIN @ |-> Written(q, t[i], k)]]
    BY <1>2
  <2> QED
    BY <1>2, <2>2, <2>3
<1>3. CASE i \notin M
  <2>1. New(i) = [t[i] EXCEPT !.f = [k \in DOMAIN @ |-> @[k]]]
    BY <1>3
  <2> QED
    BY <1>1, <1>3, <2>1, RowsAreRecords
<1> QED
  BY <1>2, <1>3

\* A query that only reads promises the table as it is.
LEMMA ReadersAfter ==
  ASSUME NEW q \in QuerySet, NEW t \in Seq(Rows),
         q.kind \notin {"ADD", "SUB", "SWAP", "DUPLICATE"} \/ Promise(q, t) = <<"error">>
  PROVE  TableAfter(q, t) = t
<1>1. CASE Promise(q, t) = <<"error">>
  BY <1>1 DEF TableAfter
<1>2. CASE Promise(q, t) # <<"error">>
  <2> DEFINE M == Meant(q, t)
             new == [i \in DOMAIN t |-> [t[i] EXCEPT !.f = [k \in DOMAIN @ |->
                       IF i \in M THEN Written(q, t[i], k) ELSE @[k]]]]
             none == [i \in DOMAIN <<>> |-> [<<>>[i] EXCEPT !.key = @ + 1]]
  <2>1. \A row, k : Written(q, row, k) = row.f[k]
    BY <1>2 DEF Written
  <2>2. \A i \in DOMAIN t : t[i] \in Rows
    OBVIOUS
  <2>3. ASSUME NEW i \in DOMAIN t PROVE new[i] = t[i]
    <3>1. new[i] = [t[i] EXCEPT !.f = [k \in DOMAIN @ |-> @[k]]]
      BY <2>1
    <3> QED
      BY <2>2, <3>1, RowsAreRecords
  <2>4. new = t
    <3>1. new = [i \in DOMAIN t |-> new[i]]
      OBVIOUS
    <3> HIDE DEF new
    <3> QED
      BY <2>3, <3>1
  <2>5. TableAfter(q, t) = new \o none
    BY <1>2 DEF TableAfter
  <2>6. none = <<>>
    OBVIOUS
  <2> HIDE DEF new, none
  <2> QED
    BY <2>4, <2>5, <2>6
<1> QED
  BY <1>1, <1>2

\* ADD, SUB and SWAP change the rows the clause means.
LEMMA WritersAfter ==
  ASSUME NEW q \in QuerySet, ~Refused(q), NEW t \in Seq(Rows), q.kind \in {"ADD", "SUB", "SWAP"},
         Meant(q, t) = {} \/ NoField \notin ToSet(q.ops)
  PROVE  TableAfter(q, t) = [i \in DOMAIN t |-> IF i \in Meant(q, t) THEN Change(q, t[i]) ELSE t[i]]
<1> DEFINE M == Meant(q, t)
           new == [i \in DOMAIN t |-> [t[i] EXCEPT !.f = [k \in DOMAIN @ |->
                     IF i \in M THEN Written(q, t[i], k) ELSE @[k]]]]
           none == [i \in DOMAIN <<>> |-> [<<>>[i] EXCEPT !.key = @ + 1]]
           changed == [i \in DOMAIN t |-> IF i \in M THEN Change(q, t[i]) ELSE t[i]]
<1>1. new = changed
  BY RowsAfter
<1>2. Promise(q, t) # <<"error">>
  <2>1. Promise(q, t) = Value(q, t, M)
    BY PromiseOfValue
  <2>2. Value(q, t, M) = <<"count", Cardinality(M)>>
    BY DEF Value, Counters, Extrema
  <2> QED
    BY <2>1, <2>2
<1>3. TableAfter(q, t) = new \o none
  BY <1>2 DEF TableAfter
<1>4. none = <<>>
  OBVIOUS
<1>5. changed \in Seq(Rows)
  <2>1. \A i \in DOMAIN t : changed[i] \in Rows
    <3>1. \A i \in DOMAIN t : t[i] \in Rows
      OBVIOUS
    <3>2. ASSUME NEW i \in M PROVE Change(q, t[i]) \in Rows
      <4>1. OperandsFit(q) /\ NoField \notin ToSet(q.ops) /\ i \in DOMAIN t
        BY DEF Refused, Meant
      <4> QED
        BY <3>1, <4>1, ChangeType
    <3> QED
      BY <3>1, <3>2
  <2>2. changed = [i \in DOMAIN t |-> changed[i]]
    OBVIOUS
  <2>3. DOMAIN t = 1 .. Len(t) /\ Len(t) \in Nat
    OBVIOUS
  <2> HIDE DEF changed
  <2>4. changed \in [1 .. Len(t) -> Rows]
    BY <2>1, <2>2, <2>3
  <2> QED
    BY <2>3, <2>4
<1> HIDE DEF new, none, changed
<1>6. changed \o <<>> = changed
  BY <1>5
<1> QED
  BY <1>1, <1>3, <1>4, <1>6 DEF changed
-------------------------------------------------------------------------------
(* The rows DUPLICATE copies. *)

LEMMA FreshZero ==
  ASSUME NEW q, NEW t
  PROVE  Fresh(q, t, 0) = <<>>
<1> DEFINE turns == [i \in 1 .. 0 |-> [rows \in Seq(Rows) |->
                       IF i \in Copied(q, t) THEN Append(rows, t[i]) ELSE rows]]
<1>1. turns \in [1 .. 0 -> [Seq(Rows) -> Seq(Rows)]] /\ <<>> \in Seq(Rows)
  OBVIOUS
<1>2. Fresh(q, t, 0) = Loop(<<>>, turns)
  BY DEF Fresh
<1> HIDE DEF turns
<1> QED
  BY <1>1, <1>2, LoopZero, Zenon

LEMMA FreshStep ==
  ASSUME NEW q, NEW t \in Seq(Rows), NEW n \in Nat, n + 1 <= Len(t)
  PROVE  /\ Fresh(q, t, n) \in Seq(Rows)
         /\ Fresh(q, t, n + 1) = IF n + 1 \in Copied(q, t) THEN Append(Fresh(q, t, n), t[n + 1])
                                 ELSE Fresh(q, t, n)
<1> DEFINE S == Seq(Rows)
           Turn(i) == [rows \in S |-> IF i \in Copied(q, t) THEN Append(rows, t[i]) ELSE rows]
           turns == [i \in 1 .. n + 1 |-> Turn(i)]
           others == [i \in 1 .. n |-> Turn(i)]
<1>1. \A i \in 1 .. n + 1 : t[i] \in Rows
  <2>1. \A i \in 1 .. n + 1 : i \in 1 .. Len(t)
    OBVIOUS
  <2> QED
    BY <2>1, ElementOfSeq
<1>2. \A i \in 1 .. n + 1 : Turn(i) \in [S -> S]
  BY <1>1
<1>3. <<>> \in S
  OBVIOUS
<1>4. Fresh(q, t, n + 1) = Loop(<<>>, turns) /\ Fresh(q, t, n) = Loop(<<>>, others)
  BY DEF Fresh
<1>5. \A rows \in S : Turn(n + 1)[rows] = IF n + 1 \in Copied(q, t) THEN Append(rows, t[n + 1])
                                          ELSE rows
  OBVIOUS
<1> HIDE DEF S, Turn
<1>6. turns \in [1 .. n + 1 -> [S -> S]] /\ others \in [1 .. n -> [S -> S]]
  <2>1. \A i \in 1 .. n : i \in 1 .. n + 1
    OBVIOUS
  <2> QED
    BY <1>2, <2>1
<1>7. (\A i \in 1 .. n : others[i] = turns[i]) /\ turns[n + 1] = Turn(n + 1)
  OBVIOUS
<1> HIDE DEF turns, others
<1>8. Loop(<<>>, others) \in S
  BY <1>3, <1>6, LoopType, Zenon
<1> DEFINE none == <<>>
<1>9. none \in S /\ n \in Nat
  BY <1>3
<1> HIDE DEF none
<1>10. \A o \in [1 .. n -> [S -> S]] :
         (\A i \in 1 .. n : o[i] = turns[i]) => Loop(none, turns) = turns[n + 1][Loop(none, o)]
  <2>1. turns \in [1 .. n + 1 -> [S -> S]]
    BY <1>6
  <2> QED
    BY ONLY <1>9, <2>1, LoopStep
<1>11. Loop(none, turns) = turns[n + 1][Loop(none, others)]
  BY <1>6, <1>7, <1>10
<1> QED
  BY <1>4, <1>5, <1>7, <1>8, <1>11 DEF S, none

\* They are rows of the table in its order, so their keys differ.
LEMMA FreshRows ==
  ASSUME NEW q, NEW t \in Seq(Rows), NEW n \in 0 .. Len(t)
  PROVE  /\ Fresh(q, t, n) \in Seq(Rows)
         /\ \A i \in DOMAIN Fresh(q, t, n) :
              \E j \in Copied(q, t) : j <= n /\ Fresh(q, t, n)[i] = t[j]
         /\ KeysDiffer(t) => KeysDiffer(Fresh(q, t, n))
<1> DEFINE F(m) == Fresh(q, t, m)
           Good(m) == /\ F(m) \in Seq(Rows)
                      /\ \A i \in DOMAIN F(m) : \E j \in Copied(q, t) : j <= m /\ F(m)[i] = t[j]
                      /\ KeysDiffer(t) => KeysDiffer(F(m))
           A == {m \in Nat : m <= Len(t) => Good(m)}
<1>0. Len(t) \in Nat
  OBVIOUS
<1>1. 0 \in A
  <2>1. F(0) = <<>>
    BY FreshZero
  <2> HIDE DEF F
  <2>2. <<>> \in Seq(Rows) /\ DOMAIN <<>> = {}
    OBVIOUS
  <2>3. F(0) \in Seq(Rows) /\ DOMAIN F(0) = {}
    BY <2>1, <2>2
  <2> QED
    BY <2>3 DEF KeysDiffer
<1>2. ASSUME NEW m \in Nat, m \in A
      PROVE  m + 1 \in A
  <2> SUFFICES ASSUME m + 1 <= Len(t) PROVE Good(m + 1)
    OBVIOUS
  <2>1. Good(m)
    BY <1>0, <1>2
  <2>2. F(m + 1) = IF m + 1 \in Copied(q, t) THEN Append(F(m), t[m + 1]) ELSE F(m)
    BY FreshStep
  <2>3. Copied(q, t) \subseteq DOMAIN t /\ DOMAIN t = 1 .. Len(t) /\ Copied(q, t) \subseteq Nat
    BY DEF Copied, Meant
  <2> HIDE DEF F
  <2>4. CASE m + 1 \notin Copied(q, t)
    <3>1. F(m + 1) = F(m)
      BY <2>2, <2>4
    <3>2. \A j \in Copied(q, t) : j <= m => j <= m + 1
      BY <2>3
    <3> QED
      BY <2>1, <3>1, <3>2
  <2>5. CASE m + 1 \in Copied(q, t)
    <3> DEFINE s == F(m)
               e == t[m + 1]
               u == Append(s, e)
    <3>1. F(m + 1) = u
      BY <2>2, <2>5
    <3>2. s \in Seq(Rows) /\ e \in Rows
      <4>1. m + 1 \in 1 .. Len(t)
        BY <1>0
      <4> QED
        BY <2>1, <4>1, ElementOfSeq
    <3> HIDE DEF s, e
    <3>3. /\ u \in Seq(Rows) /\ DOMAIN u = 1 .. Len(s) + 1 /\ u[Len(s) + 1] = e
          /\ DOMAIN s = 1 .. Len(s) /\ Len(s) \in Nat
          /\ \A i \in DOMAIN s : u[i] = s[i]
      BY <3>2
    <3>4. \A i \in DOMAIN u : i \in DOMAIN s \/ i = Len(s) + 1
      BY <3>3
    <3>5. \A i \in DOMAIN s : \E j \in Copied(q, t) : j <= m /\ s[i] = t[j]
      BY <2>1 DEF s
    <3>6. \A i \in DOMAIN u : \E j \in Copied(q, t) : j <= m + 1 /\ u[i] = t[j]
      <4> SUFFICES ASSUME NEW i \in DOMAIN u
                   PROVE  \E j \in Copied(q, t) : j <= m + 1 /\ u[i] = t[j]
        OBVIOUS
      <4>1. CASE i \in DOMAIN s
        <5>1. PICK j \in Copied(q, t) : j <= m /\ s[i] = t[j]
          BY <3>5, <4>1
        <5>2. j <= m + 1 /\ u[i] = t[j]
          BY <2>3, <3>3, <4>1, <5>1
        <5> QED
          BY <5>2
      <4>2. CASE i = Len(s) + 1
        <5>1. u[i] = t[m + 1] /\ m + 1 <= m + 1
          BY <3>3, <4>2 DEF e
        <5> QED
          BY <2>5, <5>1
      <4> QED
        BY <3>4, <4>1, <4>2
    <3>7. ASSUME KeysDiffer(t) PROVE KeysDiffer(u)
      <4>1. \A i \in DOMAIN s : s[i].key # e.key
        <5> SUFFICES ASSUME NEW i \in DOMAIN s PROVE s[i].key # e.key
          OBVIOUS
        <5>1. PICK j \in Copied(q, t) : j <= m /\ s[i] = t[j]
          BY <3>5
        <5>2. j # m + 1 /\ j \in DOMAIN t /\ m + 1 \in DOMAIN t
          BY <2>3, <2>5, <5>1
        <5> QED
          BY <3>7, <5>1, <5>2 DEF KeysDiffer, e
      <4>2. \A i, j \in DOMAIN s : s[i].key = s[j].key => i = j
        BY <2>1, <3>7 DEF s, KeysDiffer
      <4> SUFFICES ASSUME NEW i \in DOMAIN u, NEW j \in DOMAIN u, u[i].key = u[j].key
                   PROVE  i = j
        BY DEF KeysDiffer
      <4>3. CASE i \in DOMAIN s /\ j \in DOMAIN s
        BY <3>3, <4>2, <4>3
      <4>4. CASE i \in DOMAIN s /\ j = Len(s) + 1
        BY <3>3, <4>1, <4>4
      <4>5. CASE i = Len(s) + 1 /\ j \in DOMAIN s
        BY <3>3, <4>1, <4>5
      <4> QED
        BY <3>4, <4>3, <4>4, <4>5
    <3> HIDE DEF u
    <3> QED
      BY <3>1, <3>3, <3>6, <3>7
  <2> QED
    BY <2>4, <2>5
<1> HIDE DEF A
<1>3. \A m \in Nat : m \in A
  BY <1>1, <1>2, NatSetInduction
<1>4. Good(n)
  <2>1. n \in Nat /\ n <= Len(t)
    BY <1>0
  <2>2. n \in A
    BY <1>3, <2>1
  <2> QED
    BY <2>1, <2>2 DEF A
<1> QED
  BY <1>4
-------------------------------------------------------------------------------
(* The rows, turn by turn. *)

\* What is done to a row leaves it a row with its key.
LEMMA TurnKeepsKey ==
  ASSUME DataInv, phase # "repl", Matching(query, before) # {} => ~LooksUpNoField,
         NEW row \in Rows, Matching(query, before) # {}
  PROVE  Change(query, row) \in Rows /\ Change(query, row).key = row.key
<1>1. query \in QuerySet /\ OperandsFit(query)
  BY QueryTyped
<1>2. CASE query.kind = "SELECT"
  BY <1>2 DEF Change
<1>3. CASE query.kind # "SELECT"
  <2>1. NoField \notin ToSet(query.ops)
    BY <1>3 DEF LooksUpNoField
  <2> QED
    BY <1>1, <2>1, ChangeType
<1> QED
  BY <1>2, <1>3

LEMMA HalfwayKeys ==
  ASSUME DataInv, before \in Seq(Rows), KeysDiffer(before), phase # "repl",
         NEW S, S \cap Matching(query, before) # {} => ~LooksUpNoField
  PROVE  /\ DOMAIN Halfway(S) = DOMAIN before /\ KeysDiffer(Halfway(S))
         /\ \A i \in DOMAIN before : Halfway(S)[i] \in Rows /\ Halfway(S)[i].key = before[i].key
<1>1. ASSUME NEW i \in DOMAIN before
      PROVE  Halfway(S)[i] \in Rows /\ Halfway(S)[i].key = before[i].key
  <2>1. before[i] \in Rows
    OBVIOUS
  <2>2. CASE i \in S \cap Matching(query, before)
    <3>1. Halfway(S)[i] = Change(query, before[i])
      BY <2>2 DEF Halfway
    <3> QED
      BY <2>1, <2>2, <3>1, TurnKeepsKey
  <2>3. CASE i \notin S \cap Matching(query, before)
    <3>1. Halfway(S)[i] = before[i]
      BY <2>3 DEF Halfway
    <3> QED
      BY <2>1, <3>1
  <2> QED
    BY <2>2, <2>3
<1>2. DOMAIN Halfway(S) = DOMAIN before
  BY DEF Halfway
<1>3. KeysDiffer(Halfway(S))
  BY <1>1, <1>2 DEF KeysDiffer
<1> QED
  BY <1>1, <1>2, <1>3

\* Where there is no task none has stopped.
LEMMA NoneStopped ==
  ASSUME TasksInv, phase # "wait"
  PROVE  StopInv
BY DEF TasksInv, StopInv

\* While a query is in execution the table has the rows it had, in their places.
LEMMA SameRows ==
  ASSUME DataInv, TurnsInv, phase # "repl"
  PROVE  DOMAIN table = DOMAIN before /\ Len(table) = Len(before) /\ DOMAIN before = 1 .. size
<1>1. table \in Seq(Rows) /\ before \in Seq(Rows)
  BY QueryTyped DEF TurnsInv
<1>2. DOMAIN table = DOMAIN before
  BY DEF TurnsInv, Halfway, DataInv, QueryInv
<1>3. Len(table) = Len(before)
  BY <1>1, <1>2, SameSize
<1> QED
  BY <1>1, <1>2, <1>3 DEF size

LEMMA TurnsAtFirst == Init => TurnsInv
<1> SUFFICES ASSUME Init PROVE TurnsInv
  OBVIOUS
<1>1. before = table /\ before \in Seq(Rows) /\ KeysDiffer(before)
  BY DataAssumption DEF Init
<1>2. StopInv
  BY DEF Init, NoRows, StopInv
<1> QED
  BY <1>1, <1>2 DEF Init, TurnsInv

LEMMA TurnsBegin ==
  ASSUME DataInv, TurnsInv, NEW q \in QuerySet, Refuse(q) \/ Begin(q)
  PROVE  TurnsInv'
<1>1. /\ phase = "repl" /\ before' = table /\ table' = table /\ phase' \in {"repl", "begun"}
      /\ pos' = pos
  BY DEF Refuse, Begin, Comes, tasks
<1>2. DOMAIN pos = {}
  BY <1>1 DEF DataInv, TasksInv
<1>3. table \in Seq(Rows)
  BY DEF DataInv, RowsInv
<1>4. StopInv'
  BY <1>1, <1>2 DEF StopInv
<1> QED
  BY <1>1, <1>3, <1>4 DEF TurnsInv

\* The sequential branch gives every row its turn.
LEMMA TurnsSequential ==
  ASSUME DataInv, TurnsInv, Sequential
  PROVE  TurnsInv'
<1> DEFINE M == Matching(query, table)
<1>1. /\ phase = "begun" /\ phase' = "answer" /\ query' = query /\ before' = before
      /\ pos' = pos /\ (M # {} => ~LooksUpNoField) /\ ScanRows(M)
  BY DEF Sequential, tasks
<1>2. table = before /\ before \in Seq(Rows) /\ KeysDiffer(before)
  BY <1>1 DEF TurnsInv
<1>3. table' = Halfway(DOMAIN before)
  BY <1>1, <1>2 DEF ScanRows, Halfway
<1>4. KeysDiffer(Halfway(DOMAIN before))
  BY <1>1, <1>2, HalfwayKeys
<1>5. StopInv'
  BY <1>1 DEF DataInv, TasksInv, StopInv
<1>6. Halfway(DOMAIN before)' = Halfway(DOMAIN before)
  BY <1>1 DEF Halfway
<1>7. (Matching(query, before) # {} => ~LooksUpNoField)'
  BY <1>1, <1>2 DEF LooksUpNoField
<1>8. KeysDiffer(table')
  BY <1>3, <1>4
<1> QED
  BY <1>1, <1>2, <1>3, <1>5, <1>6, <1>7, <1>8 DEF TurnsInv

LEMMA TurnsFork ==
  ASSUME DataInv, TurnsInv, Fork
  PROVE  TurnsInv'
<1>1. /\ phase = "begun" /\ phase' = "wait" /\ query' = query /\ before' = before
      /\ table' = table /\ returned' = {} /\ pos' = [id \in Ids(size) |-> head(size, id)]
      /\ size' = size
  BY DEF Fork, size
<1>2. table = before /\ table \in Seq(Rows) /\ size \in Nat /\ size >= Split
  BY <1>1, QueryTyped DEF TurnsInv, Fork
<1>3. Passed' = {}
  <2> SUFFICES ASSUME NEW i \in DOMAIN before, NEW id \in Ids(size), head(size, id) < i,
                      i <= head(size, id)
               PROVE  FALSE
    BY <1>1 DEF Passed
  <2>1. i \in Nat /\ head(size, id) \in Nat
    BY <1>2, PartType
  <2> QED
    BY <2>1
<1>4. Halfway({})' = before
  <2>1. Halfway({})' = [i \in DOMAIN before |-> before[i]]
    BY <1>1 DEF Halfway
  <2> QED
    BY <1>2, <2>1
<1>5. table' = Halfway(Passed)'
  <2>1. Halfway(Passed)' = Halfway({})'
    BY <1>3 DEF Halfway
  <2> QED
    BY <1>1, <1>2, <1>4, <2>1
<1>6. StopInv'
  BY <1>1, <1>3 DEF StopInv, Threw
<1> QED
  BY <1>1, <1>5, <1>6 DEF TurnsInv

\* The row a task looks at next has not had its turn, in this task or another.
LEMMA NextRow ==
  ASSUME DataInv, TurnsInv, NEW id \in DOMAIN pos, pos[id] < tail(size, id)
  PROVE  /\ pos[id] + 1 \in DOMAIN before /\ pos[id] + 1 \notin Passed
         /\ table[pos[id] + 1] = before[pos[id] + 1]
<1> DEFINE i == pos[id] + 1
<1>1. /\ phase = "wait" /\ size >= Split /\ DOMAIN pos = Ids(size) /\ size \in Nat
      /\ DOMAIN before = 1 .. size
  BY TaskTyped, QueryTyped, SameRows DEF DataInv, TasksInv
<1>2. \A k \in DOMAIN pos : /\ pos[k] \in head(size, k) .. tail(size, k)
                           /\ head(size, k) \in Nat /\ tail(size, k) \in Nat
                           /\ tail(size, k) <= size
  BY <1>1, TaskTyped, PartType
<1>3. i \in DOMAIN before
  BY <1>1, <1>2
<1>4. i \notin Passed
  <2> SUFFICES ASSUME i \in Passed PROVE FALSE
    OBVIOUS
  <2>1. PICK k \in DOMAIN pos : head(size, k) < i /\ i <= pos[k]
    BY DEF Passed
  <2>2. pos[id] \in SubTable(size, id) /\ pos[id] \in SubTable(size, k)
    BY <1>2, <2>1 DEF SubTable
  <2>3. k # id
    BY <1>2, <2>1
  <2> QED
    BY <1>1, <2>2, <2>3, SubTablesApart
<1>5. table[i] = before[i]
  <2>1. table = Halfway(Passed)
    BY <1>1 DEF TurnsInv
  <2> QED
    BY <1>3, <1>4, <2>1 DEF Halfway
<1> QED
  BY <1>3, <1>4, <1>5

\* One turn more.
LEMMA PassedMore ==
  ASSUME DataInv, TurnsInv, NEW id \in DOMAIN pos, ScanRow(id), size' = size
  PROVE  Passed' = Passed \cup {pos[id] + 1}
<1> DEFINE i == pos[id] + 1
<1>1. /\ phase = "wait" /\ size >= Split /\ DOMAIN pos = Ids(size) /\ size \in Nat
      /\ DOMAIN before = 1 .. size
  BY TaskTyped, QueryTyped, SameRows DEF DataInv, TasksInv
<1>2. \A k \in DOMAIN pos : /\ pos[k] \in head(size, k) .. tail(size, k)
                           /\ head(size, k) \in Nat /\ tail(size, k) \in Nat
  BY <1>1, TaskTyped, PartType
<1>3. /\ before' = before /\ DOMAIN pos' = DOMAIN pos /\ pos[id] < tail(size, id)
      /\ \A k \in DOMAIN pos : pos'[k] = IF k = id THEN pos[k] + 1 ELSE pos[k]
  BY DEF ScanRow, main
<1>4. i \in DOMAIN before
  BY <1>3, NextRow
<1>5. ASSUME NEW j \in DOMAIN before
      PROVE  (\E k \in DOMAIN pos : head(size, k) < j /\ j <= pos'[k])
               <=> (\E k \in DOMAIN pos : head(size, k) < j /\ j <= pos[k]) \/ j = i
  <2>1. j \in Nat
    BY <1>1
  <2>2. ASSUME NEW k \in DOMAIN pos, head(size, k) < j, j <= pos'[k]
        PROVE  (head(size, k) < j /\ j <= pos[k]) \/ j = i
    <3>1. CASE k = id
      <4>1. pos[id] \in Nat /\ j <= pos[id] + 1
        BY <1>2, <1>3, <2>2, <3>1
      <4> QED
        BY <2>1, <2>2, <3>1, <4>1
    <3>2. CASE k # id
      BY <1>3, <2>2, <3>2
    <3> QED
      BY <3>1, <3>2
  <2>3. ASSUME NEW k \in DOMAIN pos, head(size, k) < j, j <= pos[k]
        PROVE  j <= pos'[k]
    <3>1. pos[k] \in Nat
      BY <1>2
    <3> QED
      BY <1>3, <2>1, <2>3, <3>1
  <2>4. j = i => head(size, id) < j /\ j <= pos'[id]
    BY <1>2, <1>3
  <2> QED
    BY <2>2, <2>3, <2>4
<1>6. Passed' = {j \in DOMAIN before : \E k \in DOMAIN pos : head(size, k) < j /\ j <= pos'[k]}
  BY <1>3 DEF Passed
<1> QED
  BY <1>4, <1>5, <1>6 DEF Passed

LEMMA TurnsScanRow ==
  ASSUME DataInv, TurnsInv, NEW id \in DOMAIN pos, ScanRow(id)
  PROVE  TurnsInv' /\ size' = size
<1> DEFINE i == pos[id] + 1
           M == {i} \cap Matching(query, table)
           N == Matching(query, before)
<1>1. /\ ScanRows(M) /\ pos[id] < tail(size, id) /\ query' = query /\ phase' = phase
      /\ before' = before /\ returned' = returned /\ pos' = [pos EXCEPT ![id] = @ + 1]
      /\ id \notin returned /\ (M # {} => ~LooksUpNoField)
  BY DEF ScanRow, main
<1>2. /\ phase = "wait" /\ table \in Seq(Rows) /\ table = Halfway(Passed)
      /\ before \in Seq(Rows) /\ KeysDiffer(before)
  BY TaskTyped, QueryTyped DEF TurnsInv
<1>3. i \in DOMAIN before /\ i \notin Passed /\ table[i] = before[i] /\ DOMAIN table = DOMAIN before
  BY <1>1, <1>2, NextRow, SameRows
<1>4. M = {i} \cap N
  BY <1>3 DEF Matching
<1>5. \A j \in DOMAIN before :
        table[j] = IF j \in Passed \cap N THEN Change(query, before[j]) ELSE before[j]
  BY <1>2 DEF Halfway
<1>6. table' = [j \in DOMAIN table |-> IF j \in M THEN Change(query, table[j]) ELSE table[j]]
  BY <1>1 DEF ScanRows
<1> HIDE DEF M, N
<1>7. table' = [j \in DOMAIN before |-> IF j \in (Passed \cup {i}) \cap N
                                        THEN Change(query, before[j]) ELSE before[j]]
  BY <1>3, <1>4, <1>5, <1>6
<1>8. table' = Halfway(Passed \cup {i})
  BY <1>7 DEF Halfway, N
<1>9. /\ KeysDiffer(table') /\ DOMAIN table' = DOMAIN table
      /\ \A j \in DOMAIN before : table'[j] \in Rows
  <2>1. (Passed \cup {i}) \cap Matching(query, before) # {} => ~LooksUpNoField
    BY <1>1, <1>2, <1>4 DEF TurnsInv, StopInv, N
  <2> QED
    BY <1>2, <1>3, <1>8, <2>1, HalfwayKeys
<1>10. size' = size
  <2>1. DOMAIN table = 1 .. size /\ size \in Nat
    BY <1>2, QueryTyped
  <2>2. table' \in Seq(Rows)
    <3>1. table' = [j \in 1 .. size |-> table'[j]]
      BY <1>3, <1>7, <2>1
    <3>2. table' \in [1 .. size -> Rows]
      BY <1>3, <1>9, <2>1, <3>1
    <3> QED
      BY <2>1, <3>2
  <2> QED
    BY <1>2, <1>9, <2>2, SameSize DEF size
<1>11. table' = Halfway(Passed)'
  <2>1. Passed' = Passed \cup {i}
    BY <1>10, PassedMore
  <2> QED
    BY <1>1, <1>8, <2>1 DEF Halfway
<1>12. StopInv'
  <2>1. ASSUME LooksUpNoField PROVE Passed' \cap N = {}
    <3>1. M = {} /\ Passed \cap N = {}
      BY <1>1, <1>2, <2>1 DEF TurnsInv, StopInv, N
    <3>2. Passed' = Passed \cup {i}
      BY <1>10, PassedMore
    <3> QED
      BY <1>4, <3>1, <3>2
  <2>2. ASSUME NEW k \in DOMAIN pos, Threw(k)'
        PROVE  pos'[k] + 1 \in N
    <3>1. k # id
      BY <1>1, <2>2 DEF Threw
    <3>2. pos'[k] = pos[k] /\ Threw(k)
      BY <1>1, <1>10, <2>2, <3>1 DEF Threw
    <3> QED
      BY <3>2 DEF TurnsInv, StopInv, N
  <2>3. DOMAIN pos' = DOMAIN pos /\ LooksUpNoField' = LooksUpNoField /\ Matching(query, before)' = N
    BY <1>1 DEF LooksUpNoField, N
  <2> QED
    BY <2>1, <2>2, <2>3 DEF StopInv
<1> QED
  BY <1>1, <1>2, <1>9, <1>10, <1>11, <1>12 DEF TurnsInv

LEMMA TurnsTaskReturns ==
  ASSUME DataInv, TurnsInv, NEW id \in DOMAIN pos, TaskReturns(id)
  PROVE  TurnsInv' /\ size' = size
<1>1. /\ phase = "wait" /\ query' = query /\ phase' = phase /\ table' = table /\ pos' = pos
      /\ before' = before /\ returned' = returned \cup {id} /\ size' = size
      /\ result(query) => pos[id] = tail(size, id)
  BY TaskTyped DEF TaskReturns, main, size
<1>2. Halfway(Passed)' = Halfway(Passed) /\ Passed' = Passed
  BY <1>1 DEF Halfway, Passed
<1>3. StopInv'
  <2>1. ASSUME NEW k \in DOMAIN pos, Threw(k)' PROVE Threw(k)
    BY <1>1, <2>1 DEF Threw
  <2> QED
    BY <1>1, <1>2, <2>1 DEF TurnsInv, StopInv, LooksUpNoField
<1> QED
  BY <1>1, <1>2, <1>3 DEF TurnsInv

\* The row at which a task throws is one of those the loops act on.
LEMMA TurnsTaskThrows ==
  ASSUME DataInv, TurnsInv, NEW id \in DOMAIN pos, TaskThrows(id)
  PROVE  TurnsInv' /\ size' = size
<1>1. /\ phase = "wait" /\ query' = query /\ phase' = phase /\ table' = table /\ pos' = pos
      /\ before' = before /\ returned' = returned \cup {id} /\ size' = size
      /\ pos[id] < tail(size, id)
  BY TaskTyped DEF TaskThrows, main, size
<1>2. Halfway(Passed)' = Halfway(Passed) /\ Passed' = Passed
  BY <1>1 DEF Halfway, Passed
<1>3. StopInv'
  <2>1. ASSUME NEW k \in DOMAIN pos, Threw(k)' PROVE Threw(k) \/ k = id
    BY <1>1, <2>1 DEF Threw
  <2>2. pos[id] + 1 \in Matching(query, before)
    <3>1. pos[id] + 1 \in DOMAIN before /\ table[pos[id] + 1] = before[pos[id] + 1]
      BY <1>1, NextRow
    <3> QED
      BY <3>1 DEF TaskThrows, Matching
  <2> QED
    BY <1>1, <1>2, <2>1, <2>2 DEF TurnsInv, StopInv, LooksUpNoField
<1> QED
  BY <1>1, <1>2, <1>3 DEF TurnsInv

\* The tasks have all ended and none of them threw: main gets what they made.
NoneThrew == returned = Ids(size) /\ ~OneThrew

\* When all tasks have returned every row has had its turn.
LEMMA AllPassed ==
  ASSUME DataInv, TurnsInv, phase = "wait", NoneThrew, result(query)
  PROVE  Passed = DOMAIN before
<1>1. /\ size >= Split /\ DOMAIN pos = Ids(size) /\ size \in Nat /\ DOMAIN before = 1 .. size
  BY QueryTyped, SameRows DEF DataInv, TasksInv
<1>2. \A k \in DOMAIN pos : /\ pos[k] = tail(size, k)
                           /\ head(size, k) \in Nat /\ tail(size, k) \in Nat
  BY <1>1, PartType DEF NoneThrew, OneThrew, Threw
<1> SUFFICES ASSUME NEW i \in DOMAIN before PROVE i \in Passed
  BY DEF Passed
<1>3. i - 1 \in 0 .. size - 1
  BY <1>1
<1>4. PICK id \in Ids(size) : i - 1 \in SubTable(size, id)
  BY <1>1, <1>3, SubTablesCover
<1>5. head(size, id) < i /\ i <= pos[id]
  BY <1>1, <1>2, <1>4 DEF SubTable
<1> QED
  BY <1>1, <1>5 DEF Passed

LEMMA TurnsJoin ==
  ASSUME DataInv, TurnsInv, Join
  PROVE  TurnsInv'
<1>1. /\ phase = "wait" /\ phase' = "answer" /\ query' = query /\ table' = table
      /\ before' = before /\ pos' = NoRows /\ NoneThrew
  BY DEF Join, NoneThrew
<1>2. table = Halfway(Passed)
  BY <1>1 DEF TurnsInv
<1>3. Passed \cap Matching(query, before) = DOMAIN before \cap Matching(query, before)
  <2>1. CASE result(query)
    BY <1>1, <2>1, AllPassed
  <2>2. CASE ~result(query)
    BY <2>2 DEF Matching
  <2> QED
    BY <2>1, <2>2
<1>4. Halfway(Passed) = Halfway(DOMAIN before)
  BY <1>3 DEF Halfway
<1>5. Matching(query, before) # {} => ~LooksUpNoField
  BY <1>1, <1>3 DEF TurnsInv, StopInv, Matching
<1>6. /\ Halfway(DOMAIN before)' = Halfway(DOMAIN before) /\ LooksUpNoField' = LooksUpNoField
      /\ Matching(query, before)' = Matching(query, before)
  BY <1>1 DEF Halfway, LooksUpNoField
<1>7. StopInv'
  BY <1>1 DEF NoRows, StopInv
<1> QED
  BY <1>1, <1>2, <1>4, <1>5, <1>6, <1>7 DEF TurnsInv

\* What tasks throw leaves the table as the query found it.
LEMMA ThrownTable ==
  ASSUME DataInv, TurnsInv, JoinThrows
  PROVE  /\ table = before /\ LooksUpNoField /\ Matching(query, before) # {}
         /\ TurnsInv'
<1>1. /\ phase = "wait" /\ phase' = "repl" /\ query' = query /\ table' = table
      /\ before' = before /\ pos' = NoRows /\ OneThrew
  BY DEF JoinThrows, Respond
<1>2. LooksUpNoField
  BY <1>1 DEF DataInv, TasksInv, ThrewInv
<1>3. Passed \cap Matching(query, before) = {} /\ Matching(query, before) # {}
  BY <1>1, <1>2 DEF TurnsInv, StopInv, OneThrew
<1>4. table = before
  <2>1. table = Halfway(Passed) /\ before \in Seq(Rows)
    BY <1>1 DEF TurnsInv
  <2>2. Halfway(Passed) = [i \in DOMAIN before |-> before[i]]
    BY <1>3 DEF Halfway
  <2> QED
    BY <2>1, <2>2
<1>5. StopInv'
  BY <1>1 DEF NoRows, StopInv
<1> QED
  BY <1>1, <1>2, <1>3, <1>4, <1>5 DEF TurnsInv

\* The answer leaves the rows as they are.
LEMMA TurnsOver ==
  ASSUME DataInv, TurnsInv, phase # "wait", query' = query, before' = before, table' = table,
         UNCHANGED tasks, phase' = phase \/ phase' = "repl"
  PROVE  TurnsInv'
<1>1. StopInv'
  BY DEF DataInv, TasksInv, tasks, StopInv
<1>2. Halfway(DOMAIN before)' = Halfway(DOMAIN before) /\ LooksUpNoField' = LooksUpNoField
  BY DEF Halfway, LooksUpNoField
<1> QED
  BY <1>1, <1>2 DEF TurnsInv
-------------------------------------------------------------------------------
(* Sums and extrema of sets of rows. *)

\* The running sum behind Total.
Sums(f, t, S, k) ==
  /\ f \in [0 .. Len(t) -> Int] /\ f[0] = 0
  /\ \A i \in 1 .. Len(t) : f[i] = IF i \in S THEN f[i - 1] + t[i].f[k] ELSE f[i - 1]
  /\ Total(t, S, k) = f[Len(t)]

LEMMA TotalSums ==
  ASSUME NEW t \in Seq(Rows), NEW S, NEW k, S = {} \/ k \in Fields
  PROVE  \E f : Sums(f, t, S, k)
<1> DEFINE n == Len(t)
           Turn(i) == [s \in Int |-> IF i \in S THEN s + t[i].f[k] ELSE s]
           turns == [i \in 1 .. n |-> Turn(i)]
<1>1. n \in Nat /\ DOMAIN t = 1 .. n /\ 0 \in Int
  OBVIOUS
<1>2. \A i \in 1 .. n : i \in S => t[i].f[k] \in Int
  <2> SUFFICES ASSUME NEW i \in 1 .. n, i \in S PROVE t[i].f[k] \in Int
    OBVIOUS
  <2>1. t[i] \in Rows /\ k \in Fields
    BY ElementOfSeq
  <2> QED
    BY <2>1, FieldType, SmallInts
<1>3. \A i \in 1 .. n : Turn(i) \in [Int -> Int]
  BY <1>2
<1>4. \A i \in 1 .. n : \A s \in Int : Turn(i)[s] = IF i \in S THEN s + t[i].f[k] ELSE s
  OBVIOUS
<1>5. Total(t, S, k) = Loop(0, turns)
  BY <1>1 DEF Total
<1> HIDE DEF Turn
<1>6. turns \in [1 .. n -> [Int -> Int]] /\ \A i \in 1 .. n : turns[i] = Turn(i)
  BY <1>3
<1> HIDE DEF turns, n
<1>7. PICK f : Recurs(f, n, Int, 0, turns) /\ Loop(0, turns) = f[n]
  BY <1>1, <1>6, LoopDef, Zenon
<1>8. ASSUME NEW i \in 1 .. n
      PROVE  f[i] = IF i \in S THEN f[i - 1] + t[i].f[k] ELSE f[i - 1]
  <2>1. i - 1 \in 0 .. n
    BY <1>1
  <2>2. f[i - 1] \in Int
    BY <1>7, <2>1 DEF Recurs
  <2>3. f[i] = turns[i][f[i - 1]]
    BY <1>7 DEF Recurs
  <2> QED
    BY <1>4, <1>6, <2>2, <2>3
<1>9. f \in [0 .. n -> Int] /\ f[0] = 0
  BY <1>7 DEF Recurs
<1>10. Sums(f, t, S, k)
  BY <1>5, <1>7, <1>8, <1>9 DEF Sums, n
<1> QED
  BY <1>10

LEMMA TotalNone ==
  ASSUME NEW t \in Seq(Rows), NEW k
  PROVE  Total(t, {}, k) = 0
<1>1. PICK f : Sums(f, t, {}, k)
  BY TotalSums, Zenon
<1> DEFINE n == Len(t)
           A == {i \in Nat : i \in 0 .. n => f[i] = 0}
<1>2. n \in Nat
  OBVIOUS
<1>3. 0 \in A
  BY <1>1 DEF Sums
<1>4. ASSUME NEW i \in Nat, i \in A
      PROVE  i + 1 \in A
  <2> SUFFICES ASSUME i + 1 \in 0 .. n PROVE f[i + 1] = 0
    OBVIOUS
  <2>1. i \in 0 .. n /\ i + 1 \in 1 .. n /\ (i + 1) - 1 = i
    BY <1>2
  <2> QED
    BY <1>1, <1>4, <2>1 DEF Sums
<1> HIDE DEF A
<1>5. \A i \in Nat : i \in A
  BY <1>3, <1>4, NatSetInduction
<1> QED
  BY <1>1, <1>2, <1>5 DEF Sums, A

LEMMA TotalOne ==
  ASSUME NEW t \in Seq(Rows), NEW m \in DOMAIN t, NEW k \in Fields
  PROVE  Total(t, {m}, k) = t[m].f[k]
<1>1. PICK f : Sums(f, t, {m}, k)
  BY TotalSums, Zenon
<1> DEFINE n == Len(t)
           v == t[m].f[k]
           A == {i \in Nat : i \in 0 .. n => f[i] = IF i < m THEN 0 ELSE v}
<1>2. n \in Nat /\ m \in 1 .. n /\ v \in Int
  <2>1. t[m] \in Rows
    OBVIOUS
  <2> QED
    <3>1. v \in Int
      BY <2>1, FieldType, SmallInts
    <3> QED
      BY <3>1
<1> HIDE DEF v
<1>3. 0 \in A
  BY <1>1, <1>2 DEF Sums
<1>4. ASSUME NEW i \in Nat, i \in A
      PROVE  i + 1 \in A
  <2> SUFFICES ASSUME i + 1 \in 0 .. n PROVE f[i + 1] = IF i + 1 < m THEN 0 ELSE v
    OBVIOUS
  <2>1. i \in 0 .. n /\ i + 1 \in 1 .. n /\ (i + 1) - 1 = i
    BY <1>2
  <2>2. f[i] = IF i < m THEN 0 ELSE v
    BY <1>4, <2>1
  <2>3. f[i + 1] = IF i + 1 = m THEN f[i] + t[i + 1].f[k] ELSE f[i]
    BY <1>1, <2>1 DEF Sums
  <2> QED
    BY <1>2, <2>2, <2>3 DEF v
<1> HIDE DEF A
<1>5. \A i \in Nat : i \in A
  BY <1>3, <1>4, NatSetInduction
<1>6. f[n] = v
  BY <1>2, <1>5 DEF A
<1> QED
  BY <1>1, <1>6 DEF Sums, v

LEMMA TotalUnion ==
  ASSUME NEW t \in Seq(Rows), NEW S, NEW T, NEW k, S \cap T = {}, S \cup T = {} \/ k \in Fields
  PROVE  /\ Total(t, S \cup T, k) = Total(t, S, k) + Total(t, T, k)
         /\ Total(t, S, k) \in Int /\ Total(t, T, k) \in Int
<1> DEFINE n == Len(t)
<1>1. PICK f : Sums(f, t, S, k)
  BY TotalSums
<1>2. PICK g : Sums(g, t, T, k)
  BY TotalSums
<1>3. PICK h : Sums(h, t, S \cup T, k)
  BY TotalSums
<1> DEFINE A == {i \in Nat : i \in 0 .. n => h[i] = f[i] + g[i]}
<1>4. n \in Nat
  OBVIOUS
<1>5. 0 \in A
  BY <1>1, <1>2, <1>3 DEF Sums
<1>6. ASSUME NEW i \in Nat, i \in A
      PROVE  i + 1 \in A
  <2> SUFFICES ASSUME i + 1 \in 0 .. n PROVE h[i + 1] = f[i + 1] + g[i + 1]
    OBVIOUS
  <2>1. i \in 0 .. n /\ i + 1 \in 1 .. n /\ (i + 1) - 1 = i
    BY <1>4
  <2>2. h[i] = f[i] + g[i] /\ f[i] \in Int /\ g[i] \in Int
    BY <1>1, <1>2, <1>6, <2>1 DEF Sums
  <2>3. i + 1 \in S \cup T => t[i + 1].f[k] \in Int
    <3> SUFFICES ASSUME i + 1 \in S \cup T PROVE t[i + 1].f[k] \in Int
      OBVIOUS
    <3>1. t[i + 1] \in Rows /\ k \in Fields
      BY <2>1, ElementOfSeq
    <3> QED
      BY <3>1, FieldType, SmallInts
  <2>4. /\ f[i + 1] = IF i + 1 \in S THEN f[i] + t[i + 1].f[k] ELSE f[i]
        /\ g[i + 1] = IF i + 1 \in T THEN g[i] + t[i + 1].f[k] ELSE g[i]
        /\ h[i + 1] = IF i + 1 \in S \cup T THEN h[i] + t[i + 1].f[k] ELSE h[i]
    BY <1>1, <1>2, <1>3, <2>1 DEF Sums
  <2> QED
    BY <2>2, <2>3, <2>4
<1> HIDE DEF A
<1>7. \A i \in Nat : i \in A
  BY <1>5, <1>6, NatSetInduction
<1>8. h[n] = f[n] + g[n] /\ f[n] \in Int /\ g[n] \in Int
  BY <1>1, <1>2, <1>4, <1>7 DEF A, Sums
<1> QED
  BY <1>1, <1>2, <1>3, <1>8 DEF Sums

\* A set of ints has a greatest and a least.
LEMMA GreatestInt ==
  ASSUME NEW T \in SUBSET Int32, T # {}
  PROVE  /\ Max(T) \in T /\ \A y \in T : Max(T) >= y
         /\ Min(T) \in T /\ \A y \in T : Min(T) <= y
<1> DEFINE up == [y \in T |-> IntMax - y]
           down == [y \in T |-> y - IntMin]
<1>1. IntMin \in Int /\ IntMax \in Int /\ \A y \in T : y \in Int /\ IntMin <= y /\ y <= IntMax
  BY SmallInts DEF Int32
<1>2. up \in [T -> Nat] /\ down \in [T -> Nat]
  BY <1>1
<1>3. \A y \in T : up[y] = IntMax - y /\ down[y] = y - IntMin
  OBVIOUS
<1> HIDE DEF up, down
<1>4. PICK x \in T : \A y \in T : up[x] <= up[y]
  BY <1>2, LeastElement, Zenon
<1>5. PICK z \in T : \A y \in T : down[z] <= down[y]
  BY <1>2, LeastElement, Zenon
<1>6. \A y \in T : x >= y /\ z <= y
  BY <1>1, <1>3, <1>4, <1>5
<1>7. Max(T) \in T /\ \A y \in T : Max(T) >= y
  BY <1>6, Zenon DEF Max
<1>8. Min(T) \in T /\ \A y \in T : Min(T) <= y
  BY <1>6, Zenon DEF Min
<1> QED
  BY <1>7, <1>8

LEMMA ExtremaOfUnion ==
  ASSUME NEW A \in SUBSET Int32, NEW B \in SUBSET Int32, A # {}, B # {}
  PROVE  /\ Max(A \cup B) = IF Max(A) < Max(B) THEN Max(B) ELSE Max(A)
         /\ Min(A \cup B) = IF Min(A) > Min(B) THEN Min(B) ELSE Min(A)
<1> DEFINE C == A \cup B
<1>1. C \in SUBSET Int32 /\ C # {}
  OBVIOUS
<1>2. /\ Max(A) \in A /\ \A y \in A : Max(A) >= y
      /\ Min(A) \in A /\ \A y \in A : Min(A) <= y
      /\ Max(B) \in B /\ \A y \in B : Max(B) >= y
      /\ Min(B) \in B /\ \A y \in B : Min(B) <= y
  BY GreatestInt
<1>3. /\ Max(C) \in C /\ \A y \in C : Max(C) >= y
      /\ Min(C) \in C /\ \A y \in C : Min(C) <= y
  BY <1>1, GreatestInt
<1>4. \A y \in C : y \in Int
  BY SmallInts
<1> HIDE DEF C
<1>5. \A y : y \in C <=> y \in A \/ y \in B
  BY DEF C
<1>6. Max(C) = IF Max(A) < Max(B) THEN Max(B) ELSE Max(A)
  <2>1. Max(A) \in C /\ Max(B) \in C /\ Max(C) \in Int /\ Max(A) \in Int /\ Max(B) \in Int
    BY <1>2, <1>3, <1>4, <1>5
  <2>2. Max(C) >= Max(A) /\ Max(C) >= Max(B)
    BY <1>3, <2>1
  <2>3. Max(A) >= Max(C) \/ Max(B) >= Max(C)
    BY <1>2, <1>3, <1>5
  <2> QED
    BY <2>1, <2>2, <2>3
<1>7. Min(C) = IF Min(A) > Min(B) THEN Min(B) ELSE Min(A)
  <2>1. Min(A) \in C /\ Min(B) \in C /\ Min(C) \in Int /\ Min(A) \in Int /\ Min(B) \in Int
    BY <1>2, <1>3, <1>4, <1>5
  <2>2. Min(C) <= Min(A) /\ Min(C) <= Min(B)
    BY <1>3, <2>1
  <2>3. Min(A) <= Min(C) \/ Min(B) <= Min(C)
    BY <1>2, <1>3, <1>5
  <2> QED
    BY <2>1, <2>2, <2>3
<1> QED
  BY <1>6, <1>7 DEF C

\* What was gathered of two sets of rows is gathered of both.
LEMMA GatherUnion ==
  ASSUME NEW q \in QuerySet, q.kind \in Gatherers, NEW t \in Seq(Rows),
         NEW S \in SUBSET DOMAIN t, NEW T \in SUBSET DOMAIN t, S \cap T = {},
         S \cup T = {} \/ NoField \notin ToSet(q.ops)
  PROVE  Gather(q, Gathered(q, t, S), Gathered(q, t, T)) = Gathered(q, t, S \cup T)
<1> DEFINE ops == q.ops
           Col(U, k) == Column(t, U, ops[k])
<1>1. ASSUME NEW k \in DOMAIN ops
      PROVE  S \cup T = {} \/ ops[k] \in Fields
  <2>1. CASE NoField \notin ToSet(q.ops)
    <3>1. ops \in Seq(Fields)
      BY <2>1, OperandsAreFields
    <3> HIDE DEF ops
    <3> QED
      BY <3>1
  <2>2. CASE S \cup T = {}
    BY <2>2
  <2> QED
    BY <2>1, <2>2
<1>2. \A i \in DOMAIN t : t[i] \in Rows
  OBVIOUS
<1>3. ASSUME NEW k \in DOMAIN ops
      PROVE  /\ Col(S, k) \in SUBSET Int32 /\ Col(T, k) \in SUBSET Int32
             /\ Col(S \cup T, k) = Col(S, k) \cup Col(T, k)
  <2>1. CASE S \cup T = {}
    BY <2>1 DEF Column
  <2>2. CASE ops[k] \in Fields
    <3>1. \A i \in DOMAIN t : t[i].f[ops[k]] \in Int32
      BY <1>2, <2>2, FieldType
    <3> QED
      BY <3>1 DEF Column
  <2> QED
    BY <1>1, <2>1, <2>2
<1>4. IntMin \in Int32 /\ IntMax \in Int32
  BY SmallInts
<1>5. CASE q.kind = "SUM"
  <2> DEFINE a == Gathered(q, t, S)
             b == Gathered(q, t, T)
             c == Gathered(q, t, S \cup T)
             Sum(U, k) == Total(t, U, ops[k])
  <2>1. /\ a = [k \in DOMAIN ops |-> Wrap(Sum(S, k))]
        /\ b = [k \in DOMAIN ops |-> Wrap(Sum(T, k))]
        /\ c = [k \in DOMAIN ops |-> Wrap(Sum(S \cup T, k))]
    BY <1>5 DEF Gathered
  <2>2. Gather(q, a, b) = [k \in DOMAIN a |-> Wrap(a[k] + b[k])]
    BY <1>5 DEF Gather, Sub_Sum
  <2>3. ASSUME NEW k \in DOMAIN ops
        PROVE  Wrap(Wrap(Sum(S, k)) + Wrap(Sum(T, k))) = Wrap(Sum(S \cup T, k))
    <3> DEFINE x == Sum(S, k)
               y == Sum(T, k)
    <3>1. Sum(S \cup T, k) = x + y /\ x \in Int /\ y \in Int
      <4> DEFINE o == ops[k]
      <4>1. S \cup T = {} \/ o \in Fields
        BY <1>1
      <4> HIDE DEF o
      <4>2. /\ Total(t, S \cup T, o) = Total(t, S, o) + Total(t, T, o)
            /\ Total(t, S, o) \in Int /\ Total(t, T, o) \in Int
        BY <4>1, TotalUnion
      <4> QED
        BY <4>2 DEF o
    <3> HIDE DEF x, y
    <3>2. Wrap(x) \in Int /\ Wrap(y) \in Int
      BY <3>1, WrapType, SmallInts
    <3>3. Wrap(Wrap(x) + Wrap(y)) = Wrap(x + Wrap(y))
      BY <3>1, <3>2, WrapSum
    <3>4. Wrap(Wrap(y) + x) = Wrap(y + x)
      BY <3>1, WrapSum
    <3>5. x + Wrap(y) = Wrap(y) + x /\ x + y = y + x
      BY <3>1, <3>2
    <3> QED
      BY <3>1, <3>3, <3>4, <3>5 DEF x, y
  <2> HIDE DEF Sum, a, b, c
  <2>4. [k \in DOMAIN a |-> Wrap(a[k] + b[k])] = c
    BY <2>1, <2>3
  <2> QED
    BY <2>2, <2>4 DEF a, b, c
<1>6. CASE q.kind = "MAX"
  <2> DEFINE Greatest(U, k) == Max(Col(U, k) \cup {IntMin})
             a == Gathered(q, t, S)
             b == Gathered(q, t, T)
             c == Gathered(q, t, S \cup T)
  <2>1. /\ a = [k \in DOMAIN ops |-> Greatest(S, k)]
        /\ b = [k \in DOMAIN ops |-> Greatest(T, k)]
        /\ c = [k \in DOMAIN ops |-> Greatest(S \cup T, k)]
    BY <1>6 DEF Gathered
  <2>2. Gather(q, a, b) = [k \in DOMAIN a |-> IF a[k] < b[k] THEN b[k] ELSE a[k]]
    BY <1>6 DEF Gather, Sub_max
  <2>3. ASSUME NEW k \in DOMAIN ops
        PROVE  Greatest(S \cup T, k)
                 = IF Greatest(S, k) < Greatest(T, k) THEN Greatest(T, k) ELSE Greatest(S, k)
    <3> DEFINE A == Col(S, k) \cup {IntMin}
               B == Col(T, k) \cup {IntMin}
    <3>1. /\ A \in SUBSET Int32 /\ B \in SUBSET Int32 /\ A # {} /\ B # {}
          /\ Col(S \cup T, k) \cup {IntMin} = A \cup B
      BY <1>3, <1>4
    <3> HIDE DEF A, B
    <3>2. Max(A \cup B) = IF Max(A) < Max(B) THEN Max(B) ELSE Max(A)
      BY <3>1, ExtremaOfUnion
    <3> QED
      BY <3>1, <3>2 DEF A, B
  <2> HIDE DEF Greatest, a, b, c
  <2>4. [k \in DOMAIN a |-> IF a[k] < b[k] THEN b[k] ELSE a[k]] = c
    BY <2>1, <2>3
  <2> QED
    BY <2>2, <2>4 DEF a, b, c
<1>7. CASE q.kind = "MIN"
  <2> DEFINE Low(U, k) == Min(Col(U, k) \cup {IntMax})
             a == Gathered(q, t, S)
             b == Gathered(q, t, T)
             c == Gathered(q, t, S \cup T)
  <2>1. /\ a = [k \in DOMAIN ops |-> Low(S, k)]
        /\ b = [k \in DOMAIN ops |-> Low(T, k)]
        /\ c = [k \in DOMAIN ops |-> Low(S \cup T, k)]
    BY <1>7 DEF Gathered
  <2>2. Gather(q, a, b) = [k \in DOMAIN a |-> IF a[k] > b[k] THEN b[k] ELSE a[k]]
    BY <1>7 DEF Gather, Sub_min
  <2>3. ASSUME NEW k \in DOMAIN ops
        PROVE  Low(S \cup T, k) = IF Low(S, k) > Low(T, k) THEN Low(T, k) ELSE Low(S, k)
    <3> DEFINE A == Col(S, k) \cup {IntMax}
               B == Col(T, k) \cup {IntMax}
    <3>1. /\ A \in SUBSET Int32 /\ B \in SUBSET Int32 /\ A # {} /\ B # {}
          /\ Col(S \cup T, k) \cup {IntMax} = A \cup B
      BY <1>3, <1>4
    <3> HIDE DEF A, B
    <3>2. Min(A \cup B) = IF Min(A) > Min(B) THEN Min(B) ELSE Min(A)
      BY <3>1, ExtremaOfUnion
    <3> QED
      BY <3>1, <3>2 DEF A, B
  <2> HIDE DEF Low, a, b, c
  <2>4. [k \in DOMAIN a |-> IF a[k] > b[k] THEN b[k] ELSE a[k]] = c
    BY <2>1, <2>3
  <2> QED
    BY <2>2, <2>4 DEF a, b, c
<1> QED
  BY <1>5, <1>6, <1>7 DEF Gatherers, Extrema

\* What is gathered of no row, and of one.
LEMMA GatheredNone ==
  ASSUME NEW q \in QuerySet, q.kind \in Gatherers, NEW t \in Seq(Rows)
  PROVE  Zero(q) = Gathered(q, t, {})
<1>1. \A k : Column(t, {}, k) = {}
  BY DEF Column
<1>2. Max({} \cup {IntMin}) = IntMin /\ Min({} \cup {IntMax}) = IntMax
  <2>1. {IntMin} \in SUBSET Int32 /\ {IntMax} \in SUBSET Int32
    BY SmallInts
  <2>2. Max({IntMin}) \in {IntMin} /\ Min({IntMax}) \in {IntMax}
    BY <2>1, GreatestInt
  <2>3. {} \cup {IntMin} = {IntMin} /\ {} \cup {IntMax} = {IntMax}
    OBVIOUS
  <2> QED
    BY <2>2, <2>3
<1>3. \A k : Wrap(Total(t, {}, k)) = 0
  BY TotalNone, WrapFits, SmallInts
<1>4. CASE q.kind = "SUM"
  BY <1>3, <1>4 DEF Zero, Gathered
<1>5. CASE q.kind = "MAX"
  BY <1>1, <1>2, <1>5 DEF Zero, Gathered
<1>6. CASE q.kind = "MIN"
  BY <1>1, <1>2, <1>6 DEF Zero, Gathered
<1> QED
  BY <1>4, <1>5, <1>6 DEF Gatherers, Extrema

LEMMA GatheredOne ==
  ASSUME NEW q \in QuerySet, q.kind \in Gatherers, NEW t \in Seq(Rows), NEW i \in DOMAIN t,
         NoField \notin ToSet(q.ops)
  PROVE  [k \in DOMAIN q.ops |-> t[i].f[q.ops[k]]] = Gathered(q, t, {i})
<1> DEFINE v(k) == t[i].f[q.ops[k]]
<1>1. t[i] \in Rows
  OBVIOUS
<1>2. q.ops \in Seq(Fields)
  BY OperandsAreFields
<1>3. ASSUME NEW k \in DOMAIN q.ops
      PROVE  /\ Wrap(Total(t, {i}, q.ops[k])) = v(k)
             /\ Max(Column(t, {i}, q.ops[k]) \cup {IntMin}) = v(k)
             /\ Min(Column(t, {i}, q.ops[k]) \cup {IntMax}) = v(k)
  <2>1. q.ops[k] \in Fields
    BY <1>2
  <2>2. v(k) \in Int32 /\ IntMin \in Int32 /\ IntMax \in Int32
    BY <1>1, <2>1, FieldType, SmallInts
  <2>3. Wrap(Total(t, {i}, q.ops[k])) = v(k)
    BY <2>1, <2>2, TotalOne, WrapFits
  <2>4. Column(t, {i}, q.ops[k]) = {v(k)}
    BY DEF Column
  <2> HIDE DEF v
  <2> DEFINE A == {v(k)} \cup {IntMin}
             B == {v(k)} \cup {IntMax}
  <2>5. A \in SUBSET Int32 /\ A # {} /\ B \in SUBSET Int32 /\ B # {}
    BY <2>2
  <2>6. /\ Max(A) \in A /\ \A y \in A : Max(A) >= y
        /\ Min(B) \in B /\ \A y \in B : Min(B) <= y
    BY <2>5, GreatestInt
  <2>7. v(k) \in Int /\ IntMin \in Int /\ IntMax \in Int /\ IntMin <= v(k) /\ v(k) <= IntMax
    BY <2>2, SmallInts DEF Int32
  <2>8. Max(A) = v(k)
    <3>1. Max(A) = v(k) \/ Max(A) = IntMin
      BY <2>6
    <3>2. Max(A) >= v(k)
      BY <2>6
    <3> QED
      BY <2>7, <3>1, <3>2
  <2>9. Min(B) = v(k)
    <3>1. Min(B) = v(k) \/ Min(B) = IntMax
      BY <2>6
    <3>2. Min(B) <= v(k)
      BY <2>6
    <3> QED
      BY <2>7, <3>1, <3>2
  <2> QED
    BY <2>3, <2>4, <2>8, <2>9
<1> HIDE DEF v
<1>4. Gathered(q, t, {i}) = [k \in DOMAIN q.ops |-> v(k)]
  <2>1. CASE q.kind = "SUM"
    BY <1>3, <2>1 DEF Gathered
  <2>2. CASE q.kind = "MAX"
    BY <1>3, <2>2 DEF Gathered
  <2>3. CASE q.kind = "MIN"
    BY <1>3, <2>3 DEF Gathered
  <2> QED
    BY <2>1, <2>2, <2>3 DEF Gatherers, Extrema
<1> QED
  BY <1>4 DEF v
-------------------------------------------------------------------------------
(* The local results, turn by turn. *)

\* A set of rows is finite.
LEMMA RowsAreFinite ==
  ASSUME NEW t \in Seq(Rows), NEW S \in SUBSET DOMAIN t
  PROVE  IsFiniteSet(S) /\ Cardinality(S) \in Nat
<1>1. IsFiniteSet(1 .. Len(t)) /\ DOMAIN t = 1 .. Len(t)
  <2>1. Len(t) \in Nat /\ DOMAIN t = 1 .. Len(t)
    OBVIOUS
  <2> QED
    BY <2>1, FS_Interval
<1> QED
  BY <1>1, FS_Subset, FS_CardinalityType

\* A query that writes no row leaves the table as it is until it answers.
LEMMA TableOfReader ==
  ASSUME DataInv, TurnsInv, phase # "repl", query.kind \notin {"ADD", "SUB", "SWAP"}
  PROVE  table = before
<1>1. \A S : Halfway(S) = before
  <2> SUFFICES ASSUME NEW S PROVE Halfway(S) = before
    OBVIOUS
  <2>1. Halfway(S) = [i \in DOMAIN before |-> before[i]]
    BY DEF Halfway, Change
  <2>2. before = [i \in DOMAIN before |-> before[i]]
    BY DEF TurnsInv
  <2> QED
    BY <2>1, <2>2
<1> QED
  BY <1>1 DEF TurnsInv, DataInv, QueryInv

\* One more row of the count, or of what was gathered.
LEMMA TakeCounts ==
  ASSUME NEW q \in QuerySet, q.kind \in Counters, NEW t \in Seq(Rows),
         NEW S \in SUBSET DOMAIN t, NEW i, i \notin S, NEW row
  PROVE  Take(q, Cardinality(S), row) = Cardinality(S \cup {i})
<1>1. Cardinality(S \cup {i}) = Cardinality(S) + 1
  BY RowsAreFinite, FS_AddElement
<1>2. \A a : Take(q, a, row) = a + 1
  BY DEF Take, Counters, Gatherers, Extrema
<1> QED
  BY <1>1, <1>2

LEMMA TakeGathers ==
  ASSUME NEW q \in QuerySet, q.kind \in Gatherers, NEW t \in Seq(Rows),
         NEW S \in SUBSET DOMAIN t, NEW i \in DOMAIN t, i \notin S, NoField \notin ToSet(q.ops)
  PROVE  Take(q, Gathered(q, t, S), t[i]) = Gathered(q, t, S \cup {i})
<1> DEFINE one == [k \in DOMAIN q.ops |-> t[i].f[q.ops[k]]]
           a == Gathered(q, t, S)
<1>1. one = Gathered(q, t, {i})
  BY GatheredOne
<1>2. Gather(q, a, Gathered(q, t, {i})) = Gathered(q, t, S \cup {i})
  <2>1. {i} \in SUBSET DOMAIN t /\ S \cap {i} = {}
    OBVIOUS
  <2> QED
    BY <2>1, GatherUnion
<1>3. Take(q, a, t[i]) = Gather(q, a, one)
  BY DEF Take, Counters, Gatherers, Extrema
<1> HIDE DEF one, a
<1> QED
  BY <1>1, <1>2, <1>3 DEF a

\* One more row of the list.
LEMMA ListedStep ==
  ASSUME before \in Seq(Rows), NEW n \in Nat, n + 1 <= Len(before)
  PROVE  /\ Listed(n) \in Seq(Nat)
         /\ Listed(n + 1) = IF n + 1 \in Copied(query, before)
                            THEN Append(Listed(n), before[n + 1].key) ELSE Listed(n)
<1> DEFINE a == Fresh(query, before, n)
           e == before[n + 1]
<1>1. /\ a \in Seq(Rows)
      /\ Fresh(query, before, n + 1) = IF n + 1 \in Copied(query, before) THEN Append(a, e) ELSE a
  BY FreshStep
<1>2. e \in Rows
  <2>1. n + 1 \in 1 .. Len(before)
    OBVIOUS
  <2> QED
    BY <2>1, ElementOfSeq
<1>3. Listed(n) = KeysIn(a) /\ Listed(n + 1) = KeysIn(Fresh(query, before, n + 1))
  BY DEF Listed
<1> HIDE DEF a, e
<1>4. KeysIn(a) \in Seq(Nat)
  <2>1. \A i \in 1 .. Len(a) : a[i].key \in Nat
    <3>1. \A i \in 1 .. Len(a) : a[i] \in Rows
      BY <1>1, ElementOfSeq
    <3> QED
      BY <3>1 DEF Rows
  <2>2. Len(a) \in Nat /\ DOMAIN a = 1 .. Len(a)
    BY <1>1
  <2> QED
    BY <2>1, <2>2 DEF KeysIn
<1>5. KeysIn(Append(a, e)) = Append(KeysIn(a), e.key)
  <2>1. /\ Len(a) \in Nat /\ DOMAIN a = 1 .. Len(a)
        /\ DOMAIN Append(a, e) = 1 .. Len(a) + 1
        /\ \A i \in 1 .. Len(a) + 1 : Append(a, e)[i] = IF i <= Len(a) THEN a[i] ELSE e
    BY <1>1, <1>2
  <2>2. Len(KeysIn(a)) = Len(a)
    BY <1>4, <2>1 DEF KeysIn
  <2>3. /\ DOMAIN Append(KeysIn(a), e.key) = 1 .. Len(a) + 1
        /\ \A i \in 1 .. Len(a) + 1 :
             Append(KeysIn(a), e.key)[i] = IF i <= Len(a) THEN KeysIn(a)[i] ELSE e.key
    <3>1. e.key \in Nat
      BY <1>2 DEF Rows
    <3> QED
      BY <1>4, <2>2, <3>1
  <2>4. \A i \in 1 .. Len(a) + 1 : i <= Len(a) => KeysIn(a)[i] = a[i].key
    BY <2>1 DEF KeysIn
  <2>5. KeysIn(Append(a, e)) = [i \in 1 .. Len(a) + 1 |-> Append(a, e)[i].key]
    BY <2>1 DEF KeysIn
  <2>6. Append(KeysIn(a), e.key) = [i \in 1 .. Len(a) + 1 |-> Append(KeysIn(a), e.key)[i]]
    BY <1>4, <2>3
  <2>7. \A i \in 1 .. Len(a) + 1 : Append(a, e)[i].key = Append(KeysIn(a), e.key)[i]
    BY <2>1, <2>3, <2>4
  <2> HIDE DEF KeysIn
  <2> QED
    BY <2>5, <2>6, <2>7
<1> QED
  BY <1>1, <1>3, <1>4, <1>5 DEF e

\* One more element of a list that continues another.
LEMMA AppendToBoth ==
  ASSUME NEW a \in Seq(Nat), NEW b \in Seq(Nat), NEW e \in Nat
  PROVE  Append(a \o b, e) = a \o Append(b, e) /\ Len(Append(b, e)) = Len(b) + 1
<1>1. a \o b \in Seq(Nat) /\ <<e>> \in Seq(Nat)
  OBVIOUS
<1>2. Append(a \o b, e) = (a \o b) \o <<e>> /\ Append(b, e) = b \o <<e>>
  BY <1>1, AppendIsConcat
<1>3. (a \o b) \o <<e>> = a \o (b \o <<e>>)
  BY <1>1, ConcatAssociative
<1>4. Len(Append(b, e)) = Len(b) + 1
  BY AppendProperties
<1> QED
  BY ONLY <1>2, <1>3, <1>4

\* A loop looks at one row more.
LEMMA LocalOfMore ==
  ASSUME ValuesFit, DataInv, TurnsInv, phase # "repl", NEW h \in Nat, NEW n \in Nat, h <= n,
         n + 1 \in DOMAIN before, NEW a \in Locals(query, KeysOf(table)), LocalOf(a, h, n),
         n + 1 \in Matching(query, before) => ~LooksUpNoField,
         NEW b, b = IF n + 1 \in Matching(query, before) THEN Take(query, a, before[n + 1]) ELSE a
  PROVE  LocalOf(b, h, n + 1) /\ (CountsKeys(a) => CountsKeys(b))
<1> DEFINE i == n + 1
           N == Matching(query, before)
           A == Acted(h, n)
<1>1. query \in QuerySet /\ ~Refused(query) /\ before \in Seq(Rows) /\ table \in Seq(Rows)
  BY QueryTyped DEF TurnsInv
<1>2. Len(before) \in Nat /\ DOMAIN before = 1 .. Len(before)
  BY <1>1
<1>3. N \in SUBSET DOMAIN before /\ A \in SUBSET DOMAIN before
  BY DEF Matching, Acted
<1>4. Acted(h, i) = (IF i \in N THEN A \cup {i} ELSE A) /\ i \notin A
  <2>1. \A j \in N : j \in Nat
    BY <1>2, <1>3
  <2>2. \A j \in N : j <= i <=> j <= n \/ j = i
    BY <2>1
  <2>3. A = {j \in N : h < j /\ j <= n} /\ Acted(h, i) = {j \in N : h < j /\ j <= i}
    BY DEF Acted
  <2> HIDE DEF N, A
  <2>4. i \notin A /\ h < i
    BY <2>3
  <2> HIDE DEF i
  <2> QED
    BY <2>2, <2>3, <2>4
<1>5. CASE query.kind \in Counters
  <2>1. a = Cardinality(A)
    BY <1>5 DEF LocalOf
  <2>2. \A row : Take(query, Cardinality(A), row) = Cardinality(A \cup {i})
    BY <1>1, <1>3, <1>4, <1>5, TakeCounts
  <2>3. b = Cardinality(Acted(h, i))
    BY <1>4, <2>1, <2>2
  <2> QED
    BY <1>1, <1>5, <2>3, KindsApart DEF LocalOf, CountsKeys
<1>6. CASE query.kind \in Gatherers
  <2>1. a = Gathered(query, before, A)
    BY <1>6 DEF LocalOf
  <2>2. i \in N => NoField \notin ToSet(query.ops)
    BY <1>6 DEF LooksUpNoField, Gatherers, Extrema
  <2>3. i \in N => Take(query, Gathered(query, before, A), before[i])
                    = Gathered(query, before, A \cup {i})
    BY <1>1, <1>3, <1>4, <1>6, <2>2, TakeGathers
  <2>4. b = Gathered(query, before, Acted(h, i))
    BY <1>4, <2>1, <2>3
  <2> QED
    BY <1>1, <1>6, <2>4, KindsApart DEF LocalOf, CountsKeys
<1>7. CASE query.kind = "DUPLICATE"
  <2>1. Listed(n) = Listed(h) \o a.sub_keys
    BY <1>7 DEF LocalOf
  <2>2. table = before
    BY <1>7, TableOfReader
  <2>3. N = Meant(query, before)
    BY <1>1, MatchingIsMeant DEF Refused
  <2>4. i \in Copied(query, before) <=> i \in N /\ evalDuplicate(before[i].key)
    BY <2>2, <2>3 DEF Copied, evalDuplicate
  <2>5. /\ Listed(h) \in Seq(Nat)
        /\ Listed(i) = IF i \in Copied(query, before)
                       THEN Append(Listed(n), before[i].key) ELSE Listed(n)
    BY <1>1, <1>2, ListedStep
  <2>6. a \in [subcounter : Int, sub_keys : Seq(KeysOf(table))]
    BY <1>7 DEF Locals, Gatherers, Extrema
  <2>7. a.sub_keys \in Seq(Nat)
    BY <1>1, <2>6, KeysAreNumbers
  <2>8. CASE i \in Copied(query, before)
    <3>1. b = [subcounter |-> a.subcounter + 1, sub_keys |-> Append(a.sub_keys, before[i].key)]
      BY <1>7, <2>4, <2>8 DEF Take, Sub_Duplicate, Counters, Gatherers, Extrema
    <3>2. before[i].key \in Nat
      <4>1. before[i] \in Rows
        BY <1>1, <1>2, ElementOfSeq
      <4> QED
        BY <4>1 DEF Rows
    <3>3. /\ Append(Listed(h) \o a.sub_keys, before[i].key)
               = Listed(h) \o Append(a.sub_keys, before[i].key)
          /\ Len(Append(a.sub_keys, before[i].key)) = Len(a.sub_keys) + 1
      BY <2>5, <2>7, <3>2, AppendToBoth
    <3>4. b.sub_keys = Append(a.sub_keys, before[i].key) /\ b.subcounter = a.subcounter + 1
      BY ONLY <3>1
    <3>5. Listed(i) = Listed(h) \o b.sub_keys
      BY ONLY <2>1, <2>5, <2>8, <3>3, <3>4
    <3>6. CountsKeys(a) => CountsKeys(b)
      BY ONLY <3>3, <3>4, <1>7 DEF CountsKeys
    <3> QED
      BY <1>7, <3>5, <3>6 DEF LocalOf, Counters, Gatherers, Extrema
  <2>9. CASE i \notin Copied(query, before)
    <3>1. b = a
      BY <1>7, <2>4, <2>9 DEF Take, Sub_Duplicate, Counters, Gatherers, Extrema
    <3> QED
      BY <1>7, <2>1, <2>5, <2>9, <3>1 DEF LocalOf, Counters, Gatherers, Extrema
  <2> QED
    BY <2>8, <2>9
<1> QED
  BY <1>1, <1>5, <1>6, <1>7, KindsApart DEF LocalOf, CountsKeys

\* The local results are those of the query and the table it began with.
LEMMA LocalKept ==
  ASSUME query' = query, before' = before, size' = size,
         \A k \in DOMAIN pos' : /\ LocalOf(acc'[k], head(size, k), pos'[k])
                                /\ result(query) => CountsKeys(acc'[k])
  PROVE  LocalInv'
<1> SUFFICES ASSUME NEW k \in DOMAIN pos'
             PROVE  /\ LocalOf(acc[k], head(size, k), pos[k])'
                    /\ (result(query) => CountsKeys(acc[k]))'
  BY DEF LocalInv
<1>1. /\ LocalOf(acc'[k], head(size, k), pos'[k])
      /\ result(query) => CountsKeys(acc'[k])
  OBVIOUS
<1>2. Acted(head(size, k), pos[k])' = Acted(head(size, k), pos'[k])
  BY DEF Acted
<1>3. Gathered(query, before, Acted(head(size, k), pos[k]))'
        = Gathered(query, before, Acted(head(size, k), pos'[k]))
  BY <1>2 DEF Gathered
<1>4. Listed(pos[k])' = Listed(pos'[k]) /\ Listed(head(size, k))' = Listed(head(size, k))
  BY DEF Listed
<1> QED
  BY <1>1, <1>2, <1>3, <1>4 DEF LocalOf, CountsKeys

\* A turn of a task brings its local result up to the rows it has passed.
LEMMA LocalScanRow ==
  ASSUME ValuesFit, DataInv, TurnsInv, LocalInv, NEW id \in DOMAIN pos, ScanRow(id)
  PROVE  LocalInv'
<1> DEFINE N == Matching(query, before)
<1>1. /\ query' = query /\ before' = before /\ size' = size /\ result(query)
      /\ pos[id] < tail(size, id) /\ DOMAIN pos' = DOMAIN pos /\ pos'[id] = pos[id] + 1
      /\ \A k \in DOMAIN pos : k # id => pos'[k] = pos[k]
      /\ {pos[id] + 1} \cap Matching(query, table) # {} => ~LooksUpNoField
  BY TurnsScanRow DEF ScanRow, main
<1>2. /\ phase = "wait" /\ id \in Ids(size) /\ size \in Nat /\ size >= Split
      /\ DOMAIN acc = DOMAIN pos /\ acc[id] \in Locals(query, KeysOf(table))
  BY TaskTyped, QueryTyped
<1>3. pos[id] + 1 \in DOMAIN before /\ table[pos[id] + 1] = before[pos[id] + 1]
      /\ DOMAIN table = DOMAIN before
  BY <1>1, <1>2, NextRow, SameRows
<1>4. head(size, id) \in Nat /\ pos[id] \in Nat /\ head(size, id) <= pos[id]
  BY <1>2, TaskTyped, PartType
<1>5. /\ acc'[id] = IF pos[id] + 1 \in N THEN Take(query, acc[id], before[pos[id] + 1]) ELSE acc[id]
      /\ \A k \in DOMAIN pos : k # id => acc'[k] = acc[k]
  <2> DEFINE i == pos[id] + 1
  <2>1. {i} \cap Matching(query, table) = {i} \cap N
    BY <1>3 DEF Matching
  <2>2. acc' = IF {i} \cap N = {} THEN acc
               ELSE [acc EXCEPT ![id] = Take(query, @, before[i])]
    BY <1>3, <2>1 DEF ScanRow
  <2> HIDE DEF N, i
  <2>3. CASE i \in N
    BY <1>2, <2>2, <2>3 DEF i
  <2>4. CASE i \notin N
    BY <1>2, <2>2, <2>4 DEF i
  <2> QED
    BY <2>3, <2>4
<1>6. LocalOf(acc[id], head(size, id), pos[id]) /\ CountsKeys(acc[id])
  BY <1>1 DEF LocalInv
<1>7. LocalOf(acc'[id], head(size, id), pos'[id]) /\ CountsKeys(acc'[id])
  <2>1. pos[id] + 1 \in N => ~LooksUpNoField
    BY <1>1, <1>3 DEF Matching
  <2> QED
    BY <1>1, <1>2, <1>3, <1>4, <1>5, <1>6, <2>1, LocalOfMore
<1>8. ASSUME NEW k \in DOMAIN pos
      PROVE  LocalOf(acc'[k], head(size, k), pos'[k]) /\ (result(query) => CountsKeys(acc'[k]))
  BY <1>1, <1>5, <1>7 DEF LocalInv
<1> QED
  BY <1>1, <1>8, LocalKept

\* The result of no row.
LEMMA LocalOfNone ==
  ASSUME DataInv, TurnsInv, phase # "repl", NEW h \in 0 .. Len(before)
  PROVE  LocalOf(Zero(query), h, h) /\ CountsKeys(Zero(query))
<1>1. query \in QuerySet /\ before \in Seq(Rows)
  BY QueryTyped DEF TurnsInv
<1>2. Acted(h, h) = {}
  <2>1. \A i \in DOMAIN before : i \in Int
    BY <1>1
  <2>2. \A i \in DOMAIN before : ~(h < i /\ i <= h)
    BY <2>1
  <2> QED
    BY <2>2 DEF Acted, Matching
<1>3. query.kind \in Counters => Zero(query) = Cardinality({})
  BY FS_EmptySet DEF Zero, Counters
<1>4. query.kind \in Gatherers => Zero(query) = Gathered(query, before, {})
  BY <1>1, GatheredNone
<1>5. query.kind = "DUPLICATE" => Listed(h) = Listed(h) \o Zero(query).sub_keys
  <2>1. Fresh(query, before, h) \in Seq(Rows)
    BY <1>1, FreshRows
  <2>2. Listed(h) \in Seq(Nat)
    <3> DEFINE a == Fresh(query, before, h)
    <3>1. \A i \in 1 .. Len(a) : a[i] \in Rows
      BY <2>1, ElementOfSeq
    <3>2. \A i \in 1 .. Len(a) : a[i].key \in Nat
      BY <3>1 DEF Rows
    <3>3. Len(a) \in Nat /\ DOMAIN a = 1 .. Len(a)
      BY <2>1
    <3> HIDE DEF a
    <3>4. KeysIn(a) \in Seq(Nat)
      BY <3>2, <3>3 DEF KeysIn
    <3> QED
      BY <3>4 DEF Listed, a
  <2>3. query.kind = "DUPLICATE" => Zero(query).sub_keys = <<>>
    BY DEF Zero
  <2> QED
    BY <2>2, <2>3, ConcatEmptySeq
<1>6. CountsKeys(Zero(query))
  BY DEF CountsKeys, Zero
<1> QED
  BY <1>2, <1>3, <1>4, <1>5, <1>6 DEF LocalOf

LEMMA LocalFork ==
  ASSUME DataInv, TurnsInv, Fork
  PROVE  LocalInv'
<1>1. /\ phase = "begun" /\ query' = query /\ before' = before /\ size' = size
      /\ DOMAIN pos' = Ids(size) /\ size >= Split
      /\ \A k \in Ids(size) : pos'[k] = head(size, k) /\ acc'[k] = Zero(query)
  BY DEF Fork, size
<1>2. size \in Nat /\ Len(before) = size
  BY <1>1, QueryTyped, SameRows DEF size
<1>3. ASSUME NEW k \in DOMAIN pos'
      PROVE  LocalOf(acc'[k], head(size, k), pos'[k]) /\ CountsKeys(acc'[k])
  <2>1. head(size, k) \in 0 .. Len(before)
    BY <1>1, <1>2, PartType
  <2> QED
    BY <1>1, <2>1, LocalOfNone
<1> QED
  BY <1>1, <1>3, LocalKept

\* A task of DUPLICATE that was not there to count still lists what it lists.
LEMMA LocalTaskReturns ==
  ASSUME DataInv, TurnsInv, LocalInv, NEW id \in DOMAIN pos, TaskReturns(id)
  PROVE  LocalInv'
<1>1. query' = query /\ before' = before /\ size' = size /\ pos' = pos
  BY TurnsTaskReturns DEF TaskReturns, main
<1>2. CASE acc' = acc
  BY <1>1, <1>2, LocalKept DEF LocalInv
<1>3. CASE query.kind = "DUPLICATE" /\ ~result(query)
  <2>1. PICK g \in Garbage : acc' = [acc EXCEPT ![id] = [@ EXCEPT !.subcounter = g]]
    BY <1>3 DEF TaskReturns
  <2>2. acc[id] \in [subcounter : Int, sub_keys : Seq(KeysOf(table))] /\ DOMAIN acc = DOMAIN pos
    BY <1>3, TaskTyped DEF Locals, Gatherers, Extrema
  <2>3. \A k \in DOMAIN pos : acc'[k].sub_keys = acc[k].sub_keys
    BY <2>1, <2>2
  <2>4. \A k \in DOMAIN pos' : LocalOf(acc'[k], head(size, k), pos'[k])
    BY <1>1, <1>3, <2>3 DEF LocalInv, LocalOf, Counters, Gatherers, Extrema
  <2> QED
    BY <1>1, <1>3, <2>4, LocalKept
<1> QED
  BY <1>2, <1>3 DEF TaskReturns

\* A task that throws leaves what it has as it is.
LEMMA LocalTaskThrows ==
  ASSUME DataInv, TurnsInv, LocalInv, NEW id \in DOMAIN pos, TaskThrows(id)
  PROVE  LocalInv'
<1>1. query' = query /\ before' = before /\ size' = size /\ pos' = pos /\ acc' = acc
  BY TurnsTaskThrows DEF TaskThrows, main
<1> QED
  BY <1>1, LocalKept DEF LocalInv

\* There is nothing to say where there is no task.
LEMMA LocalOfNobody ==
  ASSUME DOMAIN pos' = {}
  PROVE  LocalInv'
BY DEF LocalInv
-------------------------------------------------------------------------------
(* What main and the statics have. *)

\* Where there is no task none has thrown.
LEMMA NobodyThrew ==
  ASSUME TasksInv, phase # "wait"
  PROVE  ~OneThrew
BY DEF TasksInv, OneThrew

\* A turn and a return leave those that have thrown as they are.
LEMMA ThrewKept ==
  ASSUME DataInv, TurnsInv, NEW id \in DOMAIN pos, ScanRow(id) \/ TaskReturns(id)
  PROVE  OneThrew' = OneThrew
<1>1. /\ query' = query /\ size' = size /\ DOMAIN pos' = DOMAIN pos /\ id \notin returned
      /\ returned' = returned \/ (returned' = returned \cup {id} /\ pos' = pos
                                 /\ (result(query) => pos[id] = tail(size, id)))
      /\ \A k \in DOMAIN pos : k # id => pos'[k] = pos[k]
  BY TurnsScanRow, TurnsTaskReturns DEF ScanRow, TaskReturns, main
<1>2. ASSUME NEW k \in DOMAIN pos
      PROVE  Threw(k)' <=> Threw(k)
  BY <1>1 DEF Threw
<1> QED
  BY <1>1, <1>2 DEF OneThrew

LEMMA ResultBegin ==
  ASSUME DataInv, TurnsInv, NEW q \in QuerySet, Refuse(q) \/ Begin(q)
  PROVE  ResultInv'
<1>1. CASE Refuse(q)
  BY <1>1 DEF Refuse, Comes, ResultInv
<1>2. CASE Begin(q)
  <2>1. /\ query' = q /\ before' = table /\ phase' = "begun"
        /\ int_arr' = (IF q.kind \in Gatherers THEN Zero(q) ELSE <<>>)
        /\ found' = (q.kind \notin Extrema /\ found)
    BY <1>2 DEF Begin, Comes
  <2>2. table \in Seq(Rows)
    BY DEF DataInv, RowsInv
  <2>3. Returned' = {} /\ Scanned' = {}
    BY <2>1 DEF Returned, Scanned
  <2>4. q.kind \in Gatherers => int_arr' = Gathered(q, table, {})
    BY <2>1, <2>2, GatheredNone
  <2>5. Gathered(query, before, Returned)' = Gathered(q, table, {})
    BY <2>1, <2>3 DEF Gathered
  <2>6. ~OneThrew'
    BY <1>2 DEF Begin, Comes, tasks, DataInv, TasksInv, OneThrew
  <2> QED
    BY <2>1, <2>3, <2>4, <2>5, <2>6 DEF ResultInv
<1> QED
  BY <1>1, <1>2

\* At first no task has passed a row.
LEMMA NonePassed ==
  ASSUME DataInv, TurnsInv, Fork
  PROVE  Passed' = {}
<1>1. /\ phase = "begun" /\ before' = before /\ pos' = [id \in Ids(size) |-> head(size, id)]
      /\ size' = size
  BY DEF Fork, size
<1>2. table = before /\ table \in Seq(Rows) /\ size \in Nat /\ size >= Split
  BY <1>1, QueryTyped DEF TurnsInv, Fork
<1> SUFFICES ASSUME NEW i \in DOMAIN before, NEW id \in Ids(size), head(size, id) < i,
                    i <= head(size, id)
             PROVE  FALSE
  BY <1>1 DEF Passed
<1>3. i \in Nat /\ head(size, id) \in Nat
  BY <1>2, PartType
<1> QED
  BY <1>3

LEMMA ResultFork ==
  ASSUME DataInv, TurnsInv, ResultInv, Fork
  PROVE  ResultInv'
<1>1. /\ phase = "begun" /\ phase' = "wait" /\ query' = query /\ before' = before
      /\ int_arr' = int_arr /\ found' = found /\ returned' = {}
  BY DEF Fork, statics
<1>2. Returned' = {} /\ Returned = {} /\ Scanned' = {} /\ Scanned = {}
  BY <1>1, NonePassed DEF Returned, Scanned
<1>3. Gathered(query, before, Returned)' = Gathered(query, before, Returned)
  BY <1>1, <1>2 DEF Gathered
<1>4. ~OneThrew /\ ~OneThrew'
  BY <1>1, NobodyThrew DEF DataInv, OneThrew, Threw
<1> QED
  BY <1>1, <1>2, <1>3, <1>4 DEF ResultInv

LEMMA ResultScanRow ==
  ASSUME DataInv, TurnsInv, ResultInv, NEW id \in DOMAIN pos, ScanRow(id)
  PROVE  ResultInv'
<1> DEFINE i == pos[id] + 1
           N == Matching(query, before)
<1>1. /\ query' = query /\ before' = before /\ size' = size /\ result(query)
      /\ phase' = phase /\ int_arr' = int_arr /\ returned' = returned /\ phase = "wait"
      /\ pos[id] < tail(size, id) /\ \A k \in DOMAIN pos : k # id => pos'[k] = pos[k]
      /\ id \notin returned /\ returned \subseteq DOMAIN pos
  BY TurnsScanRow, TaskTyped DEF ScanRow, main, DataInv, TasksInv
<1>2. ASSUME NEW k \in returned
      PROVE  ActedBy(k)' = ActedBy(k)
  BY <1>1 DEF ActedBy, Acted
<1>3. Returned' = Returned
  BY <1>1, <1>2 DEF Returned
<1>4. Passed' = Passed \cup {i}
  BY <1>1, PassedMore
<1>5. i \in DOMAIN before /\ table[i] = before[i] /\ DOMAIN table = DOMAIN before
  BY <1>1, NextRow, SameRows
<1>6. found' = (found \/ (query.kind \in Extrema /\ {i} \cap N # {}))
  <2>1. {i} \cap Matching(query, table) = {i} \cap N
    BY <1>5 DEF Matching
  <2> QED
    BY <2>1 DEF ScanRow, ScanRows
<1>7. query.kind \in Extrema => found = (Passed \cap N # {} \/ OneThrew)
  BY <1>1 DEF ResultInv, Scanned
<1> HIDE DEF i, N
<1>8. query.kind \in Extrema => found' = (Passed' \cap N # {} \/ OneThrew')
  <2>1. Passed' \cap N # {} <=> Passed \cap N # {} \/ {i} \cap N # {}
    BY <1>4
  <2>2. found \in BOOLEAN
    BY DEF DataInv, RowsInv
  <2> QED
    BY <1>6, <1>7, <2>1, <2>2, ThrewKept
<1>9. Gathered(query, before, Returned)' = Gathered(query, before, Returned)
  BY <1>1, <1>3 DEF Gathered
<1>10. (Scanned \cap Matching(query, before))' = Passed' \cap N
  BY <1>1 DEF Scanned, N
<1> QED
  BY <1>1, <1>8, <1>9, <1>10 DEF ResultInv

\* Two tasks act on different rows.
LEMMA ActedApart ==
  ASSUME DataInv, TurnsInv, NEW j \in DOMAIN pos, NEW k \in DOMAIN pos, j # k
  PROVE  ActedBy(j) \cap ActedBy(k) = {}
<1>1. size \in Nat /\ size >= Split /\ DOMAIN pos = Ids(size) /\ DOMAIN before = 1 .. size
  BY TaskTyped, QueryTyped, SameRows DEF DataInv, TasksInv
<1>2. ASSUME NEW m \in DOMAIN pos, NEW i \in ActedBy(m)
      PROVE  i - 1 \in SubTable(size, m)
  <2>1. i \in DOMAIN before /\ head(size, m) < i /\ i <= pos[m]
    BY DEF ActedBy, Acted, Matching
  <2>2. /\ pos[m] \in head(size, m) .. tail(size, m)
        /\ head(size, m) \in Nat /\ tail(size, m) \in Nat
    BY <1>1, TaskTyped, PartType
  <2> QED
    BY <1>1, <2>1, <2>2 DEF SubTable
<1> QED
  BY <1>1, <1>2, SubTablesApart

LEMMA ResultTaskReturns ==
  ASSUME DataInv, TurnsInv, LocalInv, ResultInv, NEW id \in DOMAIN pos, TaskReturns(id)
  PROVE  ResultInv'
<1>1. /\ query' = query /\ before' = before /\ size' = size /\ phase' = phase /\ phase = "wait"
      /\ pos' = pos /\ found' = found /\ id \notin returned /\ returned' = returned \cup {id}
      /\ int_arr' = IF query.kind \in Gatherers THEN Gather(query, int_arr, acc[id]) ELSE int_arr
  BY TurnsTaskReturns, TaskTyped DEF TaskReturns, main
<1>2. query \in QuerySet /\ before \in Seq(Rows) /\ returned \subseteq DOMAIN pos
  BY <1>1, QueryTyped DEF TurnsInv, DataInv, TasksInv
<1>3. Passed' = Passed /\ \A k : ActedBy(k)' = ActedBy(k)
  BY <1>1 DEF Passed, ActedBy, Acted
<1>4. Returned' = Returned \cup ActedBy(id)
  BY <1>1, <1>3 DEF Returned
<1>5. Returned \cap ActedBy(id) = {}
  BY <1>1, <1>2, ActedApart DEF Returned
<1>6. Returned \in SUBSET DOMAIN before /\ ActedBy(id) \in SUBSET DOMAIN before
  BY <1>1 DEF Returned, ActedBy, Acted, Matching
<1>7. query.kind \in Gatherers => int_arr' = Gathered(query, before, Returned')
  <2> HAVE query.kind \in Gatherers
  <2>1. int_arr = Gathered(query, before, Returned)
    BY <1>1 DEF ResultInv
  <2>2. acc[id] = Gathered(query, before, ActedBy(id))
    BY DEF LocalInv, LocalOf, ActedBy
  <2>3. Returned \cup ActedBy(id) = {} \/ NoField \notin ToSet(query.ops)
    <3>1. CASE LooksUpNoField
      <4>1. Passed \cap Matching(query, before) = {}
        BY <1>1, <3>1 DEF TurnsInv, StopInv
      <4>2. \A k \in DOMAIN pos : ActedBy(k) \subseteq Passed \cap Matching(query, before)
        BY DEF ActedBy, Acted, Passed, Matching
      <4>3. Returned = UNION {ActedBy(k) : k \in returned}
        BY <1>1 DEF Returned
      <4> QED
        BY <1>2, <4>1, <4>2, <4>3
    <3>2. CASE ~LooksUpNoField
      BY <3>2 DEF LooksUpNoField, Gatherers, Extrema
    <3> QED
      BY <3>1, <3>2
  <2>4. Gather(query, Gathered(query, before, Returned), Gathered(query, before, ActedBy(id)))
          = Gathered(query, before, Returned \cup ActedBy(id))
    BY <1>2, <1>5, <1>6, <2>3, GatherUnion
  <2> QED
    BY <1>1, <1>4, <2>1, <2>2, <2>4
<1>8. Gathered(query, before, Returned)' = Gathered(query, before, Returned')
  BY <1>1 DEF Gathered
<1>9. (Scanned \cap Matching(query, before))' = Scanned \cap Matching(query, before)
  BY <1>1, <1>3 DEF Scanned
<1>10. OneThrew' = OneThrew
  BY ThrewKept
<1> QED
  BY <1>1, <1>7, <1>8, <1>9, <1>10 DEF ResultInv

\* The task had not acted on any row, and sets no more than the flag.
LEMMA ResultTaskThrows ==
  ASSUME DataInv, TurnsInv, ResultInv, NEW id \in DOMAIN pos, TaskThrows(id)
  PROVE  ResultInv'
<1>1. /\ query' = query /\ before' = before /\ size' = size /\ phase' = phase /\ phase = "wait"
      /\ pos' = pos /\ found' = (found \/ query.kind \in Extrema) /\ int_arr' = int_arr
      /\ returned' = returned \cup {id} /\ result(query) /\ pos[id] < tail(size, id)
      /\ LooksUpNoField /\ returned \subseteq DOMAIN pos
  BY TurnsTaskThrows, TaskTyped DEF TaskThrows, main, DataInv, TasksInv
<1>2. \A k : ActedBy(k)' = ActedBy(k)
  BY <1>1 DEF ActedBy, Acted
<1>3. \A k \in DOMAIN pos : ActedBy(k) = {}
  <2>1. Passed \cap Matching(query, before) = {}
    BY <1>1 DEF TurnsInv, StopInv
  <2> QED
    BY <2>1 DEF ActedBy, Acted, Passed, Matching
<1>4. Returned' = Returned
  BY <1>1, <1>2, <1>3 DEF Returned
<1>5. Gathered(query, before, Returned)' = Gathered(query, before, Returned)
  BY <1>1, <1>4 DEF Gathered
<1>6. OneThrew'
  <2>1. pos[id] # tail(size, id)
    <3>1. size \in Nat /\ size >= Split /\ id \in Ids(size)
      BY TaskTyped, QueryTyped
    <3>2. tail(size, id) \in Nat /\ pos[id] \in head(size, id) .. tail(size, id)
      BY <3>1, TaskTyped, PartType
    <3> QED
      BY <1>1, <3>2
  <2> QED
    BY <1>1, <2>1 DEF OneThrew, Threw
<1>7. query.kind \in Extrema => found' = TRUE
  BY <1>1
<1> QED
  BY <1>1, <1>5, <1>6, <1>7 DEF ResultInv

\* All rows are the rows from the first to the last; of none nothing is listed.
LEMMA AllActed ==
  ASSUME before \in Seq(Rows)
  PROVE  Acted(0, Len(before)) = Matching(query, before) /\ Listed(0) = <<>>
<1>1. \A i \in DOMAIN before : 0 < i /\ i <= Len(before)
  OBVIOUS
<1>2. Acted(0, Len(before)) = Matching(query, before)
  BY <1>1 DEF Acted, Matching
<1>3. Listed(0) = <<>>
  BY FreshZero DEF Listed, KeysIn
<1> QED
  BY <1>2, <1>3

\* What the sequential branch has after its last row.
LEMMA SequentialResult ==
  ASSUME ValuesFit, DataInv, TurnsInv, Sequential
  PROVE  \E all \in Locals(query, KeysOf(table)) :
           /\ LocalOf(all, 0, Len(before)) /\ CountsKeys(all)
           /\ counter' = CASE query.kind \in Counters -> all
                           [] query.kind = "DUPLICATE" -> all.subcounter
                           [] OTHER -> 0
           /\ keys' = IF query.kind = "DUPLICATE" THEN all.sub_keys ELSE <<>>
           /\ int_arr' = IF query.kind \in Gatherers THEN all ELSE int_arr
<1> DEFINE N == Matching(query, before)
           L == Locals(query, KeysOf(table))
           turns == [i \in DOMAIN table |-> [a \in L |->
                       IF i \in N THEN Take(query, a, table[i]) ELSE a]]
           all == Loop(Zero(query), turns)
<1>1. phase = "begun" /\ table = before /\ (N # {} => ~LooksUpNoField)
  BY DEF Sequential, TurnsInv
<1>2. /\ query \in QuerySet /\ table \in Seq(Rows) /\ size \in Nat /\ DOMAIN table = 1 .. size
      /\ Len(before) = size
  BY <1>1, QueryTyped DEF size
<1>3. ASSUME NEW i \in 1 .. size, NEW a \in L
      PROVE  (IF i \in N THEN Take(query, a, table[i]) ELSE a) \in L
  <2>1. CASE i \in N
    <3>1. table[i] \in Rows /\ table[i].key \in KeysOf(table)
      BY <1>2 DEF KeysOf
    <3>2. NoField \notin ToSet(query.ops) \/ query.kind = "SELECT"
      BY <1>1, <2>1 DEF LooksUpNoField
    <3>3. Take(query, a, table[i]) \in L
      BY <1>2, <3>1, <3>2, TakeType
    <3> QED
      BY <2>1, <3>3
  <2> QED
    BY <2>1
<1>4. Zero(query) \in L
  BY <1>2, ZeroType
<1>5. /\ counter' = CASE query.kind \in Counters -> all
                      [] query.kind = "DUPLICATE" -> all.subcounter
                      [] OTHER -> 0
      /\ keys' = IF query.kind = "DUPLICATE" THEN all.sub_keys ELSE <<>>
      /\ int_arr' = IF query.kind \in Gatherers THEN all ELSE int_arr
  BY <1>1 DEF Sequential
<1> HIDE DEF L, N
<1>6. turns \in [1 .. size -> [L -> L]]
  BY <1>2, <1>3
<1>7. \A i \in 1 .. size : \A a \in L :
        turns[i][a] = IF i \in N THEN Take(query, a, before[i]) ELSE a
  BY <1>1, <1>2
<1> HIDE DEF turns
<1>8. PICK f : Recurs(f, size, L, Zero(query), turns) /\ Loop(Zero(query), turns) = f[size]
  <2>1. size \in Nat
    BY <1>2
  <2> HIDE DEF all
  <2> QED
    BY ONLY <1>4, <1>6, <2>1, LoopDef, Zenon
<1> DEFINE A == {i \in Nat : i \in 0 .. size => LocalOf(f[i], 0, i) /\ CountsKeys(f[i])}
<1>9. 0 \in A
  <2>1. 0 \in 0 .. Len(before) /\ f[0] = Zero(query)
    BY <1>2, <1>8 DEF Recurs
  <2> QED
    BY <1>1, <2>1, LocalOfNone
<1>10. ASSUME NEW i \in Nat, i \in A
       PROVE  i + 1 \in A
  <2> SUFFICES ASSUME i + 1 \in 0 .. size PROVE LocalOf(f[i + 1], 0, i + 1) /\ CountsKeys(f[i + 1])
    OBVIOUS
  <2>1. i \in 0 .. size /\ i + 1 \in 1 .. size /\ (i + 1) - 1 = i
    BY <1>2
  <2>2. f[i] \in L /\ f[i + 1] = turns[i + 1][f[i]]
    BY <1>8, <2>1 DEF Recurs
  <2>3. f[i + 1] = IF i + 1 \in N THEN Take(query, f[i], before[i + 1]) ELSE f[i]
    BY <1>7, <2>1, <2>2
  <2>4. LocalOf(f[i], 0, i) /\ CountsKeys(f[i])
    BY <1>10, <2>1
  <2>5. i + 1 \in DOMAIN before /\ 0 \in Nat /\ 0 <= i
    BY <1>1, <1>2, <2>1
  <2> QED
    BY <1>1, <2>2, <2>3, <2>4, <2>5, LocalOfMore DEF L, N
<1> HIDE DEF A
<1>11. \A i \in Nat : i \in A
  BY <1>9, <1>10, NatSetInduction
<1>12. all \in L /\ LocalOf(all, 0, size) /\ CountsKeys(all)
  <2>1. size \in A /\ size \in 0 .. size
    BY <1>2, <1>11
  <2> QED
    BY <1>8, <2>1 DEF A, Recurs
<1> HIDE DEF all
<1> QED
  BY <1>2, <1>5, <1>12 DEF L

LEMMA ResultSequential ==
  ASSUME ValuesFit, DataInv, TurnsInv, ResultInv, Sequential
  PROVE  ResultInv'
<1> DEFINE N == Matching(query, before)
<1>1. /\ phase = "begun" /\ phase' = "answer" /\ query' = query /\ before' = before
      /\ table = before /\ ScanRows(N)
  BY DEF Sequential, TurnsInv
<1>2. query \in QuerySet /\ before \in Seq(Rows)
  BY <1>1, QueryTyped DEF TurnsInv
<1>3. PICK all \in Locals(query, KeysOf(table)) :
           /\ LocalOf(all, 0, Len(before)) /\ CountsKeys(all)
           /\ counter' = CASE query.kind \in Counters -> all
                           [] query.kind = "DUPLICATE" -> all.subcounter
                           [] OTHER -> 0
           /\ keys' = IF query.kind = "DUPLICATE" THEN all.sub_keys ELSE <<>>
           /\ int_arr' = IF query.kind \in Gatherers THEN all ELSE int_arr
  BY SequentialResult
<1>4. Acted(0, Len(before)) = N /\ Listed(0) = <<>>
  BY <1>2, AllActed
<1>5. query.kind \in Counters => counter' = Cardinality(N)
  BY <1>3, <1>4 DEF LocalOf, Counters
<1>6. query.kind \in Gatherers => int_arr' = Gathered(query, before, N)
  BY <1>3, <1>4 DEF LocalOf
<1>7. query.kind = "DUPLICATE" => keys' = Listed(Len(before))
  <2> HAVE query.kind = "DUPLICATE"
  <2>1. keys' = all.sub_keys /\ Listed(Len(before)) = <<>> \o all.sub_keys
    BY <1>3, <1>4 DEF LocalOf
  <2>2. all \in [subcounter : Int, sub_keys : Seq(KeysOf(table))]
    BY DEF Locals, Gatherers, Extrema
  <2>3. all.sub_keys \in Seq(KeysOf(table))
    BY <2>2
  <2> QED
    BY <2>1, <2>3, ConcatEmptySeq
<1>8. query.kind \in Extrema => found' = (N # {})
  <2> HAVE query.kind \in Extrema
  <2>1. found = FALSE
    BY <1>1, NobodyThrew DEF ResultInv, Scanned, DataInv
  <2> QED
    BY <1>1, <2>1 DEF ScanRows
<1>9. Gathered(query, before, Returned)' = Gathered(query, before, N)
  <2>1. Returned' = N
    BY <1>1 DEF Returned
  <2> QED
    BY <1>1, <2>1 DEF Gathered
<1>10. (Scanned \cap Matching(query, before))' = N
  BY <1>1 DEF Scanned, Matching
<1>11. Listed(Len(before))' = Listed(Len(before))
  BY <1>1 DEF Listed
<1>12. Matching(query, before)' = N
  BY <1>1
<1>13. ~OneThrew'
  BY <1>1 DEF Sequential, tasks, DataInv, TasksInv, OneThrew
<1> HIDE DEF N
<1> QED
  BY <1>1, <1>5, <1>6, <1>7, <1>8, <1>9, <1>10, <1>11, <1>12, <1>13 DEF ResultInv

\* The parts follow one another, from the first row to the last.
LEMMA PartsFollow ==
  ASSUME NEW n \in Nat, n >= Split
  PROVE  \E e \in [0 .. total_thread(n) -> 0 .. n] :
           /\ e[0] = 0 /\ e[total_thread(n)] = n
           /\ \A i \in 1 .. total_thread(n) :
                i - 1 \in Ids(n) /\ head(n, i - 1) = e[i - 1] /\ tail(n, i - 1) = e[i]
<1> DEFINE T == total_thread(n)
           s == subtable_num(n)
           e == [i \in 0 .. T |-> IF i = T THEN n ELSE i * s]
<1>1. T \in Nat /\ T >= 2 /\ s \in Nat /\ s >= 1 /\ T * s <= n
  BY Division
<1>2. ASSUME NEW i \in 0 .. T - 1
      PROVE  i \in Ids(n) /\ head(n, i) = i * s /\ i * s \in 0 .. n /\ e[i] = i * s
  <2>1. i \in Ids(n)
    BY <1>1, <1>2 DEF Ids
  <2>2. head(n, i) = i * s
    BY DEF head
  <2>3. head(n, i) \in 0 .. n
    BY <2>1, PartType
  <2>4. e[i] = i * s
    BY <1>1
  <2> QED
    BY <2>1, <2>2, <2>3, <2>4
<1>3. e \in [0 .. T -> 0 .. n]
  <2>1. \A i \in 0 .. T : i # T => i \in 0 .. T - 1
    BY <1>1
  <2>2. ASSUME NEW i \in 0 .. T
        PROVE  e[i] \in 0 .. n
    <3>1. CASE i = T
      BY <3>1
    <3>2. CASE i # T
      BY <1>2, <2>1, <3>2
    <3> QED
      BY <3>1, <3>2
  <2> QED
    BY <2>2
<1>4. e[0] = 0 /\ e[T] = n
  <2>1. 0 \in 0 .. T /\ T \in 0 .. T /\ 0 # T
    BY <1>1
  <2>2. 0 * s = 0
    <3> HIDE DEF s
    <3> QED
      BY <1>1
  <2> QED
    BY <2>1, <2>2
<1>5. ASSUME NEW i \in 1 .. T
      PROVE  i - 1 \in Ids(n) /\ head(n, i - 1) = e[i - 1] /\ tail(n, i - 1) = e[i]
  <2>1. i - 1 \in 0 .. T - 1
    BY <1>1
  <2>2. i - 1 \in Ids(n) /\ head(n, i - 1) = (i - 1) * s /\ e[i - 1] = (i - 1) * s
    BY <1>2, <2>1
  <2>3. (i - 1) * s + s = i * s
    <3> HIDE DEF T, s
    <3>1. i \in Int
      BY <1>1
    <3> QED
      BY <1>1, <3>1, SMT
  <2>4. tail(n, i - 1) = IF i = T THEN n ELSE i * s
    <3>1. i - 1 = T - 1 <=> i = T
      BY <1>1
    <3> QED
      BY <2>2, <2>3, <3>1 DEF tail
  <2>5. e[i] = IF i = T THEN n ELSE i * s
    BY <1>1
  <2> QED
    BY <2>2, <2>4, <2>5
<1> HIDE DEF e
<1> QED
  BY <1>3, <1>4, <1>5

\* The rows two parts act on, one after the other.
LEMMA ActedJoin ==
  ASSUME before \in Seq(Rows), NEW a \in Nat, NEW b \in Nat, a <= b
  PROVE  /\ Cardinality(Acted(0, b)) = Cardinality(Acted(0, a)) + Cardinality(Acted(a, b))
         /\ Cardinality(Acted(0, a)) \in Nat /\ Cardinality(Acted(a, b)) \in Nat
<1>1. /\ Acted(0, a) \in SUBSET DOMAIN before /\ Acted(a, b) \in SUBSET DOMAIN before
      /\ Acted(0, b) \in SUBSET DOMAIN before
  BY DEF Acted, Matching
<1>2. \A i \in DOMAIN before : i \in Nat
  OBVIOUS
<1>3. Acted(0, b) = Acted(0, a) \cup Acted(a, b) /\ Acted(0, a) \cap Acted(a, b) = {}
  <2>1. \A i \in Matching(query, before) : i \in Nat
    BY <1>2 DEF Matching
  <2>2. \A i \in Matching(query, before) : 0 < i /\ i <= b <=> (0 < i /\ i <= a) \/ (a < i /\ i <= b)
    BY <2>1
  <2>3. \A i \in Matching(query, before) : ~(i <= a /\ a < i)
    BY <2>1
  <2> QED
    BY <2>2, <2>3 DEF Acted
<1>4. /\ IsFiniteSet(Acted(0, a)) /\ IsFiniteSet(Acted(a, b))
      /\ Cardinality(Acted(0, a)) \in Nat /\ Cardinality(Acted(a, b)) \in Nat
  BY <1>1, RowsAreFinite
<1>5. Cardinality(Acted(0, a) \cup Acted(a, b))
        = Cardinality(Acted(0, a)) + Cardinality(Acted(a, b)) - Cardinality({})
  BY <1>3, <1>4, FS_Union
<1>6. Cardinality({}) = 0
  BY FS_EmptySet
<1>7. Cardinality(Acted(0, b)) = Cardinality(Acted(0, a)) + Cardinality(Acted(a, b))
  <2> DEFINE x == Acted(0, a)
             y == Acted(a, b)
             z == Acted(0, b)
  <2>1. z = x \cup y /\ x \cap y = {}
    BY <1>3
  <2>2. Cardinality(x \cup y) = Cardinality(x) + Cardinality(y) - Cardinality({})
    BY <1>5
  <2>3. Cardinality(x) \in Nat /\ Cardinality(y) \in Nat
    BY <1>4
  <2> HIDE DEF x, y, z
  <2>4. Cardinality(z) = Cardinality(x) + Cardinality(y)
    BY ONLY <1>6, <2>1, <2>2, <2>3
  <2> QED
    BY <2>4 DEF x, y, z
<1> QED
  BY <1>4, <1>7

\* Where no row satisfies the condition DUPLICATE lists nothing.
LEMMA NothingListed ==
  ASSUME before \in Seq(Rows), Meant(query, before) = {}, NEW n \in 0 .. Len(before)
  PROVE  Listed(n) = <<>>
<1> DEFINE a == Fresh(query, before, n)
<1>1. a \in Seq(Rows) /\ \A i \in DOMAIN a : FALSE
  <2>1. Copied(query, before) = {}
    BY DEF Copied
  <2> QED
    BY <2>1, FreshRows
<1>2. Listed(n) = KeysIn(a)
  BY DEF Listed
<1> HIDE DEF a
<1>3. a = <<>>
  <2> SUFFICES ASSUME a # <<>> PROVE FALSE
    OBVIOUS
  <2>1. Len(a) \in Nat \ {0}
    BY <1>1, EmptySeq
  <2>2. 1 \in DOMAIN a
    BY <1>1, <2>1
  <2> QED
    BY <1>1, <2>2
<1> QED
  BY <1>2, <1>3 DEF KeysIn

\* When all tasks have returned each has the result of its part.
LEMMA WholeParts ==
  ASSUME ValuesFit, DataInv, TurnsInv, LocalInv, phase = "wait", NoneThrew,
         NEW id \in Ids(size)
  PROVE  LocalOf(acc[id], head(size, id), tail(size, id))
<1>1. /\ size >= Split /\ DOMAIN pos = Ids(size) /\ size \in Nat /\ Len(before) = size
      /\ query \in QuerySet /\ ~Refused(query) /\ before \in Seq(Rows)
  <2>1. size >= Split /\ DOMAIN pos = Ids(size)
    BY DEF DataInv, TasksInv
  <2>2. Len(before) = size
    BY SameRows DEF size
  <2> QED
    BY <2>1, <2>2, QueryTyped DEF TurnsInv
<1>2. LocalOf(acc[id], head(size, id), pos[id])
  BY <1>1 DEF LocalInv
<1>3. CASE result(query)
  BY <1>1, <1>2, <1>3 DEF NoneThrew, OneThrew, Threw
<1>4. CASE ~result(query)
  <2>1. Matching(query, before) = {}
    BY <1>4 DEF Matching
  <2>2. \A h, n : Acted(h, n) = {}
    BY <2>1 DEF Acted
  <2>3. Meant(query, before) = {}
    BY <1>1, <2>1, MatchingIsMeant DEF Refused
  <2>4. pos[id] \in 0 .. Len(before) /\ tail(size, id) \in 0 .. Len(before)
    <3>1. pos[id] \in head(size, id) .. tail(size, id)
      BY <1>1, TaskTyped
    <3> QED
      BY <1>1, <3>1, PartType
  <2>5. Listed(pos[id]) = Listed(tail(size, id))
    BY <1>1, <2>3, <2>4, NothingListed
  <2> QED
    BY <1>2, <2>2, <2>5 DEF LocalOf
<1> QED
  BY <1>3, <1>4

\* What main finds when it has waited for all tasks.
LEMMA JoinTyped ==
  ASSUME DataInv, TurnsInv, Join
  PROVE  /\ phase = "wait" /\ NoneThrew /\ returned = Ids(size) /\ DOMAIN pos = Ids(size)
         /\ size \in Nat /\ size >= Split /\ Len(before) = size /\ before \in Seq(Rows)
         /\ query \in QuerySet /\ total_thread(size) \in Nat /\ total_thread(size) # 0
<1>1. phase = "wait" /\ NoneThrew /\ returned = Ids(size)
  BY DEF Join, NoneThrew
<1>2. DOMAIN pos = Ids(size) /\ size >= Split
  BY <1>1 DEF DataInv, TasksInv
<1>3. size \in Nat /\ query \in QuerySet
  BY <1>1, QueryTyped
<1>4. Len(before) = size
  BY <1>1, SameRows DEF size
<1>5. total_thread(size) \in Nat /\ total_thread(size) # 0
  BY <1>2, <1>3, Division
<1> QED
  BY <1>1, <1>2, <1>3, <1>4, <1>5 DEF TurnsInv

\* Main adds the counts up.
LEMMA JoinCounts ==
  ASSUME ValuesFit, DataInv, TurnsInv, LocalInv, Join, query.kind \in Counters
  PROVE  counter' = Cardinality(Matching(query, before))
<1> DEFINE T == total_thread(size)
           turns == [i \in 1 .. T |-> [s \in Int |-> s + acc[i - 1]]]
<1>1. /\ phase = "wait" /\ NoneThrew /\ DOMAIN pos = Ids(size)
      /\ size \in Nat /\ size >= Split /\ Len(before) = size /\ before \in Seq(Rows) /\ T \in Nat
  BY JoinTyped
<1>2. PICK e \in [0 .. T -> 0 .. size] :
           /\ e[0] = 0 /\ e[T] = size
           /\ \A i \in 1 .. T :
                i - 1 \in Ids(size) /\ head(size, i - 1) = e[i - 1] /\ tail(size, i - 1) = e[i]
  BY <1>1, PartsFollow
<1>3. counter' = Loop(0, turns)
  BY DEF Join, Counters
<1> HIDE DEF T
<1>4. ASSUME NEW i \in 1 .. T
      PROVE  /\ acc[i - 1] = Cardinality(Acted(e[i - 1], e[i]))
             /\ Cardinality(Acted(0, e[i])) = Cardinality(Acted(0, e[i - 1])) + acc[i - 1]
             /\ acc[i - 1] \in Nat /\ Cardinality(Acted(0, e[i - 1])) \in Nat
  <2>1. i - 1 \in 0 .. T /\ i \in 0 .. T
    BY <1>1
  <2>2. LocalOf(acc[i - 1], e[i - 1], e[i])
    BY <1>1, <1>2, WholeParts
  <2>3. acc[i - 1] = Cardinality(Acted(e[i - 1], e[i]))
    BY <2>2 DEF LocalOf
  <2>4. e[i - 1] \in Nat /\ e[i] \in Nat
    BY <1>1, <1>2, <2>1
  <2>5. e[i - 1] <= e[i]
    BY <1>1, <1>2, PartType
  <2> QED
    BY <1>1, <2>3, <2>4, <2>5, ActedJoin
<1>5. turns \in [1 .. T -> [Int -> Int]]
  <2>1. \A i \in 1 .. T : acc[i - 1] \in Int
    BY <1>4
  <2> QED
    BY <2>1
<1>6. \A i \in 1 .. T : \A s \in Int : turns[i][s] = s + acc[i - 1]
  OBVIOUS
<1> HIDE DEF turns
<1>7. PICK f : Recurs(f, T, Int, 0, turns) /\ Loop(0, turns) = f[T]
  <2>1. 0 \in Int
    OBVIOUS
  <2>2. T \in Nat
    BY <1>1
  <2> QED
    BY ONLY <1>5, <2>1, <2>2, LoopDef, Zenon
<1> DEFINE A == {i \in Nat : i \in 0 .. T => f[i] = Cardinality(Acted(0, e[i]))}
<1>8. 0 \in A
  <2>1. Acted(0, 0) = {}
    <3>1. \A i \in DOMAIN before : ~(0 < i /\ i <= 0)
      BY <1>1
    <3> QED
      BY <3>1 DEF Acted, Matching
  <2> QED
    BY <1>2, <1>7, <2>1, FS_EmptySet DEF Recurs
<1>9. ASSUME NEW i \in Nat, i \in A
      PROVE  i + 1 \in A
  <2> SUFFICES ASSUME i + 1 \in 0 .. T PROVE f[i + 1] = Cardinality(Acted(0, e[i + 1]))
    OBVIOUS
  <2>1. i \in 0 .. T /\ i + 1 \in 1 .. T /\ (i + 1) - 1 = i
    BY <1>1
  <2>2. f[i] = Cardinality(Acted(0, e[i]))
    BY <1>9, <2>1
  <2>3. f[i] \in Int /\ f[i + 1] = turns[i + 1][f[i]]
    BY <1>7, <2>1 DEF Recurs
  <2>4. f[i + 1] = f[i] + acc[i]
    BY <1>6, <2>1, <2>3
  <2>5. Cardinality(Acted(0, e[i + 1])) = Cardinality(Acted(0, e[i])) + acc[i]
    BY <1>4, <2>1
  <2> QED
    BY ONLY <2>2, <2>4, <2>5
<1> HIDE DEF A
<1>10. \A i \in Nat : i \in A
  BY <1>8, <1>9, NatSetInduction
<1>11. f[T] = Cardinality(Acted(0, size))
  <2>1. T \in 0 .. T
    BY <1>1
  <2> QED
    BY <1>1, <1>2, <1>10, <2>1 DEF A
<1> QED
  BY <1>1, <1>3, <1>7, <1>11, AllActed

\* Main puts the lists together.
LEMMA JoinLists ==
  ASSUME ValuesFit, DataInv, TurnsInv, LocalInv, Join, query.kind = "DUPLICATE"
  PROVE  keys' = Listed(Len(before))
<1> DEFINE T == total_thread(size)
           lists == [i \in 1 .. T |-> acc[i - 1].sub_keys]
<1>1. /\ phase = "wait" /\ NoneThrew /\ DOMAIN pos = Ids(size)
      /\ size \in Nat /\ size >= Split /\ Len(before) = size /\ before \in Seq(Rows)
      /\ T \in Nat /\ T # 0
  BY JoinTyped
<1>2. PICK e \in [0 .. T -> 0 .. size] :
           /\ e[0] = 0 /\ e[T] = size
           /\ \A i \in 1 .. T :
                i - 1 \in Ids(size) /\ head(size, i - 1) = e[i - 1] /\ tail(size, i - 1) = e[i]
  BY <1>1, PartsFollow
<1>3. keys' = FlattenSeq(lists)
  BY DEF Join
<1> HIDE DEF T
<1>4. ASSUME NEW i \in 1 .. T
      PROVE  /\ acc[i - 1].sub_keys \in Seq(Nat)
             /\ Listed(e[i]) = Listed(e[i - 1]) \o acc[i - 1].sub_keys
  <2>1. LocalOf(acc[i - 1], e[i - 1], e[i])
    BY <1>1, <1>2, WholeParts
  <2>2. acc[i - 1] \in [subcounter : Int, sub_keys : Seq(KeysOf(table))]
    <3>1. i - 1 \in DOMAIN pos
      BY <1>1, <1>2
    <3> QED
      BY <3>1, TaskTyped DEF Locals, Gatherers, Extrema
  <2>3. acc[i - 1].sub_keys \in Seq(KeysOf(table)) /\ table \in Seq(Rows)
    BY <1>1, <2>2, QueryTyped
  <2>4. acc[i - 1].sub_keys \in Seq(Nat)
    BY <2>3, KeysAreNumbers
  <2> QED
    BY <2>1, <2>4 DEF LocalOf
<1>5. lists \in Seq(Seq(Nat)) /\ Len(lists) = T
  <2>1. T \in Nat
    BY <1>1
  <2>2. \A i \in 1 .. T : acc[i - 1].sub_keys \in Seq(Nat)
    BY <1>4
  <2>3. lists \in [1 .. T -> Seq(Nat)]
    BY <2>2
  <2> HIDE DEF lists
  <2> QED
    BY ONLY <2>1, <2>3
<1>6. \A i \in 1 .. T : lists[i] = acc[i - 1].sub_keys
  OBVIOUS
<1> HIDE DEF lists
<1>7. PICK F : Concatenates(F, T, lists, Seq(Nat)) /\ FlattenSeq(lists) = F[T]
  BY <1>1, <1>5, FlattenSeqDef
<1> DEFINE A == {i \in Nat : i \in 1 .. T => F[i] = Listed(e[i])}
<1>8. 0 \in A
  OBVIOUS
<1>9. ASSUME NEW i \in Nat, i \in A
      PROVE  i + 1 \in A
  <2> SUFFICES ASSUME i + 1 \in 1 .. T PROVE F[i + 1] = Listed(e[i + 1])
    OBVIOUS
  <2>1. (i + 1) - 1 = i
    OBVIOUS
  <2>2. Listed(e[i + 1]) = Listed(e[i]) \o lists[i + 1] /\ lists[i + 1] \in Seq(Nat)
    BY <1>4, <1>6, <2>1
  <2>3. CASE i = 0
    <3>1. F[1] = lists[1]
      BY <1>7 DEF Concatenates
    <3>2. Listed(e[0]) = <<>>
      BY <1>1, <1>2, AllActed
    <3>3. i + 1 = 1
      BY <2>3
    <3>4. <<>> \o lists[1] = lists[1]
      BY <2>2, <3>3, ConcatEmptySeq
    <3> QED
      BY <2>2, <2>3, <3>1, <3>2, <3>3, <3>4
  <2>4. CASE i # 0
    <3>1. i \in 1 .. T /\ i + 1 \in 2 .. T
      BY <1>1, <2>4
    <3>2. F[i + 1] = F[i] \o lists[i + 1]
      BY <1>7, <2>1, <3>1 DEF Concatenates
    <3>3. F[i] = Listed(e[i])
      BY <1>9, <3>1
    <3> QED
      BY ONLY <2>2, <3>2, <3>3
  <2> QED
    BY <2>3, <2>4
<1> HIDE DEF A
<1>10. \A i \in Nat : i \in A
  BY <1>8, <1>9, NatSetInduction
<1>11. F[T] = Listed(size)
  <2>1. T \in 1 .. T
    BY <1>1
  <2> QED
    BY <1>1, <1>2, <1>10, <2>1 DEF A
<1> QED
  BY <1>1, <1>3, <1>7, <1>11

\* When main goes on every row that satisfies the condition has been passed.
LEMMA AllScanned ==
  ASSUME DataInv, TurnsInv, Join
  PROVE  Passed \cap Matching(query, before) = Matching(query, before)
<1>1. phase = "wait" /\ NoneThrew
  BY JoinTyped
<1>2. CASE result(query)
  <2>1. Passed = DOMAIN before
    BY <1>1, <1>2, AllPassed
  <2> QED
    BY <2>1 DEF Matching
<1>3. CASE ~result(query)
  BY <1>3 DEF Matching
<1> QED
  BY <1>2, <1>3

LEMMA ResultJoin ==
  ASSUME ValuesFit, DataInv, TurnsInv, LocalInv, ResultInv, Join
  PROVE  ResultInv'
<1> DEFINE N == Matching(query, before)
<1>1. /\ phase = "wait" /\ phase' = "answer" /\ query' = query /\ before' = before
      /\ returned = Ids(size) /\ int_arr' = int_arr /\ found' = found /\ DOMAIN pos = Ids(size)
      /\ ~OneThrew /\ ~OneThrew'
  BY JoinTyped DEF Join, statics, OneThrew, NoRows
<1>2. Passed \cap N = N
  BY AllScanned
<1>3. Returned = N
  <2>1. Returned = UNION {ActedBy(id) : id \in DOMAIN pos}
    BY <1>1 DEF Returned
  <2>2. UNION {ActedBy(id) : id \in DOMAIN pos} = Passed \cap N
    BY DEF Passed, ActedBy, Acted, Matching
  <2> QED
    BY <1>2, <2>1, <2>2
<1>4. Returned' = N /\ (Scanned \cap Matching(query, before))' = N
  <2>1. (Scanned \cap Matching(query, before))' = DOMAIN before \cap N
    BY <1>1 DEF Scanned
  <2> QED
    BY <1>1, <2>1 DEF Returned, Matching
<1>5. query.kind \in Gatherers => int_arr' = Gathered(query, before, N)
  BY <1>1, <1>3 DEF ResultInv
<1>6. Gathered(query, before, Returned)' = Gathered(query, before, N)
  BY <1>1, <1>4 DEF Gathered
<1>7. query.kind \in Extrema => found' = (N # {})
  <2>1. Scanned = Passed
    BY <1>1 DEF Scanned
  <2> QED
    BY <1>1, <1>2, <2>1 DEF ResultInv
<1>8. query.kind \in Counters => counter' = Cardinality(N)
  BY JoinCounts
<1>9. query.kind = "DUPLICATE" => keys' = Listed(Len(before))
  BY JoinLists
<1>10. Listed(Len(before))' = Listed(Len(before)) /\ Matching(query, before)' = N
  BY <1>1 DEF Listed
<1> HIDE DEF N
<1> QED
  BY <1>1, <1>4, <1>5, <1>6, <1>7, <1>8, <1>9, <1>10 DEF ResultInv
-------------------------------------------------------------------------------
(* The table a query leaves. *)

\* DUPLICATE leaves the rows as they are, and their copies after them.
LEMMA DuplicateAfter ==
  ASSUME NEW q \in QuerySet, ~Refused(q), NEW t \in Seq(Rows), q.kind = "DUPLICATE",
         Meant(q, t) = {} \/ NoField \notin ToSet(q.ops)
  PROVE  LET copies == Fresh(q, t, Len(t))
         IN TableAfter(q, t) = t \o [i \in DOMAIN copies |-> [copies[i] EXCEPT !.key = @ + 1]]
<1> DEFINE M == Meant(q, t)
           new == [i \in DOMAIN t |-> [t[i] EXCEPT !.f = [k \in DOMAIN @ |->
                     IF i \in M THEN Written(q, t[i], k) ELSE @[k]]]]
           copies == Fresh(q, t, Len(t))
           added == [i \in DOMAIN copies |-> [copies[i] EXCEPT !.key = @ + 1]]
<1>1. Promise(q, t) # <<"error">>
  <2>1. Promise(q, t) = Value(q, t, M)
    BY PromiseOfValue
  <2>2. Value(q, t, M) = <<"count", Len(Fresh(q, t, Len(t)))>>
    BY DEF Value, Counters, Extrema
  <2> QED
    BY <2>1, <2>2
<1>2. new = t
  <2>1. new = [i \in DOMAIN t |-> IF i \in M THEN Change(q, t[i]) ELSE t[i]]
    BY RowsAfter
  <2>2. \A row : Change(q, row) = row
    BY DEF Change
  <2>3. new = [i \in DOMAIN t |-> t[i]]
    BY <2>1, <2>2
  <2>4. t = [i \in DOMAIN t |-> t[i]]
    OBVIOUS
  <2> HIDE DEF new
  <2> QED
    BY <2>3, <2>4
<1>3. TableAfter(q, t) = new \o added
  BY <1>1 DEF TableAfter
<1> HIDE DEF new
<1> QED
  BY <1>2, <1>3

\* What DUPLICATE inserts are the copies it promises, and no two rows of the
\* table have the same key then.
LEMMA CopiesInserted ==
  ASSUME ValuesFit, DataInv, TurnsInv, ResultInv, AnswerDuplicate
  PROVE  table' = TableAfter(query, before) /\ KeysDiffer(table')
<1> DEFINE Row(k) == CHOOSE row \in ToSet(table) : row.key = k
           fresh == Fresh(query, before, Len(before))
           copies == [i \in DOMAIN keys |-> [Row(keys[i]) EXCEPT !.key = @ + 1]]
           added == [i \in DOMAIN fresh |-> [fresh[i] EXCEPT !.key = @ + 1]]
<1>1. phase = "answer" /\ query.kind = "DUPLICATE" /\ table' = table \o copies
  BY DEF AnswerDuplicate
<1>2. /\ query \in QuerySet /\ ~Refused(query) /\ before \in Seq(Rows) /\ KeysDiffer(before)
      /\ table = before /\ keys = KeysIn(fresh)
  <2>1. table = before
    BY <1>1, TableOfReader
  <2>2. keys = KeysIn(fresh)
    BY <1>1 DEF ResultInv, Listed
  <2> QED
    BY <1>1, <2>1, <2>2, QueryTyped DEF TurnsInv
<1>3. Meant(query, before) = {} \/ NoField \notin ToSet(query.ops)
  <2>1. Matching(query, before) = Meant(query, before)
    BY <1>2, MatchingIsMeant DEF Refused
  <2> QED
    BY <1>1, <2>1 DEF TurnsInv, LooksUpNoField
<1>4. Len(before) \in 0 .. Len(before)
  BY <1>2
<1>5. /\ fresh \in Seq(Rows) /\ KeysDiffer(fresh)
      /\ \A i \in DOMAIN fresh : \E j \in Copied(query, before) : fresh[i] = before[j]
  <2>1. ASSUME NEW n \in 0 .. Len(before)
        PROVE  /\ Fresh(query, before, n) \in Seq(Rows) /\ KeysDiffer(Fresh(query, before, n))
               /\ \A i \in DOMAIN Fresh(query, before, n) : \E j \in Copied(query, before) :
                    Fresh(query, before, n)[i] = before[j]
    <3>1. before \in Seq(Rows) /\ KeysDiffer(before)
      BY <1>2
    <3> QED
      BY ONLY <2>1, <3>1, FreshRows
  <2> QED
    BY <1>4, <2>1
<1> HIDE DEF fresh
<1>6. DOMAIN keys = DOMAIN fresh /\ \A i \in DOMAIN fresh : keys[i] = fresh[i].key
  BY <1>2 DEF KeysIn
<1>7. ASSUME NEW i \in DOMAIN fresh
      PROVE  Row(keys[i]) = fresh[i] /\ fresh[i] \in Rows
  <2>1. PICK j \in Copied(query, before) : fresh[i] = before[j]
    BY <1>5
  <2>2. j \in DOMAIN before
    BY DEF Copied, Meant
  <2>3. \A row \in ToSet(table) : row.key = keys[i] => row = fresh[i]
    BY <1>2, <1>6, <2>1, <2>2 DEF KeysDiffer, ToSet
  <2>4. fresh[i] \in ToSet(table) /\ fresh[i].key = keys[i]
    BY <1>2, <1>6, <2>1, <2>2 DEF ToSet
  <2>5. before[j] \in Rows
    BY <1>2, <2>2
  <2> QED
    BY <2>1, <2>3, <2>4, <2>5
<1>8. copies = added
  <2>1. \A i \in DOMAIN fresh : [Row(keys[i]) EXCEPT !.key = @ + 1] = [fresh[i] EXCEPT !.key = @ + 1]
    BY <1>7
  <2> HIDE DEF Row
  <2> QED
    BY <1>6, <2>1
<1>9. TableAfter(query, before) = before \o added
  BY <1>1, <1>2, <1>3, DuplicateAfter DEF fresh
<1>10. /\ added \in Seq(Rows) /\ Len(added) = Len(fresh) /\ Len(fresh) \in Nat
       /\ \A i \in 1 .. Len(fresh) : added[i].key = fresh[i].key + 1
  <2>1. DOMAIN fresh = 1 .. Len(fresh) /\ Len(fresh) \in Nat
    BY <1>5
  <2>2. \A i \in DOMAIN fresh : [fresh[i] EXCEPT !.key = @ + 1] \in Rows
    BY <1>7 DEF Rows
  <2>3. added \in [1 .. Len(fresh) -> Rows]
    BY <2>1, <2>2
  <2>4. \A i \in 1 .. Len(fresh) : added[i].key = fresh[i].key + 1
    BY <1>7, <2>1 DEF Rows
  <2> HIDE DEF added
  <2>5. added \in Seq(Rows) /\ Len(added) = Len(fresh)
    BY ONLY <2>1, <2>3
  <2> QED
    BY <2>1, <2>4, <2>5
<1> HIDE DEF copies, added
<1>11. KeysDiffer(before \o added)
  <2> DEFINE m == Len(before)
             n == Len(fresh)
             all == before \o added
  <2>1. /\ all \in Seq(Rows) /\ Len(all) = m + n /\ m \in Nat /\ n \in Nat
        /\ \A i \in 1 .. m + n : all[i] = IF i <= m THEN before[i] ELSE added[i - m]
    <3>1. before \in Seq(Rows) /\ added \in Seq(Rows) /\ Len(added) = n
      BY <1>2, <1>10
    <3>2. m \in Nat /\ n \in Nat
      BY <1>2, <1>10
    <3> HIDE DEF n
    <3> QED
      BY ONLY <3>1, <3>2, ConcatProperties DEF all, m
  <2>2. DOMAIN all = 1 .. m + n /\ DOMAIN before = 1 .. m /\ DOMAIN fresh = 1 .. n
    BY <1>2, <1>5, <2>1
  <2>3. \A i \in 1 .. n : \A k \in 1 .. m : before[k].key # fresh[i].key + 1
    <3> SUFFICES ASSUME NEW i \in 1 .. n, NEW k \in 1 .. m
                 PROVE  before[k].key # fresh[i].key + 1
      OBVIOUS
    <3>1. PICK j \in Copied(query, before) : fresh[i] = before[j]
      BY <1>5, <2>2
    <3> QED
      BY <2>2, <3>1 DEF Copied
  <2>4. \A i \in 1 .. n : fresh[i].key \in Nat
    BY <1>7, <2>2 DEF Rows
  <2> HIDE DEF m, n, all
  <2>5. ASSUME NEW i \in 1 .. m + n, NEW k \in 1 .. m + n, i < k, all[i].key = all[k].key
        PROVE  FALSE
    <3>1. CASE k <= m
      <4>1. i \in 1 .. m /\ k \in 1 .. m /\ all[i] = before[i] /\ all[k] = before[k]
        BY <2>1, <2>5, <3>1
      <4>2. i = k
        BY <1>2, <2>2, <2>5, <4>1 DEF KeysDiffer
      <4> QED
        BY <2>1, <2>5, <4>2
    <3>2. CASE i <= m /\ k > m
      <4>1. i \in 1 .. m /\ k - m \in 1 .. n /\ all[i] = before[i] /\ all[k] = added[k - m]
        BY <2>1, <3>2
      <4>2. added[k - m].key = fresh[k - m].key + 1
        BY <1>10, <4>1 DEF n
      <4> QED
        BY <2>3, <2>5, <4>1, <4>2
    <3>3. CASE i > m
      <4>1. /\ i - m \in 1 .. n /\ k - m \in 1 .. n /\ i - m # k - m
            /\ all[i] = added[i - m] /\ all[k] = added[k - m]
        BY <2>1, <2>5, <3>3
      <4>2. added[i - m].key = fresh[i - m].key + 1 /\ added[k - m].key = fresh[k - m].key + 1
        BY <1>10, <4>1 DEF n
      <4>3. fresh[i - m].key = fresh[k - m].key
        BY <2>4, <2>5, <4>1, <4>2
      <4> QED
        BY <1>5, <2>2, <4>1, <4>3 DEF KeysDiffer
    <3> QED
      BY <2>1, <3>1, <3>2, <3>3
  <2>6. ASSUME NEW i \in 1 .. m + n, NEW k \in 1 .. m + n, all[i].key = all[k].key
        PROVE  i = k
    <3>1. i < k \/ k < i \/ i = k
      BY <2>1
    <3> QED
      BY <2>5, <2>6, <3>1
  <2> QED
    BY <2>2, <2>6 DEF KeysDiffer, all
<1> QED
  BY <1>1, <1>2, <1>8, <1>9, <1>11

LEMMA PromisedRefuse ==
  ASSUME DataInv, NEW q \in QuerySet, Refuse(q)
  PROVE  TableIsPromised'
<1>1. query' = q /\ before' = table /\ table' = table /\ Refused(q) /\ table \in Seq(Rows)
  BY DEF Refuse, Comes, DataInv, RowsInv
<1>2. TableAfter(q, table) = table
  BY <1>1, PromiseOfRefused, ReadersAfter
<1> QED
  BY <1>1, <1>2 DEF TableIsPromised

\* A query that looks up a field that is not there, and comes to a row, promises
\* an error and the table as it is.
LEMMA PromisedError ==
  ASSUME ValuesFit, DataInv, phase # "repl", before \in Seq(Rows), LooksUpNoField,
         Matching(query, before) # {}
  PROVE  Promise(query, before) = <<"error">> /\ TableAfter(query, before) = before
<1>1. query \in QuerySet /\ ~Refused(query) /\ NoField \in ToSet(query.ops)
  BY QueryTyped DEF LooksUpNoField
<1>2. Meant(query, before) # {}
  BY <1>1, MatchingIsMeant DEF Refused
<1> QED
  BY <1>1, <1>2, PromiseOfNoField, ReadersAfter

LEMMA PromisedThrows ==
  ASSUME ValuesFit, DataInv, TurnsInv, SequentialThrows \/ JoinThrows
  PROVE  /\ Promise(query, before) = <<"error">> /\ TableIsPromised'
         /\ query' = query /\ before' = before /\ phase' = "repl" /\ answer' = <<"error">>
<1>1. /\ phase \in {"begun", "wait"} /\ table' = table /\ query' = query /\ before' = before
      /\ phase' = "repl" /\ answer' = <<"error">>
  BY DEF SequentialThrows, JoinThrows, Respond
<1>2. table = before /\ LooksUpNoField /\ Matching(query, before) # {}
  BY ThrownTable DEF SequentialThrows, TurnsInv
<1>3. Promise(query, before) = <<"error">> /\ TableAfter(query, before) = before
  BY <1>1, <1>2, PromisedError DEF TurnsInv
<1> QED
  BY <1>1, <1>2, <1>3 DEF TableIsPromised

\* The counts, the arrays and the keys SELECT has printed.
LEMMA PromisedAnswer ==
  ASSUME ValuesFit, DataInv, TurnsInv, phase = "answer", query.kind # "DUPLICATE",
         table' = table, query' = query, before' = before
  PROVE  TableIsPromised'
<1>1. query \in QuerySet /\ ~Refused(query) /\ before \in Seq(Rows)
  BY QueryTyped DEF TurnsInv
<1>2. CASE query.kind \in {"ADD", "SUB", "SWAP"}
  <2>1. Matching(query, before) = Meant(query, before)
    BY <1>1, MatchingIsMeant DEF Refused
  <2>2. Meant(query, before) = {} \/ NoField \notin ToSet(query.ops)
    BY <1>2, <2>1 DEF TurnsInv, LooksUpNoField
  <2>3. table = [i \in DOMAIN before |-> IF i \in Meant(query, before)
                                         THEN Change(query, before[i]) ELSE before[i]]
    <3>1. DOMAIN before \cap Matching(query, before) = Meant(query, before)
      BY <2>1 DEF Matching
    <3> QED
      BY <3>1 DEF TurnsInv, Halfway
  <2>4. TableAfter(query, before) = table
    BY <1>1, <1>2, <2>2, <2>3, WritersAfter
  <2> QED
    BY <2>4 DEF TableIsPromised
<1>3. CASE query.kind \notin {"ADD", "SUB", "SWAP"}
  <2>1. table = before
    BY <1>3, TableOfReader
  <2>2. TableAfter(query, before) = before
    BY <1>1, <1>3, ReadersAfter
  <2> QED
    BY <2>1, <2>2 DEF TableIsPromised
<1> QED
  BY <1>2, <1>3

LEMMA TurnsAnswerDuplicate ==
  ASSUME ValuesFit, DataInv, TurnsInv, ResultInv, AnswerDuplicate
  PROVE  TurnsInv' /\ TableIsPromised'
<1>1. /\ phase = "answer" /\ phase' = "repl" /\ query' = query /\ before' = before
      /\ pos' = pos
  BY DEF AnswerDuplicate, Respond, tasks
<1>2. table' = TableAfter(query, before) /\ KeysDiffer(table')
  BY CopiesInserted
<1>3. StopInv'
  BY <1>1 DEF DataInv, TasksInv, StopInv
<1> QED
  BY <1>1, <1>2, <1>3 DEF TurnsInv, TableIsPromised

\* The results stay what they are while SELECT prints.
LEMMA ResultKept ==
  ASSUME ResultInv, query' = query, before' = before, int_arr' = int_arr, found' = found,
         counter' = counter, keys' = keys, phase = "answer", ~OneThrew, ~OneThrew',
         phase' = phase \/ phase' = "repl"
  PROVE  ResultInv'
<1>1. CASE phase' = "repl"
  BY <1>1 DEF ResultInv
<1>2. CASE phase' = "answer"
  <2>1. Scanned' = Scanned /\ Returned' = Returned
    BY <1>2 DEF Scanned, Returned
  <2>2. Gathered(query, before, Returned)' = Gathered(query, before, Returned)
        /\ Listed(Len(before))' = Listed(Len(before))
    BY <2>1 DEF Gathered, Listed
  <2> QED
    BY <1>2, <2>1, <2>2 DEF ResultInv
<1> QED
  BY <1>1, <1>2

LEMMA PromiseAtFirst == Init => PromiseInv
<1> SUFFICES ASSUME Init PROVE PromiseInv
  OBVIOUS
<1>1. TurnsInv
  BY TurnsAtFirst
<1>2. LocalInv /\ ResultInv /\ TableIsPromised
  BY DEF Init, LocalInv, ResultInv, TableIsPromised, NoRows
<1> QED
  BY <1>1, <1>2 DEF PromiseInv

\* Where no task is and the query ends or goes on, as it was.
LEMMA PromiseOver ==
  ASSUME ValuesFit, DataInv, PromiseInv, phase = "answer", query.kind # "DUPLICATE",
         UNCHANGED <<table, query, counter, keys, before, int_arr, found, tasks>>,
         phase' = phase \/ phase' = "repl"
  PROVE  PromiseInv'
<1>1. TurnsInv'
  BY TurnsOver DEF PromiseInv, tasks
<1>2. ResultInv'
  <2>1. ~OneThrew /\ ~OneThrew'
    BY DEF DataInv, TasksInv, OneThrew, tasks
  <2> QED
    BY <2>1, ResultKept DEF PromiseInv
<1>3. TableIsPromised'
  BY PromisedAnswer DEF PromiseInv
<1>4. DOMAIN pos' = {}
  BY DEF DataInv, TasksInv, tasks
<1> QED
  BY <1>1, <1>2, <1>3, <1>4, LocalOfNobody DEF PromiseInv

LEMMA PromiseInductive ==
  ASSUME ValuesFit
  PROVE  DataInv /\ PromiseInv /\ [Next]_vars => PromiseInv'
<1> SUFFICES ASSUME DataInv, PromiseInv, [Next]_vars PROVE PromiseInv'
  OBVIOUS
<1>0. TurnsInv /\ LocalInv /\ ResultInv /\ TableIsPromised
  BY DEF PromiseInv
<1>1. ASSUME NEW q \in QuerySet, Refuse(q) \/ Begin(q) PROVE PromiseInv'
  <2>1. TurnsInv' /\ ResultInv'
    BY <1>0, <1>1, TurnsBegin, ResultBegin
  <2>2. DOMAIN pos' = {}
    BY <1>1 DEF Refuse, Begin, Comes, tasks, DataInv, TasksInv
  <2>3. TableIsPromised'
    <3>1. Begin(q) => phase' = "begun"
      BY DEF Begin
    <3> QED
      BY <1>1, <3>1, PromisedRefuse DEF TableIsPromised
  <2> QED
    BY <2>1, <2>2, <2>3, LocalOfNobody DEF PromiseInv
<1>2. CASE Sequential
  <2>1. TurnsInv' /\ ResultInv'
    BY <1>0, <1>2, TurnsSequential, ResultSequential
  <2>2. DOMAIN pos' = {} /\ phase' = "answer"
    BY <1>2 DEF Sequential, tasks, DataInv, TasksInv
  <2> QED
    BY <2>1, <2>2, LocalOfNobody DEF PromiseInv, TableIsPromised
<1>3. CASE SequentialThrows
  <2>1. /\ phase = "begun" /\ phase' = "repl" /\ query' = query /\ before' = before
        /\ table' = table /\ UNCHANGED tasks
    BY <1>3 DEF SequentialThrows, Respond
  <2>2. TurnsInv'
    BY <1>0, <2>1, TurnsOver
  <2>3. DOMAIN pos' = {}
    BY <2>1 DEF tasks, DataInv, TasksInv
  <2>4. ResultInv'
    BY <2>1 DEF ResultInv
  <2> QED
    BY <1>0, <1>3, <2>2, <2>3, <2>4, PromisedThrows, LocalOfNobody DEF PromiseInv
<1>4. CASE Fork
  <2>1. phase' = "wait"
    BY <1>4 DEF Fork
  <2> QED
    BY <1>0, <1>4, <2>1, TurnsFork, LocalFork, ResultFork DEF PromiseInv, TableIsPromised
<1>5. CASE Join
  <2>1. DOMAIN pos' = {} /\ phase' = "answer"
    BY <1>5 DEF Join, NoRows
  <2> QED
    BY <1>0, <1>5, <2>1, TurnsJoin, ResultJoin, LocalOfNobody DEF PromiseInv, TableIsPromised
<1>12. CASE JoinThrows
  <2>1. DOMAIN pos' = {} /\ phase' = "repl"
    BY <1>12 DEF JoinThrows, Respond, NoRows
  <2>2. ResultInv'
    BY <2>1 DEF ResultInv
  <2> QED
    BY <1>0, <1>12, <2>1, <2>2, ThrownTable, PromisedThrows, LocalOfNobody DEF PromiseInv
<1>6. ASSUME NEW id \in DOMAIN pos, Task(id) PROVE PromiseInv'
  <2>1. CASE ScanRow(id)
    <3>1. phase' = "wait"
      BY <2>1, TaskTyped DEF ScanRow, main
    <3>2. TurnsInv' /\ LocalInv' /\ ResultInv'
      BY <1>0, <2>1, TurnsScanRow, LocalScanRow, ResultScanRow
    <3> QED
      BY <3>1, <3>2 DEF PromiseInv, TableIsPromised
  <2>2. CASE TaskReturns(id)
    <3>1. phase' = "wait"
      BY <2>2, TaskTyped DEF TaskReturns, main
    <3>2. TurnsInv' /\ LocalInv' /\ ResultInv'
      BY <1>0, <2>2, TurnsTaskReturns, LocalTaskReturns, ResultTaskReturns
    <3> QED
      BY <3>1, <3>2 DEF PromiseInv, TableIsPromised
  <2>3. CASE TaskThrows(id)
    <3>1. phase' = "wait"
      BY <2>3, TaskTyped DEF TaskThrows, main
    <3>2. TurnsInv' /\ LocalInv' /\ ResultInv'
      BY <1>0, <2>3, TurnsTaskThrows, LocalTaskThrows, ResultTaskThrows
    <3> QED
      BY <3>1, <3>2 DEF PromiseInv, TableIsPromised
  <2> QED
    BY <1>6, <2>1, <2>2, <2>3 DEF Task
<1>7. CASE Answer
  <2>1. query.kind # "DUPLICATE" /\ phase = "answer"
    BY <1>7 DEF Answer, Counters, Gatherers, Extrema
  <2>2. /\ UNCHANGED <<table, query, counter, keys, before, int_arr, found, tasks>>
        /\ phase' = "repl"
    BY <1>7 DEF Answer, Respond, statics
  <2> QED
    BY <2>1, <2>2, PromiseOver
<1>8. CASE AnswerDuplicate
  <2>1. TurnsInv' /\ TableIsPromised'
    BY <1>0, <1>8, TurnsAnswerDuplicate
  <2>2. DOMAIN pos' = {} /\ phase' = "repl"
    BY <1>8 DEF AnswerDuplicate, Respond, tasks, DataInv, TasksInv
  <2> QED
    BY <2>1, <2>2, LocalOfNobody DEF PromiseInv, ResultInv
<1>9. CASE PrintRow
  <2>1. /\ query.kind # "DUPLICATE" /\ phase = "answer"
        /\ UNCHANGED <<table, query, counter, keys, before, int_arr, found, tasks>>
        /\ phase' = phase \/ phase' = "repl"
    BY <1>9, PrintRowDoes
  <2> QED
    BY <2>1, PromiseOver
<1>10. CASE AnswerSelect
  <2>1. query.kind # "DUPLICATE" /\ phase = "answer"
    BY <1>10 DEF AnswerSelect
  <2>2. /\ UNCHANGED <<table, query, counter, keys, before, int_arr, found, tasks>>
        /\ phase' = "repl"
    BY <1>10 DEF AnswerSelect, Respond, statics
  <2> QED
    BY <2>1, <2>2, PromiseOver
<1>11. CASE UNCHANGED vars
  <2>1. /\ table' = table /\ query' = query /\ phase' = phase /\ counter' = counter
        /\ keys' = keys /\ before' = before /\ int_arr' = int_arr /\ found' = found
        /\ pos' = pos /\ acc' = acc /\ returned' = returned /\ size' = size
    BY <1>11 DEF vars, main, statics, tasks, size
  <2>2. Passed' = Passed /\ LooksUpNoField' = LooksUpNoField
    BY <2>1 DEF Passed, LooksUpNoField
  <2>10. StopInv' = StopInv /\ OneThrew' = OneThrew
    BY <2>1, <2>2 DEF StopInv, OneThrew, Threw
  <2>3. /\ Halfway(Passed)' = Halfway(Passed)
        /\ Halfway(DOMAIN before)' = Halfway(DOMAIN before)
    BY <2>1, <2>2 DEF Halfway
  <2>4. TurnsInv'
    BY <1>0, <2>1, <2>2, <2>3, <2>10 DEF TurnsInv
  <2>5. LocalInv'
    BY <1>0, <2>1, LocalKept DEF LocalInv
  <2>6. \A k : ActedBy(k)' = ActedBy(k)
    BY <2>1 DEF ActedBy, Acted
  <2>7. Scanned' = Scanned /\ Returned' = Returned
    BY <2>1, <2>2, <2>6 DEF Scanned, Returned
  <2>8. Gathered(query, before, Returned)' = Gathered(query, before, Returned)
        /\ Listed(Len(before))' = Listed(Len(before))
    BY <2>1, <2>7 DEF Gathered, Listed
  <2>9. ResultInv'
    BY <1>0, <2>1, <2>7, <2>8, <2>10 DEF ResultInv
  <2> QED
    BY <1>0, <2>1, <2>4, <2>5, <2>9 DEF PromiseInv, TableIsPromised
<1> QED
  BY <1>1, <1>2, <1>3, <1>4, <1>5, <1>6, <1>7, <1>8, <1>9, <1>10, <1>11, <1>12 DEF Next

\* A query leaves the table it promises: each row that satisfies the condition
\* is changed once and no other, DUPLICATE inserts the copies it says it does,
\* and an error changes nothing, whichever branch execute() takes and however
\* the tasks interleave.
THEOREM TablesArePromised ==
  ASSUME ValuesFit
  PROVE  Spec => []TableIsPromised
<1>1. Init => PromiseInv
  BY PromiseAtFirst
<1>2. DataInv /\ PromiseInv /\ [Next]_vars => PromiseInv'
  BY PromiseInductive
<1>3. PromiseInv => TableIsPromised
  BY DEF PromiseInv
<1> QED
  BY <1>1, <1>2, <1>3, DataInvariant, PTL DEF Spec
-------------------------------------------------------------------------------
(* The keys SELECT prints. *)

\* As many numbers as there are places.
LEMMA AscendingCount ==
  ASSUME NEW s \in Seq(Nat), \A i, j \in DOMAIN s : i < j => s[i] < s[j], NEW n \in 0 .. Len(s)
  PROVE  /\ IsFiniteSet({s[i] : i \in 1 .. n})
         /\ Cardinality({s[i] : i \in 1 .. n}) = n
<1> DEFINE first(k) == {s[i] : i \in 1 .. k}
           A == {k \in Nat : k \in 0 .. Len(s) => /\ IsFiniteSet(first(k))
                                                  /\ Cardinality(first(k)) = k}
<1>1. Len(s) \in Nat /\ DOMAIN s = 1 .. Len(s)
  OBVIOUS
<1>2. 0 \in A
  <2>1. first(0) = {}
    OBVIOUS
  <2> QED
    BY <2>1, FS_EmptySet
<1>3. ASSUME NEW k \in Nat, k \in A
      PROVE  k + 1 \in A
  <2> SUFFICES ASSUME k + 1 \in 0 .. Len(s)
               PROVE  IsFiniteSet(first(k + 1)) /\ Cardinality(first(k + 1)) = k + 1
    OBVIOUS
  <2>1. IsFiniteSet(first(k)) /\ Cardinality(first(k)) = k
    BY <1>1, <1>3
  <2>2. first(k + 1) = first(k) \cup {s[k + 1]}
    <3>1. 1 .. k + 1 = (1 .. k) \cup {k + 1}
      OBVIOUS
    <3> QED
      BY <3>1
  <2>3. s[k + 1] \notin first(k)
    <3> SUFFICES ASSUME NEW i \in 1 .. k, s[i] = s[k + 1] PROVE FALSE
      OBVIOUS
    <3>1. i \in DOMAIN s /\ k + 1 \in DOMAIN s /\ i < k + 1
      BY <1>1
    <3>2. s[i] < s[k + 1] /\ s[i] \in Nat
      BY <3>1
    <3> QED
      BY <3>2
  <2>4. /\ IsFiniteSet(first(k) \cup {s[k + 1]})
        /\ Cardinality(first(k) \cup {s[k + 1]}) = Cardinality(first(k)) + 1
    <3> HIDE DEF first
    <3> QED
      BY ONLY <2>1, <2>3, FS_AddElement
  <2> HIDE DEF first
  <2> QED
    BY ONLY <2>1, <2>2, <2>4
<1> HIDE DEF A
<1>4. \A k \in Nat : k \in A
  BY <1>2, <1>3, NatSetInduction
<1>5. n \in A /\ n \in 0 .. Len(s)
  BY <1>1, <1>4
<1> HIDE DEF first
<1>6. IsFiniteSet(first(n)) /\ Cardinality(first(n)) = n
  BY ONLY <1>5 DEF A
<1> QED
  BY ONLY <1>6 DEF first

\* Numbers in ascending order are those of their set in ascending order.
LEMMA AscendingOf ==
  ASSUME NEW s \in Seq(Nat), \A i, j \in DOMAIN s : i < j => s[i] < s[j]
  PROVE  s = Ascending(ToSet(s)) /\ Cardinality(ToSet(s)) = Len(s)
<1> DEFINE S == ToSet(s)
           Below(x) == {y \in S : y < x}
<1>1. Len(s) \in Nat /\ DOMAIN s = 1 .. Len(s) /\ S = {s[i] : i \in 1 .. Len(s)}
  BY DEF ToSet
<1>2. Cardinality(S) = Len(s)
  <2>1. Len(s) \in 0 .. Len(s)
    BY <1>1
  <2> QED
    BY <1>1, <2>1, AscendingCount
<1>3. \A i, j \in DOMAIN s : s[i] < s[j] <=> i < j
  <2> SUFFICES ASSUME NEW i \in DOMAIN s, NEW j \in DOMAIN s, s[i] < s[j] PROVE i < j
    OBVIOUS
  <2>1. s[i] \in Nat /\ s[j] \in Nat
    OBVIOUS
  <2>2. i \in Nat /\ j \in Nat
    BY <1>1
  <2>3. i = j => FALSE
    BY <2>1
  <2>4. j < i => FALSE
    BY <2>1
  <2> QED
    BY <2>2, <2>3, <2>4
<1>4. ASSUME NEW n \in 1 .. Len(s)
      PROVE  Cardinality(Below(s[n])) = n - 1
  <2>1. n - 1 \in 0 .. Len(s)
    BY <1>1
  <2>2. Below(s[n]) = {s[i] : i \in 1 .. n - 1}
    <3>1. \A i \in 1 .. Len(s) : s[i] < s[n] <=> i \in 1 .. n - 1
      BY <1>1, <1>3
    <3>2. \A i \in 1 .. n - 1 : i \in 1 .. Len(s)
      BY <1>1
    <3> HIDE DEF S
    <3> QED
      BY <1>1, <3>1, <3>2
  <2> HIDE DEF Below
  <2> QED
    BY <2>1, <2>2, AscendingCount
<1>5. ASSUME NEW n \in 1 .. Len(s)
      PROVE  (CHOOSE x \in S : Cardinality(Below(x)) = n - 1) = s[n]
  <2>1. s[n] \in S /\ Cardinality(Below(s[n])) = n - 1
    BY <1>1, <1>4
  <2>2. ASSUME NEW x \in S, Cardinality(Below(x)) = n - 1
        PROVE  x = s[n]
    <3>1. PICK m \in 1 .. Len(s) : x = s[m]
      BY <1>1
    <3>2. Cardinality(Below(s[m])) = m - 1
      BY <1>4
    <3> HIDE DEF S, Below
    <3>3. m - 1 = n - 1
      BY <2>2, <3>1, <3>2
    <3>4. m = n
      BY <1>1, <3>3
    <3> QED
      BY <3>1, <3>4
  <2> HIDE DEF S, Below
  <2> QED
    BY <2>1, <2>2
<1>6. Ascending(S) = [n \in 1 .. Len(s) |-> s[n]]
  <2>1. Ascending(S) = [n \in 1 .. Len(s) |-> CHOOSE x \in S : Cardinality(Below(x)) = n - 1]
    BY <1>2 DEF Ascending
  <2> HIDE DEF S, Below
  <2> QED
    BY <1>5, <2>1
<1>7. s = [n \in 1 .. Len(s) |-> s[n]]
  BY <1>1
<1> QED
  BY <1>2, <1>6, <1>7
-------------------------------------------------------------------------------
(* What DUPLICATE counts. *)

\* No DUPLICATE has a clause that initCondition answers with false: main would
\* add up counts that no task has set (TaskReturns).
DuplicatesLoop == \A q \in QuerySet : q.kind = "DUPLICATE" => initCondition(q.conds) # "false"

LEMMA CountSequential ==
  ASSUME ValuesFit, DataInv, TurnsInv, Sequential
  PROVE  CountInv'
<1>1. query' = query
  BY DEF Sequential
<1>2. PICK all \in Locals(query, KeysOf(table)) :
           /\ CountsKeys(all)
           /\ counter' = CASE query.kind \in Counters -> all
                           [] query.kind = "DUPLICATE" -> all.subcounter
                           [] OTHER -> 0
           /\ keys' = IF query.kind = "DUPLICATE" THEN all.sub_keys ELSE <<>>
  BY SequentialResult
<1> SUFFICES ASSUME query.kind = "DUPLICATE" PROVE counter' = Len(keys')
  BY <1>1 DEF CountInv
<1>3. counter' = all.subcounter /\ keys' = all.sub_keys
  BY <1>2 DEF Counters
<1> QED
  BY <1>2, <1>3 DEF CountsKeys

LEMMA ListedType ==
  ASSUME before \in Seq(Rows), NEW n \in 0 .. Len(before)
  PROVE  /\ Listed(n) \in Seq(Nat) /\ Len(Listed(n)) = Len(Fresh(query, before, n))
<1> DEFINE a == Fresh(query, before, n)
<1>1. a \in Seq(Rows)
  BY FreshRows
<1>2. Listed(n) = [i \in DOMAIN a |-> a[i].key]
  BY DEF Listed, KeysIn
<1> HIDE DEF a
<1>3. Len(a) \in Nat /\ DOMAIN a = 1 .. Len(a) /\ \A i \in DOMAIN a : a[i].key \in Nat
  <2>1. Len(a) \in Nat /\ DOMAIN a = 1 .. Len(a) /\ \A i \in DOMAIN a : a[i] \in Rows
    BY <1>1
  <2> QED
    BY <2>1 DEF Rows
<1>4. Listed(n) \in [1 .. Len(a) -> Nat]
  BY <1>2, <1>3
<1>5. Listed(n) \in Seq(Nat) /\ Len(Listed(n)) = Len(a)
  <2> DEFINE m == Len(a)
             l == Listed(n)
  <2>1. l \in [1 .. m -> Nat] /\ m \in Nat
    BY <1>3, <1>4
  <2> HIDE DEF m, l
  <2>2. l \in Seq(Nat) /\ Len(l) = m
    BY ONLY <2>1
  <2> QED
    BY <2>2 DEF m, l
<1> QED
  BY <1>5 DEF a

\* Main adds up what the tasks have counted, and it is what they have listed.
LEMMA CountJoin ==
  ASSUME ValuesFit, DuplicatesLoop, DataInv, TurnsInv, LocalInv, Join
  PROVE  CountInv'
<1>0. query' = query
  BY DEF Join
<1> SUFFICES ASSUME query.kind = "DUPLICATE" PROVE counter' = Len(keys')
  BY <1>0 DEF CountInv
<1> DEFINE T == total_thread(size)
           turns == [i \in 1 .. T |-> [s \in Int |-> s + acc[i - 1].subcounter]]
<1>1. /\ phase = "wait" /\ NoneThrew /\ DOMAIN pos = Ids(size)
      /\ size \in Nat /\ size >= Split /\ Len(before) = size /\ before \in Seq(Rows) /\ T \in Nat
  BY JoinTyped
<1>2. PICK e \in [0 .. T -> 0 .. size] :
           /\ e[0] = 0 /\ e[T] = size
           /\ \A i \in 1 .. T :
                i - 1 \in Ids(size) /\ head(size, i - 1) = e[i - 1] /\ tail(size, i - 1) = e[i]
  BY <1>1, PartsFollow
<1>3. counter' = Loop(0, turns)
  BY DEF Join, Counters
<1>4. result(query)
  <2>1. query \in QuerySet /\ ~Refused(query)
    BY <1>1, QueryTyped
  <2> QED
    BY <2>1 DEF DuplicatesLoop, Refused, result, initCondition
<1> HIDE DEF T
<1>5. ASSUME NEW i \in 1 .. T
      PROVE  /\ acc[i - 1].subcounter \in Nat
             /\ Len(Listed(e[i])) = Len(Listed(e[i - 1])) + acc[i - 1].subcounter
             /\ Len(Listed(e[i - 1])) \in Nat
  <2>1. i - 1 \in 0 .. T /\ i \in 0 .. T
    BY <1>1
  <2>2. Listed(e[i]) = Listed(e[i - 1]) \o acc[i - 1].sub_keys
    BY <1>1, <1>2, WholeParts DEF LocalOf
  <2>3. i - 1 \in DOMAIN pos
    BY <1>1, <1>2
  <2>4. acc[i - 1].subcounter = Len(acc[i - 1].sub_keys)
    BY <1>4, <2>3 DEF LocalInv, CountsKeys
  <2>5. acc[i - 1] \in [subcounter : Int, sub_keys : Seq(KeysOf(table))] /\ table \in Seq(Rows)
    <3>1. acc[i - 1] \in Locals(query, KeysOf(table))
      BY <2>3, TaskTyped
    <3>2. table \in Seq(Rows)
      BY <1>1, QueryTyped
    <3> QED
      BY <3>1, <3>2 DEF Locals, Gatherers, Extrema
  <2>6. acc[i - 1].sub_keys \in Seq(Nat)
    BY <2>5, KeysAreNumbers
  <2>7. Listed(e[i - 1]) \in Seq(Nat)
    <3>1. e[i - 1] \in 0 .. Len(before)
      BY <1>1, <1>2, <2>1
    <3> QED
      BY <1>1, <3>1, ListedType
  <2> DEFINE l == Listed(e[i - 1])
             k == acc[i - 1].sub_keys
  <2>8. l \in Seq(Nat) /\ k \in Seq(Nat)
    BY <2>6, <2>7
  <2> HIDE DEF l, k
  <2>9. Len(l \o k) = Len(l) + Len(k) /\ Len(l) \in Nat /\ Len(k) \in Nat
    BY ONLY <2>8
  <2> QED
    BY <2>2, <2>4, <2>9 DEF l, k
<1>6. turns \in [1 .. T -> [Int -> Int]]
  <2>1. \A i \in 1 .. T : acc[i - 1].subcounter \in Int
    BY <1>5
  <2> QED
    BY <2>1
<1>7. \A i \in 1 .. T : \A s \in Int : turns[i][s] = s + acc[i - 1].subcounter
  OBVIOUS
<1> HIDE DEF turns
<1>8. PICK f : Recurs(f, T, Int, 0, turns) /\ Loop(0, turns) = f[T]
  <2>1. 0 \in Int
    OBVIOUS
  <2>2. T \in Nat
    BY <1>1
  <2> QED
    BY ONLY <1>6, <2>1, <2>2, LoopDef, Zenon
<1> DEFINE A == {i \in Nat : i \in 0 .. T => f[i] = Len(Listed(e[i]))}
<1>9. 0 \in A
  <2>1. Listed(e[0]) = <<>>
    BY <1>1, <1>2, AllActed
  <2>2. f[0] = 0
    BY <1>8 DEF Recurs
  <2> QED
    BY <2>1, <2>2
<1>10. ASSUME NEW i \in Nat, i \in A
       PROVE  i + 1 \in A
  <2> SUFFICES ASSUME i + 1 \in 0 .. T PROVE f[i + 1] = Len(Listed(e[i + 1]))
    OBVIOUS
  <2>1. i \in 0 .. T /\ i + 1 \in 1 .. T /\ (i + 1) - 1 = i
    BY <1>1
  <2>2. f[i] = Len(Listed(e[i]))
    BY <1>10, <2>1
  <2>3. f[i] \in Int /\ f[i + 1] = turns[i + 1][f[i]]
    BY <1>8, <2>1 DEF Recurs
  <2>4. f[i + 1] = f[i] + acc[i].subcounter
    BY <1>7, <2>1, <2>3
  <2>5. Len(Listed(e[i + 1])) = Len(Listed(e[i])) + acc[i].subcounter
    BY <1>5, <2>1
  <2> QED
    BY ONLY <2>2, <2>4, <2>5
<1> HIDE DEF A
<1>11. \A i \in Nat : i \in A
  BY <1>9, <1>10, NatSetInduction
<1>12. f[T] = Len(Listed(size))
  <2>1. T \in 0 .. T
    BY <1>1
  <2> QED
    BY <1>1, <1>2, <1>11, <2>1 DEF A
<1>13. keys' = Listed(Len(before))
  BY JoinLists
<1> QED
  BY <1>1, <1>3, <1>8, <1>12, <1>13
-------------------------------------------------------------------------------
(* The queue and what has been printed. *)

\* Steps that neither push nor print.
LEMMA PrintedKept ==
  ASSUME PrintInv, phase # "repl", phase = "answer" => phase' = "answer",
         query' = query, before' = before, oss' = oss, priorityQueue' = priorityQueue,
         (Scanned \cap Matching(query, before))' = Scanned \cap Matching(query, before)
  PROVE  PrintInv'
BY DEF PrintInv

LEMMA PrintBegin ==
  ASSUME QueueInv, NEW q \in QuerySet, Refuse(q) \/ Begin(q)
  PROVE  PrintInv'
<1>1. CASE Refuse(q)
  BY <1>1 DEF Refuse, Comes, PrintInv
<1>2. CASE Begin(q)
  <2>1. phase' = "begun" /\ oss' = <<>> /\ priorityQueue' = NoRows
    BY <1>2 DEF Begin, Comes, QueueInv
  <2>2. DOMAIN priorityQueue' = {} /\ Scanned' = {} /\ ToSet(oss') = {} /\ DOMAIN oss' = {}
    BY <2>1 DEF NoRows, Scanned, ToSet
  <2> QED
    BY <2>1, <2>2 DEF PrintInv
<1> QED
  BY <1>1, <1>2

\* The loops push rows.
LEMMA PrintPushed ==
  ASSUME PrintInv, phase \in {"begun", "wait"}, phase' # "repl", query.kind = "SELECT",
         query' = query, before' = before, oss' = oss,
         NEW S, priorityQueue' = Push(priorityQueue, S),
         (Scanned \cap Matching(query, before))' = (Scanned \cap Matching(query, before)) \cup S
  PROVE  PrintInv'
<1>1. oss = <<>> /\ DOMAIN priorityQueue = Scanned \cap Matching(query, before)
  BY DEF PrintInv
<1>2. DOMAIN priorityQueue' = DOMAIN priorityQueue \cup S
  BY DEF Push
<1>3. oss' = <<>> /\ DOMAIN oss' = {} /\ ToSet(oss') = {}
  BY <1>1 DEF ToSet
<1>4. DOMAIN priorityQueue' = (Scanned \cap Matching(query, before))'
  BY <1>1, <1>2
<1> QED
  BY <1>3, <1>4 DEF PrintInv

LEMMA PrintSequential ==
  ASSUME DataInv, TurnsInv, PrintInv, Sequential
  PROVE  PrintInv'
<1> DEFINE N == Matching(query, before)
<1>1. /\ phase = "begun" /\ phase' = "answer" /\ query' = query /\ before' = before
      /\ oss' = oss /\ table = before
  BY DEF Sequential, TurnsInv
<1>2. CASE query.kind = "SELECT"
  <2>1. priorityQueue' = Push(priorityQueue, N)
    BY <1>1, <1>2 DEF Sequential, ScanRows
  <2>2. Scanned = {} /\ (Scanned \cap Matching(query, before))' = N
    BY <1>1 DEF Scanned, Matching
  <2>3. (Scanned \cap Matching(query, before))' = (Scanned \cap N) \cup N
    BY <2>2
  <2> HIDE DEF N
  <2>4. (Scanned \cap Matching(query, before))' = (Scanned \cap Matching(query, before)) \cup N
    BY <2>3 DEF N
  <2> QED
    BY <1>1, <1>2, <2>1, <2>4, PrintPushed
<1>3. CASE query.kind # "SELECT"
  BY <1>1, <1>3 DEF PrintInv
<1> QED
  BY <1>2, <1>3

LEMMA PrintScanRow ==
  ASSUME DataInv, TurnsInv, PrintInv, NEW id \in DOMAIN pos, ScanRow(id)
  PROVE  PrintInv'
<1> DEFINE i == pos[id] + 1
           N == Matching(query, before)
           M == {i} \cap N
<1>1. /\ phase = "wait" /\ phase' = "wait" /\ query' = query /\ before' = before
      /\ oss' = oss /\ size' = size /\ pos[id] < tail(size, id)
  BY TurnsScanRow, TaskTyped DEF ScanRow, main
<1>2. CASE query.kind = "SELECT"
  <2>1. i \in DOMAIN before /\ table[i] = before[i] /\ DOMAIN table = DOMAIN before
    BY <1>1, NextRow, SameRows
  <2>2. {i} \cap Matching(query, table) = M
    BY <2>1 DEF Matching
  <2>3. priorityQueue' = Push(priorityQueue, M)
    BY <1>2, <2>2 DEF ScanRow, ScanRows
  <2>4. Passed' = Passed \cup {i}
    BY <1>1, PassedMore
  <2>5. Scanned = Passed /\ Scanned' = Passed' /\ Matching(query, before)' = N
    BY <1>1 DEF Scanned
  <2>6. (Scanned \cap Matching(query, before))' = (Scanned \cap N) \cup M
    BY <2>4, <2>5
  <2> HIDE DEF M
  <2> QED
    BY <1>1, <1>2, <2>3, <2>6, PrintPushed
<1>3. CASE query.kind # "SELECT"
  BY <1>1, <1>3 DEF PrintInv
<1> QED
  BY <1>2, <1>3

\* The row at the top has a greater key than those that were printed, and a
\* smaller one than those still in the queue.
LEMMA PrintPrintRow ==
  ASSUME SelectsPrint, DataInv, TurnsInv, QueueInv, PrintInv, PrintRow
  PROVE  PrintInv'
<1> DEFINE N == Matching(query, before)
           D == DOMAIN priorityQueue
           k == before[Top].key
<1>1. /\ phase = "answer" /\ query.kind = "SELECT" /\ query' = query /\ before' = before
      /\ priorityQueue # NoRows
  BY PrintRowDoes
<1>2. query \in QuerySet /\ NoField \notin ToSet(query.ops) /\ table = before
  BY <1>1, QueryTyped DEF SelectsPrint, QueueInv
<1>3. phase' = "answer" /\ oss' = Append(oss, k) /\ priorityQueue' = Popped
  BY <1>1, <1>2, PrintRowDoes
<1>4. /\ before \in Seq(Rows) /\ KeysDiffer(before) /\ oss \in Seq(Nat)
      /\ D \subseteq DOMAIN before
  BY <1>2 DEF TurnsInv, DataInv, RowsInv
<1>5. Top \in D /\ \A j \in D : k <= before[j].key
  <2>1. D # {}
    BY <1>1, EmptyQueue
  <2> QED
    BY <1>2, <1>4, <2>1, TopIsThere
<1>6. D \subseteq N /\ \A j \in D : priorityQueue[j] = 1
  BY DEF QueueInv, QueueIsOwn
<1>7. DOMAIN priorityQueue' = D \ {Top}
  BY <1>3, <1>5, <1>6 DEF Popped
<1>8. k \in Nat /\ \A j \in D : before[j].key \in Nat
  <2>1. \A j \in DOMAIN before : before[j] \in Rows
    BY <1>4
  <2> QED
    BY <1>4, <1>5, <2>1 DEF Rows
<1>9. \A j \in D \ {Top} : k < before[j].key
  <2>1. \A j \in D \ {Top} : k # before[j].key
    BY <1>4, <1>5 DEF KeysDiffer
  <2> HIDE DEF k, D
  <2> QED
    BY <1>5, <1>8, <2>1 DEF k
<1>10. Scanned \cap N = N /\ (Scanned \cap Matching(query, before))' = N
  BY <1>1, <1>3 DEF Scanned, Matching
<1>11. /\ ToSet(oss) = {before[i].key : i \in N \ D}
       /\ \A i, j \in DOMAIN oss : i < j => oss[i] < oss[j]
       /\ \A i \in DOMAIN oss, j \in D : oss[i] < before[j].key
  BY <1>1, <1>10 DEF PrintInv
<1>12. /\ Len(oss) \in Nat /\ DOMAIN oss = 1 .. Len(oss) /\ DOMAIN oss' = 1 .. Len(oss) + 1
       /\ \A i \in 1 .. Len(oss) : oss'[i] = oss[i]
       /\ oss'[Len(oss) + 1] = k
  <2> HIDE DEF k
  <2> QED
    BY <1>3, <1>4, <1>8
<1> HIDE DEF N, D, k
<1>13. ToSet(oss') = {before[i].key : i \in N \ DOMAIN priorityQueue'}
  <2>1. ToSet(oss') = ToSet(oss) \cup {k}
    BY <1>12 DEF ToSet
  <2>2. N \ DOMAIN priorityQueue' = (N \ D) \cup {Top}
    BY <1>5, <1>6, <1>7
  <2> QED
    BY <1>11, <2>1, <2>2 DEF k
<1>14. ASSUME NEW i \in DOMAIN oss', NEW j \in DOMAIN oss', i < j
       PROVE  oss'[i] < oss'[j]
  <2>1. i \in DOMAIN oss
    BY <1>12, <1>14
  <2>2. CASE j \in DOMAIN oss
    BY <1>11, <1>12, <1>14, <2>1, <2>2
  <2>3. CASE j = Len(oss) + 1
    <3>1. oss[i] < k
      BY <1>5, <1>11, <2>1 DEF k
    <3> QED
      BY <1>12, <2>1, <2>3, <3>1
  <2> QED
    BY <1>12, <2>2, <2>3
<1>15. ASSUME NEW i \in DOMAIN oss', NEW j \in DOMAIN priorityQueue'
       PROVE  oss'[i] < before[j].key
  <2>1. j \in D /\ j # Top
    BY <1>7
  <2>2. CASE i \in DOMAIN oss
    BY <1>11, <1>12, <2>1, <2>2
  <2>3. CASE i = Len(oss) + 1
    BY <1>9, <1>12, <2>1, <2>3
  <2> QED
    BY <1>12, <2>2, <2>3
<1> QED
  BY <1>1, <1>3, <1>10, <1>13, <1>14, <1>15 DEF PrintInv, N
-------------------------------------------------------------------------------
(* The answers. *)

\* With a row to look at, the ends of the ints change no extremum.
LEMMA ExtremaOfColumn ==
  ASSUME NEW t \in Seq(Rows), NEW S \in SUBSET DOMAIN t, S # {}, NEW k \in Fields
  PROVE  /\ Max(Column(t, S, k) \cup {IntMin}) = Max(Column(t, S, k))
         /\ Min(Column(t, S, k) \cup {IntMax}) = Min(Column(t, S, k))
<1> DEFINE C == Column(t, S, k)
<1>1. C \in SUBSET Int32 /\ C # {}
  <2>1. \A i \in S : t[i] \in Rows
    OBVIOUS
  <2> QED
    BY <2>1, FieldType DEF Column
<1>2. {IntMin} \in SUBSET Int32 /\ {IntMax} \in SUBSET Int32
  BY SmallInts
<1> HIDE DEF C
<1>3. Max({IntMin}) = IntMin /\ Min({IntMax}) = IntMax
  BY <1>2, GreatestInt
<1>4. Max(C) \in Int32 /\ Min(C) \in Int32
  BY <1>1, GreatestInt
<1>5. ~(Max(C) < IntMin) /\ ~(Min(C) > IntMax)
  <2>1. IntMin \in Int /\ IntMax \in Int
    BY SmallInts
  <2> QED
    BY <1>4, <2>1 DEF Int32
<1>6. Max(C \cup {IntMin}) = Max(C)
  BY <1>1, <1>2, <1>3, <1>5, ExtremaOfUnion
<1>7. Min(C \cup {IntMax}) = Min(C)
  BY <1>1, <1>2, <1>3, <1>5, ExtremaOfUnion
<1> QED
  BY <1>6, <1>7 DEF C

\* What a query in its last step promises.
LEMMA PromiseAtLast ==
  ASSUME ValuesFit, SelectsPrint, DataInv, TurnsInv, phase = "answer"
  PROVE  /\ query \in QuerySet /\ before \in Seq(Rows)
         /\ Matching(query, before) \in SUBSET DOMAIN before
         /\ Matching(query, before) # {} => NoField \notin ToSet(query.ops)
         /\ Promise(query, before) = Value(query, before, Matching(query, before))
<1>1. query \in QuerySet /\ ~Refused(query) /\ before \in Seq(Rows)
  BY QueryTyped DEF TurnsInv
<1>2. Matching(query, before) = Meant(query, before)
  BY <1>1, MatchingIsMeant DEF Refused
<1>3. Matching(query, before) # {} => NoField \notin ToSet(query.ops)
  BY <1>1 DEF TurnsInv, LooksUpNoField, SelectsPrint
<1>4. Promise(query, before) = Value(query, before, Meant(query, before))
  BY <1>1, <1>2, <1>3, PromiseOfValue
<1>5. Matching(query, before) \in SUBSET DOMAIN before
  BY DEF Matching
<1> QED
  BY <1>1, <1>2, <1>3, <1>4, <1>5

LEMMA AnswerOfRefused ==
  ASSUME NEW q \in QuerySet, Refuse(q)
  PROVE  AnswerInv'
<1>1. answer' = <<"error">> /\ phase' = "repl" /\ query' = q /\ before' = table /\ Refused(q)
  BY DEF Refuse, Comes
<1>2. Promise(q, table) = <<"error">>
  BY <1>1, PromiseOfRefused
<1> QED
  BY <1>1, <1>2 DEF AnswerInv, PrintInv, CountInv, AnswerIsPromised

LEMMA AnswerOfThrows ==
  ASSUME ValuesFit, DataInv, TurnsInv, SequentialThrows \/ JoinThrows
  PROVE  AnswerInv'
BY PromisedThrows DEF AnswerInv, PrintInv, CountInv, AnswerIsPromised

\* Whoever answers what the query promises keeps AnswerInv.
LEMMA AnswerOver ==
  ASSUME query' = query, before' = before, phase' = "repl", answer' = Promise(query, before)
  PROVE  AnswerInv'
BY DEF AnswerInv, PrintInv, CountInv, AnswerIsPromised

\* The counts.
LEMMA AnswerOfCounters ==
  ASSUME ValuesFit, SelectsPrint, DataInv, TurnsInv, ResultInv, Answer, query.kind \in Counters
  PROVE  answer' = Promise(query, before)
<1> DEFINE N == Matching(query, before)
<1>1. phase = "answer" /\ answer' = <<"count", counter>>
  BY DEF Answer, Respond, Counters, Extrema
<1>2. counter = Cardinality(N)
  BY <1>1 DEF ResultInv
<1>3. Value(query, before, N) = <<"count", Cardinality(N)>>
  BY DEF Value, Counters, Extrema
<1> QED
  BY <1>1, <1>2, <1>3, PromiseAtLast

\* The sums and the extrema.
LEMMA AnswerOfGatherers ==
  ASSUME ValuesFit, SelectsPrint, DataInv, TurnsInv, ResultInv, Answer, query.kind \in Gatherers
  PROVE  answer' = Promise(query, before)
<1> DEFINE N == Matching(query, before)
           ops == query.ops
<1>1. phase = "answer" /\ query.kind \notin Counters
  BY DEF Answer, Counters, Gatherers, Extrema
<1>2. /\ query \in QuerySet /\ before \in Seq(Rows) /\ N \in SUBSET DOMAIN before
      /\ N # {} => ops \in Seq(Fields)
      /\ Promise(query, before) = Value(query, before, N)
  BY <1>1, PromiseAtLast, OperandsAreFields
<1>3. int_arr = Gathered(query, before, N) /\ (query.kind \in Extrema => found = (N # {}))
  BY <1>1, NobodyThrew DEF ResultInv, Returned, Scanned, Matching, DataInv
<1> HIDE DEF N
<1>4. N # {} => \A k \in DOMAIN ops :
        /\ Max(Column(before, N, ops[k]) \cup {IntMin}) = Max(Column(before, N, ops[k]))
        /\ Min(Column(before, N, ops[k]) \cup {IntMax}) = Min(Column(before, N, ops[k]))
  <2>1. ASSUME N # {}, NEW k \in DOMAIN ops PROVE ops[k] \in Fields
    BY <1>2, <2>1
  <2> QED
    BY <1>2, <2>1, ExtremaOfColumn
<1>5. CASE query.kind = "SUM"
  <2>1. answer' = <<"values", int_arr>>
    BY <1>1, <1>5 DEF Answer, Respond, Counters, Extrema
  <2>2. Gathered(query, before, N) = [k \in DOMAIN ops |-> Wrap(Total(before, N, ops[k]))]
    BY <1>5 DEF Gathered
  <2>3. Value(query, before, N)
          = <<"values", [k \in DOMAIN ops |-> Wrap(Total(before, N, ops[k]))]>>
    BY <1>5 DEF Value, Counters, Extrema
  <2> QED
    BY <1>2, <1>3, <2>1, <2>2, <2>3
<1>6. CASE query.kind \in Extrema /\ N = {}
  <2>1. answer' = <<"null">>
    BY <1>1, <1>3, <1>6 DEF Answer, Respond, Counters, Extrema
  <2>2. Value(query, before, N) = <<"null">>
    BY <1>6 DEF Value, Counters, Extrema
  <2> QED
    BY <1>2, <2>1, <2>2
<1>7. CASE query.kind = "MAX" /\ N # {}
  <2>1. answer' = <<"values", int_arr>>
    BY <1>1, <1>3, <1>7 DEF Answer, Respond, Counters, Extrema
  <2>2. Gathered(query, before, N)
          = [k \in DOMAIN ops |-> Max(Column(before, N, ops[k]) \cup {IntMin})]
    BY <1>7 DEF Gathered
  <2>3. Value(query, before, N) = <<"values", [k \in DOMAIN ops |-> Max(Column(before, N, ops[k]))]>>
    BY <1>7 DEF Value, Counters, Extrema
  <2> QED
    BY <1>2, <1>3, <1>4, <1>7, <2>1, <2>2, <2>3
<1>8. CASE query.kind = "MIN" /\ N # {}
  <2>1. answer' = <<"values", int_arr>>
    BY <1>1, <1>3, <1>8 DEF Answer, Respond, Counters, Extrema
  <2>2. Gathered(query, before, N)
          = [k \in DOMAIN ops |-> Min(Column(before, N, ops[k]) \cup {IntMax})]
    BY <1>8 DEF Gathered
  <2>3. Value(query, before, N) = <<"values", [k \in DOMAIN ops |-> Min(Column(before, N, ops[k]))]>>
    BY <1>8 DEF Value, Counters, Extrema
  <2> QED
    BY <1>2, <1>3, <1>4, <1>8, <2>1, <2>2, <2>3
<1> QED
  BY <1>5, <1>6, <1>7, <1>8 DEF Gatherers, Extrema

\* DUPLICATE answers how many copies it has inserted.
LEMMA AnswerOfDuplicate ==
  ASSUME ValuesFit, SelectsPrint, DataInv, TurnsInv, ResultInv, CountInv, AnswerDuplicate
  PROVE  answer' = Promise(query, before)
<1>1. phase = "answer" /\ query.kind = "DUPLICATE" /\ answer' = <<"count", counter>>
  BY DEF AnswerDuplicate, Respond
<1>2. counter = Len(Listed(Len(before)))
  BY <1>1 DEF CountInv, ResultInv
<1>3. before \in Seq(Rows) /\ Promise(query, before) = Value(query, before, Matching(query, before))
  BY <1>1, PromiseAtLast
<1>4. Len(Listed(Len(before))) = Len(Fresh(query, before, Len(before)))
  <2>1. Len(before) \in 0 .. Len(before)
    BY <1>3
  <2> QED
    BY <1>3, <2>1, ListedType
<1>5. Value(query, before, Matching(query, before))
        = <<"count", Len(Fresh(query, before, Len(before)))>>
  BY <1>1 DEF Value, Counters, Extrema
<1> QED
  BY <1>1, <1>2, <1>3, <1>4, <1>5

\* SELECT answers the keys it has printed.
LEMMA AnswerOfSelect ==
  ASSUME ValuesFit, SelectsPrint, DataInv, TurnsInv, PrintInv, AnswerSelect
  PROVE  answer' = Promise(query, before)
<1> DEFINE N == Matching(query, before)
           Keys == {before[i].key : i \in N}
<1>1. /\ phase = "answer" /\ query.kind = "SELECT" /\ priorityQueue = NoRows
      /\ answer' = IF oss = <<>> THEN <<"null">> ELSE <<"keys", oss>>
  BY DEF AnswerSelect, Respond
<1>2. Promise(query, before) = Value(query, before, N)
  BY <1>1, PromiseAtLast
<1>3. ToSet(oss) = Keys /\ \A i, j \in DOMAIN oss : i < j => oss[i] < oss[j]
  <2>1. (Scanned \cap N) \ DOMAIN priorityQueue = N
    BY <1>1 DEF Scanned, Matching, NoRows
  <2> QED
    BY <1>1, <2>1 DEF PrintInv
<1>4. oss \in Seq(Nat)
  BY DEF DataInv, RowsInv
<1>5. CASE oss = <<>>
  <2>1. Keys = {}
    <3>1. ToSet(oss) = {}
      BY <1>5 DEF ToSet
    <3> HIDE DEF Keys
    <3> QED
      BY <1>3, <3>1
  <2>2. N = {}
    BY <2>1
  <2> HIDE DEF N
  <2>3. Value(query, before, N) = <<"null">>
    BY <1>1, <2>2 DEF Value, Counters, Extrema
  <2> QED
    BY <1>1, <1>2, <1>5, <2>3
<1>6. CASE oss # <<>>
  <2>1. Keys # {}
    <3>1. 1 \in DOMAIN oss
      BY <1>4, <1>6, EmptySeq
    <3> QED
      BY <1>3, <3>1 DEF ToSet
  <2>2. N # {}
    BY <2>1
  <2>3. oss = Ascending(Keys)
    BY <1>3, <1>4, AscendingOf
  <2> HIDE DEF N
  <2>4. Value(query, before, N) = <<"keys", Ascending({before[i].key : i \in N})>>
    BY <1>1, <2>2 DEF Value, Counters, Extrema
  <2> QED
    BY <1>1, <1>2, <1>6, <2>3, <2>4
<1> QED
  BY <1>5, <1>6

LEMMA AnswerInductive ==
  ASSUME ValuesFit, SelectsPrint, DuplicatesLoop
  PROVE  DataInv /\ QueueInv /\ PromiseInv /\ AnswerInv /\ [Next]_vars => AnswerInv'
<1> SUFFICES ASSUME DataInv, QueueInv, PromiseInv, AnswerInv, [Next]_vars PROVE AnswerInv'
  OBVIOUS
<1>0. /\ TurnsInv /\ LocalInv /\ ResultInv /\ PrintInv /\ CountInv
      /\ phase # "repl" => answer = <<"none">>
  BY DEF PromiseInv, AnswerInv
<1>1. ASSUME NEW q \in QuerySet, Refuse(q) PROVE AnswerInv'
  BY <1>1, AnswerOfRefused
<1>2. ASSUME NEW q \in QuerySet, Begin(q) PROVE AnswerInv'
  <2>1. phase' = "begun" /\ answer' = <<"none">>
    BY <1>2 DEF Begin
  <2>2. PrintInv'
    BY <1>2, PrintBegin
  <2> QED
    BY <2>1, <2>2 DEF AnswerInv, CountInv, AnswerIsPromised
<1>3. CASE Sequential
  <2>1. phase = "begun" /\ answer' = answer
    BY <1>3 DEF Sequential
  <2>2. PrintInv' /\ CountInv'
    BY <1>0, <1>3, PrintSequential, CountSequential
  <2> QED
    BY <1>0, <2>1, <2>2 DEF AnswerInv, AnswerIsPromised
<1>4. CASE SequentialThrows \/ JoinThrows
  BY <1>0, <1>4, AnswerOfThrows
<1>5. CASE Fork
  <2>1. /\ phase = "begun" /\ phase' = "wait" /\ answer' = answer /\ query' = query
        /\ before' = before /\ oss' = oss /\ priorityQueue' = priorityQueue
    BY <1>5 DEF Fork, statics
  <2>2. (Scanned \cap Matching(query, before))' = Scanned \cap Matching(query, before)
    <3>1. Scanned = {} /\ Scanned' = {}
      BY <1>0, <1>5, <2>1, NonePassed DEF Scanned
    <3> QED
      BY <3>1
  <2>3. PrintInv'
    BY <1>0, <2>1, <2>2, PrintedKept
  <2> QED
    BY <1>0, <2>1, <2>3 DEF AnswerInv, CountInv, AnswerIsPromised
<1>6. CASE Join
  <2>1. /\ phase = "wait" /\ phase' = "answer" /\ answer' = answer /\ query' = query
        /\ before' = before /\ oss' = oss /\ priorityQueue' = priorityQueue
    BY <1>6 DEF Join, statics
  <2>2. (Scanned \cap Matching(query, before))' = Scanned \cap Matching(query, before)
    <3>1. Scanned = Passed /\ Scanned' = DOMAIN before /\ Matching(query, before)' = Matching(query, before)
      BY <2>1 DEF Scanned
    <3>2. Scanned \cap Matching(query, before) = Matching(query, before)
      BY <1>0, <1>6, <3>1, AllScanned
    <3>3. DOMAIN before \cap Matching(query, before) = Matching(query, before)
      BY DEF Matching
    <3> QED
      BY <3>1, <3>2, <3>3
  <2>3. PrintInv' /\ CountInv'
    BY <1>0, <1>6, <2>1, <2>2, PrintedKept, CountJoin
  <2> QED
    BY <1>0, <2>1, <2>3 DEF AnswerInv, AnswerIsPromised
<1>7. ASSUME NEW id \in DOMAIN pos, ScanRow(id) PROVE AnswerInv'
  <2>1. phase = "wait" /\ phase' = "wait" /\ answer' = answer
    BY <1>7, TaskTyped DEF ScanRow, main
  <2>2. PrintInv'
    BY <1>0, <1>7, PrintScanRow
  <2> QED
    BY <1>0, <2>1, <2>2 DEF AnswerInv, CountInv, AnswerIsPromised
<1>8. ASSUME NEW id \in DOMAIN pos, TaskReturns(id) \/ TaskThrows(id) PROVE AnswerInv'
  <2>1. /\ phase = "wait" /\ phase' = "wait" /\ answer' = answer /\ query' = query
        /\ before' = before /\ oss' = oss /\ priorityQueue' = priorityQueue
        /\ pos' = pos /\ table' = table
    BY <1>8, TaskTyped DEF TaskReturns, TaskThrows, main
  <2>2. (Scanned \cap Matching(query, before))' = Scanned \cap Matching(query, before)
    <3>1. Scanned = Passed /\ Scanned' = Passed' /\ Passed' = Passed
      BY <2>1 DEF Scanned, Passed, size
    <3> QED
      BY <2>1, <3>1
  <2>3. PrintInv'
    BY <1>0, <2>1, <2>2, PrintedKept
  <2> QED
    BY <1>0, <2>1, <2>3 DEF AnswerInv, CountInv, AnswerIsPromised
<1>9. CASE Answer
  <2>1. phase' = "repl" /\ query' = query /\ before' = before
    BY <1>9 DEF Answer, Respond
  <2>2. answer' = Promise(query, before)
    <3>1. query.kind \in Counters \cup Gatherers
      BY <1>9 DEF Answer
    <3> QED
      BY <1>0, <1>9, <3>1, AnswerOfCounters, AnswerOfGatherers
  <2> QED
    BY <2>1, <2>2, AnswerOver
<1>10. CASE AnswerDuplicate
  <2>1. phase' = "repl" /\ query' = query /\ before' = before
    BY <1>10 DEF AnswerDuplicate, Respond
  <2> QED
    BY <1>0, <1>10, <2>1, AnswerOfDuplicate, AnswerOver
<1>11. CASE PrintRow
  <2>1. phase = "answer" /\ query.kind = "SELECT"
    BY <1>11, PrintRowDoes
  <2>2. NoField \notin ToSet(query.ops)
    BY <2>1, QueryTyped DEF SelectsPrint
  <2>3. answer' = answer /\ phase' = phase /\ query' = query
    BY <1>11, <2>2, Zenon DEF PrintRow
  <2>4. PrintInv'
    BY <1>0, <1>11, PrintPrintRow
  <2> QED
    BY <1>0, <2>1, <2>3, <2>4 DEF AnswerInv, CountInv, AnswerIsPromised
<1>12. CASE AnswerSelect
  <2>1. phase' = "repl" /\ query' = query /\ before' = before
    BY <1>12 DEF AnswerSelect, Respond
  <2> QED
    BY <1>0, <1>12, <2>1, AnswerOfSelect, AnswerOver
<1>13. CASE UNCHANGED vars
  <2>1. /\ phase' = phase /\ answer' = answer /\ query' = query /\ before' = before
        /\ oss' = oss /\ priorityQueue' = priorityQueue /\ counter' = counter /\ keys' = keys
        /\ pos' = pos /\ size' = size
    BY <1>13 DEF vars, main, statics, tasks, size
  <2>2. (Scanned \cap Matching(query, before))' = Scanned \cap Matching(query, before)
    <3>1. Passed' = Passed
      BY <2>1 DEF Passed
    <3>2. Scanned' = Scanned
      BY <2>1, <3>1 DEF Scanned
    <3> QED
      BY <2>1, <3>2
  <2>3. PrintInv'
    <3>1. CASE phase = "repl"
      BY <2>1, <3>1 DEF PrintInv
    <3>2. CASE phase # "repl"
      BY <1>0, <2>1, <2>2, <3>2, PrintedKept
    <3> QED
      BY <3>1, <3>2
  <2> QED
    BY <2>1, <2>3 DEF AnswerInv, CountInv, AnswerIsPromised
<1> QED
  BY <1>1, <1>2, <1>3, <1>4, <1>5, <1>6, <1>7, <1>8, <1>9, <1>10, <1>11, <1>12, <1>13
     DEF Next, Task

\* A query answers what it promises of the table it found: the count, the sums,
\* the extrema, the keys in ascending order, whichever branch execute() takes,
\* however the tasks interleave and whatever was asked before.  DataSelect and
\* the uninitialised count are why the last two hypotheses are there.
THEOREM AnswersArePromised ==
  ASSUME ValuesFit, SelectsPrint, DuplicatesLoop
  PROVE  Spec => []AnswerIsPromised
<1>1. Init => AnswerInv
  BY DEF Init, AnswerInv, PrintInv, CountInv, AnswerIsPromised
<1>2. DataInv /\ QueueInv /\ PromiseInv /\ AnswerInv /\ [Next]_vars => AnswerInv'
  BY AnswerInductive
<1>3. Init => QueueInv /\ PromiseInv
  BY QueueAtFirst, PromiseAtFirst
<1>4. DataInv /\ QueueInv /\ [Next]_vars => QueueInv'
  BY QueueInductive
<1>5. DataInv /\ PromiseInv /\ [Next]_vars => PromiseInv'
  BY PromiseInductive
<1>6. AnswerInv => AnswerIsPromised
  BY DEF AnswerInv
<1> QED
  BY <1>1, <1>2, <1>3, <1>4, <1>5, <1>6, DataInvariant, PTL DEF Spec
================================================================================
