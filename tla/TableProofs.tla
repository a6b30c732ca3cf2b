------------------------------- MODULE TableProofs -------------------------------
(***************************************************************************)
(* Proofs about Table, for every set of keys, values and WHERE clauses and *)
(* tables of every size: keyMap stays the exact index of the rows through  *)
(* every loop, and the copies DUPLICATE collected can be inserted, as long *)
(* as no UPDATE gives a row a key that another row has (~ClashAllowed).    *)
(* And that Table then implements KeyedTable: each query, loop turn by     *)
(* loop turn on the rows and their index, is one step of a map from keys   *)
(* to values.  The invariant for it compares the rows in the middle of a   *)
(* loop with those the query found.                                        *)
(***************************************************************************)
EXTENDS Table, SequenceTheorems, FiniteSetTheorems, TLAPS

(* What the operations of the table do to an exact index. *)

\* A new row at the end, under a key that is not in the index.
LEMMA AppendIndexes ==
  ASSUME NEW m, NEW d \in Seq(Row), Indexes(m, d),
         NEW k \in Keys \ DOMAIN m, NEW v \in Vals
  PROVE  /\ Append(d, [key |-> k, val |-> v]) \in Seq(Row)
         /\ Indexes(Emplace(m, k, Len(d) + 1), Append(d, [key |-> k, val |-> v]))
  <1> DEFINE r == [key |-> k, val |-> v]
             d2 == Append(d, r)
             m2 == Emplace(m, k, Len(d) + 1)
  <1>1. r \in Row /\ r.key = k
    BY DEF Row
  <1>2. /\ d2 \in Seq(Row)
        /\ DOMAIN d2 = 1 .. Len(d) + 1
        /\ \A i \in 1 .. Len(d) : d2[i] = d[i]
        /\ d2[Len(d) + 1] = r
    BY <1>1, AppendProperties, LenProperties
  <1>3. m2 = [x \in DOMAIN m \cup {k} |-> IF x = k THEN Len(d) + 1 ELSE m[x]]
    BY DEF Emplace, Assign
  <1>4. DOMAIN d = 1 .. Len(d) /\ Len(d) \in Nat
    BY LenProperties
  <1> HIDE DEF d2, m2, r
  <1>5. ASSUME NEW i \in DOMAIN d2
        PROVE  d2[i].key \in DOMAIN m2 /\ m2[d2[i].key] = i
    <2>1. CASE i = Len(d) + 1
      BY <2>1, <1>1, <1>2, <1>3
    <2>2. CASE i \in DOMAIN d
      <3>1. d2[i].key = d[i].key /\ d[i].key \in DOMAIN m /\ m[d[i].key] = i
        BY <2>2, <1>2, <1>4 DEF Indexes
      <3> QED BY <3>1, <1>3
    <2> QED BY <2>1, <2>2, <1>2, <1>4
  <1>6. ASSUME NEW x \in DOMAIN m2
        PROVE  m2[x] \in DOMAIN d2 /\ d2[m2[x]].key = x
    <2>1. CASE x = k
      BY <2>1, <1>1, <1>2, <1>3, <1>4
    <2>2. CASE x # k
      <3>1. x \in DOMAIN m /\ m2[x] = m[x] /\ m[x] \in DOMAIN d /\ d[m[x]].key = x
        BY <2>2, <1>3 DEF Indexes
      <3> QED BY <3>1, <1>2, <1>4
    <2> QED BY <2>1, <2>2
  <1> QED BY <1>2, <1>5, <1>6 DEF Indexes, d2, m2, r

\* The last row goes where the deleted one was.
LEMMA DeleteIndexes ==
  ASSUME NEW m, NEW d \in Seq(Row), Indexes(m, d), NEW k \in DOMAIN m
  PROVE  LET d2 == SubSeq([d EXCEPT ![m[k]] = d[Len(d)]], 1, Len(d) - 1)
         IN /\ d2 \in Seq(Row)
            /\ Indexes(Erase(Assign(m, d[Len(d)].key, m[k]), k), d2)
  <1> DEFINE last == d[Len(d)]
             d1 == [d EXCEPT ![m[k]] = last]
             d2 == SubSeq(d1, 1, Len(d) - 1)
             m2 == Erase(Assign(m, last.key, m[k]), k)
  <1>1. DOMAIN d = 1 .. Len(d) /\ Len(d) \in Nat
    BY LenProperties
  <1>2. m[k] \in 1 .. Len(d) /\ d[m[k]].key = k
    BY <1>1 DEF Indexes
  <1>3. /\ Len(d) \in 1 .. Len(d)
        /\ last \in Row
        /\ last.key \in DOMAIN m
        /\ m[last.key] = Len(d)
    <2>1. Len(d) \in 1 .. Len(d)
      BY <1>1, <1>2
    <2>2. last \in Row
      BY <2>1, ElementOfSeq
    <2> QED BY <2>1, <2>2, <1>1 DEF Indexes
  <1>4. /\ d1 \in Seq(Row)
        /\ \A j \in 1 .. Len(d) : d1[j] = IF j = m[k] THEN last ELSE d[j]
    BY <1>2, <1>3, ExceptSeq
  <1>5. \A i \in 1 .. Len(d) - 1 : d1[i] \in Row
    BY <1>1, <1>2, <1>3, <1>4, ElementOfSeq
  <1>6. /\ d2 \in Seq(Row)
        /\ Len(d2) = Len(d) - 1
        /\ \A i \in 1 .. Len(d) - 1 : d2[i] = d1[i]
    <2>1. /\ d2 \in Seq(Row)
          /\ Len(d2) = IF 1 <= Len(d) - 1 THEN Len(d) - 1 - 1 + 1 ELSE 0
          /\ \A i \in 1 .. Len(d) - 1 - 1 + 1 : d2[i] = d1[1 + i - 1]
      <3> HIDE DEF d1
      <3> QED BY <1>1, <1>5, SubSeqProperties
    <2>2. Len(d) \in Nat /\ Len(d) >= 1
      BY <1>1, <1>3
    <2> HIDE DEF d1, d2
    <2>3. Len(d2) = Len(d) - 1
      <3>1. \A n \in Nat : n >= 1 =>
              (IF 1 <= n - 1 THEN n - 1 - 1 + 1 ELSE 0) = n - 1
        OBVIOUS
      <3> QED BY <2>1, <2>2, <3>1
    <2>4. ASSUME NEW i \in 1 .. Len(d) - 1
          PROVE  d2[i] = d1[i]
      <3>1. i \in 1 .. Len(d) - 1 - 1 + 1 /\ 1 + i - 1 = i
        BY <2>2
      <3> QED BY <3>1, <2>1
    <2> QED BY <2>1, <2>3, <2>4
  <1>7. DOMAIN d2 = 1 .. Len(d) - 1
    BY <1>6, LenProperties
  <1>8. m2 = [x \in DOMAIN m \ {k} |-> IF x = last.key THEN m[k] ELSE m[x]]
    BY <1>3 DEF Erase, Assign
  <1> HIDE DEF last, d1, d2, m2
  <1>9. ASSUME NEW i \in DOMAIN d2
        PROVE  d2[i].key \in DOMAIN m2 /\ m2[d2[i].key] = i
    <2>1. i \in 1 .. Len(d) /\ i # Len(d)
      BY <1>1, <1>7
    <2>2. CASE i = m[k]
      <3>1. d2[i] = last
        BY <2>1, <2>2, <1>4, <1>6, <1>7
      <3>2. last.key # k
        BY <2>1, <2>2, <1>3
      <3> QED BY <3>1, <3>2, <2>2, <1>3, <1>8
    <2>3. CASE i # m[k]
      <3>1. d2[i] = d[i]
        BY <2>1, <2>3, <1>4, <1>6, <1>7
      <3>2. d[i].key \in DOMAIN m /\ m[d[i].key] = i
        BY <2>1, <1>1 DEF Indexes
      <3>3. d[i].key # k /\ d[i].key # last.key
        BY <3>2, <2>1, <2>3, <1>3
      <3> QED BY <3>1, <3>2, <3>3, <1>8
    <2> QED BY <2>2, <2>3
  <1>10. ASSUME NEW x \in DOMAIN m2
         PROVE  m2[x] \in DOMAIN d2 /\ d2[m2[x]].key = x
    <2>1. x \in DOMAIN m /\ x # k
      BY <1>8
    <2>2. m[x] \in 1 .. Len(d) /\ d[m[x]].key = x
      BY <2>1, <1>1 DEF Indexes
    <2>3. CASE x = last.key
      <3>1. m2[x] = m[k]
        BY <2>1, <2>3, <1>8
      <3>2. m[k] # Len(d)
        BY <2>1, <2>3, <1>2, <1>3 DEF last
      <3>3. m[k] \in 1 .. Len(d) - 1
        BY <3>2, <1>1, <1>2
      <3> QED BY <3>1, <3>3, <2>3, <1>2, <1>4, <1>6, <1>7
    <2>4. CASE x # last.key
      <3>1. m2[x] = m[x]
        BY <2>1, <2>4, <1>8
      <3>2. m[x] # Len(d) /\ m[x] # m[k]
        BY <2>1, <2>2, <2>4, <1>2 DEF last
      <3>3. m[x] \in 1 .. Len(d) - 1
        BY <3>2, <2>2, <1>1
      <3> QED BY <3>1, <3>2, <3>3, <2>2, <1>4, <1>6, <1>7
    <2> QED BY <2>3, <2>4
  <1>11. Indexes(m2, d2)
    BY <1>9, <1>10 DEF Indexes
  <1> QED BY <1>6, <1>11 DEF last, d1, d2, m2

\* A row takes a key that no other row has.
LEMMA RenameIndexes ==
  ASSUME NEW m, NEW d \in Seq(Row), Indexes(m, d),
         NEW i \in DOMAIN d, NEW k \in Keys,
         \A j \in DOMAIN d \ {i} : d[j].key # k
  PROVE  /\ [d EXCEPT ![i].key = k] \in Seq(Row)
         /\ Indexes(Emplace(Erase(m, d[i].key), k, m[d[i].key]),
                    [d EXCEPT ![i].key = k])
  <1> DEFINE r == [d[i] EXCEPT !.key = k]
             d2 == [d EXCEPT ![i] = r]
             m2 == Emplace(Erase(m, d[i].key), k, m[d[i].key])
  <1>1. DOMAIN d = 1 .. Len(d)
    BY LenProperties
  <1>2. r \in Row /\ r.key = k
    <2>1. d[i] \in Row
      BY <1>1, ElementOfSeq
    <2> QED BY <2>1 DEF Row
  <1>3. /\ d2 \in Seq(Row)
        /\ DOMAIN d2 = DOMAIN d
        /\ \A j \in DOMAIN d : d2[j] = IF j = i THEN r ELSE d[j]
    <2> HIDE DEF r
    <2> QED BY <1>1, <1>2, ExceptSeq
  <1>4. d[i].key \in DOMAIN m /\ m[d[i].key] = i
    BY DEF Indexes
  <1>5. k \notin DOMAIN m \ {d[i].key}
    BY <1>4 DEF Indexes
  <1>6. m2 = [x \in (DOMAIN m \ {d[i].key}) \cup {k} |->
                IF x = k THEN i ELSE m[x]]
    <2>1. DOMAIN Erase(m, d[i].key) = DOMAIN m \ {d[i].key}
      BY DEF Erase
    <2>2. \A x \in DOMAIN m \ {d[i].key} : Erase(m, d[i].key)[x] = m[x]
      BY DEF Erase
    <2>3. m2 = Assign(Erase(m, d[i].key), k, i)
      BY <2>1, <1>4, <1>5 DEF Emplace
    <2> QED BY <2>1, <2>2, <2>3 DEF Assign
  <1> HIDE DEF r, d2, m2
  <1>7. ASSUME NEW j \in DOMAIN d2
        PROVE  d2[j].key \in DOMAIN m2 /\ m2[d2[j].key] = j
    <2>1. CASE j = i
      BY <2>1, <1>2, <1>3, <1>6
    <2>2. CASE j # i
      <3>1. d2[j] = d[j] /\ d[j].key \in DOMAIN m /\ m[d[j].key] = j
        BY <2>2, <1>3 DEF Indexes
      <3>2. d[j].key # k /\ d[j].key # d[i].key
        BY <3>1, <2>2, <1>3, <1>4
      <3> QED BY <3>1, <3>2, <1>6
    <2> QED BY <2>1, <2>2
  <1>8. ASSUME NEW x \in DOMAIN m2
        PROVE  m2[x] \in DOMAIN d2 /\ d2[m2[x]].key = x
    <2>1. CASE x = k
      BY <2>1, <1>2, <1>3, <1>6
    <2>2. CASE x # k
      <3>1. x \in DOMAIN m /\ x # d[i].key /\ m2[x] = m[x]
        BY <2>2, <1>6
      <3>2. m[x] \in DOMAIN d /\ d[m[x]].key = x
        BY <3>1 DEF Indexes
      <3>3. m[x] # i
        BY <3>1, <3>2
      <3> QED BY <3>1, <3>2, <3>3, <1>3
    <2> QED BY <2>1, <2>2
  <1>9. Indexes(m2, d2)
    BY <1>7, <1>8 DEF Indexes
  <1>10. [d EXCEPT ![i].key = k] = d2
    BY DEF d2, r
  <1> QED BY <1>3, <1>9, <1>10 DEF m2

\* A row keeps its key and takes another value.
LEMMA UpdateIndexes ==
  ASSUME NEW m, NEW d \in Seq(Row), Indexes(m, d),
         NEW i \in DOMAIN d, NEW v \in Vals
  PROVE  /\ [d EXCEPT ![i].val = v] \in Seq(Row)
         /\ Len([d EXCEPT ![i].val = v]) = Len(d)
         /\ Indexes(m, [d EXCEPT ![i].val = v])
  <1> DEFINE r == [d[i] EXCEPT !.val = v]
             d2 == [d EXCEPT ![i] = r]
  <1>1. DOMAIN d = 1 .. Len(d)
    BY LenProperties
  <1>2. r \in Row /\ r.key = d[i].key
    <2>1. d[i] \in Row
      BY <1>1, ElementOfSeq
    <2> QED BY <2>1 DEF Row
  <1>3. /\ d2 \in Seq(Row)
        /\ Len(d2) = Len(d)
        /\ DOMAIN d2 = DOMAIN d
        /\ \A j \in DOMAIN d : d2[j] = IF j = i THEN r ELSE d[j]
    <2> HIDE DEF r
    <2> QED BY <1>1, <1>2, ExceptSeq
  <1> HIDE DEF r, d2
  <1>4. \A j \in DOMAIN d : d2[j].key = d[j].key
    BY <1>2, <1>3
  <1>5. Indexes(m, d2)
    BY <1>3, <1>4 DEF Indexes
  <1>6. [d EXCEPT ![i].val = v] = d2
    BY DEF d2, r
  <1> QED BY <1>3, <1>5, <1>6
-------------------------------------------------------------------------------
(* The invariant. *)

LEMMA InitIndInv == Init => IndInv
  <1> SUFFICES ASSUME Init PROVE IndInv
    OBVIOUS
  <1> USE DEF Init
  <1>1. <<>> \in Seq(Row) /\ <<>> \in Seq(DOMAIN CopyOf)
    BY EmptySeq
  <1>2. DOMAIN keyMap = {} /\ DOMAIN data = {}
    BY DEF Empty
  <1>3. query \in Query /\ query.op = "idle"
    BY DEF Query, Idle
  <1>4. TypeOK
    BY <1>1, <1>2, <1>3 DEF TypeOK
  <1>5. KeyMapConsistent
    BY <1>2 DEF KeyMapConsistent, Indexes
  <1> QED BY <1>3, <1>4, <1>5
          DEF IndInv, RenameAhead, Collecting, CopiesFit, Walks

\* The index finds rows only, so the conjunct of TypeOK on its range follows.
LEMMA IndexRange ==
  ASSUME NEW m, NEW d \in Seq(Row), Indexes(m, d)
  PROVE  /\ \A k \in DOMAIN m : m[k] \in 1 .. Len(d)
         /\ DOMAIN m \subseteq Keys
  <1>1. DOMAIN d = 1 .. Len(d) /\ \A i \in 1 .. Len(d) : d[i] \in Row
    BY LenProperties, ElementOfSeq
  <1> QED BY <1>1 DEF Indexes, Row

\* A query in progress is one of five, told apart by op.
LEMMA QueryOps ==
  ASSUME NEW q \in Query
  PROVE  /\ q.op \in {"idle", "insertCopies", "delete", "duplicate",
                      "update", "rename"}
         /\ q.op = "idle" => q = Idle
         /\ q.op = "update" => q.val \in Vals
         /\ q.op = "rename" => q.key \in Keys
  <1>1. CASE q = Idle
    BY <1>1 DEF Idle
  <1>5. CASE q = [op |-> "insertCopies"]
    BY <1>5
  <1>2. CASE q \in [op : {"delete", "duplicate"}, cond : Conds]
    BY <1>2
  <1>3. CASE q \in [op : {"update"}, cond : Conds, val : Vals]
    BY <1>3
  <1>4. CASE q \in [op : {"rename"}, cond : Conds, key : Keys]
    BY <1>4
  <1> QED BY <1>1, <1>2, <1>3, <1>4, <1>5 DEF Query

\* Between queries there is nothing to ask of a loop.
LEMMA IdleIndInv ==
  ASSUME TypeOK', KeyMapConsistent', query' = Idle
  PROVE  IndInv'
  BY DEF Idle, IndInv, RenameAhead, Collecting, CopiesFit, Walks

LEMMA InsertStep ==
  ASSUME IndInv, NEW k \in Keys, NEW v \in Vals, Insert(k, v)
  PROVE  IndInv'
  <1> USE DEF Insert, insertByKey, loop
  <1>1. data' \in Seq(Row) /\ Indexes(keyMap', data')
    BY AppendIndexes DEF IndInv, TypeOK, KeyMapConsistent
  <1>2. TypeOK'
    BY <1>1, IndexRange DEF IndInv, TypeOK
  <1>3. KeyMapConsistent' /\ query' = Idle
    BY <1>1 DEF KeyMapConsistent
  <1> QED BY <1>2, <1>3, IdleIndInv

LEMMA ClearStep ==
  ASSUME IndInv, Truncate \/ DeleteAll
  PROVE  IndInv'
  <1> USE DEF Truncate, DeleteAll, clear, loop
  <1>1. data' = <<>> /\ keyMap' = Empty /\ query' = Idle
    BY DEF IndInv
  <1>2. data' \in Seq(Row) /\ Len(data') = 0
    BY <1>1, EmptySeq
  <1>3. Indexes(keyMap', data')
    BY <1>1 DEF Indexes, Empty
  <1>4. affected' \in Nat
    BY LenProperties DEF IndInv, TypeOK
  <1>5. TypeOK'
    BY <1>2, <1>3, <1>4, IndexRange DEF IndInv, TypeOK
  <1> QED BY <1>1, <1>3, <1>5, IdleIndInv DEF KeyMapConsistent

\* DUPLICATE's vector of keys when a loop begins.
LEMMA NoKeys == /\ <<>> \in Seq(DOMAIN CopyOf)
                /\ \A n \in DOMAIN <<>> : FALSE
  <1>1. <<>> \in Seq(DOMAIN CopyOf) /\ Len(<<>>) = 0
    BY EmptySeq
  <1>2. \A s \in Seq(DOMAIN CopyOf) : Len(s) = 0 => \A n \in DOMAIN s : FALSE
    BY LenProperties
  <1> QED BY <1>1, <1>2, Zenon

\* Every row a DUPLICATE asks for has a key for its copy.
Copyable(cond, d) ==
  \A i \in DOMAIN d : evalCondition(cond, d[i]) => d[i].key \in DOMAIN CopyOf

\* What Begin leaves to prove of each query: it is one, and the walk is safe.
LEMMA BeginStep ==
  ASSUME IndInv, NEW q \in Query, Begin(q), q.op # "idle", q.op # "insertCopies",
         RenameAhead',
         q.op = "duplicate" => Copyable(q.cond, data)
  PROVE  IndInv'
  <1>1. keys' \in Seq(DOMAIN CopyOf) /\ \A n \in DOMAIN keys' : FALSE
    BY NoKeys, Zenon DEF Begin
  <1>2. /\ query' = q /\ it' = 1 /\ counter' = 0 /\ before' = data
        /\ UNCHANGED <<data, keyMap, affected>>
    BY DEF Begin
  <1>3. TypeOK'
    BY <1>1, <1>2 DEF IndInv, TypeOK
  <1>4. KeyMapConsistent'
    BY <1>2 DEF IndInv, KeyMapConsistent
  <1>5. Collecting'
    BY <1>1, <1>2 DEF Collecting, Distinct, Matches, Copyable
  <1>6. CopiesFit' /\ query'.op # "insertCopies"
    BY <1>2 DEF CopiesFit
  <1>7. Walks'
    <2>1. it' >= 1
      BY <1>2
    <2> QED BY <2>1, <1>6 DEF Walks
  <1> QED BY <1>3, <1>4, <1>5, <1>6, <1>7 DEF IndInv

LEMMA BeginSteps ==
  ASSUME IndInv, ClashAllowed = FALSE, NEW c \in Conds,
         \/ BeginDelete(c)
         \/ \E v \in Vals : BeginUpdate(c, v)
         \/ \E k \in Keys : BeginRename(c, k)
         \/ BeginDuplicate(c)
  PROVE  IndInv'
  <1>1. CASE BeginDelete(c)
    <2> DEFINE q == [op |-> "delete", cond |-> c]
    <2>1. q \in Query /\ q.op = "delete"
      BY DEF Query
    <2>2. RenameAhead'
      BY <1>1 DEF BeginDelete, Begin, RenameAhead
    <2> QED BY <1>1, <2>1, <2>2, BeginStep DEF BeginDelete
  <1>2. ASSUME NEW v \in Vals, BeginUpdate(c, v)
        PROVE  IndInv'
    <2> DEFINE q == [op |-> "update", cond |-> c, val |-> v]
    <2>1. q \in Query /\ q.op = "update"
      BY DEF Query
    <2>2. RenameAhead'
      BY <1>2 DEF BeginUpdate, Begin, RenameAhead
    <2> QED BY <1>2, <2>1, <2>2, BeginStep DEF BeginUpdate
  <1>3. ASSUME NEW k \in Keys, BeginRename(c, k)
        PROVE  IndInv'
    <2> DEFINE q == [op |-> "rename", cond |-> c, key |-> k]
    <2>1. q \in Query /\ q.op = "rename"
      BY DEF Query
    <2>2. /\ NoClash(c, k)
          /\ query' = q
          /\ it' = 1
          /\ data' = data
      BY <1>3 DEF BeginRename, Begin
    <2>3. DOMAIN data = 1 .. Len(data)
      BY LenProperties DEF IndInv, TypeOK
    <2>4. RenameAhead'
      BY <2>2, <2>3 DEF RenameAhead, NoClash, Matches
    <2> QED BY <1>3, <2>1, <2>4, BeginStep DEF BeginRename
  <1>4. CASE BeginDuplicate(c)
    <2> DEFINE q == [op |-> "duplicate", cond |-> c]
    <2>1. q \in Query /\ q.op = "duplicate" /\ q.cond = c
      BY DEF Query
    <2>2. RenameAhead'
      BY <1>4 DEF BeginDuplicate, Begin, RenameAhead
    <2> QED BY <1>4, <2>1, <2>2, BeginStep DEF BeginDuplicate, Copyable
  <1> QED BY <1>1, <1>2, <1>3, <1>4

LEMMA SkipRowStep ==
  ASSUME IndInv, SkipRow
  PROVE  IndInv'
  <1> USE DEF SkipRow
  <1>1. it \in Nat /\ it >= 1
    BY DEF IndInv, TypeOK, Walks
  <1>2. TypeOK'
    BY DEF IndInv, TypeOK
  <1>3. KeyMapConsistent'
    BY DEF IndInv, KeyMapConsistent
  <1>4. RenameAhead'
    <2> SUFFICES ASSUME query.op = "rename",
                        NEW i \in it + 1 .. Len(data), Matches(data[i]),
                        NEW j \in DOMAIN data \ {i}
                 PROVE  /\ data[j].key # query.key
                        /\ j >= it + 1 => ~Matches(data[j])
      BY DEF RenameAhead, Matches
    <2>1. DOMAIN data = 1 .. Len(data) /\ Len(data) \in Nat
      BY LenProperties DEF IndInv, TypeOK
    <2>2. i \in it .. Len(data)
      BY <1>1, <2>1
    <2>3. data[j].key # query.key /\ (j >= it => ~Matches(data[j]))
      BY <2>2 DEF IndInv, RenameAhead
    <2> QED BY <1>1, <2>1, <2>3
  <1>5. Collecting'
    <2>1. \A n \in DOMAIN keys : keys[n] \in DOMAIN keyMap =>
            keyMap[keys[n]] \in Nat
      BY DEF IndInv, TypeOK
    <2> QED BY <1>1, <2>1 DEF IndInv, Collecting, Matches
  <1>6. CopiesFit'
    BY DEF CopiesFit
  <1>7. Walks'
    <2>1. query'.op # "insertCopies"
      OBVIOUS
    <2>2. it' >= 1
      BY <1>1
    <2> QED BY <2>1, <2>2 DEF Walks
  <1> QED BY <1>2, <1>3, <1>4, <1>5, <1>6, <1>7 DEF IndInv

LEMMA DeleteRowStep ==
  ASSUME IndInv, DeleteRow
  PROVE  IndInv'
  <1>1. data' \in Seq(Row) /\ Indexes(keyMap', data')
    BY DeleteIndexes
    DEF DeleteRow, deleteDatum, IndInv, TypeOK, KeyMapConsistent
  <1>2. /\ query.op = "delete"
        /\ counter' = counter + 1
        /\ UNCHANGED <<query, it, keys, affected, before>>
    BY DEF DeleteRow, AtMatch
  <1>3. TypeOK'
    BY <1>1, <1>2, IndexRange DEF IndInv, TypeOK
  <1>4. KeyMapConsistent'
    BY <1>1 DEF KeyMapConsistent
  <1>5. RenameAhead' /\ Collecting' /\ CopiesFit'
    BY <1>2 DEF RenameAhead, Collecting, CopiesFit
  <1>6. Walks'
    <2>1. query'.op = "delete"
      BY <1>2
    <2>2. it' >= 1
      BY <1>2 DEF IndInv, Walks
    <2> QED BY <2>1, <2>2 DEF Walks
  <1> QED BY <1>3, <1>4, <1>5, <1>6 DEF IndInv

LEMMA UpdateRowStep ==
  ASSUME IndInv, UpdateRow
  PROVE  IndInv'
  <1>1. /\ query.op = "update"
        /\ it <= Len(data)
        /\ data' = [data EXCEPT ![it].val = query.val]
        /\ it' = it + 1
        /\ counter' = counter + 1
        /\ UNCHANGED <<keyMap, query, keys, affected, before>>
    BY DEF UpdateRow, AtMatch
  <1>2. query.val \in Vals
    BY <1>1, QueryOps DEF IndInv, TypeOK
  <1>3. it \in DOMAIN data
    BY <1>1, LenProperties DEF IndInv, TypeOK, Walks
  <1>4. data' \in Seq(Row) /\ Indexes(keyMap', data')
    BY <1>1, <1>2, <1>3, UpdateIndexes DEF IndInv, TypeOK, KeyMapConsistent
  <1>5. TypeOK'
    <2>1. /\ DOMAIN keyMap' \subseteq Keys
          /\ \A k \in DOMAIN keyMap' : keyMap'[k] \in 1 .. Len(data')
      BY <1>4, IndexRange
    <2> QED BY <1>1, <1>4, <2>1 DEF IndInv, TypeOK
  <1>6. KeyMapConsistent'
    BY <1>4 DEF KeyMapConsistent
  <1>7. RenameAhead' /\ Collecting' /\ CopiesFit'
    BY <1>1 DEF RenameAhead, Collecting, CopiesFit
  <1>8. Walks'
    <2>1. query'.op = "update"
      BY <1>1
    <2>2. it' >= 1
      BY <1>1, <1>3, LenProperties DEF IndInv, TypeOK
    <2> QED BY <2>1, <2>2 DEF Walks
  <1> QED BY <1>5, <1>6, <1>7, <1>8 DEF IndInv

LEMMA RenameRowStep ==
  ASSUME IndInv, RenameRow
  PROVE  IndInv'
  <1>1. /\ query.op = "rename"
        /\ it <= Len(data)
        /\ Matches(data[it])
        /\ data' = [data EXCEPT ![it].key = query.key]
        /\ keyMap' = Emplace(Erase(keyMap, data[it].key), query.key,
                             keyMap[data[it].key])
        /\ it' = it + 1
        /\ counter' = counter + 1
        /\ UNCHANGED <<query, keys, affected, before>>
    BY DEF RenameRow, AtMatch, setKey
  <1>2. query.key \in Keys
    BY <1>1, QueryOps DEF IndInv, TypeOK
  <1>3. DOMAIN data = 1 .. Len(data) /\ Len(data) \in Nat /\ data \in Seq(Row)
    BY LenProperties DEF IndInv, TypeOK
  <1>4. it \in Nat /\ it >= 1 /\ it \in DOMAIN data
    BY <1>1, <1>3 DEF IndInv, TypeOK, Walks
  <1>5. \A j \in DOMAIN data \ {it} :
          data[j].key # query.key /\ (j >= it => ~Matches(data[j]))
    BY <1>1, <1>3, <1>4 DEF IndInv, RenameAhead
  <1>6. data' \in Seq(Row) /\ Indexes(keyMap', data')
    BY <1>1, <1>2, <1>3, <1>4, <1>5, RenameIndexes DEF IndInv, KeyMapConsistent
  <1>7. TypeOK'
    <2>1. /\ DOMAIN keyMap' \subseteq Keys
          /\ \A k \in DOMAIN keyMap' : keyMap'[k] \in 1 .. Len(data')
      BY <1>6, IndexRange
    <2> QED BY <1>1, <1>4, <1>6, <2>1 DEF IndInv, TypeOK
  <1>8. KeyMapConsistent'
    BY <1>6 DEF KeyMapConsistent
  \* Nothing ahead of the row just renamed matches.
  <1>9. RenameAhead'
    <2>1. Len(data') = Len(data) /\ \A i \in it + 1 .. Len(data) : data'[i] = data[i]
      BY <1>1, <1>3, <1>4, ExceptSeq
    <2>2. \A i \in it + 1 .. Len(data) : ~Matches(data[i])
      BY <1>3, <1>4, <1>5
    <2> QED BY <1>1, <2>1, <2>2 DEF RenameAhead, Matches
  <1>10. Collecting' /\ CopiesFit'
    BY <1>1 DEF Collecting, CopiesFit
  <1>11. Walks'
    <2>1. query'.op = "rename" /\ it' >= 1
      BY <1>1, <1>4
    <2> QED BY <2>1 DEF Walks
  <1> QED BY <1>7, <1>8, <1>9, <1>10, <1>11 DEF IndInv

\* A key is collected once, because its row is ahead of those of the others.
LEMMA CollectKeyStep ==
  ASSUME IndInv, CollectKey
  PROVE  IndInv'
  <1>1. /\ query.op = "duplicate"
        /\ it <= Len(data)
        /\ Matches(data[it])
        /\ it' = it + 1
        /\ UNCHANGED <<data, keyMap, query, affected, before>>
    BY DEF CollectKey, AtMatch
  <1>2. DOMAIN data = 1 .. Len(data) /\ Len(data) \in Nat
    BY LenProperties DEF IndInv, TypeOK
  <1>3. it \in Nat /\ it >= 1 /\ it \in DOMAIN data
    BY <1>1, <1>2 DEF IndInv, TypeOK, Walks
  <1> DEFINE k == data[it].key
  <1>4. k \in DOMAIN CopyOf /\ k \in DOMAIN keyMap /\ keyMap[k] = it
    BY <1>1, <1>3 DEF IndInv, Collecting, KeyMapConsistent, Indexes
  <1>5. /\ Distinct(keys)
        /\ \A i \in DOMAIN data :
             Matches(data[i]) => data[i].key \in DOMAIN CopyOf
        /\ keys \in Seq(DOMAIN CopyOf)
        /\ \A n \in DOMAIN keys : /\ keys[n] \in DOMAIN keyMap
                                  /\ keyMap[keys[n]] \in Nat
                                  /\ keyMap[keys[n]] < it
                                  /\ CopyOf[keys[n]] \notin DOMAIN keyMap
    BY <1>1 DEF IndInv, TypeOK, Collecting
  <1> HIDE DEF k
  <1>6. /\ keys' \in Seq(DOMAIN CopyOf)
        /\ counter' \in Nat
        /\ Distinct(keys')
        /\ \A n \in DOMAIN keys' : /\ keys'[n] \in DOMAIN keyMap
                                   /\ keyMap[keys'[n]] < it + 1
                                   /\ CopyOf[keys'[n]] \notin DOMAIN keyMap
    <2>1. CASE /\ CopyOf[k] \notin DOMAIN keyMap
               /\ keys' = Append(keys, k)
               /\ counter' = counter + 1
      <3>1. /\ keys' \in Seq(DOMAIN CopyOf)
            /\ Len(keys) \in Nat
            /\ DOMAIN keys = 1 .. Len(keys)
            /\ DOMAIN keys' = 1 .. Len(keys) + 1
            /\ \A n \in DOMAIN keys : keys'[n] = keys[n]
            /\ keys'[Len(keys) + 1] = k
        BY <2>1, <1>4, <1>5, AppendProperties, LenProperties
      <3>2. \A n \in DOMAIN keys : keys[n] # k
        BY <1>3, <1>4, <1>5
      <3>3. Distinct(keys')
        BY <3>1, <3>2, <1>5 DEF Distinct
      <3>4. ASSUME NEW n \in DOMAIN keys'
            PROVE  /\ keys'[n] \in DOMAIN keyMap
                   /\ keyMap[keys'[n]] < it + 1
                   /\ CopyOf[keys'[n]] \notin DOMAIN keyMap
        <4>1. CASE n = Len(keys) + 1
          BY <4>1, <3>1, <2>1, <1>3, <1>4
        <4>2. CASE n \in DOMAIN keys
          BY <4>2, <3>1, <1>3, <1>5
        <4> QED BY <4>1, <4>2, <3>1
      <3>5. counter' \in Nat
        BY <2>1 DEF IndInv, TypeOK
      <3> QED BY <3>1, <3>3, <3>4, <3>5
    <2>2. CASE UNCHANGED <<keys, counter>>
      <3>1. counter' \in Nat
        BY <2>2 DEF IndInv, TypeOK
      <3> QED BY <2>2, <3>1, <1>3, <1>5
    <2>3. \/ /\ CopyOf[k] \notin DOMAIN keyMap
             /\ keys' = Append(keys, k)
             /\ counter' = counter + 1
          \/ UNCHANGED <<keys, counter>>
      BY DEF CollectKey, evalDuplicate, k
    <2> QED BY <2>1, <2>2, <2>3
  <1>7. TypeOK'
    BY <1>1, <1>3, <1>6 DEF IndInv, TypeOK
  <1>8. KeyMapConsistent'
    BY <1>1 DEF IndInv, KeyMapConsistent
  <1>9. Collecting'
    BY <1>1, <1>5, <1>6 DEF Collecting, Matches
  <1>10. RenameAhead' /\ CopiesFit'
    BY <1>1 DEF RenameAhead, CopiesFit
  <1>11. Walks'
    <2>1. query'.op = "duplicate" /\ it' >= 1
      BY <1>1, <1>3
    <2> QED BY <2>1 DEF Walks
  <1> QED BY <1>7, <1>8, <1>9, <1>10, <1>11 DEF IndInv

LEMMA CollectedStep ==
  ASSUME IndInv, Collected
  PROVE  IndInv'
  <1>1. /\ query.op = "duplicate"
        /\ query' = [op |-> "insertCopies"]
        /\ it' = 1
        /\ UNCHANGED <<data, keyMap, keys, counter, affected, before>>
    BY DEF Collected
  <1>2. query' \in Query /\ query'.op = "insertCopies"
    BY <1>1 DEF Query
  <1>3. TypeOK'
    BY <1>1, <1>2 DEF IndInv, TypeOK
  <1>4. KeyMapConsistent'
    BY <1>1 DEF IndInv, KeyMapConsistent
  <1>5. RenameAhead' /\ Collecting'
    BY <1>2 DEF RenameAhead, Collecting
  <1>6. CopiesFit'
    <2>1. DOMAIN keys = 1 .. Len(keys)
      BY LenProperties DEF IndInv, TypeOK
    <2> QED BY <1>1, <2>1 DEF IndInv, Collecting, CopiesFit
  <1>7. Walks'
    <2>1. Distinct(keys')
      BY <1>1 DEF IndInv, Collecting, Distinct
    <2>2. it' >= 1
      BY <1>1
    <2> QED BY <2>1, <2>2 DEF Walks
  <1> QED BY <1>3, <1>4, <1>5, <1>6, <1>7 DEF IndInv

\* The copies still to be inserted have other keys than the one just inserted.
LEMMA duplicateByKeyStep ==
  ASSUME IndInv, duplicateByKey
  PROVE  IndInv'
  <1> DEFINE k == CopyOf[keys[it]]
             v == data[keyMap[keys[it]]].val
  <1>0. /\ keys[it] \in DOMAIN keyMap
        /\ k \notin DOMAIN keyMap
        /\ keyMap' = Emplace(keyMap, k, Len(data) + 1)
        /\ data' = Append(data, [key |-> k, val |-> v])
    BY DEF duplicateByKey, insertByKey
  <1>1. /\ query.op = "insertCopies"
        /\ it <= Len(keys)
        /\ it' = it + 1
        /\ UNCHANGED <<query, keys, counter, affected, before>>
    BY DEF duplicateByKey
  <1>2. /\ Len(keys) \in Nat
        /\ DOMAIN keys = 1 .. Len(keys)
        /\ keys \in Seq(DOMAIN CopyOf)
    BY LenProperties DEF IndInv, TypeOK
  <1>3. it \in Nat /\ it >= 1 /\ it \in DOMAIN keys
    BY <1>1, <1>2 DEF IndInv, TypeOK, Walks
  <1>4. k \in Keys \ DOMAIN keyMap
    <2>1. keys[it] \in DOMAIN CopyOf
      BY <1>2, <1>3, ElementOfSeq
    <2> QED BY <2>1, <1>0, TableAssumption
  <1>5. v \in Vals
    <2>1. keyMap[keys[it]] \in 1 .. Len(data)
      BY <1>0 DEF IndInv, TypeOK
    <2>2. data[keyMap[keys[it]]] \in Row
      BY <2>1, ElementOfSeq DEF IndInv, TypeOK
    <2> QED BY <2>2 DEF Row
  <1>6. data' \in Seq(Row) /\ Indexes(keyMap', data')
    <2> HIDE DEF k, v
    <2> QED BY <1>0, <1>4, <1>5, AppendIndexes
            DEF IndInv, TypeOK, KeyMapConsistent
  <1>7. TypeOK'
    <2>1. /\ DOMAIN keyMap' \subseteq Keys
          /\ \A x \in DOMAIN keyMap' : keyMap'[x] \in 1 .. Len(data')
      BY <1>6, IndexRange
    <2> QED BY <1>1, <1>3, <1>6, <2>1 DEF IndInv, TypeOK
  <1>8. KeyMapConsistent'
    BY <1>6 DEF KeyMapConsistent
  <1>9. RenameAhead' /\ Collecting'
    BY <1>1 DEF RenameAhead, Collecting
  <1>10. CopiesFit'
    <2> SUFFICES ASSUME NEW n \in it + 1 .. Len(keys)
                 PROVE  /\ keys[n] \in DOMAIN keyMap'
                        /\ CopyOf[keys[n]] \notin DOMAIN keyMap'
      BY <1>1 DEF CopiesFit
    <2>1. n \in it .. Len(keys) /\ n \in DOMAIN keys /\ n # it
      BY <1>2, <1>3
    <2>2. keys[n] \in DOMAIN keyMap /\ CopyOf[keys[n]] \notin DOMAIN keyMap
      BY <1>1, <2>1 DEF IndInv, CopiesFit
    <2>3. keys[n] # keys[it]
      BY <1>1, <1>3, <2>1 DEF IndInv, Walks, Distinct
    <2>4. keys[n] \in DOMAIN CopyOf /\ keys[it] \in DOMAIN CopyOf
      BY <1>2, <1>3, <2>1, ElementOfSeq
    <2>5. CopyOf[keys[n]] # k
      BY <2>3, <2>4, TableAssumption
    <2>6. DOMAIN keyMap' = DOMAIN keyMap \cup {k}
      BY <1>0 DEF Emplace, Assign
    <2> QED BY <2>2, <2>5, <2>6
  <1>11. Walks'
    <2>1. Distinct(keys')
      BY <1>1 DEF IndInv, Walks, Distinct
    <2>2. it' >= 1
      BY <1>1, <1>3
    <2> QED BY <2>1, <2>2 DEF Walks
  <1> QED BY <1>7, <1>8, <1>9, <1>10, <1>11 DEF IndInv

LEMMA FinishStep ==
  ASSUME IndInv, Finish
  PROVE  IndInv'
  <1>1. /\ affected' = counter
        /\ query' = Idle
        /\ it' = 0 /\ keys' = <<>> /\ counter' = 0 /\ before' = <<>>
        /\ UNCHANGED <<data, keyMap>>
    BY DEF Finish
  <1>2. keys' \in Seq(DOMAIN CopyOf) /\ before' \in Seq(Row) /\ query' \in Query
    BY <1>1, EmptySeq DEF Query
  <1>3. TypeOK'
    BY <1>1, <1>2 DEF IndInv, TypeOK
  <1>4. KeyMapConsistent'
    BY <1>1 DEF IndInv, KeyMapConsistent
  <1> QED BY <1>1, <1>3, <1>4, IdleIndInv

LEMMA NextIndInv ==
  ASSUME ClashAllowed = FALSE
  PROVE  IndInv /\ [Next]_vars => IndInv'
  <1> SUFFICES ASSUME IndInv, [Next]_vars PROVE IndInv'
    OBVIOUS
  <1>1. ASSUME NEW k \in Keys, NEW v \in Vals, Insert(k, v) PROVE IndInv'
    BY <1>1, InsertStep
  <1>2. ASSUME NEW c \in Conds,
               \/ BeginDelete(c)
               \/ \E v \in Vals : BeginUpdate(c, v)
               \/ \E k \in Keys : BeginRename(c, k)
               \/ BeginDuplicate(c)
        PROVE  IndInv'
    BY <1>2, BeginSteps
  <1>3. CASE UNCHANGED vars
    BY <1>3 DEF vars, loop, IndInv, TypeOK, KeyMapConsistent, RenameAhead,
                Collecting, CopiesFit, Walks, Matches
  <1> QED BY <1>1, <1>2, <1>3, ClearStep, SkipRowStep, DeleteRowStep,
             UpdateRowStep, RenameRowStep, CollectKeyStep, CollectedStep,
             duplicateByKeyStep, FinishStep DEF Next

-------------------------------------------------------------------------------
(* The theorems: no UPDATE gives a row a key that another row has. *)

\* The strengthening the loops rely on holds throughout.
THEOREM TableInvariant ==
  ASSUME ClashAllowed = FALSE
  PROVE  SafeSpec => []IndInv
  <1>1. Init => IndInv
    BY InitIndInv
  <1>2. IndInv /\ [Next]_vars => IndInv'
    BY NextIndInv
  <1> QED BY <1>1, <1>2, PTL DEF SafeSpec

\* Every row is a row, every index is in range, every query is a query.
THEOREM TableTypeOK ==
  ASSUME ClashAllowed = FALSE
  PROVE  SafeSpec => []TypeOK
  <1>1. IndInv => TypeOK
    BY DEF IndInv
  <1> QED BY <1>1, TableInvariant, PTL

\* keyMap is the exact index of the rows, in the middle of every loop too:
\* keys are unique and setKey, deleteDatum and duplicateByKey hit their row.
THEOREM TableKeyMapConsistent ==
  ASSUME ClashAllowed = FALSE
  PROVE  SafeSpec => []KeyMapConsistent
  <1>1. IndInv => KeyMapConsistent
    BY DEF IndInv
  <1> QED BY <1>1, TableInvariant, PTL

\* DUPLICATE's insertions never throw ConflictingKey half way.
THEOREM TableCopiesFit ==
  ASSUME ClashAllowed = FALSE
  PROVE  SafeSpec => []CopiesFit
  <1>1. IndInv => CopiesFit
    BY DEF IndInv
  <1> QED BY <1>1, TableInvariant, PTL
-------------------------------------------------------------------------------
(* The loops shrink. *)

\* The iterators that go over rows.
Walking == query.op \in {"delete", "update", "rename", "duplicate"}

\* A turn of a walk: on to the next row, where DUPLICATE may have kept a key, or,
\* DELETE's, the same place in a shorter table.
Walked ==
  /\ Walking /\ it <= Len(data) /\ query' = query
  /\ \/ /\ it' = it + 1 /\ Len(data') = Len(data)
        /\ Len(keys') \in Len(keys) .. Len(keys) + 1
     \/ query.op = "delete" /\ it' = it /\ Len(data') = Len(data) - 1

LEMMA Lengths ==
  ASSUME IndInv
  PROVE  Len(data) \in Nat /\ Len(keys) \in Nat /\ it \in Nat /\ (query # Idle => it >= 1)
<1>1. data \in Seq(Row) /\ keys \in Seq(DOMAIN CopyOf) /\ it \in Nat
  BY DEF IndInv, TypeOK
<1>2. query.op = "idle" => query = Idle
  BY QueryOps DEF IndInv, TypeOK
<1> QED
  BY <1>1, <1>2, LenProperties DEF IndInv, Walks

LEMMA TurnsWalk ==
  ASSUME IndInv, IndInv',
         SkipRow \/ DeleteRow \/ UpdateRow \/ RenameRow \/ CollectKey
  PROVE  Walked
<1>1. data \in Seq(Row) /\ keys \in Seq(DOMAIN CopyOf) /\ Len(keys) \in Nat /\ Len(data) \in Nat
  BY Lengths DEF IndInv, TypeOK
<1>2. CASE SkipRow
  BY <1>1, <1>2 DEF SkipRow, Walked, Walking
<1>3. CASE DeleteRow
  <2>1. /\ AtMatch("delete") /\ query' = query /\ it' = it
        /\ deleteDatum(data[it].key)
    BY <1>3 DEF DeleteRow
  <2>2. Len(data') = Len(data) - 1
    <3>1. keyMap[data[it].key] \in 1 .. Len(data) /\ Len(data) \in 1 .. Len(data)
      BY <2>1, <1>1 DEF deleteDatum, IndInv, TypeOK
    <3> DEFINE d1 == [data EXCEPT ![keyMap[data[it].key]] = data[Len(data)]]
    <3>2. d1 \in Seq(Row)
      BY <3>1, <1>1, ElementOfSeq, ExceptSeq
    <3>3. Len(d1) = Len(data)
      BY <1>1
    <3>4. data' = SubSeq(d1, 1, Len(data) - 1)
      BY <2>1 DEF deleteDatum
    <3> HIDE DEF d1
    <3> QED
      BY <1>1, <3>1, <3>2, <3>3, <3>4, SubSeqProperties
  <2> QED
    BY <2>1, <2>2 DEF AtMatch, Walked, Walking
<1>4. CASE UpdateRow
  <2>1. AtMatch("update") /\ query' = query /\ it' = it + 1 /\ keys' = keys
    BY <1>4 DEF UpdateRow
  <2>2. Len(data') = Len(data)
    BY <1>1, <1>4 DEF UpdateRow
  <2> QED
    BY <1>1, <2>1, <2>2 DEF AtMatch, Walked, Walking
<1>5. CASE RenameRow
  <2>1. AtMatch("rename") /\ query' = query /\ it' = it + 1 /\ keys' = keys
    BY <1>5 DEF RenameRow
  <2>2. Len(data') = Len(data)
    BY <1>1, <1>5 DEF RenameRow, setKey
  <2> QED
    BY <1>1, <2>1, <2>2 DEF AtMatch, Walked, Walking
<1>6. CASE CollectKey
  <2>1. AtMatch("duplicate") /\ query' = query /\ it' = it + 1 /\ data' = data
    BY <1>6 DEF CollectKey
  <2>2. keys' = Append(keys, data[it].key) \/ keys' = keys
    BY <1>6 DEF CollectKey
  <2>3. Len(keys') \in Len(keys) .. Len(keys) + 1
    BY <1>1, <2>2
  <2> QED
    BY <2>1, <2>3 DEF AtMatch, Walked, Walking
<1> QED
  BY <1>2, <1>3, <1>4, <1>5, <1>6

\* What a query in progress does, in numbers.
LEMMA Turns ==
  ASSUME IndInv, IndInv', WithinRows, query # Idle, Next
  PROVE  WithinRows' /\ TurnsLeft' \in 0 .. TurnsLeft - 1
<1>1. Len(data) \in Nat /\ Len(keys) \in Nat /\ it \in Nat /\ it >= 1
  BY Lengths
<1>2. Len(data') \in Nat /\ Len(keys') \in Nat /\ it' \in Nat
  <2>1. data' \in Seq(Row) /\ keys' \in Seq(DOMAIN CopyOf) /\ it' \in Nat
    BY DEF IndInv, TypeOK
  <2> QED
    BY <2>1, LenProperties
<1>3. query.op \in {"insertCopies", "delete", "duplicate", "update", "rename"}
  BY QueryOps DEF IndInv, TypeOK
<1>4. TurnsLeft = IF query.op = "duplicate" THEN 2 * (Len(data) + 1 - it) + Len(keys) + 2
                  ELSE IF query.op = "insertCopies" THEN Len(keys) + 2 - it
                  ELSE Len(data) + 2 - it
  BY <1>3 DEF TurnsLeft
<1>5. CASE Walked
  <2>1. TurnsLeft' = IF query.op = "duplicate" THEN 2 * (Len(data') + 1 - it') + Len(keys') + 2
                     ELSE Len(data') + 2 - it'
    BY <1>5 DEF TurnsLeft, Walked, Walking
  <2>2. TurnsLeft = IF query.op = "duplicate" THEN 2 * (Len(data) + 1 - it) + Len(keys) + 2
                    ELSE Len(data) + 2 - it
    BY <1>4, <1>5 DEF Walked, Walking
  <2>3. it' <= Len(data') + 1
    BY <1>1, <1>2, <1>5 DEF Walked
  <2>4. CASE query.op = "duplicate"
    BY <1>1, <1>2, <1>5, <2>1, <2>2, <2>3, <2>4 DEF Walked, Walking, WithinRows
  <2>5. CASE query.op # "duplicate"
    <3>1. TurnsLeft = Len(data) + 2 - it /\ TurnsLeft' = Len(data') + 2 - it'
      BY <2>1, <2>2, <2>5
    <3>2. Len(data') + 2 - it' = Len(data) + 1 - it
      BY <1>1, <1>2, <1>5, <2>5 DEF Walked
    <3>3. Len(data) + 1 - it \in 0 .. Len(data) + 2 - it - 1
      BY <1>1, <1>5 DEF Walked
    <3>4. WithinRows'
      BY <1>5, <2>3 DEF Walked, Walking, WithinRows
    <3> QED
      BY <1>1, <1>2, <3>1, <3>2, <3>3, <3>4
  <2> QED
    BY <2>4, <2>5
<1>6. CASE Collected
  <2>1. /\ query.op = "duplicate" /\ query'.op = "insertCopies"
        /\ it > Len(data) /\ it' = 1 /\ keys' = keys /\ it <= Len(data) + 1
    BY <1>6 DEF Collected, WithinRows
  <2>2. TurnsLeft = Len(keys) + 2
    BY <1>1, <1>4, <2>1
  <2>3. TurnsLeft' = Len(keys) + 1
    BY <1>1, <2>1 DEF TurnsLeft
  <2> QED
    BY <1>1, <2>1, <2>2, <2>3 DEF WithinRows
<1>7. CASE duplicateByKey
  <2>1. /\ query.op = "insertCopies" /\ query' = query
        /\ it <= Len(keys) /\ it' = it + 1 /\ keys' = keys
    BY <1>7 DEF duplicateByKey
  <2>2. TurnsLeft = Len(keys) + 2 - it
    BY <1>4, <2>1
  <2>3. TurnsLeft' = Len(keys) + 2 - (it + 1)
    BY <2>1 DEF TurnsLeft
  <2> QED
    BY <1>1, <2>1, <2>2, <2>3 DEF WithinRows
<1>8. CASE Finish
  <2>1. query'.op = "idle"
    BY <1>8 DEF Finish, Idle
  <2>2. TurnsLeft' = 0 /\ WithinRows'
    BY <2>1 DEF TurnsLeft, WithinRows
  <2>3. TurnsLeft >= 1
    BY <1>1, <1>3, <1>4, <1>8 DEF Finish, WithinRows
  <2>4. TurnsLeft \in Int
    BY <1>1, <1>4
  <2> QED
    BY <2>2, <2>3, <2>4
<1>9. Walked \/ Collected \/ duplicateByKey \/ Finish
  <2>1. SkipRow \/ DeleteRow \/ UpdateRow \/ RenameRow \/ CollectKey
          \/ Collected \/ duplicateByKey \/ Finish
    BY Zenon DEF Next, Insert, Truncate, DeleteAll, BeginDelete, BeginUpdate, BeginRename,
                 BeginDuplicate, Begin
  <2> QED
    BY <2>1, TurnsWalk
<1> QED
  BY <1>5, <1>6, <1>7, <1>8, <1>9

LEMMA NextWithinRows ==
  ASSUME IndInv, IndInv', WithinRows, [Next]_vars
  PROVE  WithinRows'
<1>1. CASE UNCHANGED vars
  BY <1>1 DEF vars, loop, WithinRows
<1>2. CASE Next /\ query # Idle
  BY <1>2, Turns
<1>3. CASE Next /\ query = Idle
  <2>1. \/ query' = Idle
        \/ it' = 1 /\ query'.op \in {"delete", "update", "rename", "duplicate"}
    BY <1>3 DEF Next, Insert, Truncate, DeleteAll, BeginDelete, BeginUpdate, BeginRename,
                BeginDuplicate, Begin, SkipRow, DeleteRow, UpdateRow, RenameRow, CollectKey,
                AtMatch, Collected, duplicateByKey, Finish, Idle, loop
  <2>2. Len(data') \in Nat
    <3>1. data' \in Seq(Row)
      BY DEF IndInv, TypeOK
    <3> QED
      BY <3>1, LenProperties
  <2> QED
    BY <2>1, <2>2 DEF WithinRows, Idle
<1> QED
  BY <1>1, <1>2, <1>3

\* A query is over after as many turns as TurnsLeft says when it begins, at most
\* 2 * Len(data) + 2: no loop of DeleteQuery, UpdateQuery or DuplicateQuery runs on.
THEOREM TableLoopsShrink ==
  ASSUME ClashAllowed = FALSE
  PROVE  SafeSpec => LoopsShrink
<1>1. Init => WithinRows
  BY DEF Init, Idle, WithinRows
<1>2. IndInv /\ IndInv' /\ WithinRows /\ [Next]_vars => WithinRows'
  BY NextWithinRows
<1>3. IndInv /\ IndInv' /\ WithinRows /\ [Next]_vars
        => [query # Idle => TurnsLeft' \in 0 .. TurnsLeft - 1]_vars
  BY Turns
<1> QED
  BY <1>1, <1>2, <1>3, TableInvariant, PTL DEF SafeSpec, LoopsShrink
-------------------------------------------------------------------------------
(* Table implements KeyedTable. *)

KeysOf(d) == {d[i].key : i \in DOMAIN d}
Unique(d) == \A i, j \in DOMAIN d : d[i].key = d[j].key => i = j

\* DELETE has taken out rows that match, and only such; none is behind it.
DeletedSome ==
  query.op = "delete" =>
    /\ \A i \in DOMAIN data : /\ \E j \in DOMAIN before : data[i] = before[j]
                              /\ i < it => ~Matches(data[i])
    /\ \A j \in DOMAIN before : before[j].key \in DOMAIN keyMap \/ Matches(before[j])
    /\ counter = Cardinality(KeysOf(before) \ DOMAIN keyMap)

\* The keys of the rows up to n, n excluded, that matched.
Seen(n) == {before[i].key : i \in {j \in DOMAIN before : j < n /\ Matches(before[j])}}

UpdatedSome ==
  query.op = "update" =>
    /\ Len(data) = Len(before)
    /\ \A i \in DOMAIN before :
         /\ data[i].key = before[i].key
         /\ data[i].val = IF i < it /\ Matches(before[i]) THEN query.val ELSE before[i].val
    /\ counter = Cardinality(Seen(it))

\* UPDATE of KEY has come by the one row that matches, at j.
IsRenamed(j) ==
  /\ j < it /\ Matches(before[j])
  /\ \A i \in DOMAIN before \ {j} : ~Matches(before[i]) /\ before[i].key # query.key
  /\ Len(data) = Len(before)
  /\ \A i \in DOMAIN before : /\ data[i].val = before[i].val
                              /\ data[i].key = IF i = j THEN query.key ELSE before[i].key

RenamedOne ==
  query.op = "rename" =>
    \/ /\ counter = 0 /\ data = before
       /\ \A i \in DOMAIN before : i < it => ~Matches(before[i])
    \/ counter = 1 /\ \E j \in DOMAIN before : IsRenamed(j)

\* The keys of the rows up to n that match and have no copy.
Originals(c, n) ==
  {before[i].key : i \in {j \in DOMAIN before : /\ j < n /\ evalCondition(c, before[j])
                                               /\ CopyOf[before[j].key] \notin KeysOf(before)}}
Listed == {keys[n] : n \in DOMAIN keys}

CollectedSome ==
  query.op = "duplicate" =>
    /\ data = before
    /\ Listed = Originals(query.cond, it) /\ counter = Cardinality(Listed)

\* The copies up to it stand behind the rows there were.
CopiedSome ==
  query.op = "insertCopies" =>
    /\ \E c \in Conds : Copyable(c, before) /\ Listed = Originals(c, Len(before) + 1)
    /\ counter = Cardinality(Listed)
    /\ it <= Len(keys) + 1 /\ Len(data) = Len(before) + it - 1
    /\ \A i \in DOMAIN before : data[i] = before[i]
    /\ \A n \in DOMAIN keys : n < it =>
         /\ data[Len(before) + n].key = CopyOf[keys[n]]
         /\ data[Len(before) + n].val = Contents(before)[keys[n]]

WalkInv == /\ query # Idle => Unique(before)
           /\ DeletedSome /\ UpdatedSome /\ RenamedOne /\ CollectedSome /\ CopiedSome
-------------------------------------------------------------------------------
(* Rows and the map they stand for. *)

LEMMA SeqOfRows ==
  ASSUME NEW d \in Seq(Row)
  PROVE  /\ Len(d) \in Nat /\ DOMAIN d = 1 .. Len(d)
         /\ \A i \in DOMAIN d : d[i] \in Row
<1>1. Len(d) \in Nat /\ DOMAIN d = 1 .. Len(d)
  BY LenProperties
<1> QED
  BY <1>1, ElementOfSeq

\* There are finitely many keys, and as many as rows if each has its own.
LEMMA KeysFinite ==
  ASSUME NEW d \in Seq(Row)
  PROVE  /\ IsFiniteSet(KeysOf(d))
         /\ Unique(d) => Cardinality(KeysOf(d)) = Len(d)
<1> DEFINE f == [i \in 1 .. Len(d) |-> d[i].key]
<1>1. Len(d) \in Nat /\ DOMAIN d = 1 .. Len(d)
  BY SeqOfRows
<1>2. IsFiniteSet(1 .. Len(d)) /\ Cardinality(1 .. Len(d)) = Len(d)
  BY <1>1, FS_Interval
<1>3. f \in Surjection(1 .. Len(d), KeysOf(d))
  BY <1>1 DEF KeysOf, Surjection
<1>4. Unique(d) => f \in Injection(1 .. Len(d), KeysOf(d))
  BY <1>1 DEF KeysOf, Injection, IsInjective, Unique
<1> HIDE DEF f
<1> QED
  BY <1>2, <1>3, <1>4, FS_Surjection

LEMMA ContentsIs ==
  ASSUME NEW d, Unique(d)
  PROVE  /\ Contents(d) = [k \in KeysOf(d) |-> Contents(d)[k]]
         /\ \A i \in DOMAIN d : Contents(d)[d[i].key] = d[i].val
<1> DEFINE at(k) == CHOOSE j \in DOMAIN d : d[j].key = k
           valueAt(k) == d[at(k)].val
<1>1. \A i \in DOMAIN d : at(d[i].key) = i
  BY DEF Unique
<1>2. Contents(d) = [k \in KeysOf(d) |-> valueAt(k)]
  BY DEF Contents, KeysOf
<1>3. \A i \in DOMAIN d : d[i].key \in KeysOf(d) /\ valueAt(d[i].key) = d[i].val
  BY <1>1, Zenon DEF KeysOf
<1> HIDE DEF valueAt
<1> QED
  BY <1>2, <1>3

\* A function with these keys and values is the map.
LEMMA ContentsAre ==
  ASSUME NEW d, Unique(d), NEW f, f = [k \in KeysOf(d) |-> f[k]],
         \A i \in DOMAIN d : f[d[i].key] = d[i].val
  PROVE  Contents(d) = f
<1>1. \A k \in KeysOf(d) : f[k] = Contents(d)[k]
  <2> TAKE k \in KeysOf(d)
  <2>1. PICK i \in DOMAIN d : d[i].key = k
    BY DEF KeysOf
  <2> QED
    BY <2>1, ContentsIs, Zenon
<1> QED
  BY <1>1, ContentsIs, Zenon

LEMMA IndexedKeys ==
  ASSUME NEW m, NEW d, Indexes(m, d)
  PROVE  Unique(d) /\ KeysOf(d) = DOMAIN m
  BY DEF Indexes, Unique, KeysOf
-------------------------------------------------------------------------------
(* The invariant. *)

LEMMA IdleWalk ==
  ASSUME query' = Idle
  PROVE  WalkInv'
  BY DEF Idle, WalkInv, DeletedSome, UpdatedSome, RenamedOne, CollectedSome, CopiedSome

LEMMA BeginWalk ==
  ASSUME IndInv, NEW q \in Query, Begin(q), q.op # "idle", q.op # "insertCopies"
  PROVE  WalkInv'
<1>1. /\ query' = q /\ it' = 1 /\ counter' = 0 /\ keys' = <<>>
      /\ before' = data /\ data' = data /\ keyMap' = keyMap
  BY DEF Begin
<1>2. data \in Seq(Row) /\ Unique(data) /\ KeysOf(data) = DOMAIN keyMap
  BY IndexedKeys DEF IndInv, TypeOK, KeyMapConsistent
<1>3. DOMAIN data = 1 .. Len(data)
  BY <1>2, SeqOfRows
<1>4. Cardinality({}) = 0
  BY FS_EmptySet
<1>5. DeletedSome'
  <2>1. \A i \in DOMAIN data : ~(i < 1) /\ data[i].key \in DOMAIN keyMap
    BY <1>2, <1>3 DEF KeysOf
  <2>2. KeysOf(before)' \ DOMAIN keyMap' = {}
    BY <1>1, <1>2 DEF KeysOf
  <2> QED
    BY <1>1, <1>4, <2>1, <2>2 DEF DeletedSome
<1>6. UpdatedSome'
  <2>1. Seen(it)' = {}
    BY <1>1, <1>3, \A i \in 1 .. Len(data) : ~(i < 1) DEF Seen
  <2> QED
    BY <1>1, <1>3, <1>4, <2>1, \A i \in 1 .. Len(data) : ~(i < 1) DEF UpdatedSome
<1>7. RenamedOne'
  BY <1>1, <1>3 DEF RenamedOne
<1>8. CollectedSome'
  <2>1. Originals(query.cond, it)' = {}
    BY <1>1, <1>3 DEF Originals
  <2>2. Listed' = {}
    BY <1>1, NoKeys DEF Listed
  <2> QED
    BY <1>1, <1>4, <2>1, <2>2 DEF CollectedSome
<1> QED
  BY <1>1, <1>2, <1>5, <1>6, <1>7, <1>8 DEF WalkInv, CopiedSome

\* What the step lemmas need of the types.
LEMMA Typed ==
  ASSUME IndInv
  PROVE  /\ data \in Seq(Row) /\ DOMAIN data = 1 .. Len(data) /\ Len(data) \in Nat
         /\ before \in Seq(Row) /\ DOMAIN before = 1 .. Len(before) /\ Len(before) \in Nat
         /\ it \in Nat /\ counter \in Nat /\ Indexes(keyMap, data)
         /\ Unique(data) /\ KeysOf(data) = DOMAIN keyMap
  BY SeqOfRows, IndexedKeys DEF IndInv, TypeOK, KeyMapConsistent

\* One row more that did not match, or did.
LEMMA SeenMore ==
  ASSUME it \in Nat, DOMAIN before = 1 .. Len(before), Len(before) \in Nat,
         it \in DOMAIN before
  PROVE  /\ ~Matches(before[it]) => Seen(it + 1) = Seen(it)
         /\ Matches(before[it]) => Seen(it + 1) = Seen(it) \cup {before[it].key}
         /\ Unique(before) => before[it].key \notin Seen(it)
<1>1. \A j \in DOMAIN before : j < it + 1 <=> j < it \/ j = it
  OBVIOUS
<1>2. ASSUME Unique(before), before[it].key \in Seen(it)
      PROVE  FALSE
  BY <1>2 DEF Unique, Seen
<1> QED
  BY <1>1, <1>2 DEF Seen

LEMMA OriginalsMore ==
  ASSUME NEW c, it \in Nat, DOMAIN before = 1 .. Len(before), Len(before) \in Nat,
         it \in DOMAIN before
  PROVE  /\ ~evalCondition(c, before[it]) \/ CopyOf[before[it].key] \in KeysOf(before)
              => Originals(c, it + 1) = Originals(c, it)
         /\ evalCondition(c, before[it]) /\ CopyOf[before[it].key] \notin KeysOf(before)
              => Originals(c, it + 1) = Originals(c, it) \cup {before[it].key}
         /\ Unique(before) => before[it].key \notin Originals(c, it)
<1>1. \A j \in DOMAIN before : j < it + 1 <=> j < it \/ j = it
  OBVIOUS
<1>2. ASSUME Unique(before), before[it].key \in Originals(c, it)
      PROVE  FALSE
  BY <1>2 DEF Unique, Originals
<1> HIDE DEF evalCondition
<1> QED
  BY <1>1, <1>2 DEF Originals

\* All these sets are finite.
LEMMA WalkFinite ==
  ASSUME IndInv, NEW c, NEW n
  PROVE  /\ IsFiniteSet(KeysOf(before)) /\ IsFiniteSet(Seen(n))
         /\ IsFiniteSet(Originals(c, n)) /\ IsFiniteSet(KeysOf(before) \ DOMAIN keyMap)
<1>1. IsFiniteSet(KeysOf(before))
  BY Typed, KeysFinite
<1>2. Seen(n) \in SUBSET KeysOf(before) /\ Originals(c, n) \in SUBSET KeysOf(before)
  BY DEF Seen, Originals, KeysOf
<1>3. KeysOf(before) \ DOMAIN keyMap \in SUBSET KeysOf(before)
  OBVIOUS
<1> QED
  BY <1>1, <1>2, <1>3, FS_Subset

LEMMA SkipRowWalk ==
  ASSUME IndInv, WalkInv, SkipRow
  PROVE  WalkInv'
<1>1. /\ query.op \in {"delete", "update", "rename", "duplicate"}
      /\ it \in DOMAIN data /\ ~Matches(data[it]) /\ it' = it + 1
      /\ UNCHANGED <<data, keyMap, query, keys, counter, before>>
  BY Typed DEF SkipRow, IndInv, Walks
<1>2. \A i \in DOMAIN data : i < it + 1 <=> i < it \/ i = it
  BY Typed
<1>3. \A r : Matches(r)' <=> Matches(r)
  BY <1>1 DEF Matches
<1>4. DeletedSome'
  BY <1>1, <1>2, <1>3, Zenon DEF WalkInv, DeletedSome, KeysOf
<1>5. UpdatedSome'
  <2> SUFFICES ASSUME query.op = "update"
               PROVE  UpdatedSome'
    BY <1>1 DEF UpdatedSome
  <2>0. Len(data) = Len(before) /\ it \in DOMAIN before
    BY <1>1, Typed DEF WalkInv, UpdatedSome
  <2>3. data[it].key = before[it].key /\ data[it].val = before[it].val
    BY <1>1, <2>0, Typed DEF WalkInv, UpdatedSome
  <2>1. it \in DOMAIN before /\ ~Matches(before[it])
    BY <1>1, <2>0, <2>3 DEF Matches, evalCondition
  <2>2. Seen(it)' = Seen(it)
    BY <1>1, <1>3, <2>1, SeenMore, Typed DEF Seen
  <2> QED
    BY <1>1, <1>2, <1>3, <2>1, <2>2, Typed DEF WalkInv, UpdatedSome
<1>6. RenamedOne'
  <2> SUFFICES ASSUME query.op = "rename"
               PROVE  RenamedOne'
    BY <1>1 DEF RenamedOne
  <2>1. CASE counter = 0 /\ data = before
             /\ \A i \in DOMAIN before : i < it => ~Matches(before[i])
    BY <1>1, <1>2, <1>3, <2>1 DEF RenamedOne
  <2>2. ASSUME NEW j \in DOMAIN before, IsRenamed(j)
        PROVE  IsRenamed(j)'
    <3>1. j < it + 1
      BY <2>2, Typed DEF IsRenamed
    <3> QED
      BY <1>1, <1>3, <2>2, <3>1 DEF IsRenamed
  <2> QED
    BY <1>1, <2>1, <2>2 DEF WalkInv, RenamedOne
<1>7. CollectedSome'
  <2> SUFFICES ASSUME query.op = "duplicate"
               PROVE  CollectedSome'
    BY <1>1 DEF CollectedSome
  <2>1. data = before /\ ~evalCondition(query.cond, before[it]) /\ it \in DOMAIN before
    BY <1>1 DEF WalkInv, CollectedSome, Matches
  <2>2. Originals(query.cond, it)' = Originals(query.cond, it + 1)
    BY <1>1 DEF Originals, KeysOf
  <2>3. Originals(query.cond, it + 1) = Originals(query.cond, it)
    BY <2>1, OriginalsMore, Typed
  <2> QED
    BY <1>1, <2>2, <2>3 DEF WalkInv, CollectedSome, Listed
<1> QED
  BY <1>1, <1>4, <1>5, <1>6, <1>7 DEF WalkInv, CopiedSome, Unique

LEMMA DeleteRowWalk ==
  ASSUME IndInv, WalkInv, DeleteRow
  PROVE  WalkInv'
<1> DEFINE k == data[it].key
           n == Len(data)
<1>1. /\ query.op = "delete" /\ it \in DOMAIN data /\ Matches(data[it])
      /\ k \in DOMAIN keyMap /\ keyMap[k] = it
      /\ keyMap' = Erase(Assign(keyMap, data[n].key, it), k)
      /\ data' = SubSeq([data EXCEPT ![it] = data[n]], 1, n - 1)
      /\ counter' = counter + 1
      /\ UNCHANGED <<query, it, keys, before>>
  BY Typed, SMTT(30) DEF DeleteRow, AtMatch, deleteDatum, IndInv, Walks, Indexes
<1>2. n \in 1 .. n /\ data[n].key \in DOMAIN keyMap
  <2>1. n \in DOMAIN data /\ n \in 1 .. n
    BY <1>1, Typed
  <2> QED
    BY <2>1, Typed DEF Indexes
<1>3. DOMAIN keyMap' = DOMAIN keyMap \ {k}
  BY <1>1, <1>2 DEF Erase, Assign
<1>4. /\ DOMAIN data' = 1 .. n - 1
      /\ \A i \in 1 .. n - 1 : data'[i] = IF i = it THEN data[n] ELSE data[i]
  BY <1>1, <1>2, Typed, SubSeqProperties
<1>5. \A r : Matches(r)' <=> Matches(r)
  BY <1>1 DEF Matches
<1>6. PICK j \in DOMAIN before : data[it] = before[j]
  BY <1>1 DEF WalkInv, DeletedSome
<1>7. KeysOf(before) \ (DOMAIN keyMap \ {k}) = (KeysOf(before) \ DOMAIN keyMap) \cup {k}
  BY <1>6 DEF KeysOf
<1>8. counter' = Cardinality(KeysOf(before) \ DOMAIN keyMap)'
  <2>1. Cardinality((KeysOf(before) \ DOMAIN keyMap) \cup {k})
          = Cardinality(KeysOf(before) \ DOMAIN keyMap) + 1
    BY <1>1, WalkFinite, FS_AddElement
  <2>2. (KeysOf(before) \ DOMAIN keyMap)' = KeysOf(before) \ (DOMAIN keyMap \ {k})
    BY <1>1, <1>3 DEF KeysOf
  <2> QED
    BY <1>1, <1>7, <2>1, <2>2 DEF WalkInv, DeletedSome
<1>9. ASSUME NEW i \in DOMAIN data'
      PROVE  /\ \E m \in DOMAIN before : data'[i] = before[m]
             /\ i < it => ~Matches(data'[i])
  BY <1>1, <1>2, <1>4, Typed DEF WalkInv, DeletedSome
<1>10. ASSUME NEW m \in DOMAIN before
       PROVE  before[m].key \in DOMAIN keyMap' \/ Matches(before[m])
  <2>1. CASE before[m].key = k
    BY <1>1, <1>6, <2>1 DEF WalkInv, Unique, Idle
  <2> QED
    BY <1>3, <1>1, <2>1 DEF WalkInv, DeletedSome
<1>11. DeletedSome'
  BY <1>1, <1>5, <1>8, <1>9, <1>10 DEF DeletedSome
<1> QED
  BY <1>1, <1>11 DEF WalkInv, UpdatedSome, RenamedOne, CollectedSome, CopiedSome, Unique, Idle

LEMMA UpdateRowWalk ==
  ASSUME IndInv, WalkInv, UpdateRow
  PROVE  WalkInv'
<1>1. /\ query.op = "update" /\ it \in DOMAIN data /\ Matches(data[it])
      /\ data' = [data EXCEPT ![it].val = query.val]
      /\ it' = it + 1 /\ counter' = counter + 1
      /\ UNCHANGED <<query, before>>
  BY Typed DEF UpdateRow, AtMatch, IndInv, Walks
<1>2. Len(data) = Len(before) /\ it \in DOMAIN before
  BY <1>1, Typed DEF WalkInv, UpdatedSome
<1>3. data[it].key = before[it].key /\ data[it].val = before[it].val
  BY <1>1, <1>2, Typed DEF WalkInv, UpdatedSome
<1>4. Matches(before[it])
  BY <1>1, <1>3 DEF Matches, evalCondition
<1>5. \A r : Matches(r)' <=> Matches(r)
  BY <1>1 DEF Matches
<1>6. /\ DOMAIN data' = DOMAIN data /\ Len(data') = Len(data)
      /\ \A i \in DOMAIN data : i # it => data'[i] = data[i]
      /\ data'[it] = [data[it] EXCEPT !.val = query.val]
  BY <1>1, Typed
<1>7. data'[it].key = data[it].key /\ data'[it].val = query.val
  <2>1. data[it] \in Row
    BY <1>1, Typed, SeqOfRows
  <2> QED
    BY <1>6, <2>1 DEF Row
<1>8. \A i \in DOMAIN before : i < it + 1 <=> i < it \/ i = it
  BY Typed
<1>9. ASSUME NEW i \in DOMAIN before
      PROVE  /\ data'[i].key = before[i].key
             /\ data'[i].val = IF i < it + 1 /\ Matches(before[i]) THEN query.val
                               ELSE before[i].val
  <2>1. CASE i = it
    BY <1>3, <1>4, <1>7, <1>8, <2>1
  <2>2. CASE i # it
    BY <1>1, <1>2, <1>6, <1>8, <2>2, Typed DEF WalkInv, UpdatedSome
  <2> QED
    BY <2>1, <2>2
<1>10. counter' = Cardinality(Seen(it))'
  <2>1. Seen(it)' = Seen(it + 1)
    BY <1>1 DEF Seen, Matches
  <2>2. Seen(it + 1) = Seen(it) \cup {before[it].key} /\ before[it].key \notin Seen(it)
    BY <1>1, <1>2, <1>4, SeenMore, Typed DEF WalkInv, Idle
  <2>3. Cardinality(Seen(it) \cup {before[it].key}) = Cardinality(Seen(it)) + 1
    BY <2>2, WalkFinite, FS_AddElement
  <2> QED
    BY <1>1, <2>1, <2>2, <2>3 DEF WalkInv, UpdatedSome
<1>11. UpdatedSome'
  BY <1>1, <1>2, <1>5, <1>6, <1>9, <1>10 DEF UpdatedSome
<1> QED
  BY <1>1, <1>11 DEF WalkInv, DeletedSome, RenamedOne, CollectedSome, CopiedSome, Unique, Idle

LEMMA RenameRowWalk ==
  ASSUME IndInv, WalkInv, RenameRow
  PROVE  WalkInv'
<1>1. /\ query.op = "rename" /\ it \in DOMAIN data /\ Matches(data[it])
      /\ data' = [data EXCEPT ![it].key = query.key]
      /\ it' = it + 1 /\ counter' = counter + 1
      /\ UNCHANGED <<query, before>>
  BY Typed DEF RenameRow, setKey, AtMatch, IndInv, Walks
<1>2. ASSUME NEW j \in DOMAIN before, IsRenamed(j)
      PROVE  FALSE
  <2>1. it \in DOMAIN before \ {j}
    BY <1>1, <1>2, Typed DEF IsRenamed
  <2>2. data[it].key = before[it].key /\ data[it].val = before[it].val
    BY <1>2, <2>1 DEF IsRenamed
  <2> QED
    BY <1>1, <1>2, <2>1, <2>2 DEF IsRenamed, Matches, evalCondition
<1>3. /\ counter = 0 /\ data = before
      /\ \A i \in DOMAIN before : i < it => ~Matches(before[i])
  BY <1>1, <1>2 DEF WalkInv, RenamedOne
<1>4. \A i \in DOMAIN before \ {it} : ~Matches(before[i]) /\ before[i].key # query.key
  BY <1>1, <1>3, Typed DEF IndInv, RenameAhead
<1>5. /\ DOMAIN data' = DOMAIN data /\ Len(data') = Len(data)
      /\ \A i \in DOMAIN data : i # it => data'[i] = data[i]
      /\ data'[it] = [data[it] EXCEPT !.key = query.key]
  BY <1>1, Typed
<1>6. data'[it].key = query.key /\ data'[it].val = data[it].val
  <2>1. data[it] \in Row
    BY <1>1, Typed, SeqOfRows
  <2> QED
    BY <1>5, <2>1 DEF Row
<1>7. \A r : Matches(r)' <=> Matches(r)
  BY <1>1 DEF Matches
<1>8. PICK n \in DOMAIN before : n = it
  BY <1>1, <1>3
<1>9. IsRenamed(n)'
  <2>1. it < it + 1 /\ it \in DOMAIN before
    BY <1>1, <1>3, Typed
  <2>2. \A i \in DOMAIN before : /\ data'[i].val = before[i].val
                                 /\ data'[i].key = IF i = it THEN query.key ELSE before[i].key
    BY <1>3, <1>5, <1>6
  <2> QED
    BY <1>1, <1>3, <1>4, <1>5, <1>7, <1>8, <2>1, <2>2 DEF IsRenamed
<1>10. RenamedOne'
  BY <1>1, <1>3, <1>9 DEF RenamedOne
<1> QED
  BY <1>1, <1>10 DEF WalkInv, DeletedSome, UpdatedSome, CollectedSome, CopiedSome, Unique, Idle

LEMMA CollectKeyWalk ==
  ASSUME IndInv, WalkInv, CollectKey
  PROVE  WalkInv'
<1> DEFINE k == data[it].key
<1>1. /\ query.op = "duplicate" /\ it \in DOMAIN data /\ Matches(data[it])
      /\ it' = it + 1 /\ UNCHANGED <<data, query, before>>
      /\ IF evalDuplicate(k)
           THEN keys' = Append(keys, k) /\ counter' = counter + 1
           ELSE UNCHANGED <<keys, counter>>
  BY Typed DEF CollectKey, AtMatch, IndInv, Walks
<1>2. data = before /\ Listed = Originals(query.cond, it) /\ counter = Cardinality(Listed)
  BY <1>1 DEF WalkInv, CollectedSome
<1>3. evalDuplicate(k) <=> CopyOf[before[it].key] \notin KeysOf(before)
  BY <1>2, Typed DEF evalDuplicate
<1>4. Originals(query.cond, it)' = Originals(query.cond, it + 1)
  BY <1>1 DEF Originals, KeysOf
<1>5. Unique(before) /\ evalCondition(query.cond, before[it])
  BY <1>1, <1>2 DEF WalkInv, Idle, Matches
<1>6. Listed' = Originals(query.cond, it + 1) /\ counter' = Cardinality(Listed')
  <2>1. CASE evalDuplicate(k)
    <3>1. keys \in Seq(DOMAIN CopyOf) /\ k \in DOMAIN CopyOf
      BY <1>1 DEF IndInv, TypeOK, Collecting
    <3>2. /\ DOMAIN keys' = DOMAIN keys \cup {Len(keys) + 1}
          /\ keys'[Len(keys) + 1] = k /\ \A m \in DOMAIN keys : keys'[m] = keys[m]
      BY <1>1, <2>1, <3>1
    <3>3. Listed' = Listed \cup {k}
      BY <3>2 DEF Listed
    <3>4. Originals(query.cond, it + 1) = Originals(query.cond, it) \cup {k}
          /\ k \notin Originals(query.cond, it)
      BY <1>1, <1>2, <1>3, <1>5, <2>1, OriginalsMore, Typed
    <3>5. Cardinality(Listed \cup {k}) = Cardinality(Listed) + 1
      BY <1>2, <3>4, WalkFinite, FS_AddElement
    <3> QED
      BY <1>1, <1>2, <2>1, <3>3, <3>4, <3>5
  <2>2. CASE ~evalDuplicate(k)
    <3>1. Listed' = Listed
      BY <1>1, <2>2 DEF Listed
    <3>2. Originals(query.cond, it + 1) = Originals(query.cond, it)
      BY <1>1, <1>2, <1>3, <2>2, OriginalsMore, Typed
    <3> QED
      BY <1>1, <1>2, <2>2, <3>1, <3>2
  <2> QED
    BY <2>1, <2>2
<1>7. CollectedSome'
  BY <1>1, <1>2, <1>4, <1>6 DEF CollectedSome
<1> QED
  BY <1>1, <1>7 DEF WalkInv, DeletedSome, UpdatedSome, RenamedOne, CopiedSome, Unique, Idle

LEMMA CollectedWalk ==
  ASSUME IndInv, WalkInv, Collected
  PROVE  WalkInv'
<1>1. /\ query.op = "duplicate" /\ it > Len(data)
      /\ query' = [op |-> "insertCopies"] /\ it' = 1
      /\ UNCHANGED <<data, keyMap, keys, counter, before>>
  BY DEF Collected
<1>2. data = before /\ Listed = Originals(query.cond, it) /\ counter = Cardinality(Listed)
  BY <1>1 DEF WalkInv, CollectedSome
<1>3. query.cond \in Conds
  BY <1>1 DEF IndInv, TypeOK, Query, Idle
<1>4. Copyable(query.cond, before)
  BY <1>1, <1>2 DEF IndInv, Collecting, Copyable, Matches
<1>5. Originals(query.cond, it) = Originals(query.cond, Len(before) + 1)
  <2>1. \A j \in DOMAIN before : j < it /\ j < Len(before) + 1
    BY <1>1, <1>2, Typed
  <2> QED
    BY <2>1 DEF Originals
<1>6. \A c : /\ Copyable(c, before)' <=> Copyable(c, before)
             /\ Originals(c, Len(before) + 1)' = Originals(c, Len(before) + 1)
  BY <1>1 DEF Copyable, Originals, KeysOf
<1>7. Listed' = Listed
  BY <1>1 DEF Listed
<1>8. 1 <= Len(keys) + 1 /\ Len(data) = Len(before) + 1 - 1
      /\ \A m \in DOMAIN keys : ~(m < 1)
  BY <1>2, Typed DEF IndInv, TypeOK
<1>9. CopiedSome'
  BY <1>1, <1>2, <1>3, <1>4, <1>5, <1>6, <1>7, <1>8 DEF CopiedSome
<1> QED
  BY <1>1, <1>9 DEF WalkInv, DeletedSome, UpdatedSome, RenamedOne, CollectedSome, Unique, Idle

LEMMA duplicateByKeyWalk ==
  ASSUME IndInv, WalkInv, duplicateByKey
  PROVE  WalkInv'
<1> DEFINE k == keys[it]
           v == data[keyMap[k]].val
           new == [key |-> CopyOf[k], val |-> v]
<1>1. /\ query.op = "insertCopies" /\ it <= Len(keys) /\ it >= 1
      /\ data' = Append(data, new) /\ it' = it + 1
      /\ UNCHANGED <<query, keys, counter, before>>
  BY DEF duplicateByKey, insertByKey, IndInv, Walks
<1>2. /\ keys \in Seq(DOMAIN CopyOf) /\ Len(keys) \in Nat /\ DOMAIN keys = 1 .. Len(keys)
  BY LenProperties DEF IndInv, TypeOK
<1>3. /\ counter = Cardinality(Listed)
      /\ Len(data) = Len(before) + it - 1
      /\ \A i \in DOMAIN before : data[i] = before[i]
      /\ \A n \in DOMAIN keys : n < it =>
           /\ data[Len(before) + n].key = CopyOf[keys[n]]
           /\ data[Len(before) + n].val = Contents(before)[keys[n]]
  BY <1>1 DEF WalkInv, CopiedSome
<1>4. PICK c \in Conds : Copyable(c, before) /\ Listed = Originals(c, Len(before) + 1)
  BY <1>1 DEF WalkInv, CopiedSome
<1>5. v = Contents(before)[k]
  <2>1. it \in DOMAIN keys /\ k \in Listed
    BY <1>1, <1>2, Typed DEF Listed
  <2>2. PICK i \in DOMAIN before : before[i].key = k
    BY <1>4, <2>1 DEF Originals
  <2>3. i \in DOMAIN data /\ data[i].key = k /\ data[i].val = before[i].val
    BY <1>1, <1>3, <2>2, Typed
  <2>4. keyMap[k] = i
    BY <2>3, Typed DEF Indexes
  <2>5. Unique(before)
    BY <1>1 DEF WalkInv, Idle
  <2> QED
    BY <2>2, <2>3, <2>4, <2>5, ContentsIs
<1>6. /\ Len(data') = Len(data) + 1 /\ data'[Len(data) + 1] = new
      /\ \A i \in 1 .. Len(data) : data'[i] = data[i]
  <2> HIDE DEF new
  <2>1. Append(data, new) \in Seq(Row \cup {new})
    BY Typed
  <2> QED
    BY <1>1, Typed
<1>7. it + 1 <= Len(keys) + 1 /\ Len(data') = Len(before) + (it + 1) - 1
  BY <1>1, <1>2, <1>3, <1>6, Typed
<1>8. \A i \in DOMAIN before : data'[i] = before[i]
  BY <1>1, <1>3, <1>6, Typed
<1>9. ASSUME NEW n \in DOMAIN keys, n < it + 1
      PROVE  /\ data'[Len(before) + n].key = CopyOf[keys[n]]
             /\ data'[Len(before) + n].val = Contents(before)[keys[n]]
  <2>1. CASE n = it
    <3>1. Len(before) + n = Len(data) + 1
      BY <1>3, <2>1, Typed
    <3> QED
      BY <1>5, <1>6, <2>1, <3>1
  <2>2. CASE n # it
    <3>1. n < it /\ Len(before) + n \in 1 .. Len(data)
      BY <1>2, <1>3, <1>9, <2>2, Typed
    <3> QED
      BY <1>3, <1>6, <3>1
  <2> QED
    BY <2>1, <2>2
<1>10. Copyable(c, before)' /\ Listed' = Originals(c, Len(before) + 1)'
  <2>1. Copyable(c, before)' <=> Copyable(c, before)
    BY <1>1 DEF Copyable
  <2>2. Originals(c, Len(before) + 1)' = Originals(c, Len(before) + 1)
    BY <1>1 DEF Originals, KeysOf
  <2>3. Listed' = Listed
    BY <1>1 DEF Listed
  <2> QED
    BY <1>4, <2>1, <2>2, <2>3
<1>11. counter' = Cardinality(Listed)'
  BY <1>1, <1>3 DEF Listed
<1>12. CopiedSome'
  <2>1. \A n \in DOMAIN keys : Contents(before)'[keys[n]] = Contents(before)[keys[n]]
    BY <1>1 DEF Contents
  <2> QED
    BY <1>1, <1>7, <1>8, <1>9, <1>10, <1>11, <2>1 DEF CopiedSome
<1> QED
  BY <1>1, <1>12 DEF WalkInv, DeletedSome, UpdatedSome, RenamedOne, CollectedSome, Unique, Idle

\* Every step keeps the loop on its way.
LEMMA NextWalk ==
  ASSUME IndInv, WalkInv, [Next]_vars
  PROVE  WalkInv'
<1>1. ASSUME NEW c \in Conds,
             \/ BeginDelete(c)
             \/ \E v \in Vals : BeginUpdate(c, v)
             \/ \E k \in Keys : BeginRename(c, k)
             \/ BeginDuplicate(c)
      PROVE  WalkInv'
  <2>1. PICK q \in Query : Begin(q) /\ q.op # "idle" /\ q.op # "insertCopies"
    <3>1. [op |-> "delete", cond |-> c] \in Query /\ [op |-> "duplicate", cond |-> c] \in Query
      BY DEF Query
    <3>2. \A v \in Vals : [op |-> "update", cond |-> c, val |-> v] \in Query
      BY DEF Query
    <3>3. \A k \in Keys : [op |-> "rename", cond |-> c, key |-> k] \in Query
      BY DEF Query
    <3>4. CASE BeginDelete(c)
      BY <3>1, <3>4 DEF BeginDelete
    <3>5. CASE BeginDuplicate(c)
      BY <3>1, <3>5 DEF BeginDuplicate
    <3>6. CASE \E v \in Vals : BeginUpdate(c, v)
      BY <3>2, <3>6 DEF BeginUpdate
    <3>7. CASE \E k \in Keys : BeginRename(c, k)
      BY <3>3, <3>7 DEF BeginRename
    <3> QED
      BY <1>1, <3>4, <3>5, <3>6, <3>7
  <2> QED
    BY <2>1, BeginWalk
<1>2. CASE \/ \E k \in Keys, v \in Vals : Insert(k, v)
           \/ Truncate \/ DeleteAll \/ Finish
  <2>1. query' = Idle
    BY <1>2, Zenon DEF Insert, Truncate, DeleteAll, Finish, loop
  <2> QED
    BY <2>1, IdleWalk
<1>3. CASE UNCHANGED vars
  <2>1. UNCHANGED <<data, keyMap, query, it, keys, counter, before>>
    BY <1>3 DEF vars, loop
  <2>2. /\ \A r : Matches(r)' <=> Matches(r)
        /\ KeysOf(before)' = KeysOf(before) /\ Contents(before)' = Contents(before)
        /\ Listed' = Listed /\ Seen(it)' = Seen(it)
    BY <2>1 DEF Matches, KeysOf, Contents, Listed, Seen
  <2>3. \A c : /\ Copyable(c, before)' <=> Copyable(c, before)
               /\ Originals(c, it)' = Originals(c, it)
               /\ Originals(c, Len(before) + 1)' = Originals(c, Len(before) + 1)
    BY <2>1 DEF Copyable, Originals, KeysOf
  <2>4. \A j : IsRenamed(j)' <=> IsRenamed(j)
    BY <2>1, <2>2 DEF IsRenamed
  <2>5. DeletedSome' /\ UpdatedSome'
    BY <2>1, <2>2 DEF WalkInv, DeletedSome, UpdatedSome
  <2>6. RenamedOne'
    BY <2>1, <2>2, <2>4 DEF WalkInv, RenamedOne
  <2>7. CollectedSome' /\ CopiedSome'
    BY <2>1, <2>2, <2>3 DEF WalkInv, CollectedSome, CopiedSome
  <2> QED
    BY <2>1, <2>5, <2>6, <2>7 DEF WalkInv, Unique
<1> QED
  BY <1>1, <1>2, <1>3, SkipRowWalk, DeleteRowWalk, UpdateRowWalk, RenameRowWalk,
     CollectKeyWalk, CollectedWalk, duplicateByKeyWalk DEF Next
-------------------------------------------------------------------------------
(* The steps. *)

\* What Keyed puts in the place of rows.
Map == IF query = Idle THEN Contents(data) ELSE Contents(before)

KeysWhere(c, d) == {d[i].key : i \in {j \in DOMAIN d : evalCondition(c, d[j])}}

\* The keys Matched(c) has of a map are those of the rows that match.
LEMMA MatchedIs ==
  ASSUME NEW d, Unique(d), NEW c
  PROVE  {k \in DOMAIN Contents(d) : <<k, Contents(d)[k]>> \in c} = KeysWhere(c, d)
<1>1. DOMAIN Contents(d) = KeysOf(d)
  BY DEF Contents, KeysOf
<1>2. \A i \in DOMAIN d : Contents(d)[d[i].key] = d[i].val
  BY ContentsIs
<1>3. \A k \in KeysOf(d) : \E i \in DOMAIN d : d[i].key = k
  BY DEF KeysOf
<1>4. ASSUME NEW k \in KeysOf(d), <<k, Contents(d)[k]>> \in c
      PROVE  k \in KeysWhere(c, d)
  BY <1>2, <1>3, <1>4 DEF KeysWhere, evalCondition
<1>5. ASSUME NEW k \in KeysWhere(c, d)
      PROVE  k \in KeysOf(d) /\ <<k, Contents(d)[k]>> \in c
  BY <1>2, <1>5 DEF KeysWhere, KeysOf, evalCondition
<1> QED
  BY <1>1, <1>4, <1>5

\* KeyedTable counts as Table does.
LEMMA SameCardinality == \A S : Keyed!Cardinality(S) = Cardinality(S)
  BY Zenon DEF Keyed!Cardinality, Cardinality

LEMMA EmptyContents == Contents(<<>>) = [k \in {} |-> 0]
<1>1. DOMAIN <<>> = {}
  BY NoKeys
<1> QED
  BY <1>1 DEF Contents

LEMMA InitRefines == Init => Keyed!Init
  BY EmptyContents DEF Init, Keyed!Init

LEMMA InsertRefines ==
  ASSUME IndInv, IndInv', NEW k \in Keys, NEW v \in Vals, Insert(k, v)
  PROVE  Keyed!Insert
<1> DEFINE r == [key |-> k, val |-> v]
           f == [x \in KeysOf(data) \cup {k} |-> IF x = k THEN v ELSE Contents(data)[x]]
<1>1. /\ query = Idle /\ query' = Idle /\ k \notin DOMAIN keyMap
      /\ data' = Append(data, r) /\ affected' = affected
  BY DEF Insert, insertByKey, loop
<1>2. /\ Unique(data) /\ KeysOf(data) = DOMAIN keyMap
      /\ Unique(data') /\ DOMAIN data = 1 .. Len(data) /\ Len(data) \in Nat
  <2>1. Indexes(keyMap', data')
    BY DEF IndInv, KeyMapConsistent
  <2> QED
    BY <2>1, IndexedKeys, Typed
<1>3. /\ DOMAIN data' = DOMAIN data \cup {Len(data) + 1}
      /\ data'[Len(data) + 1].key = k /\ data'[Len(data) + 1].val = v
      /\ \A i \in DOMAIN data : data'[i] = data[i]
  <2>1. data \in Seq(Row) /\ r \in Row /\ r.key = k /\ r.val = v
    BY Typed DEF Row
  <2> HIDE DEF r
  <2>2. /\ DOMAIN data' = 1 .. Len(data) + 1 /\ data'[Len(data) + 1] = r
        /\ \A i \in DOMAIN data : data'[i] = data[i]
    BY <1>1, <2>1
  <2> QED
    BY <1>2, <2>1, <2>2
<1>4. KeysOf(data') = KeysOf(data) \cup {k}
  <2>1. ASSUME NEW x \in KeysOf(data')
        PROVE  x \in KeysOf(data) \cup {k}
    <3>1. PICK i \in DOMAIN data' : data'[i].key = x
      BY DEF KeysOf
    <3> QED
      BY <1>3, <3>1 DEF KeysOf
  <2>2. ASSUME NEW x \in KeysOf(data)
        PROVE  x \in KeysOf(data')
    <3>1. PICK i \in DOMAIN data : data[i].key = x
      BY DEF KeysOf
    <3> QED
      BY <1>3, <3>1 DEF KeysOf
  <2>3. k \in KeysOf(data')
    BY <1>3 DEF KeysOf
  <2> QED
    BY <2>1, <2>2, <2>3
<1>5. \A i \in DOMAIN data' : f[data'[i].key] = data'[i].val
  <2>1. ASSUME NEW i \in DOMAIN data
        PROVE  f[data'[i].key] = data'[i].val
    <3>1. data[i].key \in KeysOf(data) /\ data[i].key # k
      BY <1>1, <1>2 DEF KeysOf
    <3>2. Contents(data)[data[i].key] = data[i].val
      BY <1>2, ContentsIs
    <3> QED
      BY <1>3, <3>1, <3>2
  <2>2. f[data'[Len(data) + 1].key] = data'[Len(data) + 1].val
    BY <1>3
  <2> HIDE DEF f
  <2> QED
    BY <1>3, <2>1, <2>2
<1>6. Contents(data') = f
  <2>1. f = [x \in KeysOf(data') |-> f[x]]
    BY <1>4
  <2> HIDE DEF f
  <2> QED
    BY <1>2, <1>5, <2>1, ContentsAre
<1>7. DOMAIN Contents(data) = KeysOf(data)
  BY DEF Contents, KeysOf
<1> QED
  BY <1>1, <1>2, <1>6, <1>7 DEF Keyed!Insert

LEMMA ClearRefines ==
  ASSUME IndInv, Truncate \/ DeleteAll
  PROVE  Keyed!DeleteAll
<1>1. query = Idle /\ query' = Idle /\ data' = <<>>
  BY DEF Truncate, DeleteAll, clear, loop
<1>2. Contents(data') = [k \in {} |-> 0]
  BY <1>1, EmptyContents
<1>3. DOMAIN Contents(data) = KeysOf(data) /\ Cardinality(KeysOf(data)) = Len(data)
  BY Typed, KeysFinite DEF Contents, KeysOf
<1>4. affected' \in {affected, Len(data)}
  BY DEF Truncate, DeleteAll
<1>5. affected' \in {affected, Cardinality(DOMAIN Contents(data))}
  BY <1>3, <1>4
<1> QED
  BY <1>1, <1>2, <1>5, SameCardinality DEF Keyed!DeleteAll

\* The rows at the end of DELETE are those that did not match.
LEMMA FinishDeleteRefines ==
  ASSUME IndInv, WalkInv, Finish, query.op = "delete"
  PROVE  Keyed!Delete
<1> DEFINE B == Contents(before)
           c == query.cond
           M == KeysWhere(c, before)
           f == [k \in KeysOf(before) \ M |-> B[k]]
<1>1. /\ query # Idle /\ query' = Idle /\ affected' = counter /\ data' = data
      /\ \A i \in DOMAIN data : i < it
  BY Typed DEF Finish, Idle
<1>2. c \in Conds
  BY DEF IndInv, TypeOK, Query, Idle
<1>3. /\ Unique(before) /\ counter = Cardinality(KeysOf(before) \ DOMAIN keyMap)
      /\ \A i \in DOMAIN data : /\ \E j \in DOMAIN before : data[i] = before[j]
                                /\ ~evalCondition(c, data[i])
      /\ \A j \in DOMAIN before : before[j].key \in DOMAIN keyMap \/ evalCondition(c, before[j])
  BY <1>1 DEF WalkInv, DeletedSome, Matches
<1>4. KeysOf(data) = KeysOf(before) \ M
  <2>1. ASSUME NEW i \in DOMAIN data
        PROVE  data[i].key \in KeysOf(before) \ M
    <3>1. PICK j \in DOMAIN before : data[i] = before[j]
      BY <1>3
    <3>2. \A m \in DOMAIN before : before[m].key = data[i].key => m = j
      BY <1>3, <3>1 DEF Unique
    <3> QED
      BY <1>3, <3>1, <3>2 DEF KeysOf, KeysWhere
  <2>2. ASSUME NEW j \in DOMAIN before, before[j].key \notin M
        PROVE  before[j].key \in KeysOf(data)
    BY <1>3, <2>2, Typed DEF KeysWhere
  <2> QED
    BY <2>1, <2>2 DEF KeysOf
<1>5. KeysOf(before) \ DOMAIN keyMap = M
  <2>1. M \subseteq KeysOf(before)
    BY DEF KeysWhere, KeysOf
  <2> QED
    BY <1>4, <2>1, Typed
<1>6. Contents(data) = f
  <2>1. \A i \in DOMAIN data : f[data[i].key] = data[i].val
    <3> TAKE i \in DOMAIN data
    <3>1. PICK j \in DOMAIN before : data[i] = before[j]
      BY <1>3
    <3>2. data[i].key \in KeysOf(before) \ M
      BY <1>4 DEF KeysOf
    <3> QED
      BY <1>3, <3>1, <3>2, ContentsIs
  <2>2. f = [k \in KeysOf(data) |-> f[k]]
    BY <1>4
  <2> HIDE DEF f
  <2> QED
    BY <2>1, <2>2, ContentsAre, Typed
<1>7. {k \in DOMAIN B : <<k, B[k]>> \in c} = M /\ DOMAIN B = KeysOf(before)
  <2>1. DOMAIN B = KeysOf(before)
    BY DEF Contents, KeysOf
  <2> QED
    BY <1>3, <2>1, MatchedIs
<1>8. Keyed!Matched(c) = M
  BY <1>1, <1>7 DEF Keyed!Matched
<1>9. affected' = Cardinality(Keyed!Matched(c))
  BY <1>1, <1>3, <1>5, <1>8
<1> HIDE DEF c, M
<1> QED
  BY <1>1, <1>2, <1>6, <1>7, <1>8, <1>9, SameCardinality DEF Keyed!Delete

\* The rows at the end of UPDATE have their keys, and the value if they matched.
LEMMA FinishUpdateRefines ==
  ASSUME IndInv, WalkInv, Finish, query.op = "update"
  PROVE  Keyed!Update
<1> DEFINE B == Contents(before)
           c == query.cond
           M == KeysWhere(c, before)
           f == [k \in KeysOf(before) |-> IF k \in M THEN query.val ELSE B[k]]
<1>1. /\ query # Idle /\ query' = Idle /\ affected' = counter /\ data' = data
      /\ it > Len(data)
  BY DEF Finish, Idle
<1>2. c \in Conds /\ query.val \in Vals
  BY DEF IndInv, TypeOK, Query, Idle
<1>3. /\ Unique(before) /\ counter = Cardinality(Seen(it)) /\ DOMAIN data = DOMAIN before
      /\ \A i \in DOMAIN before :
           /\ i < it /\ data[i].key = before[i].key
           /\ data[i].val = IF evalCondition(c, before[i]) THEN query.val ELSE before[i].val
  BY <1>1, Typed DEF WalkInv, UpdatedSome, Matches
<1>4. Seen(it) = M
  BY <1>3 DEF Seen, KeysWhere, Matches
<1>5. KeysOf(data) = KeysOf(before)
  BY <1>3 DEF KeysOf
<1>6. Contents(data) = f
  <2>1. \A i \in DOMAIN data : f[data[i].key] = data[i].val
    <3> TAKE i \in DOMAIN data
    <3>1. before[i].key \in KeysOf(before) /\ B[before[i].key] = before[i].val
      BY <1>3, ContentsIs DEF KeysOf
    <3>2. before[i].key \in M <=> evalCondition(c, before[i])
      BY <1>3 DEF KeysWhere, Unique
    <3> HIDE DEF M, B, c
    <3> QED
      BY <1>3, <3>1, <3>2
  <2>2. f = [k \in KeysOf(data) |-> f[k]]
    BY <1>5
  <2> HIDE DEF f
  <2> QED
    BY <2>1, <2>2, ContentsAre, Typed
<1>7. {k \in DOMAIN B : <<k, B[k]>> \in c} = M /\ DOMAIN B = KeysOf(before)
  <2>1. DOMAIN B = KeysOf(before)
    BY DEF Contents, KeysOf
  <2> QED
    BY <1>3, <2>1, MatchedIs
<1>8. Keyed!Matched(c) = M
  BY <1>1, <1>7 DEF Keyed!Matched
<1>9. affected' = Cardinality(Keyed!Matched(c))
  BY <1>1, <1>3, <1>4, <1>8
<1> HIDE DEF c, M
<1> QED
  BY <1>1, <1>2, <1>6, <1>7, <1>8, <1>9, SameCardinality DEF Keyed!Update

\* The rows at the end of UPDATE of KEY differ in one key, or in none.
LEMMA FinishRenameRefines ==
  ASSUME IndInv, WalkInv, Finish, query.op = "rename"
  PROVE  Keyed!Rename
<1> DEFINE B == Contents(before)
           c == query.cond
           new == query.key
           M == KeysWhere(c, before)
<1>1. /\ query # Idle /\ query' = Idle /\ affected' = counter /\ data' = data
      /\ it > Len(data)
  BY DEF Finish, Idle
<1>2. c \in Conds /\ new \in Keys
  BY DEF IndInv, TypeOK, Query, Idle
<1>3. Unique(before)
  BY <1>1 DEF WalkInv
<1>4. {k \in DOMAIN B : <<k, B[k]>> \in c} = M /\ DOMAIN B = KeysOf(before)
  <2>1. DOMAIN B = KeysOf(before)
    BY DEF Contents, KeysOf
  <2> QED
    BY <1>3, <2>1, MatchedIs
<1>5. Keyed!Matched(c) = M
  BY <1>1, <1>4 DEF Keyed!Matched
<1>6. CASE counter = 0 /\ data = before /\ \A i \in DOMAIN before : i < it => ~Matches(before[i])
  <2>1. M = {}
    BY <1>1, <1>6, Typed DEF KeysWhere, Matches
  <2> HIDE DEF c, M, new
  <2> QED
    BY <1>1, <1>2, <1>5, <1>6, <2>1 DEF Keyed!Rename
<1>7. ASSUME counter = 1, NEW j \in DOMAIN before, IsRenamed(j)
      PROVE  Keyed!Rename
  <2> DEFINE old == before[j].key
             f == [k \in (KeysOf(before) \ {old}) \cup {new} |->
                     IF k = new THEN B[old] ELSE B[k]]
  <2>1. /\ DOMAIN data = DOMAIN before /\ evalCondition(c, before[j])
        /\ \A i \in DOMAIN before \ {j} : ~evalCondition(c, before[i]) /\ before[i].key # new
        /\ \A i \in DOMAIN before : /\ data[i].val = before[i].val
                                    /\ data[i].key = IF i = j THEN new ELSE before[i].key
    BY <1>7, Typed DEF IsRenamed, Matches
  <2>2. M = {old}
    BY <2>1 DEF KeysWhere
  <2>3. old \in KeysOf(before) /\ (new = old \/ new \notin KeysOf(before))
    BY <2>1 DEF KeysOf
  <2>4. KeysOf(data) = (KeysOf(before) \ {old}) \cup {new}
    <3>1. ASSUME NEW i \in DOMAIN before, i # j
          PROVE  before[i].key # old
      BY <1>3, <3>1 DEF Unique
    <3>2. \A k : k \in KeysOf(data) <=> \E i \in DOMAIN before : data[i].key = k
      BY <2>1 DEF KeysOf
    <3>3. \A k : k \in KeysOf(before) <=> \E i \in DOMAIN before : before[i].key = k
      BY DEF KeysOf
    <3>4. new \in KeysOf(data)
      BY <2>1, <3>2
    <3>5. ASSUME NEW k \in KeysOf(data), k # new
          PROVE  k \in KeysOf(before) \ {old}
      <4>1. PICK i \in DOMAIN before : data[i].key = k
        BY <3>2
      <4>2. i # j /\ before[i].key = k
        BY <2>1, <3>5, <4>1
      <4> QED
        BY <3>1, <3>3, <4>2
    <3>6. ASSUME NEW k \in KeysOf(before) \ {old}
          PROVE  k \in KeysOf(data)
      <4>1. PICK i \in DOMAIN before : before[i].key = k
        BY <3>3
      <4>2. i # j /\ data[i].key = k
        BY <2>1, <3>6, <4>1
      <4> QED
        BY <3>2, <4>2
    <3> QED
      BY <3>4, <3>5, <3>6
  <2>5. Contents(data) = f
    <3>1. \A i \in DOMAIN data : f[data[i].key] = data[i].val
      <4> TAKE i \in DOMAIN data
      <4>1. i \in DOMAIN before /\ B[before[i].key] = before[i].val
        BY <1>3, <2>1, ContentsIs
      <4>2. before[i].key \in KeysOf(before)
        BY <4>1 DEF KeysOf
      <4>3. CASE i = j
        BY <2>1, <4>1, <4>3
      <4>4. CASE i # j
        <5>1. before[i].key # old /\ before[i].key # new
          BY <1>3, <2>1, <4>1, <4>4 DEF Unique
        <5> HIDE DEF B, new
        <5> QED
          BY <2>1, <4>1, <4>2, <4>4, <5>1
      <4> QED
        BY <4>3, <4>4
    <3>2. f = [k \in KeysOf(data) |-> f[k]]
      BY <2>4
    <3> HIDE DEF f
    <3> QED
      BY <3>1, <3>2, ContentsAre, Typed
  <2> HIDE DEF c, M, old, new
  <2> QED
    BY <1>1, <1>2, <1>4, <1>5, <1>7, <2>2, <2>3, <2>5 DEF Keyed!Rename
<1> QED
  BY <1>6, <1>7 DEF WalkInv, RenamedOne

\* The rows at the end of DUPLICATE are those there were, and the copies.
LEMMA FinishDuplicateRefines ==
  ASSUME IndInv, WalkInv, Finish, query.op = "insertCopies"
  PROVE  Keyed!Duplicate
<1> DEFINE B == Contents(before)
<1>1. /\ query # Idle /\ query' = Idle /\ affected' = counter /\ data' = data
      /\ it > Len(keys)
  BY DEF Finish, Idle
<1>2. PICK c \in Conds : Copyable(c, before) /\ Listed = Originals(c, Len(before) + 1)
  BY DEF WalkInv, CopiedSome
<1> DEFINE M == KeysWhere(c, before)
           copies == {CopyOf[k] : k \in Listed}
           source(x) == CHOOSE k \in Listed : CopyOf[k] = x
           f == [x \in KeysOf(before) \cup copies |->
                   IF x \in KeysOf(before) THEN B[x] ELSE B[source(x)]]
<1>3. keys \in Seq(DOMAIN CopyOf) /\ Len(keys) \in Nat /\ DOMAIN keys = 1 .. Len(keys)
  BY LenProperties DEF IndInv, TypeOK
<1>4. /\ Unique(before) /\ counter = Cardinality(Listed) /\ it = Len(keys) + 1
      /\ Len(data) = Len(before) + Len(keys)
      /\ \A i \in DOMAIN before : data[i] = before[i]
      /\ \A n \in DOMAIN keys : /\ data[Len(before) + n].key = CopyOf[keys[n]]
                                /\ data[Len(before) + n].val = B[keys[n]]
  <2>1. it = Len(keys) + 1 /\ \A n \in DOMAIN keys : n < it
    BY <1>1, <1>3, Typed DEF WalkInv, CopiedSome
  <2> QED
    BY <1>1, <1>3, <2>1, Typed DEF WalkInv, CopiedSome
<1>5. {k \in DOMAIN B : <<k, B[k]>> \in c} = M /\ DOMAIN B = KeysOf(before)
  <2>1. DOMAIN B = KeysOf(before)
    BY DEF Contents, KeysOf
  <2> QED
    BY <1>4, <2>1, MatchedIs
<1>6. Keyed!Matched(c) = M
  BY <1>1, <1>5 DEF Keyed!Matched
<1>7. M \subseteq DOMAIN CopyOf
  BY <1>2 DEF Copyable, KeysWhere
<1>8. Listed = {k \in M : CopyOf[k] \notin KeysOf(before)}
  <2>1. \A j \in DOMAIN before : j < Len(before) + 1
    BY Typed
  <2> QED
    BY <1>2, <2>1 DEF Originals, KeysWhere
<1>9. \A k \in Listed : source(CopyOf[k]) = k
  BY <1>7, <1>8, TableAssumption
<1>10. DOMAIN data = DOMAIN before \cup {Len(before) + n : n \in DOMAIN keys}
  <2>1. DOMAIN data = 1 .. Len(before) + Len(keys) /\ DOMAIN before = 1 .. Len(before)
    BY <1>4, Typed
  <2>2. Len(before) \in Nat
    BY Typed
  <2>3. ASSUME NEW i \in DOMAIN data, i \notin DOMAIN before
        PROVE  \E n \in DOMAIN keys : i = Len(before) + n
    <3>1. i - Len(before) \in 1 .. Len(keys) /\ i = Len(before) + (i - Len(before))
      BY <1>3, <2>1, <2>2, <2>3
    <3> QED
      BY <1>3, <3>1
  <2>4. ASSUME NEW n \in DOMAIN keys
        PROVE  Len(before) + n \in DOMAIN data
    BY <1>3, <2>1, <2>2
  <2>5. DOMAIN before \subseteq DOMAIN data
    BY <1>3, <2>1, <2>2
  <2> QED
    BY <2>3, <2>4, <2>5, Zenon
<1>11. KeysOf(data) = KeysOf(before) \cup copies
  <2>1. ASSUME NEW i \in DOMAIN before
        PROVE  before[i].key \in KeysOf(data)
    BY <1>4, <1>10 DEF KeysOf
  <2>2. ASSUME NEW n \in DOMAIN keys
        PROVE  CopyOf[keys[n]] \in KeysOf(data)
    BY <1>4, <1>10 DEF KeysOf
  <2>3. ASSUME NEW i \in DOMAIN data
        PROVE  data[i].key \in KeysOf(before) \cup copies
    <3>1. CASE i \in DOMAIN before
      BY <1>4, <3>1 DEF KeysOf
    <3>2. CASE i \notin DOMAIN before
      <4>1. PICK n \in DOMAIN keys : i = Len(before) + n
        BY <1>10, <3>2
      <4> QED
        BY <1>4, <4>1 DEF Listed
    <3> QED
      BY <3>1, <3>2
  <2> QED
    BY <2>1, <2>2, <2>3 DEF KeysOf, Listed
<1>12. Contents(data) = f
  <2>1. ASSUME NEW i \in DOMAIN data
        PROVE  f[data[i].key] = data[i].val
    <3>1. CASE i \in DOMAIN before
      <4>1. before[i].key \in KeysOf(before) /\ B[before[i].key] = before[i].val
        BY <1>4, <3>1, ContentsIs DEF KeysOf
      <4> HIDE DEF B, copies, source
      <4> QED
        BY <1>4, <3>1, <4>1
    <3>2. CASE i \notin DOMAIN before
      <4>1. PICK n \in DOMAIN keys : i = Len(before) + n
        BY <1>10, <3>2
      <4>2. keys[n] \in Listed
        BY DEF Listed
      <4>3. CopyOf[keys[n]] \in copies /\ CopyOf[keys[n]] \notin KeysOf(before)
        BY <1>8, <4>2
      <4>4. source(CopyOf[keys[n]]) = keys[n]
        BY <1>9, <4>2
      <4> HIDE DEF B, copies, source
      <4> QED
        BY <1>4, <4>1, <4>3, <4>4
    <3> QED
      BY <3>1, <3>2
  <2>2. f = [x \in KeysOf(data) |-> f[x]]
    BY <1>11
  <2> HIDE DEF f
  <2> QED
    BY <2>1, <2>2, ContentsAre, Typed
<1>13. Map = B /\ Map' = f /\ affected' = Keyed!Cardinality(Listed)
  BY <1>1, <1>4, <1>12, SameCardinality DEF Map
<1>14. Keyed!Matched(c) \subseteq DOMAIN CopyOf
  BY <1>6, <1>7
<1> DEFINE originals == {k \in Keyed!Matched(c) : CopyOf[k] \notin DOMAIN Map}
<1>15. originals = Listed
  BY <1>5, <1>6, <1>8, <1>13
<1>16. Map' = [x \in DOMAIN Map \cup {CopyOf[k] : k \in Listed} |->
                 IF x \in DOMAIN Map THEN Map[x]
                 ELSE Map[CHOOSE k \in Listed : CopyOf[k] = x]]
  <2> HIDE DEF B
  <2> QED
    BY <1>5, <1>13
<1> HIDE DEF M, B, f, copies, source
<1>17. /\ Map' = [x \in DOMAIN Map \cup {CopyOf[k] : k \in originals} |->
                    IF x \in DOMAIN Map THEN Map[x]
                    ELSE Map[CHOOSE k \in originals : CopyOf[k] = x]]
       /\ affected' = Keyed!Cardinality(originals)
  BY <1>13, <1>15, <1>16
<1> QED
  BY <1>2, <1>14, <1>17 DEF Map, Keyed!Duplicate

\* Before its last step a query changes nothing that Keyed sees.
LEMMA StepRefines ==
  ASSUME IndInv, IndInv', WalkInv, [Next]_vars
  PROVE  [Keyed!Next]_<<Map, affected>>
<1> DEFINE Stutters == Map' = Map /\ affected' = affected
<1>1. ASSUME NEW k \in Keys, NEW v \in Vals, Insert(k, v)
      PROVE  Keyed!Next
  BY <1>1, InsertRefines DEF Keyed!Next
<1>2. CASE Truncate \/ DeleteAll
  BY <1>2, ClearRefines DEF Keyed!Next
<1>3. CASE Finish
  BY <1>3, FinishDeleteRefines, FinishUpdateRefines, FinishRenameRefines,
     FinishDuplicateRefines DEF Keyed!Next, Finish
<1>4. ASSUME NEW q \in Query, Begin(q), q # Idle
      PROVE  Stutters
  BY <1>4 DEF Begin, Map, Contents
<1>5. ASSUME NEW c \in Conds,
             \/ BeginDelete(c)
             \/ \E v \in Vals : BeginUpdate(c, v)
             \/ \E k \in Keys : BeginRename(c, k)
             \/ BeginDuplicate(c)
      PROVE  Stutters
  <2>1. query = Idle /\ query' # Idle /\ before' = data /\ affected' = affected
    BY <1>5 DEF BeginDelete, BeginUpdate, BeginRename, BeginDuplicate, Begin, Idle
  <2> QED
    BY <2>1 DEF Map, Contents
<1>6. CASE SkipRow \/ DeleteRow \/ UpdateRow \/ RenameRow \/ CollectKey \/ Collected
           \/ duplicateByKey
  <2>1. query # Idle /\ query' # Idle /\ before' = before /\ affected' = affected
    BY <1>6 DEF SkipRow, DeleteRow, UpdateRow, RenameRow, CollectKey, Collected,
                duplicateByKey, AtMatch, Idle
  <2> QED
    BY <2>1 DEF Map, Contents
<1>7. CASE UNCHANGED vars
  BY <1>7 DEF vars, loop, Map, Contents
<1> QED
  BY <1>1, <1>2, <1>3, <1>5, <1>6, <1>7 DEF Next

\* DELETE's walk with rows moving under it, UPDATE's re-keying and DUPLICATE's
\* two loops are each one step of a map from keys to values, and the counts they
\* answer are those of the map, for tables of any size.
THEOREM TableIsKeyed ==
  ASSUME ClashAllowed = FALSE
  PROVE  SafeSpec => ImplementsKeyedTable
<1>1. Init => WalkInv
  BY DEF Init, Idle, WalkInv, DeletedSome, UpdatedSome, RenamedOne, CollectedSome, CopiedSome
<1>2. IndInv /\ WalkInv /\ [Next]_vars => WalkInv'
  BY NextWalk
<1>3. IndInv /\ IndInv' /\ WalkInv /\ [Next]_vars => [Keyed!Next]_Keyed!vars
  BY StepRefines DEF Keyed!vars, Map
<1> QED
  BY <1>1, <1>2, <1>3, InitRefines, TableInvariant, PTL
  DEF SafeSpec, ImplementsKeyedTable, Keyed!Spec
===============================================================================
