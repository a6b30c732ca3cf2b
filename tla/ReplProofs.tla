------------------------------- MODULE ReplProofs -------------------------------
(***************************************************************************)
(* Proofs about the parser and main's loop, for all files and query        *)
(* strings of any length: what the chain of builders makes of a query      *)
(* string is what its own tokens spell, and no query string is lost or     *)
(* read out of its turn.                                                   *)
(***************************************************************************)
EXTENDS Repl, RecursionProofs, SequenceTheorems, TLAPS

\* What is a sequence of tokens.
LEMMA TokensLen ==
  ASSUME NEW t \in Seq(STRING)
  PROVE  Len(t) \in Nat /\ DOMAIN t = 1 .. Len(t)
OBVIOUS

\* A query string has at most one FROM after its operands.
LEMMA FromAtOnce ==
  ASSUME NEW t \in Seq(STRING), NEW i, NEW j, FromAt(t, i), FromAt(t, j)
  PROVE  i = j
<1>1. i \in 1 .. Len(t) /\ j \in 1 .. Len(t) /\ Len(t) \in Nat
  BY DEF FromAt
<1>2. ASSUME NEW a \in 1 .. Len(t), NEW b \in 1 .. Len(t), FromAt(t, a), FromAt(t, b), a < b
      PROVE  FALSE
  <2>1. b >= 4 /\ t[2] = "(" /\ \A k \in 3 .. b - 2 : t[k] # ")"
    BY <1>2, a # 1 DEF FromAt
  <2>2. a >= 4 /\ t[a - 1] = ")"
    BY <1>2, <2>1 DEF FromAt
  <2>3. a - 1 \in 3 .. b - 2
    BY <1>2, <2>2
  <2> QED
    BY <2>1, <2>2, <2>3
<1>3. ~(i < j) /\ ~(j < i)
  BY <1>1, <1>2
<1> QED
  BY <1>1, <1>3

\* Conditions are five tokens each.
LEMMA Fives ==
  ASSUME NEW n \in Nat
  PROVE  /\ (5 * n) % 5 = 0 /\ (5 * n) \div 5 = n
         /\ (5 * n + 1) \div 5 = n
OBVIOUS

LEMMA FivesAndMore ==
  ASSUME NEW n \in Nat, NEW m \in Nat, m > 5 * n, m % 5 = 0
  PROVE  n \in 0 .. m \div 5 - 1
OBVIOUS

\* What a query in the language is, once the names of the other builders are out.
LEMMA AcceptsComplex ==
  ASSUME tokens \in Seq(STRING), Unknown, Accepts(tokens)
  PROVE  /\ tokens[1] \in ComplexNames
         /\ \E i \in DOMAIN tokens : FromAt(tokens, i) /\ Clause(tokens, i)
BY DEF Accepts, Unknown, Refused

\* The first builder gets the tokens, and Complex is empty.
LEMMA ParseBegins ==
  ASSUME NEW t \in Seq(STRING), parseQuery(t)
  PROVE  ParseInv'
<1>1. CASE t = <<>>
  <2>1. ~Accepts(<<>>)
    BY DEF Accepts
  <2> QED
    BY <1>1, <2>1 DEF parseQuery, ParseInv, Places, ParsedAsWritten, RefusedIsIllFormed
<1>2. CASE t # <<>>
  BY <1>2 DEF parseQuery, clear, ParseInv, Places, AtDebug, Cleared, ParsedAsWritten, RefusedIsIllFormed
<1> QED
  BY <1>1, <1>2

\* The two builders of queries without clauses.
LEMMA SimpleParsed ==
  ASSUME tokens \in Seq(STRING), ParseInv, Debug \/ ManageTable
  PROVE  ParseInv'
<1> USE DEF ParseInv, Places, AtDebug, AtManage, AtComplex
<1>1. tokens' = tokens /\ it' = it /\ complex' = complex
  BY DEF Debug, ManageTable, Try
<1>2. tokens # <<>> /\ it = 1 /\ Cleared
  BY DEF Debug, ManageTable, Try, Refused
<1>3. Cleared'
  BY <1>1, <1>2 DEF Cleared, complex
<1>4. it \in 1 .. end
  BY <1>2 DEF end
<1>5. CASE at' = "extracted"
  <2>1. /\ <<tokens[1], Len(tokens)>> \in DebugForms \cup ManageForms
        /\ query' = Simple(tokens)
    BY <1>5 DEF Debug, ManageTable, Try
  <2>2. tokens[1] \notin ComplexNames
    BY <2>1 DEF DebugForms, ManageForms, ComplexNames
  <2>3. Accepts(tokens) /\ query' = Reading(tokens)
    BY <1>2, <2>1, <2>2 DEF Accepts, Reading
  <2> QED
    BY <1>1, <1>4, <1>5, <2>3 DEF ParsedAsWritten, RefusedIsIllFormed, end
<1>6. CASE at' = "ManageTable"
  <2>1. Refused(DebugForms)'
    BY <1>1, <1>2, <1>6 DEF Debug, ManageTable, Try, Refused
  <2> QED
    BY <1>1, <1>2, <1>3, <1>6, <2>1 DEF ParsedAsWritten, RefusedIsIllFormed
<1>7. CASE at' = "Complex"
  <2>1. Unknown'
    BY <1>1, <1>2, <1>7 DEF Debug, ManageTable, Try, Unknown, Refused
  <2> QED
    BY <1>1, <1>2, <1>3, <1>7, <2>1 DEF ParsedAsWritten, RefusedIsIllFormed
<1> QED
  BY <1>5, <1>6, <1>7 DEF Debug, ManageTable, Try

\* A step to a place in the middle of Complex.
LEMMA Onward ==
  ASSUME \/ at' = "operand" /\ AtOperand'
         \/ at' = "target" /\ AtTarget'
         \/ at' = "condition" /\ AtCondition'
         \/ at' = "create" /\ AtCreate'
         \/ at' = "failed" /\ ~Accepts(tokens)'
         \/ at' = "undefined" /\ ~Accepts(tokens)' /\ (it = end)'
  PROVE  ParseInv'
BY DEF ParseInv, Places, ParsedAsWritten, RefusedIsIllFormed

\* Complex: after the name come the operands, or FROM.
LEMMA NameParsed ==
  ASSUME tokens \in Seq(STRING), ParseInv, ParseName
  PROVE  ParseInv'
<1>1. tokens' = tokens /\ Unknown /\ Cleared /\ Len(tokens) \in Nat /\ tokens # <<>>
  BY DEF ParseName, ParseInv, AtComplex, Unknown, Refused
<1>2. Unknown' /\ operandToken' = <<>> /\ targetTable' = "" /\ conditionToken' = <<>>
  BY <1>1 DEF ParseName, complex, Cleared, Unknown, Refused
<1>3. CASE Token(2) = "FROM" /\ at' = "target" /\ it' = 2
  <2>1. FromAt(tokens, 2) /\ SubSeq(tokens, 3, 0) = <<>>
    BY <1>1, <1>3 DEF FromAt, Token
  <2>2. AtTarget'
    <3>1. it' - 2 = 0
      BY <1>3
    <3>2. operandToken' = SubSeq(tokens', 3, it' - 2)
      BY <1>1, <1>2, <2>1, <3>1
    <3>3. FromAt(tokens', it')
      BY <1>1, <1>3, <2>1
    <3> QED
      BY <1>2, <3>2, <3>3 DEF AtTarget, FromAt
  <2> QED
    BY <1>3, <2>2, Onward
<1>4. CASE Token(2) = "(" /\ at' = "operand" /\ it' = 3
  <2>1. 2 \in DOMAIN tokens /\ tokens[2] = "(" /\ SubSeq(tokens, 3, 2) = <<>>
    BY <1>1, <1>4 DEF Token
  <2>2. 3 \in 3 .. end
    BY <1>1, <2>1 DEF end
  <2>3. AtOperand'
    <3>1. Unknown' /\ it' \in 3 .. end' /\ tokens'[2] = "("
      BY <1>1, <1>2, <1>4, <2>1, <2>2 DEF end
    <3>2. it' = 3 /\ it' - 1 = 2
      BY <1>4
    <3>3. operandToken' = SubSeq(tokens', 3, it' - 1)
      BY <1>1, <1>2, <2>1, <3>2
    <3>4. \A j \in 3 .. it' - 1 : FALSE
      BY <3>2
    <3> QED
      BY <1>2, <3>1, <3>2, <3>3, <3>4 DEF AtOperand
  <2> QED
    BY <1>4, <2>3, Onward
<1>5. CASE Token(2) \notin {"FROM", "("} /\ at' = "failed"
  <2>1. ASSUME NEW i \in DOMAIN tokens, FromAt(tokens, i)
        PROVE  FALSE
    <3>1. 2 \in DOMAIN tokens
      BY <1>1, <2>1 DEF FromAt
    <3> QED
      BY <1>5, <2>1, <3>1 DEF FromAt, Token
  <2>2. ~Accepts(tokens)
    BY <1>1, <2>1, AcceptsComplex
  <2> QED
    BY <1>1, <1>5, <2>2, Onward
<1> QED
  BY <1>3, <1>4, <1>5 DEF ParseName, GoOn, IllFormed

\* Complex: one token of the operands, or the end of them.
LEMMA OperandParsed ==
  ASSUME tokens \in Seq(STRING), ParseInv, ParseOperand
  PROVE  ParseInv'
<1>0. AtOperand
  BY DEF ParseOperand, ParseInv
<1>1. tokens' = tokens /\ Len(tokens) \in Nat /\ end = Len(tokens) + 1
  BY TokensLen, Zenon DEF end, ParseOperand
<1>9. targetTable' = "" /\ conditionToken' = <<>> /\ Unknown'
  <2>1. tokens' = tokens /\ targetTable' = targetTable /\ conditionToken' = conditionToken
    BY Zenon DEF ParseOperand
  <2>2. Unknown /\ targetTable = "" /\ conditionToken = <<>>
    BY <1>0, Zenon DEF AtOperand
  <2>3. Unknown'
    BY <2>1, <2>2 DEF Unknown, Refused
  <2> QED
    BY <2>1, <2>2, <2>3, Zenon
<1>2. it \in Nat /\ 3 <= it /\ it <= end /\ tokens[2] = "(" /\ Unknown
  <2>1. it \in 3 .. end /\ tokens[2] = "(" /\ Unknown
    BY <1>0, Zenon DEF AtOperand
  <2> QED
    BY <1>1, <2>1
<1>3. \A j \in 3 .. it - 1 : tokens[j] # ")"
  BY <1>0, Zenon DEF AtOperand
<1>10. it = end => it = 3
  BY <1>0, Zenon DEF AtOperand
<1>11. operandToken = SubSeq(tokens, 3, it - 1)
  BY <1>0, Zenon DEF AtOperand
<1>4. CASE it = end
  <2>1. ~Accepts(tokens)
    <3>1. it = Len(tokens) + 1 /\ it = 3
      BY <1>1, <1>10, <1>4, Zenon
    <3>2. ASSUME NEW i \in DOMAIN tokens, FromAt(tokens, i)
          PROVE  FALSE
      <4>1. i \in 1 .. Len(tokens) /\ i >= 4
        BY <1>2, <3>2, TokensLen DEF FromAt
      <4>2. i < it
        BY <1>1, <3>1, <4>1
      <4> QED
        BY <3>1, <4>1, <4>2
    <3> QED
      BY <1>2, <3>2, AcceptsComplex
  <2>2. CASE at' \in {"undefined", "failed"} /\ it' = it
    BY <1>1, <1>4, <2>1, <2>2, Onward DEF end
  <2> QED
    BY <1>1, <1>4, <2>2 DEF ParseOperand, Token
<1>5. CASE /\ it # end /\ Token(it) # ")"
           /\ operandToken' = Append(operandToken, Token(it))
           /\ IF it + 1 = end THEN IllFormed ELSE GoOn("operand", it + 1)
  <2>1. it \in DOMAIN tokens /\ Token(it) = tokens[it] /\ tokens[it] # ")"
    BY <1>1, <1>2, <1>5 DEF Token
  <2>2. \A j \in 3 .. it : tokens[j] # ")"
    BY <1>2, <1>3, <2>1
  <2>3. CASE it + 1 = end
    <3>1. ASSUME NEW i \in DOMAIN tokens, FromAt(tokens, i)
          PROVE  FALSE
      <4>1. i >= 4 /\ tokens[i - 1] = ")"
        BY <1>2, <3>1 DEF FromAt
      <4>2. i - 1 \in 3 .. it
        BY <1>1, <1>2, <2>3, <4>1
      <4> QED
        BY <2>2, <4>1, <4>2
    <3>2. ~Accepts(tokens)
      BY <1>2, <3>1, AcceptsComplex
    <3> QED
      BY <1>1, <1>5, <2>3, <3>2, Onward DEF IllFormed
  <2>4. CASE it + 1 # end
    <3>1. at' = "operand" /\ it' = it + 1 /\ it' - 1 = it
      BY <1>2, <1>5, <2>4 DEF GoOn
    <3>2. operandToken' = SubSeq(tokens, 3, it)
      <4>1. 3 \in 1 .. it /\ it \in 1 .. Len(tokens)
        BY <1>1, <1>2, <2>1
      <4>2. SubSeq(tokens, 3, it) = Append(SubSeq(tokens, 3, it - 1), tokens[it])
        BY <4>1, SubSeqRecursiveSecond
      <4> QED
        BY <1>11, <1>5, <2>1, <4>2
    <3>3. operandToken' = SubSeq(tokens', 3, it' - 1)
      BY <1>1, <3>1, <3>2
    <3>4. it' \in 3 .. end' /\ it' # end'
      BY <1>1, <1>2, <2>1, <2>4, <3>1 DEF end
    <3>5. \A j \in 3 .. it' - 1 : tokens'[j] # ")"
      BY <1>1, <2>2, <3>1
    <3>6. AtOperand'
      <4>1. tokens'[2] = "("
        BY <1>1, <1>2
      <4> QED
        BY <1>9, <3>3, <3>4, <3>5, <4>1, Zenon DEF AtOperand
    <3> QED
      BY <3>1, <3>6, Onward
  <2> QED
    BY <2>3, <2>4
<1>6. CASE /\ Token(it) = ")" /\ operandToken' = operandToken
           /\ IF Token(it + 1) = "FROM" THEN GoOn("target", it + 1) ELSE IllFormed
  <2>1. it \in DOMAIN tokens /\ tokens[it] = ")"
    BY <1>6 DEF Token
  <2>2. CASE Token(it + 1) = "FROM"
    <3>1. it + 1 \in DOMAIN tokens /\ tokens[it + 1] = "FROM"
      BY <2>2 DEF Token
    <3>2. (it + 1) - 1 = it /\ (it + 1) - 2 = it - 1 /\ it + 1 >= 4
      BY <1>2
    <3>3. FromAt(tokens, it + 1)
      BY <1>2, <1>3, <2>1, <3>1, <3>2 DEF FromAt
    <3>4. at' = "target" /\ it' = it + 1
      BY <1>6, <2>2 DEF GoOn
    <3>5. operandToken' = SubSeq(tokens', 3, it' - 2)
      BY <1>0, <1>1, <1>6, <3>2, <3>4 DEF AtOperand
    <3>6. FromAt(tokens', it')
      BY <1>1, <3>3, <3>4
    <3>7. AtTarget'
      BY <1>9, <3>5, <3>6, Zenon DEF AtTarget, FromAt
    <3> QED
      BY <3>4, <3>7, Onward
  <2>3. CASE Token(it + 1) # "FROM"
    <3>1. ASSUME NEW i \in DOMAIN tokens, FromAt(tokens, i)
          PROVE  FALSE
      <4>1. /\ i >= 4 /\ tokens[i - 1] = ")" /\ tokens[i] = "FROM"
            /\ \A j \in 3 .. i - 2 : tokens[j] # ")"
        BY <1>2, <3>1 DEF FromAt
      <4>2. ~(it < i - 1)
        BY <1>2, <2>1, <4>1
      <4>3. ~(i - 1 < it)
        BY <1>2, <1>3, <4>1
      <4>4. i = it + 1
        BY <1>2, <4>2, <4>3
      <4> QED
        BY <2>3, <4>1, <4>4 DEF Token
    <3>2. ~Accepts(tokens)
      BY <1>2, <3>1, AcceptsComplex
    <3> QED
      BY <1>1, <1>6, <2>3, <3>2, Onward DEF IllFormed
  <2> QED
    BY <2>2, <2>3
<1> QED
  BY <1>4, <1>5, <1>6 DEF ParseOperand

\* Complex: the table, and what comes after it.
LEMMA TargetParsed ==
  ASSUME tokens \in Seq(STRING), ParseInv, ParseTarget
  PROVE  ParseInv'
<1>1. /\ AtTarget /\ tokens' = tokens /\ operandToken' = operandToken
      /\ conditionToken' = conditionToken
      /\ targetTable' = IF it + 1 = end THEN targetTable ELSE Token(it + 1)
  BY DEF ParseTarget, ParseInv
<1>2. /\ Unknown /\ conditionToken = <<>> /\ FromAt(tokens, it)
      /\ operandToken = SubSeq(tokens, 3, it - 2)
  BY <1>1, Zenon DEF AtTarget
<1>3. Unknown'
  BY <1>1, <1>2 DEF Unknown, Refused
<1>4. Len(tokens) \in Nat /\ end = Len(tokens) + 1 /\ it \in 1 .. Len(tokens) /\ DOMAIN tokens = 1 .. Len(tokens)
  BY <1>2, TokensLen, Zenon DEF end, FromAt
<1>5. ASSUME Accepts(tokens)
      PROVE  Clause(tokens, it)
  BY <1>2, <1>5, FromAtOnce, AcceptsComplex
<1>6. CASE it + 1 = end /\ IllFormed
  <2>1. it + 1 = Len(tokens) + 1
    BY <1>4, <1>6, Zenon
  <2>3. Len(tokens) \in Nat /\ it \in Nat
    BY <1>4
  <2>4. Len(tokens) = it
    BY <2>1, <2>3
  <2>2. ~Clause(tokens, it)
    BY <2>3, <2>4 DEF Clause
  <2> QED
    BY <1>1, <1>5, <1>6, <2>2, Onward DEF IllFormed
<1>7. CASE it + 1 # end
  <2>1. it + 1 \in DOMAIN tokens /\ it + 1 <= Len(tokens)
    BY <1>4, <1>7
  <2>2. targetTable' = tokens[it + 1]
    BY <1>1, <1>7, <2>1 DEF Token
  <2>3. Taken' = 0
    BY <1>1, <1>2, EmptySeq DEF Taken
  <2>4. PICK i : i = it
    OBVIOUS
  <2>5. Clauses(i)'
    <3>0. conditionToken' \in Seq(Seq(STRING))
      BY <1>1, <1>2
    <3>1. \A k \in 1 .. Taken' : FALSE
      BY <2>3
    <3>2. \A k \in 0 .. Taken' - 1 : FALSE
      BY <2>3
    <3>3. FromAt(tokens', i) /\ operandToken' = SubSeq(tokens', 3, i - 2)
      BY <1>1, <1>2, <2>4, Zenon
    <3>4. i + 1 <= Len(tokens') /\ targetTable' = tokens'[i + 1]
      BY <1>1, <2>1, <2>2, <2>4, Zenon
    <3> QED
      BY <3>0, <3>1, <3>2, <3>3, <3>4, Zenon DEF Clauses, FromAt
  <2>6. CASE it + 2 = end /\ GoOn("create", it + 2)
    <3>1. i \in DOMAIN tokens' /\ it' = i + 2 /\ it' = end' /\ at' = "create"
      BY <1>1, <1>4, <2>4, <2>6, Zenon DEF GoOn, end
    <3>2. AtCreate'
      BY <1>3, <2>3, <2>5, <3>1, Zenon DEF AtCreate
    <3> QED
      BY <3>1, <3>2, Onward
  <2>7. CASE Token(it + 2) = "WHERE" /\ GoOn("condition", it + 3)
    <3>1. it + 2 \in DOMAIN tokens /\ tokens[it + 2] = "WHERE"
      BY <2>7 DEF Token
    <3>2. at' = "condition" /\ it' = it + 3
      BY <2>7 DEF GoOn
    <3>3. it + 3 \in 1 .. end /\ it + 2 <= Len(tokens) /\ it + 3 = i + 3 + 5 * Taken'
      BY <1>4, <2>3, <2>4, <3>1
    <3>4. it' \in 1 .. end' /\ i \in DOMAIN tokens'
      BY <1>1, <1>4, <2>4, <3>2, <3>3, Zenon DEF end
    <3>5. WhereAt(i)'
      BY <1>1, <2>4, <3>1, <3>2, <3>3, Zenon DEF WhereAt
    <3>6. AtCondition'
      BY <1>3, <2>5, <3>4, <3>5, Zenon DEF AtCondition
    <3> QED
      BY <3>2, <3>6, Onward
  <2>8. CASE it + 2 < end /\ Token(it + 2) # "WHERE" /\ IllFormed
    <3>1. it + 2 \in DOMAIN tokens /\ it + 2 <= Len(tokens)
      BY <1>4, <2>8
    <3>2. tokens[it + 2] # "WHERE" /\ Len(tokens) # it + 1
      <4>1. Len(tokens) \in Nat /\ it \in Nat
        BY <1>4
      <4> QED
        BY <2>8, <3>1, <4>1 DEF Token
    <3>3. ~Clause(tokens, it)
      BY <3>2, Zenon DEF Clause
    <3> QED
      BY <1>1, <1>5, <2>8, <3>3, Onward DEF IllFormed
  <2> QED
    BY <1>7, <2>6, <2>7, <2>8 DEF ParseTarget
<1>8. it + 1 = end => IllFormed
  <2> SUFFICES ASSUME it + 1 = end PROVE IllFormed
    OBVIOUS
  <2>1. it + 2 \notin DOMAIN tokens /\ it + 2 # end /\ ~(it + 2 < end)
    BY <1>4
  <2>2. Token(it + 2) # "WHERE"
    BY <2>1 DEF Token
  <2> QED
    BY <2>1, <2>2 DEF ParseTarget
<1> QED
  BY <1>6, <1>7, <1>8

\* Complex: one condition, or the end of them.
LEMMA ConditionParsed ==
  ASSUME tokens \in Seq(STRING), ParseInv, ParseCondition
  PROVE  ParseInv'
<1>1. /\ AtCondition /\ tokens' = tokens /\ operandToken' = operandToken
      /\ targetTable' = targetTable
  BY DEF ParseCondition, ParseInv
<1>2. Unknown /\ it \in 1 .. end
  BY <1>1, Zenon DEF AtCondition
<1>3. PICK i \in DOMAIN tokens : Clauses(i) /\ WhereAt(i)
  BY <1>1, Zenon DEF AtCondition
<1>4. Unknown'
  BY <1>1, <1>2 DEF Unknown, Refused
<1>5. /\ Len(tokens) \in Nat /\ end = Len(tokens) + 1 /\ end' = end
      /\ DOMAIN tokens = 1 .. Len(tokens)
  BY <1>1, TokensLen, Zenon DEF end
<1>6. /\ i \in 1 .. Len(tokens) /\ FromAt(tokens, i) /\ i + 2 <= Len(tokens)
      /\ tokens[i + 2] = "WHERE" /\ it = i + 3 + 5 * Taken
      /\ conditionToken \in Seq(Seq(STRING))
      /\ \A k \in 1 .. Taken : conditionToken[k] = SubSeq(tokens, i + 5 * k - 1, i + 5 * k + 1)
      /\ \A k \in 0 .. Taken - 1 : CondAt(tokens, i + 3 + 5 * k)
  BY <1>3, <1>5, Zenon DEF Clauses, WhereAt
<1>7. Taken \in Nat
  BY <1>6, LenProperties, Zenon DEF Taken
<1>8. CASE it = end /\ GoOn("create", it) /\ conditionToken' = conditionToken
  <2>1. at' = "create" /\ it' = it
    BY <1>8 DEF GoOn
  <2>2. Clauses(i)' /\ WhereAt(i)'
    BY <1>1, <1>3, <1>8, <2>1, Zenon DEF Clauses, WhereAt, Taken
  <2>3. AtCreate'
    BY <1>1, <1>4, <1>5, <1>8, <2>1, <2>2, Zenon DEF AtCreate
  <2> QED
    BY <2>1, <2>3, Onward
<1>9. CASE /\ CondAt(tokens, it) /\ GoOn("condition", it + 5)
           /\ conditionToken' = Append(conditionToken, SubSeq(tokens, it + 1, it + 3))
  <2>1. PICK m \in Nat : m = Taken
    BY <1>7
  <2>2. i \in Nat /\ it = i + 3 + 5 * m /\ it \in Nat
    BY <1>6, <2>1
  <2>3. PICK new : new = SubSeq(tokens, it + 1, it + 3)
    OBVIOUS
  <2>4. new \in Seq(STRING)
    <3>1. it + 1 \in 1 .. Len(tokens) + 1 /\ it + 3 \in 0 .. Len(tokens)
      <4>1. it + 4 <= Len(tokens) /\ Len(tokens) \in Nat
        BY <1>5, <1>9, Zenon DEF CondAt
      <4> QED
        BY <2>2, <4>1, SMTT(30)
    <3> QED
      BY <2>3, <3>1, SubSeqProperties
  <2>5. /\ conditionToken' \in Seq(Seq(STRING)) /\ Taken' = m + 1
        /\ \A k \in 1 .. m : conditionToken'[k] = conditionToken[k]
        /\ conditionToken'[m + 1] = new
    <3>1. conditionToken' = Append(conditionToken, new)
      BY <1>9, <2>3, Zenon
    <3> QED
      BY <1>6, <2>1, <2>4, <3>1, AppendProperties DEF Taken
  <2>6. ASSUME NEW k \in 1 .. Taken'
        PROVE  conditionToken'[k] = SubSeq(tokens, i + 5 * k - 1, i + 5 * k + 1)
    <3>1. CASE k \in 1 .. m
      BY <1>6, <2>1, <2>5, <3>1, Zenon
    <3>2. CASE k = m + 1
      <4>1. it + 1 = i + 5 * k - 1 /\ it + 3 = i + 5 * k + 1
        BY <2>2, <3>2
      <4> QED
        BY <2>3, <2>5, <3>2, <4>1, Zenon
    <3> QED
      BY <2>5, <3>1, <3>2
  <2>7. ASSUME NEW k \in 0 .. Taken' - 1
        PROVE  CondAt(tokens, i + 3 + 5 * k)
    <3>1. k \in 0 .. Taken - 1 \/ k = Taken
      BY <2>1, <2>5
    <3> QED
      BY <1>6, <1>9, <3>1
  <2>8. Clauses(i)'
    <3>2. /\ i + 1 <= Len(tokens) /\ FromAt(tokens, i)
          /\ operandToken = SubSeq(tokens, 3, i - 2) /\ targetTable = tokens[i + 1]
      BY <1>3, Zenon DEF Clauses
    <3> QED
      BY <1>1, <2>5, <2>6, <2>7, <3>2, Zenon DEF Clauses
  <2>9. it' = i + 3 + 5 * Taken' /\ it' \in 1 .. end'
    <3>1. it' = it + 5 /\ it + 4 <= Len(tokens)
      BY <1>9 DEF GoOn, CondAt
    <3>2. it + 5 \in 1 .. Len(tokens) + 1 /\ it + 5 = i + 3 + 5 * (m + 1)
      BY <1>5, <2>2, <3>1, SMTT(30)
    <3>3. end' = Len(tokens) + 1
      BY <1>5, Zenon
    <3> QED
      BY <2>5, <3>1, <3>2, <3>3, Zenon
  <2>10. AtCondition'
    BY <1>1, <1>3, <1>4, <2>8, <2>9, Zenon DEF AtCondition, WhereAt
  <2> QED
    BY <1>9, <2>10, Onward DEF GoOn
<1>10. CASE it # end /\ ~CondAt(tokens, it) /\ IllFormed
  <2> SUFFICES ASSUME Accepts(tokens) PROVE FALSE
    BY <1>1, <1>10, Onward DEF IllFormed
  <2>1. Clause(tokens, i)
    BY <1>2, <1>6, FromAtOnce, AcceptsComplex
  <2>2. PICK m \in Nat : m = Len(tokens) - i - 2
    BY <1>5, <1>6
  <2>3. /\ m % 5 = 0
        /\ \A k \in 0 .. m \div 5 - 1 : CondAt(tokens, i + 3 + 5 * k)
    BY <1>5, <1>6, <2>1, <2>2 DEF Clause
  <2>4. m > 5 * Taken
    <3>1. /\ it \in 1 .. Len(tokens) + 1 /\ it # Len(tokens) + 1
          /\ Len(tokens) \in Nat /\ i \in 1 .. Len(tokens) /\ it = i + 3 + 5 * Taken
      BY <1>2, <1>5, <1>6, <1>10, Zenon
    <3> QED
      BY <1>7, <2>2, <3>1, SMTT(30)
  <2>5. Taken \in 0 .. m \div 5 - 1
    BY <1>7, <2>2, <2>3, <2>4, FivesAndMore
  <2> QED
    BY <1>6, <1>10, <2>3, <2>5
<1>11. CondAt(tokens, it) <=> Token(it) = "(" /\ it + 4 < end /\ Token(it + 4) = ")"
  BY <1>2, <1>5 DEF CondAt, Token
<1> QED
  BY <1>8, <1>9, <1>10, <1>11, Zenon DEF ParseCondition

\* What has been read up to the end is the reading of the query string.
LEMMA ReadToTheEnd ==
  ASSUME tokens \in Seq(STRING), AtCreate, tokens[1] \in ComplexNames
  PROVE  /\ Accepts(tokens)
         /\ Reading(tokens) = [op |-> tokens[1], operands |-> operandToken,
                               target |-> targetTable, conds |-> conditionToken]
<1>1. tokens # <<>> /\ it = end
  BY DEF AtCreate, Unknown, Refused
<1>2. PICK i \in DOMAIN tokens : Clauses(i) /\ (WhereAt(i) \/ (it = i + 2 /\ Taken = 0))
  BY Zenon DEF AtCreate
<1>3. /\ i + 1 <= Len(tokens) /\ FromAt(tokens, i)
      /\ operandToken = SubSeq(tokens, 3, i - 2) /\ targetTable = tokens[i + 1]
      /\ conditionToken \in Seq(Seq(STRING))
      /\ \A k \in 1 .. Taken : conditionToken[k] = SubSeq(tokens, i + 5 * k - 1, i + 5 * k + 1)
      /\ \A k \in 0 .. Taken - 1 : CondAt(tokens, i + 3 + 5 * k)
  BY <1>2, Zenon DEF Clauses
<1>4. PICK n \in Nat : n = Len(tokens)
  BY TokensLen, Zenon
<1>5. i \in 1 .. n
  BY <1>4
<1>6. PICK m \in Nat : m = Taken
  BY <1>3, LenProperties, Zenon DEF Taken
<1>7. it = n + 1
  BY <1>1, <1>4, Zenon DEF end
<1>8. /\ n - i - 1 = 5 * m \/ n - i - 1 = 5 * m + 1
      /\ Clause(tokens, i)
  <2>1. CASE WhereAt(i)
    <3>1. i + 2 <= n /\ tokens[i + 2] = "WHERE" /\ n + 1 = i + 3 + 5 * m
      BY <1>4, <1>6, <1>7, <2>1, Zenon DEF WhereAt
    <3>2. n - i - 2 = 5 * m
      BY <1>5, <3>1, SMTT(30)
    <3>3. (n - i - 2) % 5 = 0 /\ (n - i - 2) \div 5 = m
      BY <3>2, Fives
    <3>4. \A k \in 0 .. m - 1 : CondAt(tokens, i + 3 + 5 * k)
      BY <1>3, <1>6
    <3>5. Clause(tokens, i)
      BY <1>4, <3>1, <3>3, <3>4 DEF Clause
    <3> QED
      BY <1>5, <3>2, <3>5
  <2>2. CASE it = i + 2 /\ Taken = 0
    <3>1. n = i + 1
      BY <1>5, <1>7, <2>2
    <3>2. Clause(tokens, i)
      BY <1>4, <3>1 DEF Clause
    <3> QED
      BY <1>5, <1>6, <2>2, <3>1, <3>2
  <2> QED
    BY <1>2, <2>1, <2>2
<1>9. (n - i - 1) \div 5 = m
  BY <1>8, Fives
<1>10. Accepts(tokens)
  BY <1>1, <1>3, <1>8 DEF Accepts
<1>11. (CHOOSE j \in DOMAIN tokens : FromAt(tokens, j)) = i
  <2> DEFINE c == CHOOSE j \in DOMAIN tokens : FromAt(tokens, j)
  <2>1. FromAt(tokens, c)
    BY <1>3
  <2> HIDE DEF c
  <2>2. c = i
    BY <1>3, <2>1, FromAtOnce
  <2> QED
    BY <2>2 DEF c
<1>12. conditionToken = [k \in 1 .. m |-> SubSeq(tokens, i + 5 * k - 1, i + 5 * k + 1)]
  BY <1>3, <1>6 DEF Taken
<1> QED
  BY <1>3, <1>4, <1>9, <1>10, <1>11, <1>12, Zenon DEF Reading

\* Complex: the query is made if its name is known.
LEMMA QueryCreated ==
  ASSUME tokens \in Seq(STRING), ParseInv, CreateQuery
  PROVE  ParseInv'
<1>1. AtCreate /\ tokens' = tokens /\ it' = it
  BY DEF CreateQuery, ParseInv
<1>2. Unknown /\ it = end
  BY <1>1, Zenon DEF AtCreate
<1>3. CASE tokens[1] \in ComplexNames
  <2>1. /\ at' = "extracted"
        /\ query' = [op |-> tokens[1], operands |-> operandToken,
                     target |-> targetTable, conds |-> conditionToken]
    BY <1>3 DEF CreateQuery
  <2>2. Accepts(tokens) /\ query' = Reading(tokens)
    BY <1>1, <1>3, <2>1, ReadToTheEnd
  <2>3. it \in 1 .. end
    BY <1>2, TokensLen DEF end
  <2> QED
    BY <1>1, <2>1, <2>2, <2>3 DEF ParseInv, Places, ParsedAsWritten, RefusedIsIllFormed, end
<1>4. CASE tokens[1] \notin ComplexNames
  <2>1. at' = "failed" /\ ~Accepts(tokens)
    BY <1>2, <1>4, AcceptsComplex DEF CreateQuery
  <2> QED
    BY <1>1, <2>1, Onward
<1> QED
  BY <1>3, <1>4

\* Every step of the chain keeps what it knows.
LEMMA ParseGoesOn ==
  ASSUME tokens \in Seq(STRING), ParseInv, Parse
  PROVE  ParseInv' /\ tokens' = tokens
<1>1. tokens' = tokens
  BY Zenon DEF Parse, Debug, ManageTable, Try, ParseName, ParseOperand, ParseTarget,
               ParseCondition, CreateQuery
<1>2. ParseInv'
  BY SimpleParsed, NameParsed, OperandParsed, TargetParsed, ConditionParsed, QueryCreated
     DEF Parse
<1> QED
  BY <1>1, <1>2

-------------------------------------------------------------------------------
(* The loop. *)

\* The files of the disk are query strings.
LEMMA FilesAreTexts ==
  ASSUME disk \in Disks, NEW p \in DOMAIN disk
  PROVE  disk[p] \in Seq(Seq(STRING))
BY ReplAssumption

\* A stack without what is on top of it.
LEMMA FrontOfStack ==
  ASSUME NEW S, NEW s \in Seq(S), s # <<>>
  PROVE  /\ Len(s) \in Nat \ {0} /\ Last(s) \in S
         /\ Front(s) \in Seq(S) /\ Len(Front(s)) = Len(s) - 1
         /\ Len(s) # 1 => Front(s) # <<>>
         /\ \A x \in S : /\ Front(s) \o <<x>> \in Seq(S) /\ Front(s) \o <<x>> # <<>>
                        /\ Len(Front(s) \o <<x>>) = Len(s)
<1>1. Len(s) \in Nat \ {0}
  BY EmptySeq
<1>2. Last(s) \in S
  BY <1>1, ElementOfSeq DEF Last
<1>3. Front(s) \in Seq(S) /\ Len(Front(s)) = Len(s) - 1
  <2>1. PICK n \in Nat \ {0} : n = Len(s)
    BY <1>1
  <2>2. \A i \in 1 .. n - 1 : s[i] \in S
    BY <2>1, ElementOfSeq
  <2>3. PICK m \in Nat : m = n - 1
    BY <2>1
  <2>4. SubSeq(s, 1, m) \in Seq(S) /\ Len(SubSeq(s, 1, m)) = IF 1 <= m THEN m - 1 + 1 ELSE 0
    BY <2>2, <2>3, SubSeqProperties
  <2>5. Front(s) = SubSeq(s, 1, m)
    BY <2>1, <2>3, Zenon DEF Front
  <2>6. Len(SubSeq(s, 1, m)) = m
    BY <2>4
  <2> QED
    BY <2>1, <2>3, <2>4, <2>5, <2>6, Zenon
<1>4. ASSUME NEW x \in S
      PROVE  /\ Front(s) \o <<x>> \in Seq(S) /\ Front(s) \o <<x>> # <<>>
             /\ Len(Front(s) \o <<x>>) = Len(s)
  <2>1. <<x>> \in Seq(S) /\ Len(<<x>>) = 1
    OBVIOUS
  <2>2. Front(s) \o <<x>> \in Seq(S) /\ Len(Front(s) \o <<x>>) = Len(Front(s)) + 1
    BY <1>3, <2>1, ConcatProperties
  <2>3. Len(Front(s) \o <<x>>) = Len(s)
    BY <1>1, <1>3, <2>2
  <2> QED
    BY <1>1, <2>2, <2>3, EmptySeq
<1>5. Len(s) # 1 => Front(s) # <<>>
  BY <1>1, <1>3, EmptySeq
<1> QED
  BY <1>1, <1>2, <1>3, <1>4, <1>5

\* The front of the last input is a query string, and without it the stack is one.
LEMMA InputIsText ==
  ASSUME inputlist \in Seq(Seq(Seq(STRING))), inputlist # <<>>, Input # <<>>
  PROVE  /\ Head(Input) \in Seq(STRING)
         /\ Advanced \in Seq(Seq(Seq(STRING))) /\ Len(Advanced) = Len(inputlist)
         /\ Advanced # <<>>
<1>1. Input \in Seq(Seq(STRING))
  BY FrontOfStack, Zenon DEF Input
<1>2. Head(Input) \in Seq(STRING) /\ Tail(Input) \in Seq(Seq(STRING))
  BY <1>1, HeadTailProperties, Zenon
<1>3. \A x \in Seq(Seq(STRING)) :
        /\ Front(inputlist) \o <<x>> \in Seq(Seq(Seq(STRING))) /\ Front(inputlist) \o <<x>> # <<>>
        /\ Len(Front(inputlist) \o <<x>>) = Len(inputlist)
  BY FrontOfStack, Zenon
<1>4. PICK x \in Seq(Seq(STRING)) : x = Tail(Input)
  BY <1>2
<1>5. Advanced = Front(inputlist) \o <<x>>
  BY <1>4, Zenon DEF Advanced
<1> QED
  BY <1>2, <1>3, <1>5, Zenon

\* A history that grows by a query string is one.
LEMMA DoneGrows ==
  ASSUME NEW t \in Seq(STRING), done \in Seq(Seq(STRING))
  PROVE  Append(done, t) \in Seq(Seq(STRING)) /\ Len(Append(done, t)) = Len(done) + 1
BY AppendProperties

\* Where the chain is idle it has nothing to know.
LEMMA IdleKnowsNothing ==
  ASSUME at' = "idle"
  PROVE  ParseInv'
BY DEF ParseInv, Places, ParsedAsWritten, RefusedIsIllFormed

\* What stays, stays.
LEMMA ParserStays ==
  ASSUME ParseInv, UNCHANGED parser
  PROVE  ParseInv'
<1> USE DEF parser, complex, Cleared, Unknown, Refused, Taken, end
<1>1. UNCHANGED <<tokens, at, it, operandToken, targetTable, conditionToken, query>>
  BY Zenon
<1>2. (AtDebug => AtDebug') /\ (AtManage => AtManage') /\ (AtComplex => AtComplex')
  BY <1>1, Zenon DEF AtDebug, AtManage, AtComplex
<1>3. (AtOperand => AtOperand') /\ (AtTarget => AtTarget')
  BY <1>1, Zenon DEF AtOperand, AtTarget
<1>4. (AtCondition => AtCondition') /\ (AtCreate => AtCreate')
  BY <1>1, Zenon DEF AtCondition, AtCreate, Clauses, WhereAt
<1>5. (ParsedAsWritten => ParsedAsWritten') /\ (RefusedIsIllFormed => RefusedIsIllFormed')
  BY <1>1, Zenon DEF ParsedAsWritten, RefusedIsIllFormed
<1> QED
  BY <1>1, <1>2, <1>3, <1>4, <1>5, Zenon DEF ParseInv

\* Every step keeps what the types need.
LEMMA LoopGoesOn ==
  ASSUME ReplInv, [Next]_vars
  PROVE  ReplInv'
<1> USE DEF ReplInv
<1>0. ParseInv /\ StackInv /\ CountInv /\ tokens \in Seq(STRING)
  BY DEF CountInv
<1>1. CASE Start
  <2>1. ParseInv'
    BY <1>1, <1>0, ParserStays DEF Start
  <2>2. /\ disk' = disk /\ opened' = opened /\ opened = 0 /\ tokens' = tokens
        /\ done' = done /\ counter' = counter
    BY <1>1, <1>0 DEF Start, args, parser, StackInv
  <2>3. CASE Main \in DOMAIN disk /\ process' = "running" /\ inputlist' = <<disk[Main]>>
    <3>1. disk[Main] \in Seq(Seq(STRING))
      BY <1>0, <2>3, FilesAreTexts DEF StackInv
    <3>2. inputlist' \in Seq(Seq(Seq(STRING))) /\ Len(inputlist') = 1 /\ inputlist' # <<>>
      BY <2>3, <3>1
    <3> QED
      BY <1>0, <2>1, <2>2, <2>3, <3>2 DEF StackInv, CountInv
  <2>4. CASE process' = "failed" /\ inputlist' = inputlist
    BY <1>0, <2>1, <2>2, <2>4 DEF StackInv, CountInv
  <2> QED
    BY <1>1, <2>3, <2>4 DEF Start
<1>2. CASE Listen
  <2>0. process = "running" /\ inputlist # <<>> /\ Input # <<>> /\ inputlist \in Seq(Seq(Seq(STRING)))
    BY <1>0, <1>2 DEF Listen, Reads, StackInv
  <2>1. ParseInv' /\ tokens' = tokens /\ disk' = disk
    BY <1>2, <1>0, ParserStays DEF Listen, parser, args
  <2>2. done' \in Seq(Seq(STRING)) /\ Len(done') = Len(done) + 1
    BY <1>0, <1>2, <2>0, InputIsText, DoneGrows DEF Listen, CountInv
  <2>3. /\ Advanced \in Seq(Seq(Seq(STRING))) /\ Len(Advanced) = Len(inputlist)
        /\ Advanced # <<>>
    BY <2>0, InputIsText
  <2>4. CASE process' = "failed" /\ inputlist' = Advanced /\ opened' = opened /\ counter' = counter
    <3>1. StackInv'
      BY <1>0, <2>1, <2>3, <2>4 DEF StackInv
    <3>2. CountInv'
      BY <1>0, <2>1, <2>2, <2>4 DEF CountInv
    <3> QED
      BY <2>1, <3>1, <3>2
  <2>5. CASE /\ path(Head(Input)) \in DOMAIN disk /\ opened < MaxOpen
             /\ inputlist' = Append(Advanced, disk[path(Head(Input))])
             /\ opened' = opened + 1 /\ counter' = counter + 1 /\ process' = process
    <3>1. disk[path(Head(Input))] \in Seq(Seq(STRING))
      BY <1>0, <2>5, FilesAreTexts DEF StackInv
    <3>2. /\ inputlist' \in Seq(Seq(Seq(STRING))) /\ inputlist' # <<>>
          /\ Len(inputlist') = Len(inputlist) + 1
      <4>1. PICK x \in Seq(Seq(STRING)) : inputlist' = Append(Advanced, x)
        BY <2>5, <3>1, Zenon
      <4>2. PICK s \in Seq(Seq(Seq(STRING))) : s = Advanced
        BY <2>3, Zenon
      <4>3. /\ Append(s, x) \in Seq(Seq(Seq(STRING))) /\ Append(s, x) # <<>>
            /\ Len(Append(s, x)) = Len(s) + 1
        BY AppendProperties
      <4> QED
        BY <2>3, <4>1, <4>2, <4>3, Zenon
    <3>3. opened' \in 0 .. MaxOpen /\ Len(inputlist') <= opened' + 1
      <4>1. Len(inputlist) \in Nat /\ Len(inputlist) <= opened + 1 /\ opened \in 0 .. MaxOpen
        BY <1>0, <2>0 DEF StackInv
      <4> QED
        BY <4>1, <2>5, <3>2, ReplAssumption
    <3>4. StackInv'
      BY <1>0, <2>0, <2>1, <2>5, <3>2, <3>3, Zenon DEF StackInv
    <3>5. CountInv'
      BY <1>0, <2>1, <2>2, <2>5 DEF CountInv
    <3> QED
      BY <2>1, <3>4, <3>5
  <2> QED
    BY <1>2, <2>4, <2>5 DEF Listen
<1>3. CASE ReadQuery
  <2>0. process = "running" /\ inputlist # <<>> /\ Input # <<>> /\ inputlist \in Seq(Seq(Seq(STRING)))
    BY <1>0, <1>3 DEF ReadQuery, Reads, StackInv
  <2>1. /\ Head(Input) \in Seq(STRING)
        /\ Advanced \in Seq(Seq(Seq(STRING))) /\ Len(Advanced) = Len(inputlist)
        /\ Advanced # <<>>
    BY <2>0, InputIsText
  <2>2. PICK t \in Seq(STRING) : parseQuery(t)
    BY <1>3, <2>1 DEF ReadQuery
  <2>3. ParseInv' /\ tokens' \in Seq(STRING)
    BY <2>2, ParseBegins DEF parseQuery
  <2>4. StackInv'
    BY <1>0, <1>3, <2>0, <2>1 DEF StackInv, ReadQuery, args
  <2>5. CountInv'
    BY <1>0, <1>3, <2>3 DEF CountInv, ReadQuery
  <2> QED
    BY <2>3, <2>4, <2>5
<1>4. CASE ParseStep
  <2>1. ParseInv' /\ tokens' = tokens
    BY <1>0, <1>4, ParseGoesOn DEF ParseStep
  <2>2. StackInv' /\ CountInv'
    BY <1>0, <1>4, <2>1 DEF ParseStep, StackInv, CountInv, main, args
  <2> QED
    BY <2>1, <2>2
<1>5. CASE Execute
  <2>1. ParseInv' /\ tokens' = tokens
    BY <1>5, IdleKnowsNothing, Zenon DEF Execute
  <2>2. done' \in Seq(Seq(STRING)) /\ Len(done') = Len(done) + 1
    BY <1>0, <1>5, DoneGrows DEF Execute, CountInv
  <2>3. /\ process = "running" /\ process' \in {"running", "quit"} /\ counter' \in {counter, counter + 1}
        /\ UNCHANGED <<inputlist, opened, disk>>
    BY <1>5 DEF Execute, args
  <2>4. StackInv'
    BY <1>0, <2>3 DEF StackInv
  <2>5. CountInv'
    BY <1>0, <2>1, <2>2, <2>3 DEF CountInv
  <2> QED
    BY <2>1, <2>4, <2>5
<1>6. CASE Refuse
  <2>1. ParseInv' /\ tokens' = tokens
    <3>1. CASE at = "failed"
      BY <1>6, <3>1, IdleKnowsNothing DEF Refuse
    <3>2. CASE at # "failed"
      BY <1>0, <1>6, <3>2, ParserStays DEF Refuse, parser
    <3> QED
      BY <3>1, <3>2
  <2>2. done' \in Seq(Seq(STRING)) /\ Len(done') = Len(done) + 1
    BY <1>0, <1>6, DoneGrows DEF Refuse, CountInv
  <2>3. /\ process = "running" /\ process' \in {"running", "undefined"}
        /\ UNCHANGED <<inputlist, opened, counter, disk>>
    BY <1>6 DEF Refuse, args
  <2>4. StackInv'
    BY <1>0, <2>3 DEF StackInv
  <2>5. CountInv'
    BY <1>0, <2>1, <2>2, <2>3 DEF CountInv
  <2> QED
    BY <2>1, <2>4, <2>5
<1>7. CASE EndOfInput
  <2>0. process = "running" /\ inputlist # <<>> /\ inputlist \in Seq(Seq(Seq(STRING)))
    BY <1>0, <1>7 DEF EndOfInput, StackInv
  <2>1. /\ ParseInv' /\ tokens' = tokens
        /\ UNCHANGED <<disk, opened, done, counter>>
    BY <1>0, <1>7, ParserStays DEF EndOfInput, parser, args
  <2>2. CASE process' = "end" /\ inputlist' = inputlist
    BY <1>0, <2>1, <2>2 DEF StackInv, CountInv
  <2>3. CASE Len(inputlist) # 1 /\ inputlist' = Front(inputlist) /\ process' = process
    <3>1. /\ inputlist' \in Seq(Seq(Seq(STRING))) /\ inputlist' # <<>>
          /\ Len(inputlist') = Len(inputlist) - 1 /\ Len(inputlist) \in Nat
      BY <2>0, <2>3, FrontOfStack
    <3>2. StackInv'
      BY <1>0, <2>0, <2>1, <2>3, <3>1 DEF StackInv
    <3> QED
      BY <1>0, <2>1, <2>3, <3>2 DEF CountInv
  <2> QED
    BY <1>7, <2>2, <2>3 DEF EndOfInput
<1>8. CASE UNCHANGED vars
  <2>1. ParseInv'
    BY <1>0, <1>8, ParserStays, Zenon DEF vars
  <2>2. UNCHANGED <<tokens, at, process, inputlist, opened, counter, done, disk>>
    BY <1>8 DEF vars, parser, main, args
  <2>3. StackInv' /\ CountInv'
    BY <1>0, <2>2, Zenon DEF StackInv, CountInv
  <2> QED
    BY <2>1, <2>3
<1> QED
  BY <1>1, <1>2, <1>3, <1>4, <1>5, <1>6, <1>7, <1>8, Zenon DEF Next

\* What holds at the start.
LEMMA LoopBegins ==
  ASSUME ReplInit
  PROVE  ReplInv
<1>1. /\ at = "idle" /\ tokens = <<>> /\ disk \in Disks /\ process = "start"
      /\ inputlist = <<>> /\ opened = 0 /\ counter = 0 /\ done = <<>>
  BY Zenon DEF ReplInit, ParserInit
<1>2. ParseInv
  BY <1>1, Zenon DEF ParseInv, Places, ParsedAsWritten, RefusedIsIllFormed
<1>3. StackInv
  BY <1>1, ReplAssumption DEF StackInv
<1>4. CountInv
  BY <1>1 DEF CountInv
<1> QED
  BY <1>2, <1>3, <1>4 DEF ReplInv

LEMMA LoopInvariant == Spec => []ReplInv
<1>1. ReplInit => ReplInv
  BY LoopBegins
<1>2. ReplInv /\ [Next]_vars => ReplInv'
  BY LoopGoesOn
<1> QED
  BY <1>1, <1>2, PTL DEF Spec

\* The types of main's state and of the parser's place.
THEOREM ReplTypes == Spec => []ReplTypeOK
<1>1. ReplInv => ReplTypeOK
  <2> SUFFICES ASSUME ReplInv PROVE ReplTypeOK
    OBVIOUS
  <2>0. ParseInv /\ StackInv /\ CountInv
    BY DEF ReplInv
  <2>1. at \in {"idle", "failed", "Debug"} \/ it \in 1 .. end
    <3>0. Len(tokens) \in Nat /\ end = Len(tokens) + 1
      BY <2>0 DEF CountInv, end
    <3>1. CASE at \in {"ManageTable", "Complex"}
      BY <2>0, <3>0, <3>1 DEF ParseInv, AtManage, AtComplex
    <3>2. CASE at = "operand"
      <4>1. it \in 3 .. end
        BY <2>0, <3>2, Zenon DEF ParseInv, AtOperand
      <4> QED
        BY <3>0, <4>1
    <3>3. CASE at = "target"
      <4>1. it \in DOMAIN tokens
        BY <2>0, <3>3, Zenon DEF ParseInv, AtTarget, FromAt
      <4> QED
        BY <3>0, <4>1, <2>0, TokensLen DEF CountInv
    <3>4. CASE at = "condition"
      BY <2>0, <3>4, Zenon DEF ParseInv, AtCondition
    <3>5. CASE at \in {"create", "undefined"}
      BY <2>0, <3>0, <3>5 DEF ParseInv, AtCreate
    <3>6. CASE at = "extracted"
      BY <2>0, <3>6, Zenon DEF ParseInv
    <3> QED
      BY <2>0, <3>1, <3>2, <3>3, <3>4, <3>5, <3>6, Zenon DEF ParseInv, Places
  <2>2. inputlist = <<>> \/ Len(inputlist) \in 1 .. opened + 1
    BY <2>0, EmptySeq DEF StackInv
  <2> QED
    BY <2>0, <2>1, <2>2, Zenon DEF ReplTypeOK, ParseInv, StackInv, CountInv
<1> QED
  BY <1>1, LoopInvariant, PTL

\* A query that is made is the one its own tokens spell: the operands and the
\* conditions an earlier query left in Complex never get into it.
THEOREM QueriesParsedAsWritten == Spec => []ParsedAsWritten
<1>1. ReplInv => ParsedAsWritten
  BY Zenon DEF ReplInv, ParseInv
<1> QED
  BY <1>1, LoopInvariant, PTL

\* What the chain refuses, or falls over, is not in the language.
THEOREM RefusedQueriesAreIllFormed == Spec => []RefusedIsIllFormed
<1>1. ReplInv => RefusedIsIllFormed
  BY Zenon DEF ReplInv, ParseInv
<1> QED
  BY <1>1, LoopInvariant, PTL
-------------------------------------------------------------------------------
(* The order in which the query strings are dealt with. *)

\* Two sequences that begin with the same elements.
Agree(a, b, n, S) == \A i \in 1 .. n : a[i] \in S /\ b[i] = a[i]

LEMMA SameSubSeq ==
  ASSUME NEW S, NEW n \in Nat, NEW a, NEW b, Agree(a, b, n, S)
  PROVE  SubSeq(a, 1, n) = SubSeq(b, 1, n)
<1>1. /\ SubSeq(a, 1, n) \in Seq(S) /\ Len(SubSeq(a, 1, n)) = n
      /\ \A i \in 1 .. n : SubSeq(a, 1, n)[i] = a[i] /\ b[i] = a[i]
  BY SubSeqProperties DEF Agree
<1>2. /\ SubSeq(b, 1, n) \in Seq(S) /\ Len(SubSeq(b, 1, n)) = n
      /\ \A i \in 1 .. n : SubSeq(b, 1, n)[i] = b[i]
  BY SubSeqProperties DEF Agree
<1> QED
  BY <1>1, <1>2, SeqEqual

\* What a sequence begins with.
LEMMA PrefixOfConcat ==
  ASSUME NEW S, NEW a \in Seq(S), NEW b \in Seq(S)
  PROVE  IsPrefix(a, a \o b)
<1>1. /\ Len(a) \in Nat /\ Len(b) \in Nat /\ Len(a \o b) = Len(a) + Len(b)
      /\ \A i \in 1 .. Len(a) + Len(b) : (a \o b)[i] = IF i <= Len(a) THEN a[i] ELSE b[i - Len(a)]
  BY ConcatProperties
<1>2. PICK n \in Nat : n = Len(a)
  BY <1>1
<1>3. \A i \in 1 .. n : (a \o b)[i] = a[i]
  BY <1>1, <1>2
<1>4. Agree(a, a \o b, n, S)
  BY <1>2, <1>3, ElementOfSeq DEF Agree
<1>5. SubSeq(a, 1, n) = SubSeq(a \o b, 1, n)
  BY <1>4, SameSubSeq
<1>6. Len(a) <= Len(a \o b)
  BY <1>1
<1> QED
  BY <1>2, <1>5, <1>6, Zenon DEF IsPrefix

\* A stack with something on top of it.
LEMMA TopOfStack ==
  ASSUME NEW S, NEW s \in Seq(S), NEW x \in S
  PROVE  /\ s \o <<x>> \in Seq(S) /\ s \o <<x>> # <<>> /\ Len(s \o <<x>>) = Len(s) + 1
         /\ Front(s \o <<x>>) = s /\ Last(s \o <<x>>) = x /\ Append(s, x) = s \o <<x>>
<1>1. PICK n \in Nat : n = Len(s)
  OBVIOUS
<1>2. <<x>> \in Seq(S) /\ Len(<<x>>) = 1 /\ <<x>>[1] = x
  OBVIOUS
<1>3. /\ s \o <<x>> \in Seq(S) /\ Len(s \o <<x>>) = n + 1
      /\ \A i \in 1 .. n + 1 : (s \o <<x>>)[i] = IF i <= n THEN s[i] ELSE <<x>>[i - n]
  BY <1>1, <1>2, ConcatProperties
<1>4. Last(s \o <<x>>) = x
  BY <1>2, <1>3 DEF Last
<1>5. Front(s \o <<x>>) = s
  <2>1. Front(s \o <<x>>) = SubSeq(s \o <<x>>, 1, n)
    BY <1>3 DEF Front
  <2>2. Agree(s, s \o <<x>>, n, S)
    BY <1>1, <1>3, ElementOfSeq DEF Agree
  <2>3. SubSeq(s \o <<x>>, 1, n) = SubSeq(s, 1, n)
    BY <2>2, SameSubSeq
  <2>4. SubSeq(s, 1, n) = s
    BY <1>1, SubSeqFull
  <2> QED
    BY <2>1, <2>3, <2>4
<1>6. Append(s, x) = s \o <<x>>
  BY <1>1, <1>3, AppendProperties, SeqEqual
<1> QED
  BY <1>1, <1>3, <1>4, <1>5, <1>6, EmptySeq

\* What is dealt with for one query string.
LEMMA WithListenedIsText ==
  ASSUME NEW t \in Seq(STRING), NEW D, NEW below \in [D -> Seq(Seq(STRING))]
  PROVE  WithListened(t, below) \in Seq(Seq(STRING))
<1>1. <<t>> \in Seq(Seq(STRING)) /\ <<>> \in Seq(Seq(STRING))
  OBVIOUS
<1>2. Listens(t) /\ path(t) \in DOMAIN below => below[path(t)] \in Seq(Seq(STRING))
  OBVIOUS
<1> DEFINE more == IF Listens(t) /\ path(t) \in DOMAIN below THEN below[path(t)] ELSE <<>>
<1>3. more \in Seq(Seq(STRING))
  BY <1>1, <1>2
<1> HIDE DEF more
<1>4. <<t>> \o more \in Seq(Seq(STRING))
  BY <1>1, <1>3, ConcatProperties
<1> QED
  BY <1>4 DEF WithListened, more

\* No query string, nothing to deal with.
LEMMA UnfoldedOfNothing ==
  ASSUME NEW below
  PROVE  Unfolded(<<>>, below) = <<>>
BY DEF Unfolded, FlattenSeq

\* The first query string, then the others.
LEMMA UnfoldedFirst ==
  ASSUME NEW text \in Seq(Seq(STRING)), text # <<>>,
         NEW D, NEW below \in [D -> Seq(Seq(STRING))]
  PROVE  /\ Unfolded(Tail(text), below) \in Seq(Seq(STRING))
         /\ Unfolded(text, below) = WithListened(Head(text), below) \o Unfolded(Tail(text), below)
         /\ Unfolded(text, below) \in Seq(Seq(STRING))
<1>1. PICK n \in Nat : Len(text) = n + 1
  <2>1. Len(text) \in Nat \ {0}
    BY EmptySeq
  <2> QED
    BY <2>1, OneBefore, Zenon
<1>2. /\ Tail(text) \in Seq(Seq(STRING)) /\ Len(Tail(text)) = n /\ Head(text) = text[1]
      /\ \A i \in 1 .. n : Tail(text)[i] = text[i + 1]
  BY <1>1, HeadTailProperties
<1> DEFINE F == [i \in 1 .. n + 1 |-> WithListened(text[i], below)]
           G == [i \in 1 .. n |-> WithListened(Tail(text)[i], below)]
<1>3. \A i \in 1 .. n + 1 : text[i] \in Seq(STRING)
  BY <1>1, ElementOfSeq
<1>4. F \in [1 .. n + 1 -> Seq(Seq(STRING))]
  BY <1>3, WithListenedIsText
<1>5. \A i \in 1 .. n : G[i] = F[i + 1]
  BY <1>2
<1>6. G \in [1 .. n -> Seq(Seq(STRING))]
  <2>1. ASSUME NEW i \in 1 .. n PROVE G[i] \in Seq(Seq(STRING))
    <3>1. i + 1 \in 1 .. n + 1
      OBVIOUS
    <3> HIDE DEF F, G
    <3> QED
      BY <1>4, <1>5, <3>1
  <2> QED
    BY <2>1
<1>7. Unfolded(text, below) = FlattenSeq(F) /\ Unfolded(Tail(text), below) = FlattenSeq(G)
  <2>1. DOMAIN text = 1 .. n + 1 /\ DOMAIN Tail(text) = 1 .. n
    BY <1>1, <1>2
  <2> QED
    BY <2>1, Zenon DEF Unfolded
<1>8. F[1] = WithListened(Head(text), below)
  BY <1>2
<1> HIDE DEF F, G
<1>9. OneMore(F, G, n, Seq(STRING))
  BY <1>4, <1>5, <1>6, Zenon DEF OneMore
<1>10. /\ FlattenSeq(F) \in Seq(Seq(STRING)) /\ FlattenSeq(G) \in Seq(Seq(STRING))
       /\ FlattenSeq(F) = F[1] \o FlattenSeq(G)
  BY <1>9, FlattenMapped
<1> QED
  BY <1>7, <1>8, <1>10, Zenon

LEMMA UnfoldedIsText ==
  ASSUME NEW text \in Seq(Seq(STRING)), NEW D, NEW below \in [D -> Seq(Seq(STRING))]
  PROVE  Unfolded(text, below) \in Seq(Seq(STRING))
<1>1. CASE text = <<>>
  BY <1>1, UnfoldedOfNothing, EmptySeq
<1>2. CASE text # <<>>
  BY <1>2, UnfoldedFirst, Zenon
<1> QED
  BY <1>1, <1>2

\* What is to come of no input.
LEMMA NothingToCome ==
  ASSUME NEW expanded
  PROVE  ToCome(<<>>, expanded) = <<>>
BY DEF ToCome, FlattenSeq

\* What is to come of the last input comes first.
LEMMA LastComesFirst ==
  ASSUME NEW inputs \in Seq(Seq(Seq(STRING))), inputs # <<>>, Len(inputs) <= MaxOpen + 1,
         NEW D, NEW expanded \in [0 .. MaxOpen + 1 -> [D -> Seq(Seq(STRING))]]
  PROVE  /\ ToCome(Front(inputs), expanded) \in Seq(Seq(STRING))
         /\ ToCome(inputs, expanded) = Unfolded(Last(inputs), expanded[MaxOpen + 1 - Len(inputs)])
                                       \o ToCome(Front(inputs), expanded)
<1>1. PICK n \in Nat : Len(inputs) = n + 1
  <2>1. Len(inputs) \in Nat \ {0}
    BY EmptySeq
  <2> QED
    BY <2>1, OneBefore, Zenon
<1>2. Len(Front(inputs)) = n /\ \A i \in 1 .. n : Front(inputs)[i] = inputs[i]
  BY <1>1, FrontOfStack DEF Front
<1>3. Front(inputs) \in Seq(Seq(Seq(STRING)))
  BY FrontOfStack, Zenon
<1> DEFINE F == [i \in 1 .. n + 1 |-> Unfolded(inputs[n + 1 + 1 - i], expanded[MaxOpen + 1 - (n + 1 + 1 - i)])]
           G == [i \in 1 .. n |-> Unfolded(Front(inputs)[n + 1 - i], expanded[MaxOpen + 1 - (n + 1 - i)])]
<1>4. F \in [1 .. n + 1 -> Seq(Seq(STRING))]
  <2>1. ASSUME NEW i \in 1 .. n + 1
        PROVE  Unfolded(inputs[n + 1 + 1 - i], expanded[MaxOpen + 1 - (n + 1 + 1 - i)]) \in Seq(Seq(STRING))
    <3>1. PICK j \in 1 .. n + 1 : j = n + 1 + 1 - i
      OBVIOUS
    <3>2. PICK m \in 0 .. MaxOpen + 1 : m = MaxOpen + 1 - j
      BY <1>1, ReplAssumption
    <3>3. inputs[j] \in Seq(Seq(STRING)) 
      BY <1>1, ElementOfSeq
    <3>4. expanded[m] \in [D -> Seq(Seq(STRING))]
      OBVIOUS
    <3>5. Unfolded(inputs[j], expanded[m]) \in Seq(Seq(STRING))
      BY <3>3, <3>4, UnfoldedIsText, Zenon
    <3> QED
      BY <3>1, <3>2, <3>5, Zenon
  <2> QED
    BY <2>1
<1>5. ASSUME NEW i \in 1 .. n
      PROVE  G[i] = F[i + 1]
  <2>1. PICK j \in 1 .. n : j = n + 1 - i /\ j = n + 1 + 1 - (i + 1) /\ i + 1 \in 1 .. n + 1
    OBVIOUS
  <2>2. Front(inputs)[j] = inputs[j]
    BY <1>2
  <2>3. F[i + 1] = Unfolded(inputs[n + 1 + 1 - (i + 1)], expanded[MaxOpen + 1 - (n + 1 + 1 - (i + 1))])
    BY <2>1
  <2>4. G[i] = Unfolded(Front(inputs)[n + 1 - i], expanded[MaxOpen + 1 - (n + 1 - i)])
    BY <2>1
  <2> HIDE DEF F, G
  <2>5. F[i + 1] = Unfolded(inputs[j], expanded[MaxOpen + 1 - j]) /\ G[i] = Unfolded(Front(inputs)[j], expanded[MaxOpen + 1 - j])
    BY <2>1, <2>3, <2>4
  <2> QED
    BY <2>2, <2>5
<1>6. G \in [1 .. n -> Seq(Seq(STRING))]
  <2>1. ASSUME NEW i \in 1 .. n PROVE G[i] \in Seq(Seq(STRING))
    <3>1. i + 1 \in 1 .. n + 1
      OBVIOUS
    <3> HIDE DEF F, G
    <3> QED
      BY <1>4, <1>5, <3>1
  <2> QED
    BY <2>1
<1>7. ToCome(inputs, expanded) = FlattenSeq(F) /\ ToCome(Front(inputs), expanded) = FlattenSeq(G)
  <2>1. DOMAIN inputs = 1 .. n + 1 /\ DOMAIN Front(inputs) = 1 .. n
    BY <1>1, <1>2, <1>3
  <2> QED
    BY <1>1, <1>2, <2>1, Zenon DEF ToCome
<1>8. F[1] = Unfolded(Last(inputs), expanded[MaxOpen + 1 - Len(inputs)])
  <2>1. 1 \in 1 .. n + 1 /\ n + 1 + 1 - 1 = n + 1
    OBVIOUS
  <2>2. F[1] = Unfolded(inputs[n + 1 + 1 - 1], expanded[MaxOpen + 1 - (n + 1 + 1 - 1)])
    BY <2>1
  <2> HIDE DEF F
  <2> QED
    BY <1>1, <2>1, <2>2 DEF Last
<1> HIDE DEF F, G
<1>9. OneMore(F, G, n, Seq(STRING))
  BY <1>4, <1>5, <1>6, Zenon DEF OneMore
<1>10. /\ FlattenSeq(F) \in Seq(Seq(STRING)) /\ FlattenSeq(G) \in Seq(Seq(STRING))
       /\ FlattenSeq(F) = F[1] \o FlattenSeq(G)
  BY <1>9, FlattenMapped
<1> QED
  BY <1>7, <1>8, <1>10, Zenon

\* The expansions are files, and each is made of those that are less deep.
LEMMA ExpandedIsText ==
  ASSUME disk \in Disks
  PROVE  /\ Expanded \in [0 .. MaxOpen + 1 -> [DOMAIN disk -> Seq(Seq(STRING))]]
         /\ \A n \in 0 .. MaxOpen : \A p \in DOMAIN disk :
              Expanded[n + 1][p] = Unfolded(disk[p], Expanded[n])
<1> DEFINE D == DOMAIN disk
           V == [D -> Seq(Seq(STRING))]
           N == MaxOpen + 1
           base == [p \in D |-> <<>>]
           step == [n \in Nat |-> [v \in V |-> [p \in D |-> Unfolded(disk[p], v)]]]
           body(e) == [n \in 0 .. N |-> LET below == e[n - 1]
                         IN [p \in D |-> IF n = 0 THEN <<>> ELSE Unfolded(disk[p], below)]]
<1>0. N \in Nat /\ MaxOpen \in Nat
  BY ReplAssumption
<1>1. base \in V
  OBVIOUS
<1>2. \A v \in V : [p \in D |-> Unfolded(disk[p], v)] \in V
  BY FilesAreTexts, UnfoldedIsText
<1>3. step \in [Nat -> [V -> V]] /\ \A n \in Nat, v \in V : step[n][v] = [p \in D |-> Unfolded(disk[p], v)]
  BY <1>2
<1> HIDE DEF V, step, base
<1>4. PICK f : Recurs(f, N, V, base, step)
  BY <1>0, <1>1, <1>3, RecursionExists, Zenon
<1>5. f \in [0 .. N -> V] /\ f[0] = base
  BY <1>4, Zenon DEF Recurs
<1>6. \A n \in 1 .. N : n - 1 \in 0 .. N /\ n # 0 /\ n \in Nat
  BY <1>0
<1>7. \A n \in 1 .. N : f[n] = [p \in D |-> Unfolded(disk[p], f[n - 1])]
  BY <1>3, <1>4, <1>5, <1>6 DEF Recurs
<1>8. f = body(f)
  <2>1. ASSUME NEW n \in 0 .. N
        PROVE  f[n] = [p \in D |-> IF n = 0 THEN <<>> ELSE Unfolded(disk[p], f[n - 1])]
    <3>1. CASE n = 0
      BY <1>5, <3>1 DEF base
    <3>2. CASE n # 0
      <4>1. n \in 1 .. N
        BY <1>0, <3>2
      <4> QED
        BY <1>7, <3>2, <4>1, Zenon
    <3> QED
      BY <3>1, <3>2
  <2> QED
    BY <1>5, <2>1, Zenon
<1>9. Expanded = CHOOSE e : e = body(e)
  BY Zenon DEF Expanded
<1>10. Expanded = body(Expanded)
  BY <1>8, <1>9, Zenon
<1>11. \A n \in 0 .. N : Expanded[n] = [p \in D |-> IF n = 0 THEN <<>> ELSE Unfolded(disk[p], Expanded[n - 1])]
  BY <1>10, Zenon
<1>12. DOMAIN Expanded = 0 .. N
  BY <1>10, Zenon
<1> DEFINE A == {n \in Nat : n \in 0 .. N => Expanded[n] \in V}
<1>13. 0 \in A
  <2>1. 0 \in 0 .. N
    BY <1>0
  <2>2. Expanded[0] = base
    BY <1>11, <2>1, Zenon DEF base
  <2> QED
    BY <1>1, <2>2
<1>14. ASSUME NEW n \in Nat, n \in A
       PROVE  n + 1 \in A
  <2> SUFFICES ASSUME n + 1 \in 0 .. N PROVE Expanded[n + 1] \in V
    OBVIOUS
  <2>1. n \in 0 .. N /\ n + 1 # 0 /\ (n + 1) - 1 = n
    BY <1>0
  <2>2. Expanded[n + 1] = [p \in D |-> Unfolded(disk[p], Expanded[n])]
    BY <1>11, <2>1
  <2> QED
    BY <1>2, <1>14, <2>1, <2>2
<1> HIDE DEF A
<1>15. \A n \in Nat : n \in A
  BY <1>13, <1>14, NatSetInduction
<1>16. \A n \in 0 .. N : Expanded[n] \in V
  BY <1>0, <1>15 DEF A
<1>17. Expanded \in [0 .. N -> V]
  BY <1>10, <1>16
<1>18. ASSUME NEW n \in 0 .. MaxOpen, NEW p \in DOMAIN disk
       PROVE  Expanded[n + 1][p] = Unfolded(disk[p], Expanded[n])
  <2>1. n + 1 \in 0 .. N /\ n + 1 # 0 /\ (n + 1) - 1 = n
    BY <1>0
  <2>2. Expanded[n + 1] = [q \in D |-> Unfolded(disk[q], Expanded[n])]
    BY <1>11, <2>1
  <2> QED
    BY <2>2
<1> QED
  BY <1>17, <1>18 DEF V

\* The query string at the front is the first of what is to come.
LEMMA FrontComesFirst ==
  ASSUME NEW inputs \in Seq(Seq(Seq(STRING))), inputs # <<>>, Len(inputs) <= MaxOpen + 1,
         Last(inputs) # <<>>,
         NEW D, NEW expanded \in [0 .. MaxOpen + 1 -> [D -> Seq(Seq(STRING))]],
         NEW rest, rest = Front(inputs) \o <<Tail(Last(inputs))>>
  PROVE  /\ ToCome(rest, expanded) \in Seq(Seq(STRING))
         /\ ToCome(inputs, expanded)
              = WithListened(Head(Last(inputs)), expanded[MaxOpen + 1 - Len(inputs)]) \o ToCome(rest, expanded)
<1>1. PICK n \in 0 .. MaxOpen + 1 : n = MaxOpen + 1 - Len(inputs)
  <2>1. Len(inputs) \in Nat /\ MaxOpen \in Nat
    BY EmptySeq, ReplAssumption
  <2>2. MaxOpen + 1 - Len(inputs) \in 0 .. MaxOpen + 1
    BY <2>1
  <2> QED
    BY <2>2, Zenon
<1>2. PICK text \in Seq(Seq(STRING)) : text = Last(inputs)
  BY FrontOfStack, Zenon
<1>3. text # <<>> /\ Head(text) \in Seq(STRING) /\ Tail(text) \in Seq(Seq(STRING))
  BY <1>2, HeadTailProperties, Zenon
<1>4. PICK front \in Seq(Seq(Seq(STRING))) : front = Front(inputs)
  BY FrontOfStack, Zenon
<1>5. /\ rest \in Seq(Seq(Seq(STRING))) /\ rest # <<>> /\ Len(rest) = Len(inputs)
      /\ Front(rest) = front /\ Last(rest) = Tail(text)
  <2>1. rest = front \o <<Tail(text)>>
    BY <1>2, <1>4, Zenon
  <2>2. PICK x \in Seq(Seq(STRING)) : x = Tail(text)
    BY <1>3, Zenon
  <2>3. /\ front \o <<x>> \in Seq(Seq(Seq(STRING))) /\ front \o <<x>> # <<>>
        /\ Len(front \o <<x>>) = Len(front) + 1
        /\ Front(front \o <<x>>) = front /\ Last(front \o <<x>>) = x
    BY TopOfStack
  <2>4. rest = front \o <<x>>
    BY <2>1, <2>2, Zenon
  <2>5. Len(inputs) = Len(front) + 1
    <3>1. Len(Front(inputs)) = Len(inputs) - 1 /\ Len(inputs) \in Nat
      BY FrontOfStack, Zenon
    <3> QED
      BY <1>4, <3>1
  <2> QED
    BY <2>2, <2>3, <2>4, <2>5, Zenon
<1>6. PICK below \in [D -> Seq(Seq(STRING))] : below = expanded[n]
  OBVIOUS
<1>7. /\ ToCome(inputs, expanded) = Unfolded(text, below) \o ToCome(front, expanded)
      /\ ToCome(front, expanded) \in Seq(Seq(STRING))
  BY <1>1, <1>2, <1>4, <1>6, LastComesFirst
<1>8. ToCome(rest, expanded) = Unfolded(Tail(text), below) \o ToCome(front, expanded)
  <2>1. ToCome(rest, expanded) = Unfolded(Last(rest), expanded[MaxOpen + 1 - Len(rest)])
                                   \o ToCome(Front(rest), expanded)
    BY <1>5, LastComesFirst
  <2> QED
    BY <1>1, <1>5, <1>6, <2>1, Zenon
<1>9. /\ Unfolded(Tail(text), below) \in Seq(Seq(STRING))
      /\ Unfolded(text, below) = WithListened(Head(text), below) \o Unfolded(Tail(text), below)
  BY <1>3, UnfoldedFirst
<1>10. WithListened(Head(text), below) \in Seq(Seq(STRING))
  BY <1>3, WithListenedIsText
<1>11. /\ ToCome(rest, expanded) \in Seq(Seq(STRING))
       /\ ToCome(inputs, expanded) = WithListened(Head(text), below) \o ToCome(rest, expanded)
  <2> DEFINE T == Seq(Seq(STRING))
             u == WithListened(Head(text), below)
             v == Unfolded(Tail(text), below)
             w == ToCome(front, expanded)
  <2>1. u \in T /\ v \in T /\ w \in T
    BY <1>7, <1>9, <1>10
  <2>2. ToCome(inputs, expanded) = (u \o v) \o w /\ ToCome(rest, expanded) = v \o w
    BY <1>7, <1>8, <1>9, Zenon
  <2> HIDE DEF u, v, w
  <2>3. (u \o v) \o w = u \o (v \o w)
    <3>1. Associates(T)
      BY SequencesAssociate
    <3> HIDE DEF T
    <3> QED
      BY <2>1, <3>1, Zenon DEF Associates
  <2>4. v \o w \in T
    BY <2>1, ConcatProperties, Zenon
  <2> QED
    BY <2>2, <2>3, <2>4, Zenon DEF u
<1> QED
  BY <1>1, <1>2, <1>6, <1>11, Zenon

\* What is to come is query strings.
LEMMA ToComeIsText ==
  ASSUME NEW inputs \in Seq(Seq(Seq(STRING))), inputs # <<>>, Len(inputs) <= MaxOpen + 1,
         NEW D, NEW expanded \in [0 .. MaxOpen + 1 -> [D -> Seq(Seq(STRING))]]
  PROVE  ToCome(inputs, expanded) \in Seq(Seq(STRING))
<1>1. /\ ToCome(Front(inputs), expanded) \in Seq(Seq(STRING))
      /\ ToCome(inputs, expanded) = Unfolded(Last(inputs), expanded[MaxOpen + 1 - Len(inputs)])
                                     \o ToCome(Front(inputs), expanded)
  BY LastComesFirst
<1>2. Last(inputs) \in Seq(Seq(STRING))
  BY FrontOfStack, Zenon
<1>3. expanded[MaxOpen + 1 - Len(inputs)] \in [D -> Seq(Seq(STRING))]
  <2>1. Len(inputs) \in Nat /\ MaxOpen \in Nat
    BY EmptySeq, ReplAssumption
  <2>2. MaxOpen + 1 - Len(inputs) \in 0 .. MaxOpen + 1
    BY <2>1
  <2> QED
    BY <2>2
<1>4. Unfolded(Last(inputs), expanded[MaxOpen + 1 - Len(inputs)]) \in Seq(Seq(STRING))
  BY <1>2, <1>3, UnfoldedIsText, Zenon
<1> QED
  BY <1>1, <1>4, ConcatProperties, ZenonT(40)

\* What is dealt with already is the beginning of what is expected.
InTurn(said, rest, expected) == expected = said \o rest
LEMMA InTurnIsPrefix ==
  ASSUME NEW S, NEW said \in Seq(S), NEW rest \in Seq(S), NEW expected, InTurn(said, rest, expected)
  PROVE  IsPrefix(said, expected)
BY PrefixOfConcat, Zenon DEF InTurn

\* The query string t is dealt with, what it listens to and the others are to come.
OneMoreSaid(said, t, more, rest, S) ==
  /\ said \o ((<<t>> \o more) \o rest) = (said \o <<t>>) \o (more \o rest)
  /\ said \o <<t>> \in Seq(S) /\ more \o rest \in Seq(S)

LEMMA OneMoreInTurn ==
  ASSUME NEW S, NEW said \in Seq(S), NEW t \in S, NEW more \in Seq(S), NEW rest \in Seq(S)
  PROVE  OneMoreSaid(said, t, more, rest, S)
<1>1. <<t>> \in Seq(S)
  OBVIOUS
<1>2. Associates(Seq(S))
  BY SequencesAssociate
<1>3. more \o rest \in Seq(S) /\ said \o <<t>> \in Seq(S)
  BY <1>1, ConcatProperties
<1>4. PICK one \in Seq(S) : one = <<t>>
  BY <1>1
<1>5. PICK others \in Seq(S) : others = more \o rest
  BY <1>3
<1>6. (one \o more) \o rest = one \o (more \o rest)
  BY <1>2, Zenon DEF Associates
<1>7. said \o (one \o others) = (said \o one) \o others
  BY <1>2, ZenonT(40) DEF Associates
<1> QED
  BY <1>3, <1>4, <1>5, <1>6, <1>7, Zenon DEF OneMoreSaid

\* Every step deals with what is expected next.
LEMMA OrderGoesOn ==
  ASSUME ReplInv, OrderInv, [Next]_vars
  PROVE  OrderInv'
<1> DEFINE T == Seq(STRING)
<1>1. /\ StackInv /\ CountInv /\ ParseInv /\ ReplInv'
      /\ disk \in Disks /\ inputlist \in Seq(Seq(T)) /\ done \in Seq(T) /\ tokens \in T
  BY LoopGoesOn, Zenon DEF ReplInv, StackInv, CountInv
<1>2. disk' = disk
  BY DEF Next, Start, Listen, ReadQuery, ParseStep, Execute, Refuse, EndOfInput, vars, args
<1>3. Expanded' = Expanded
  BY <1>2 DEF Expanded
<1>4. CASE Main \notin DOMAIN disk
  BY <1>2, <1>4, Zenon DEF OrderInv
<1>5. CASE UNCHANGED vars
  <2>1. UNCHANGED <<tokens, at, process, inputlist, done, disk>>
    BY <1>5 DEF vars, parser, main, args
  <2> QED
    BY <1>2, <1>3, <2>1, Zenon DEF OrderInv, InHand, ReadInOrder
<1> SUFFICES ASSUME Main \in DOMAIN disk, Next PROVE OrderInv'
  BY <1>4, <1>5
<1> DEFINE D == DOMAIN disk
           M == MaxOpen + 1
<1>6. MaxOpen \in Nat /\ M \in Nat /\ M \in 0 .. M
  BY ReplAssumption
<1>7. PICK e \in [0 .. MaxOpen + 1 -> [D -> Seq(T)]] :
        /\ e = Expanded /\ e = Expanded'
        /\ \A n \in 0 .. MaxOpen : \A p \in D : e[n + 1][p] = Unfolded(disk[p], e[n])
  BY <1>1, <1>3, ExpandedIsText, Zenon
<1>8. PICK x \in Seq(T) : x = e[MaxOpen + 1][Main]
  BY <1>6
\* What is to be shown of the state after the step.
<1> DEFINE Running == x = (done' \o InHand') \o ToCome(inputlist', e)
           Ended == IsPrefix(done', x) /\ (process' = "end" => done' = x)
<1>9. SUFFICES /\ process' = "running" => Running
               /\ process' \notin {"start", "running"} => Ended
  BY <1>2, <1>7, <1>8, Zenon DEF OrderInv, ReadInOrder
<1>10. process = "running" => x = (done \o InHand) \o ToCome(inputlist, e)
  BY <1>7, <1>8, Zenon DEF OrderInv
<1>11. <<>> \in Seq(T) /\ (\A s \in Seq(T) : s \o <<>> = s /\ <<>> \o s = s)
  BY ConcatEmptySeq, EmptySeq
<1>12. process = "running" => inputlist # <<>> /\ Len(inputlist) <= MaxOpen + 1 /\ Len(inputlist) \in Nat \ {0}
  <2>1. process = "running" => inputlist # <<>>
    BY <1>1, Zenon DEF StackInv
  <2>2. inputlist # <<>> => Len(inputlist) \in Nat \ {0}
    BY <1>1, EmptySeq
  <2>3. Len(inputlist) <= opened + 1 /\ opened \in 0 .. MaxOpen
    BY <1>1, Zenon DEF StackInv
  <2>4. Len(inputlist) \in Nat => Len(inputlist) <= MaxOpen + 1
    BY <1>6, <2>3
  <2> QED
    BY <2>1, <2>2, <2>4
\* The first query string of the last input.
<1>13. ASSUME Reads
       PROVE  /\ x = done \o (WithListened(Head(Input), e[MaxOpen + 1 - Len(inputlist)])
                              \o ToCome(Advanced, e))
              /\ ToCome(Advanced, e) \in Seq(T) /\ Head(Input) \in T
  <2>1. process = "running" /\ Input # <<>> /\ InHand = <<>>
    BY <1>13, Zenon DEF Reads, InHand
  <2>2. Last(inputlist) # <<>> /\ Advanced = Front(inputlist) \o <<Tail(Last(inputlist))>>
    BY <2>1, Zenon DEF Advanced, Input
  <2>3. /\ ToCome(Advanced, e) \in Seq(T)
        /\ ToCome(inputlist, e)
             = WithListened(Head(Input), e[MaxOpen + 1 - Len(inputlist)]) \o ToCome(Advanced, e)
    BY <1>1, <1>12, <2>1, <2>2, FrontComesFirst, Zenon DEF Input
  <2>4. x = done \o ToCome(inputlist, e)
    BY <1>1, <1>10, <1>11, <2>1, Zenon
  <2>5. Head(Input) \in T
    BY <1>1, <1>12, <2>1, InputIsText, Zenon
  <2> QED
    BY <2>3, <2>4, <2>5, Zenon
<1>14. CASE Start
  <2>1. done = <<>> /\ done' = <<>> /\ InHand' = <<>>
    BY <1>1, <1>14, Zenon DEF Start, StackInv, parser, InHand
  <2>2. CASE process' = "failed"
    BY <1>8, <1>11, <2>1, <2>2, InTurnIsPrefix, Zenon DEF InTurn
  <2>3. CASE process' = "running" /\ inputlist' = <<disk[Main]>>
    <3>1. PICK text \in Seq(T) : text = disk[Main]
      BY <1>1, FilesAreTexts, Zenon
    <3>2. PICK s : s = <<>> \o <<text>>
      OBVIOUS
    <3>3. inputlist' = s /\ <<>> \in Seq(Seq(T))
      BY <2>3, <3>1, <3>2
    <3>4. s \in Seq(Seq(T)) /\ s # <<>> /\ Len(s) = 1 /\ Front(s) = <<>> /\ Last(s) = text
      <4>1. PICK none \in Seq(Seq(T)) : none = <<>>
        BY <3>3, Zenon
      <4>2. /\ none \o <<text>> \in Seq(Seq(T)) /\ none \o <<text>> # <<>>
            /\ Len(none \o <<text>>) = Len(none) + 1
            /\ Front(none \o <<text>>) = none /\ Last(none \o <<text>>) = text
        BY TopOfStack
      <4>3. Len(none) + 1 = 1
        BY <4>1
      <4> QED
        BY <3>2, <4>1, <4>2, <4>3, Zenon
    <3>5. Len(s) <= MaxOpen + 1 /\ MaxOpen + 1 - Len(s) = MaxOpen /\ MaxOpen \in 0 .. MaxOpen
      BY <1>6, <3>4
    <3>6. ToCome(s, e) = Unfolded(text, e[MaxOpen]) \o <<>>
      BY <3>4, <3>5, LastComesFirst, NothingToCome, Zenon
    <3>7. x = Unfolded(text, e[MaxOpen])
      BY <1>7, <1>8, <3>1, <3>5, Zenon
    <3>8. Running
      BY <1>11, <2>1, <3>3, <3>6, <3>7, Zenon
    <3> QED
      BY <2>3, <3>8
  <2> QED
    BY <1>14, <2>2, <2>3 DEF Start
<1>15. CASE Listen
  <2>1. Reads /\ done' = Append(done, Head(Input)) /\ Listens(Head(Input)) /\ process = "running"
    BY <1>15, Zenon DEF Listen, Reads
  <2>2. PICK t \in T : t = Head(Input)
    BY <1>13, <2>1, Zenon
  <2>3. PICK rest \in Seq(T) : rest = ToCome(Advanced, e)
    BY <1>13, <2>1, Zenon
  <2>4. done' = done \o <<t>>
    BY <1>1, <2>1, <2>2, TopOfStack, Zenon
  <2>5. PICK n \in 0 .. MaxOpen + 1 : n = MaxOpen + 1 - Len(inputlist)
    <3>1. Len(inputlist) \in Nat /\ Len(inputlist) <= MaxOpen + 1 /\ MaxOpen \in Nat
      BY <1>6, <1>12, <2>1, Zenon
    <3>2. MaxOpen + 1 - Len(inputlist) \in 0 .. MaxOpen + 1
      BY <3>1
    <3> QED
      BY <3>2, Zenon
  <2> DEFINE more == IF Listens(t) /\ path(t) \in D THEN e[n][path(t)] ELSE <<>>
  <2>6. DOMAIN e[n] = D /\ e[n] \in [D -> Seq(T)]
    BY <1>7
  <2>7. WithListened(t, e[n]) = <<t>> \o more
    BY <2>6, Zenon DEF WithListened
  <2>8. more \in Seq(T)
    BY <1>11, <2>6
  <2> HIDE DEF more
  <2>9. x = done \o ((<<t>> \o more) \o rest)
    BY <1>13, <2>1, <2>2, <2>3, <2>5, <2>7, Zenon
  <2>10. x = done' \o (more \o rest) /\ done' \in Seq(T) /\ more \o rest \in Seq(T)
    <3>1. PICK said \in Seq(T), others \in Seq(T) : said = done /\ others = more
      BY <1>1, <2>8, Zenon
    <3>2. OneMoreSaid(said, t, others, rest, T)
      BY OneMoreInTurn
    <3> QED
      BY <2>4, <2>9, <3>1, <3>2, Zenon DEF OneMoreSaid
  <2>11. CASE process' = "failed"
    BY <2>10, <2>11, InTurnIsPrefix, Zenon DEF InTurn
  <2>12. CASE /\ path(t) \in D /\ opened < MaxOpen /\ process' = process
              /\ inputlist' = Append(Advanced, disk[path(t)])
    <3>1. PICK p \in D : p = path(t)
      BY <2>12, Zenon
    <3>2. PICK text \in Seq(T) : text = disk[p]
      BY <1>1, FilesAreTexts, Zenon
    <3>3. PICK stack \in Seq(Seq(T)) : stack = Advanced /\ Len(stack) = Len(inputlist)
      BY <1>1, <1>12, <2>1, InputIsText, Zenon DEF Reads
    <3>4. PICK s : s = stack \o <<text>>
      OBVIOUS
    <3>5. /\ s \in Seq(Seq(T)) /\ s # <<>> /\ Len(s) = Len(stack) + 1
          /\ Front(s) = stack /\ Last(s) = text /\ Append(stack, text) = s
      BY <3>4, TopOfStack
    <3>6. inputlist' = s
      BY <2>12, <3>1, <3>2, <3>3, <3>5, Zenon
    <3>7. PICK k \in 0 .. MaxOpen : k + 1 = n /\ MaxOpen + 1 - Len(s) = k /\ Len(s) <= MaxOpen + 1
      <4>1. Len(inputlist) <= opened + 1 /\ opened \in 0 .. MaxOpen /\ Len(inputlist) \in Nat
        BY <1>1, <1>12, <2>1, Zenon DEF StackInv
      <4>2. n - 1 \in 0 .. MaxOpen /\ (n - 1) + 1 = n /\ MaxOpen + 1 - Len(s) = n - 1 /\ Len(s) <= MaxOpen + 1
        BY <1>6, <2>5, <2>12, <3>3, <3>5, <4>1
      <4> QED
        BY <4>2, Zenon
    <3>8. more = Unfolded(text, e[k])
      BY <1>7, <2>1, <2>2, <3>1, <3>2, <3>7, Zenon DEF more
    <3>9. ToCome(s, e) = more \o rest
      BY <2>3, <3>3, <3>5, <3>7, <3>8, LastComesFirst, ZenonT(40)
    <3>10. InHand' = <<>>
      BY <1>15, <2>1, Zenon DEF Listen, parser, InHand, Reads
    <3>11. Running
      BY <1>11, <2>10, <3>6, <3>9, <3>10, Zenon
    <3> QED
      BY <2>1, <2>12, <3>11
  <2> QED
    BY <1>15, <2>2, <2>11, <2>12, Zenon DEF Listen
<1>16. CASE ReadQuery
  <2>1. Reads /\ ~Listens(Head(Input)) /\ process' = "running" /\ done' = done
    BY <1>16, Zenon DEF ReadQuery, Reads
  <2>2. PICK t \in T : t = Head(Input)
    BY <1>13, <2>1, Zenon
  <2>3. InHand' = <<t>>
    BY <1>16, <2>2 DEF ReadQuery, parseQuery, InHand
  <2>4. PICK rest \in Seq(T) : rest = ToCome(Advanced, e) /\ rest = ToCome(inputlist', e)
    BY <1>13, <1>16, <2>1, Zenon DEF ReadQuery
  <2>5. WithListened(t, e[MaxOpen + 1 - Len(inputlist)]) = <<t>> \o <<>>
    BY <2>1, <2>2, Zenon DEF WithListened
  <2>6. x = done \o ((<<t>> \o <<>>) \o rest)
    BY <1>13, <2>1, <2>2, <2>4, <2>5, Zenon
  <2>7. x = (done \o <<t>>) \o (<<>> \o rest)
    <3>1. PICK said \in Seq(T), none \in Seq(T) : said = done /\ none = <<>>
      BY <1>1, <1>11, Zenon
    <3>2. OneMoreSaid(said, t, none, rest, T)
      BY OneMoreInTurn
    <3> QED
      BY <2>6, <3>1, <3>2, Zenon DEF OneMoreSaid
  <2>8. Running
    BY <1>11, <2>1, <2>3, <2>4, <2>7, Zenon
  <2> QED
    BY <2>1, <2>8
<1>17. CASE ParseStep
  <2>1. at # "idle" /\ at' # "idle"
    BY <1>17 DEF ParseStep, Parse, Debug, ManageTable, Try, ParseName, ParseOperand, ParseTarget,
                 ParseCondition, CreateQuery, GoOn, IllFormed
  <2>2. tokens' = tokens /\ done' = done /\ inputlist' = inputlist /\ process = "running" /\ process' = process
    BY <1>1, <1>17, ParseGoesOn DEF ParseStep, main
  <2>3. InHand' = InHand
    BY <2>1, <2>2, Zenon DEF InHand
  <2> QED
    BY <1>10, <2>2, <2>3, Zenon
\* A query that is in hand is dealt with.
<1>18. CASE Execute \/ Refuse
  <2>1. InHand = <<tokens>> /\ done' = Append(done, tokens) /\ inputlist' = inputlist /\ process = "running"
    BY <1>18 DEF Execute, Refuse, InHand
  <2>2. process' # "running" \/ InHand' = <<>>
    BY <1>18 DEF Execute, Refuse, InHand
  <2>3. process' # "end"
    BY <1>18 DEF Execute, Refuse
  <2>4. done' = done \o <<tokens>> /\ done' \in Seq(T)
    <3>1. PICK t \in T : t = tokens
      BY <1>1, Zenon
    <3>2. PICK said \in Seq(T) : said = done
      BY <1>1, Zenon
    <3>3. said \o <<t>> \in Seq(T) /\ Append(said, t) = said \o <<t>>
      BY TopOfStack, Zenon
    <3> QED
      BY <2>1, <3>1, <3>2, <3>3, Zenon
  <2>5. PICK rest \in Seq(T) : rest = ToCome(inputlist, e)
    BY <1>1, <1>7, <1>12, <2>1, ToComeIsText, Zenon
  <2>6. x = done' \o rest
    BY <1>10, <2>1, <2>4, <2>5, Zenon
  <2>7. IsPrefix(done', x)
    BY <2>4, <2>6, InTurnIsPrefix, Zenon DEF InTurn
  <2>8. InHand' = <<>> => Running
    BY <1>11, <2>1, <2>4, <2>5, <2>6, Zenon
  <2> QED
    BY <2>2, <2>3, <2>7, <2>8, Zenon
<1>19. CASE EndOfInput
  <2>1. /\ process = "running" /\ InHand = <<>> /\ InHand' = <<>> /\ Last(inputlist) = <<>> /\ done' = done
    BY <1>19, Zenon DEF EndOfInput, InHand, Input, parser
  <2>2. PICK rest \in Seq(T) : rest = ToCome(Front(inputlist), e) /\ ToCome(inputlist, e) = <<>> \o rest
    <3>1. PICK stack \in Seq(Seq(T)) : stack = inputlist
      BY <1>1, Zenon
    <3>2. stack # <<>> /\ Len(stack) <= MaxOpen + 1
      BY <1>12, <2>1, <3>1, Zenon
    <3>3. /\ ToCome(Front(stack), e) \in Seq(T)
          /\ ToCome(stack, e) = Unfolded(Last(stack), e[MaxOpen + 1 - Len(stack)]) \o ToCome(Front(stack), e)
      BY <3>2, LastComesFirst, Zenon
    <3>4. Unfolded(Last(stack), e[MaxOpen + 1 - Len(stack)]) = <<>>
      BY <2>1, <3>1, UnfoldedOfNothing, Zenon
    <3> QED
      BY <3>1, <3>3, <3>4, Zenon
  <2>3. x = done \o rest
    BY <1>1, <1>10, <1>11, <2>1, <2>2, Zenon
  <2>4. CASE Len(inputlist) = 1 /\ process' = "end"
    <3>1. Front(inputlist) = <<>>
      <4>1. Front(inputlist) \in Seq(Seq(T)) /\ Len(Front(inputlist)) = Len(inputlist) - 1
        BY <1>1, <1>12, <2>1, FrontOfStack, Zenon
      <4> QED
        BY <2>4, <4>1, EmptySeq
    <3>2. x = done
      BY <1>1, <1>11, <2>2, <2>3, <3>1, NothingToCome, Zenon
    <3>3. IsPrefix(done, x)
      BY <1>1, <1>11, <2>3, <2>2, InTurnIsPrefix, Zenon DEF InTurn
    <3> QED
      BY <2>1, <2>4, <3>2, <3>3, Zenon
  <2>5. CASE inputlist' = Front(inputlist) /\ process' = process
    BY <1>1, <1>11, <2>1, <2>2, <2>3, <2>5, Zenon
  <2> QED
    BY <1>19, <2>4, <2>5 DEF EndOfInput
<1> QED
  BY <1>14, <1>15, <1>16, <1>17, <1>18, <1>19, Zenon DEF Next

\* No query string is lost, dealt with twice or out of its turn.
THEOREM QueriesInOrder == Spec => []ReadInOrder
<1>1. ReplInit => OrderInv
  BY DEF ReplInit, OrderInv
<1>2. ReplInv /\ OrderInv /\ [Next]_vars => OrderInv'
  BY OrderGoesOn
<1>3. ReplInv /\ OrderInv => ReadInOrder
  <2> SUFFICES ASSUME ReplInv, OrderInv, Main \in DOMAIN disk PROVE ReadInOrder
    BY DEF ReadInOrder
  <2> DEFINE x == Expanded[MaxOpen + 1][Main]
  <2>1. StackInv /\ CountInv /\ done \in Seq(Seq(STRING)) /\ disk \in Disks
    BY Zenon DEF ReplInv, StackInv, CountInv
  <2>2. x \in Seq(Seq(STRING))
    <3>1. MaxOpen + 1 \in 0 .. MaxOpen + 1
      BY ReplAssumption
    <3> QED
      BY <2>1, <3>1, ExpandedIsText
  <2>3. CASE process = "start"
    <3>1. done = <<>> /\ <<>> \in Seq(Seq(STRING)) /\ InTurn(<<>>, x, x)
      BY <2>1, <2>2, <2>3, ConcatEmptySeq, EmptySeq DEF StackInv, InTurn
    <3>2. IsPrefix(<<>>, x)
      BY <2>2, <3>1, InTurnIsPrefix, Zenon
    <3> QED
      BY <2>3, <3>1, <3>2 DEF ReadInOrder
  <2>4. CASE process = "running"
    <3>1. PICK rest \in Seq(Seq(STRING)) : x = done \o rest
      <4>1. x = (done \o InHand) \o ToCome(inputlist, Expanded)
        BY <2>4, Zenon DEF OrderInv
      <4>2. inputlist \in Seq(Seq(Seq(STRING))) /\ inputlist # <<>> /\ Len(inputlist) <= MaxOpen + 1
        BY <2>1, <2>4, ReplAssumption DEF StackInv
      <4>3. ToCome(inputlist, Expanded) \in Seq(Seq(STRING))
        BY <2>1, <4>2, ExpandedIsText, ToComeIsText, Zenon
      <4>4. InHand \in Seq(Seq(STRING))
        <5>1. <<>> \in Seq(Seq(STRING))
          BY EmptySeq
        <5>2. tokens \in Seq(STRING)
          BY <2>1, Zenon DEF CountInv
        <5>3. <<tokens>> \in Seq(Seq(STRING))
          BY <5>2
        <5> QED
          BY <5>1, <5>3 DEF InHand
      <4>5. InHand \o ToCome(inputlist, Expanded) \in Seq(Seq(STRING))
        BY <4>3, <4>4, ConcatProperties, Zenon
      <4>6. Associates(Seq(Seq(STRING)))
        BY SequencesAssociate
      <4> QED
        BY <2>1, <4>1, <4>3, <4>4, <4>5, <4>6, ZenonT(40) DEF Associates
    <3>2. IsPrefix(done, x)
      BY <2>1, <3>1, InTurnIsPrefix, Zenon DEF InTurn
    <3> QED
      BY <2>4, <3>2 DEF ReadInOrder
  <2>5. CASE process \notin {"start", "running"}
    BY <2>5, Zenon DEF OrderInv
  <2> QED
    BY <2>3, <2>4, <2>5
<1> QED
  BY <1>1, <1>2, <1>3, LoopInvariant, PTL DEF Spec
===============================================================================
