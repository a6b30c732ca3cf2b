------------------------------ MODULE QueryParser ------------------------------
(***************************************************************************)
(* The chain of builders that makes a query of the tokens of a query       *)
(* string: Debug, ManageTable, Complex, and the one that always fails.     *)
(* They live as long as the program: what Complex has collected of one     *)
(* query is there when the next one comes, unless clear() is called.       *)
(***************************************************************************)
EXTENDS Naturals, SequencesExt

VARIABLES
  tokens,          \* the tokens of the query string
  at,              \* where the chain is: see Places
  it,              \* Complex's iterator: a position in tokens
  operandToken, targetTable, conditionToken,   \* the members of Complex
  query            \* the query that was made, or NoQuery

complex == <<operandToken, targetTable, conditionToken>>
parser == <<tokens, at, it, complex, query>>

\* "undefined": the iterator has run past the end.
Places == {"idle", "Debug", "ManageTable", "Complex", "operand", "target", "condition",
           "create", "extracted", "failed", "undefined"}

NoQuery == [op |-> "none"]
Simple(t) == [op |-> t[1], args |-> Tail(t)]

\* The names a query may begin with, by the builder and the number of tokens.
DebugForms == {<<"LIST", 1>>, <<"QUIT", 1>>, <<"SHOWTABLE", 2>>}
ManageForms == {<<"LOAD", 2>>, <<"DROP", 2>>, <<"TRUNCATE", 2>>, <<"DUMP", 3>>, <<"COPYTABLE", 3>>}
ComplexNames == {"INSERT", "UPDATE", "SELECT", "DELETE", "DUPLICATE", "COUNT", "SUM", "MIN",
                 "MAX", "ADD", "SUB", "SWAP"}

end == Len(tokens) + 1
Token(i) == IF i \in DOMAIN tokens THEN tokens[i] ELSE "end"

ParserInit == /\ tokens = <<>> /\ at = "idle" /\ it = 0 /\ query = NoQuery
              /\ operandToken = <<>> /\ targetTable = "" /\ conditionToken = <<>>
-------------------------------------------------------------------------------
\* MUTANT of clear: the conditions stay.
clearOperands == operandToken' = <<>> /\ targetTable' = "" /\ UNCHANGED conditionToken

clear == operandToken' = <<>> /\ targetTable' = "" /\ conditionToken' = <<>>

\* An empty query string is refused before anything is cleared.
parseQuery(t) ==
  /\ at = "idle"
  /\ tokens' = t /\ it' = 1 /\ query' = NoQuery
  /\ IF t = <<>> THEN at' = "failed" /\ UNCHANGED complex
                 ELSE at' = "Debug" /\ clear

\* A builder that knows the form makes the query; another one asks the next.
Try(here, forms, next) ==
  /\ at = here
  /\ IF <<tokens[1], Len(tokens)>> \in forms
       THEN at' = "extracted" /\ query' = Simple(tokens)
       ELSE at' = next /\ UNCHANGED query
  /\ UNCHANGED <<tokens, it, complex>>

Debug == Try("Debug", DebugForms, "ManageTable")
ManageTable == Try("ManageTable", ManageForms, "Complex")
-------------------------------------------------------------------------------
(* Complex: parseToken.  IllFormedQuery is caught, and the next builder fails. *)

GoOn(place, i) == at' = place /\ it' = i
IllFormed == at' = "failed" /\ UNCHANGED it

\* MUTANT of ParseName: the operands cannot be left out.
ParseNameOperands ==
  /\ at = "Complex"
  /\ IF Token(2) = "(" THEN GoOn("operand", 3) ELSE IllFormed
  /\ UNCHANGED <<tokens, complex, query>>

ParseName ==
  /\ at = "Complex"
  /\ \/ Token(2) = "FROM" /\ GoOn("target", 2)
     \/ Token(2) = "(" /\ GoOn("operand", 3)
     \/ Token(2) \notin {"FROM", "("} /\ IllFormed
  /\ UNCHANGED <<tokens, complex, query>>

\* One turn of the loop up to ")".  A query that ends with "(" makes it read
\* what follows the last token: it crashes, or fails on what it finds.
ParseOperand ==
  /\ at = "operand"
  /\ \/ /\ it = end
        /\ at' \in {"undefined", "failed"}
        /\ UNCHANGED <<it, operandToken>>
     \/ /\ it # end /\ Token(it) # ")"
        /\ operandToken' = Append(operandToken, Token(it))
        /\ IF it + 1 = end THEN IllFormed ELSE GoOn("operand", it + 1)
     \/ /\ Token(it) = ")"
        /\ IF Token(it + 1) = "FROM" THEN GoOn("target", it + 1) ELSE IllFormed
        /\ UNCHANGED operandToken
  /\ UNCHANGED <<tokens, targetTable, conditionToken, query>>

\* The table, and WHERE if anything follows.
ParseTarget ==
  /\ at = "target"
  /\ targetTable' = IF it + 1 = end THEN targetTable ELSE Token(it + 1)
  /\ \/ it + 1 = end /\ IllFormed
     \/ it + 2 = end /\ GoOn("create", it + 2)
     \/ Token(it + 2) = "WHERE" /\ GoOn("condition", it + 3)
     \/ it + 2 < end /\ Token(it + 2) # "WHERE" /\ IllFormed
  /\ UNCHANGED <<tokens, operandToken, conditionToken, query>>

\* MUTANT of ParseCondition: the end of the string closes a condition, too.
ParseConditionUnclosed ==
  /\ at = "condition"
  /\ \/ it = end /\ GoOn("create", it) /\ UNCHANGED conditionToken
     \/ /\ Token(it) = "(" /\ Token(it + 4) \in {")", "end"}
        /\ conditionToken' = Append(conditionToken, <<Token(it + 1), Token(it + 2), Token(it + 3)>>)
        /\ GoOn("condition", it + 5)
     \/ /\ it # end /\ ~(Token(it) = "(" /\ Token(it + 4) \in {")", "end"})
        /\ IllFormed /\ UNCHANGED conditionToken
  /\ UNCHANGED <<tokens, operandToken, targetTable, query>>

\* One turn of the loop over the conditions.
ParseCondition ==
  /\ at = "condition"
  /\ \/ it = end /\ GoOn("create", it) /\ UNCHANGED conditionToken
     \/ /\ Token(it) = "(" /\ it + 4 < end /\ Token(it + 4) = ")"
        /\ conditionToken' = Append(conditionToken, SubSeq(tokens, it + 1, it + 3))
        /\ GoOn("condition", it + 5)
     \/ /\ it # end /\ ~(Token(it) = "(" /\ it + 4 < end /\ Token(it + 4) = ")")
        /\ IllFormed /\ UNCHANGED conditionToken
  /\ UNCHANGED <<tokens, operandToken, targetTable, query>>

CreateQuery ==
  /\ at = "create"
  /\ IF tokens[1] \in ComplexNames
       THEN /\ at' = "extracted"
            /\ query' = [op |-> tokens[1], operands |-> operandToken,
                         target |-> targetTable, conds |-> conditionToken]
       ELSE at' = "failed" /\ UNCHANGED query
  /\ UNCHANGED <<tokens, it, complex>>

Parse == \/ Debug \/ ManageTable
         \/ ParseName \/ ParseOperand \/ ParseTarget \/ ParseCondition \/ CreateQuery
-------------------------------------------------------------------------------
(* What the language is, said at one glance. *)

\* The token after the operands: t[2] if there are none.
FromAt(t, i) == /\ i \in DOMAIN t /\ t[i] = "FROM"
                /\ \/ i = 2
                   \/ /\ i >= 4 /\ t[2] = "(" /\ t[i - 1] = ")"
                      /\ \A j \in 3 .. i - 2 : t[j] # ")"

\* FROM at i is followed by a table, and that by nothing or by WHERE and conditions.
CondAt(t, j) == j + 4 <= Len(t) /\ t[j] = "(" /\ t[j + 4] = ")"
Clause(t, i) == \/ Len(t) = i + 1
                \/ /\ Len(t) >= i + 2 /\ t[i + 2] = "WHERE"
                   /\ (Len(t) - i - 2) % 5 = 0
                   /\ \A k \in 0 .. (Len(t) - i - 2) \div 5 - 1 : CondAt(t, i + 3 + 5 * k)

Accepts(t) == \/ t # <<>> /\ <<t[1], Len(t)>> \in DebugForms \cup ManageForms
              \/ /\ t # <<>> /\ t[1] \in ComplexNames
                 /\ \E i \in DOMAIN t : FromAt(t, i) /\ Clause(t, i)

Reading(t) ==
  LET i == CHOOSE j \in DOMAIN t : FromAt(t, j)
  IN IF t[1] \notin ComplexNames THEN Simple(t)
     ELSE [op |-> t[1], operands |-> SubSeq(t, 3, i - 2), target |-> t[i + 1],
           conds |-> [k \in 1 .. (Len(t) - i - 1) \div 5 |-> SubSeq(t, i + 5 * k - 1, i + 5 * k + 1)]]

\* A query that is made is the one its own tokens spell, with the operands and
\* conditions of no query before it.
ParsedAsWritten == at = "extracted" => Accepts(tokens) /\ query = Reading(tokens)

\* A query string that is refused, or that ends in undefined behaviour, is not
\* in the language, whatever the builders have seen before.
RefusedIsIllFormed == at \in {"failed", "undefined"} => ~Accepts(tokens)
-------------------------------------------------------------------------------
(* Why it is so: what the chain knows of the tokens it has passed. *)

\* No builder before this one knew the form.
Refused(forms) == tokens # <<>> /\ <<tokens[1], Len(tokens)>> \notin forms
Unknown == Refused(DebugForms \cup ManageForms)
Cleared == operandToken = <<>> /\ targetTable = "" /\ conditionToken = <<>>

Taken == Len(conditionToken)

\* The target of FROM at i has been read, and Taken conditions after it.
Clauses(i) ==
  /\ i + 1 <= Len(tokens) /\ FromAt(tokens, i)
  /\ operandToken = SubSeq(tokens, 3, i - 2) /\ targetTable = tokens[i + 1]
  /\ conditionToken \in Seq(Seq(STRING))
  /\ \A k \in 1 .. Taken : conditionToken[k] = SubSeq(tokens, i + 5 * k - 1, i + 5 * k + 1)
  /\ \A k \in 0 .. Taken - 1 : CondAt(tokens, i + 3 + 5 * k)
WhereAt(i) == i + 2 <= Len(tokens) /\ tokens[i + 2] = "WHERE" /\ it = i + 3 + 5 * Taken

\* What holds at each place.
AtDebug == it = 1 /\ tokens # <<>> /\ Cleared
AtManage == it = 1 /\ Refused(DebugForms) /\ Cleared
AtComplex == it = 1 /\ Unknown /\ Cleared
AtOperand ==
  /\ Unknown /\ targetTable = "" /\ conditionToken = <<>>
  /\ it \in 3 .. end /\ (it = end => it = 3) /\ tokens[2] = "("
  /\ operandToken = SubSeq(tokens, 3, it - 1)
  /\ \A j \in 3 .. it - 1 : tokens[j] # ")"
AtTarget ==
  /\ Unknown /\ targetTable = "" /\ conditionToken = <<>>
  /\ FromAt(tokens, it) /\ operandToken = SubSeq(tokens, 3, it - 2)
AtCondition ==
  /\ Unknown /\ it \in 1 .. end
  /\ \E i \in DOMAIN tokens : Clauses(i) /\ WhereAt(i)
AtCreate ==
  /\ Unknown /\ it = end
  /\ \E i \in DOMAIN tokens : Clauses(i) /\ (WhereAt(i) \/ (it = i + 2 /\ Taken = 0))

ParseInv ==
  /\ at \in Places
  /\ at = "Debug" => AtDebug
  /\ at = "ManageTable" => AtManage
  /\ at = "Complex" => AtComplex
  /\ at = "operand" => AtOperand
  /\ at = "target" => AtTarget
  /\ at = "condition" => AtCondition
  /\ at = "create" => AtCreate
  /\ at = "extracted" => it \in 1 .. end
  /\ at = "undefined" => it = end
  /\ ParsedAsWritten /\ RefusedIsIllFormed
================================================================================
