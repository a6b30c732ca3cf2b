---------------------------- MODULE QueryCondition ----------------------------
(***************************************************************************)
(* The WHERE clause of a query: a sequence of conditions [field, op,       *)
(* value], all of which a row must satisfy.  initCondition looks at them   *)
(* once, in order, before the first row is looked at, and stops where it   *)
(* can; evalCondition then trusts every one it has seen.                   *)
(***************************************************************************)
EXTENDS Integers, Sequences

CONSTANTS
  Fields,   \* the fields of the table
  KEY,      \* the name that stands for the key
  Bits      \* the width of int: 32

ASSUME ConditionAssumption == KEY \notin Fields

\* Half of the ints are negative.  The provers know nothing of powers.
ASSUME BitsAssumption ==
  2 ^ (Bits - 1) \in Nat \ {0} /\ 2 ^ Bits = 2 * 2 ^ (Bits - 1)

IntMin == -(2 ^ (Bits - 1))
IntMax == 2 ^ (Bits - 1) - 1
Wrap(x) == ((x - IntMin) % (2 ^ Bits)) + IntMin

opmap == {">", "<", "=", ">=", "<="}

comp(op, x, y) == CASE op = ">"  -> x > y
                    [] op = "<"  -> x < y
                    [] op = "="  -> x = y
                    [] op = ">=" -> x >= y
                    [] op = "<=" -> x <= y

OnKey(c) == c.field = KEY

\* KEY can only be equal to something; other fields and operators are looked up.
IllFormed(c) == IF OnKey(c) THEN c.op # "="
                ELSE c.field \notin Fields \/ c.op \notin opmap

\* The first condition on KEY before i names another key than condition i.
Contradicts(conds, i) ==
  /\ OnKey(conds[i])
  /\ \E j \in 1 .. i - 1 : /\ OnKey(conds[j]) /\ conds[j].value # conds[i].value
                           /\ \A k \in 1 .. j - 1 : ~OnKey(conds[k])

\* An ill-formed condition throws, unless the loop has returned false before.
initCondition(conds) ==
  IF \E i \in DOMAIN conds : /\ IllFormed(conds[i])
                             /\ \A j \in 1 .. i - 1 : ~Contradicts(conds, j)
    THEN "throws"
  ELSE IF \E i \in DOMAIN conds : Contradicts(conds, i) THEN "false" ELSE "true"

\* The value to compare a field with is a long, cut to an int.
valueParsed(c) == Wrap(c.value)

evalCondition(conds, row) ==
  \A i \in DOMAIN conds :
    IF OnKey(conds[i]) THEN row.key = conds[i].value
    ELSE comp(conds[i].op, row.f[conds[i].field], valueParsed(conds[i]))
===============================================================================
