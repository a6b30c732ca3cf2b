----------------------------- MODULE MCDataQueries -----------------------------
(* DataQueries on tables of up to five rows, split from two rows on. *)
EXTENDS DataQueries

TwoFields == {1, 2}

Row(k, a, b) == [key |-> k, f |-> <<a, b>>]

\* Keys out of order, sums that overflow, a copy that is there (3 and 4), the
\* same value twice; one, two and three sub tables, the last one longer.
FewTables == {
  <<>>,
  <<Row(3, 2, 1)>>,
  <<Row(6, 0, 3), Row(0, 3, 1)>>,
  <<Row(6, 3, 3), Row(4, 1, -2), Row(3, 0, 2)>>,
  <<Row(9, 1, 0), Row(0, -4, 2), Row(6, 3, 3), Row(3, 1, -1)>>,
  <<Row(9, -1, 3), Row(12, 2, 2), Row(3, 3, -4), Row(0, 1, 2), Row(6, -3, 1)>> }

Cond(field, op, value) == [field |-> field, op |-> op, value |-> value]
Key(k) == Cond(KEY, "=", k)
Where(kind, ops, conds) == [kind |-> kind, ops |-> ops, conds |-> conds]
Query(kind, ops) == Where(kind, ops, <<Cond(1, ">=", 1)>>)

\* Two keys are never those of one row, and what follows is not looked at.
Never == <<Key(6), Cond(1, ">", -4), Key(3)>>
NeverUnread == Never \o <<Cond(NoField, "=", 1)>>

Answered == {
  Where("COUNT", <<>>, <<>>), Where("COUNT", <<>>, <<Cond(2, "<", 3), Cond(1, ">", -2)>>),
  Where("COUNT", <<>>, <<Key(6), Cond(2, "=", 3), Key(6)>>),
  Query("ADD", <<1, 2, 1>>), Query("SUB", <<2, 1, 1, 2>>), Query("SWAP", <<1, 2>>),
  Query("SUM", <<1, 2>>), Where("MAX", <<2, 1>>, <<Cond(2, "<=", 2)>>), Query("MIN", <<2>>),
  Query("DUPLICATE", <<>>), Query("SELECT", <<1>>),
  Where("ADD", <<1, 2>>, Never), Where("MAX", <<1>>, Never), Where("SELECT", <<2>>, NeverUnread) }

InError == {
  Query("COUNT", <<1>>), Query("ADD", <<1>>), Query("SWAP", <<1, NoField>>), Query("MAX", <<>>),
  Where("SUM", <<1>>, <<Key(6), Cond(1, "<>", 1), Key(3)>>),
  Where("MIN", <<1>>, <<Cond(KEY, ">", 3)>>), Where("SELECT", <<1>>, <<Cond(NoField, "=", 1)>>),
  Query("ADD", <<2, NoField>>), Query("MAX", <<1, NoField>>) }

WellFormed == Answered \cup InError

BadSelect == {Query("SELECT", <<1>>), Query("SELECT", <<NoField>>)}
================================================================================
