------------------------------ MODULE MCDatabase ------------------------------
(* Database with two table names and two files, one of them protected. *)
EXTENDS Database

TwoNames == {"S", "T"}
Home == "home.tbl"
Shared == "shared.tbl"     \* can be read only

Typed(items) == [items |-> items, glued |-> {}]
File(name, count, header, rows) ==
  [name |-> name, count |-> count, header |-> Typed(header),
   rows |-> [i \in DOMAIN rows |-> Typed(rows[i])]]
Glue(f, n, i) == [f EXCEPT !.rows[n].glued = {i}]

Two(rows) == File("T", 3, <<"KEY", "f", "g">>, rows)

\* A good file; a value missing, a value that is no number, a key twice, a value
\* too many before a line of blanks, numbers with letters at their ends (7f), another
\* number of fields, no field at all, no KEY and two of them.
Contents == {
  Two(<<<<"a", "7", "-1500000000">>, <<"long_key_b", "1500000000", "7">>>>),
  Two(<<<<"a", "7", "7">>, <<"b", "7">>>>), Two(<<<<"a", "7", "f">>>>),
  Two(<<<<"a", "7", "7">>, <<"a", "7", "7">>>>),
  Two(<<<<"a", "7", "7", "7">>, <<>>, <<"b">>>>),
  Glue(Two(<<<<"a", "7", "7", "f">>>>), 1, 4), Glue(Two(<<<<"a", "7", "f", "7">>>>), 1, 3),
  File("T", 0, <<"KEY">>, <<>>),
  File("T", 3, <<"KEY", "f">>, <<>>), File("T", 2, <<"f", "KEY">>, <<>>),
  File("T", 3, <<"KEY", "f", "KEY">>, <<>>), File("T", 2, <<"KEY", "totalCredit">>, <<>>) }

SharedFile == File("S", 2, <<"KEY", "f">>, <<<<"a", "7">>>>)

Disks == {Home :> c @@ Shared :> SharedFile : c \in Contents} \cup {Shared :> SharedFile}

TwoPaths == {Home, Shared}
ReadOnly == {Shared}
Texts == STRING
Ints == {"7", "1500000000", "-1500000000"}
Wild == {"1500000000"}
Digits == {"7", "1500000000"}
TenCharacters == {"long_key_b", "1500000000", "-1500000000", "totalCredit"}
FewRows == {<<"long_key_b", "7">>, <<"c", "7", "-1500000000">>}
===============================================================================
