-------------------------------- MODULE MCRepl --------------------------------
(* Repl on pairs of query strings, and on files that listen to each other. *)
EXTENDS Repl, FiniteSetsExt

Words == {"FROM", "WHERE", "(", ")", "LIST", "x"}

\* Query strings of every form of the parser.
Good == {
  <<"LIST">>, <<"SHOWTABLE", "T">>, <<"DROP", "T">>, <<"COPYTABLE", "T", "U">>,
  <<"DELETE", "FROM", "T">>, <<"COUNT", "(", ")", "FROM", "T", "WHERE">>,
  <<"SUM", "(", "x", "y", ")", "FROM", "T", "WHERE", "(", "x", ">", "1", ")">>,
  <<"ADD", "(", "x", "y", ")", "FROM", "T", "WHERE", "(", "KEY", "=", "a", ")",
    "(", "y", "<", "2", ")">> }

\* One token less, one token more, one token changed, or cut short.
Near(t) == {RemoveAt(t, i) : i \in DOMAIN t} \cup {SubSeq(t, 1, i) : i \in DOMAIN t}
           \cup {InsertAt(t, i, w) : i \in DOMAIN t, w \in Words}
           \cup {ReplaceAt(t, i, w) : i \in DOMAIN t, w \in Words}

Texts == Good \cup UNION {Near(t) : t \in Good} \cup {<<>>}

ListenTo(p) == <<"LISTEN", "(", p, ")">>
Listening == {"LISTEN", "LISTENERS"}
Nothing == [p \in {} |-> <<>>]

\* Any query string, then one that has all clauses, and one that has none.
Pairs == {[main |-> <<t, u>>] : t \in Texts, u \in Good}

Count == <<"COUNT", "(", ")", "FROM", "T">>
Drop == <<"DROP", "T">>
Empty == <<>>

\* Two files in any of these forms, and a file that is missing.
Contents == {<<>>, <<Count>>, <<Drop, ListenTo("b"), Count>>, <<ListenTo("a"), Empty, Drop>>,
             <<ListenTo("b"), <<"QUIT">>, Drop>>, <<Count, ListenTo("c")>>}
MainTexts == {<<Drop, ListenTo("a"), Count, ListenTo("b"), Drop>>,
              <<ListenTo("a"), ListenTo("a"), <<"SHOWTABLE", "LISTENERS">>, Count>>}
Nested == {[main |-> m, a |-> a, b |-> b] : m \in MainTexts, a \in Contents, b \in Contents}

FewDisks == Pairs \cup Nested \cup {Nothing}
Numbers == {-1, 2}
================================================================================
