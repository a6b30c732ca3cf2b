------------------------------ MODULE DumpFormat ------------------------------
(***************************************************************************)
(* What operator<< writes of a line of items and what LOAD reads of it.    *)
(* Items are put in columns of ten characters with nothing between them,   *)
(* so an item of ten or more (Wide) is glued to the one on its left.  Of   *)
(* the text of a line that is all that matters: its items, and which of    *)
(* them are glued.                                                         *)
(***************************************************************************)
EXTENDS Naturals, Sequences

CONSTANTS
  Items,      \* what stands between the blanks of a line
  Numbers,    \* the items that are the text of an int, as << writes it
  DigitFirst, \* the items that begin with a digit
  Wide        \* the items of ten or more characters

ASSUME ItemAssumption == "KEY" \in Items

\* MUTANT of Printed: items are put to the left of their columns.
PrintedLeft(items) ==
  [items |-> items, glued |-> {i \in 2 .. Len(items) : items[i - 1] \in Wide}]

\* A line of the dump.  Whatever comes first on the line is glued to nothing.
Printed(items) ==
  [items |-> items, glued |-> {i \in 2 .. Len(items) : items[i] \in Wide}]

\* >> reads the number at i up to the first character that is no digit: item
\* i + 1 if it is glued may begin with a minus sign or a letter (7abc is 7, and
\* abc is left).  If it begins with a digit the digits of both run together,
\* into a number that no int holds.
NumberAt(line, i) ==
  /\ i \in DOMAIN line.items /\ line.items[i] \in Numbers
  /\ i + 1 \in line.glued => line.items[i + 1] \notin DigitFirst

\* The values of a row begin at i: after the key and all that is glued to it.
ValuesBegin(line, i) ==
  /\ i \in 2 .. Len(line.items) + 1 /\ i \notin line.glued
  /\ \A j \in 2 .. i - 1 : j \in line.glued

\* A key and n ints can be read from the line.
RowReads(line, n) ==
  /\ line.items # <<>>
  /\ \E i \in 2 .. Len(line.items) + 1 :
       ValuesBegin(line, i) /\ \A k \in 0 .. n - 1 : NumberAt(line, i + k)

\* The row that is read, if RowReads: what is left of the line is ignored.
RowRead(line, n) ==
  LET i == CHOOSE j \in 2 .. Len(line.items) + 1 : ValuesBegin(line, j)
  IN <<line.items[1]>> \o SubSeq(line.items, i, i + n - 1)

\* n field names can be read from the line, the first of them KEY.
HeaderReads(line, n) ==
  /\ \A i \in 1 .. n : i \in DOMAIN line.items /\ i \notin line.glued
  /\ line.items[1] = "KEY"
===============================================================================
