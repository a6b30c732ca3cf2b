--------------------------------- MODULE Repl ---------------------------------
(***************************************************************************)
(* main(): the stack of inputs, of which the last one is read, the parser, *)
(* and the execution of each query before the next one is read.  LISTEN is *)
(* no query of the parser: it puts a file on the stack.  A file is the     *)
(* sequence of its query strings, each up to a ';', as tokens; what comes  *)
(* after the last ';' is dropped when the end is met.  What execute() does *)
(* is left to QueryEngine, Table, DataQueries and Database: here it ends,  *)
(* and throws nothing.                                                     *)
(***************************************************************************)
EXTENDS QueryParser

CONSTANTS
  Disks,         \* the files there may be: functions from paths
  Main,          \* the path after --listen
  Threads,       \* what --threads may say
  ListenTokens,  \* the tokens in which LISTEN occurs
  MaxOpen        \* how many files LISTEN can open before open() fails

\* A file is a sequence of query strings, and these are sequences of tokens.
ASSUME ReplAssumption ==
  /\ MaxOpen \in Nat
  /\ \A d \in Disks : \A p \in DOMAIN d : d[p] \in Seq(Seq(STRING))

VARIABLES
  disk,       \* the files that can be opened to read and write
  threads,    \* parsedArgs.threads
  process,    \* "start", "running", or how it ended: "failed", "end", "quit", "undefined"
  inputlist,  \* per input, the query strings that are still to come
  opened,     \* the files LISTEN has opened: none is ever closed
  counter,    \* the number printed before the last answer
  done        \* history: the query strings that are dealt with

main == <<process, inputlist, opened, counter, done>>
args == <<disk, threads>>
vars == <<parser, main, args>>

ReplInit == /\ ParserInit
            /\ disk \in Disks /\ threads \in Threads
            /\ process = "start" /\ inputlist = <<>> /\ opened = 0
            /\ counter = 0 /\ done = <<>>

Listens(t) == ToSet(t) \cap ListenTokens # {}
path(t) == IF Len(t) >= 3 THEN t[3] ELSE ""

Input == Last(inputlist)
\* The stack when the query string at the front has been read.
Advanced == Front(inputlist) \o <<Tail(Input)>>

\* The file of --listen is opened, then the number of threads is looked at.
Start ==
  /\ process = "start"
  /\ IF Main \notin DOMAIN disk \/ threads < 0
       THEN process' = "failed" /\ UNCHANGED inputlist
       ELSE process' = "running" /\ inputlist' = <<disk[Main]>>
  /\ UNCHANGED <<parser, args, opened, counter, done>>

Reads == process = "running" /\ at = "idle" /\ Input # <<>>

\* LISTEN anywhere in the string; its third token is the path.  The process
\* ends if the file does not open.
Listen ==
  /\ Reads /\ Listens(Head(Input))
  /\ LET p == path(Head(Input)) IN
     IF p \in DOMAIN disk /\ opened < MaxOpen
       THEN /\ inputlist' = Append(Advanced, disk[p])
            /\ opened' = opened + 1 /\ counter' = counter + 1
            /\ UNCHANGED process
       ELSE /\ process' = "failed" /\ inputlist' = Advanced
            /\ UNCHANGED <<opened, counter>>
  /\ done' = Append(done, Head(Input))
  /\ UNCHANGED <<parser, args>>

ReadQuery ==
  /\ Reads /\ ~Listens(Head(Input))
  /\ parseQuery(Head(Input))
  /\ inputlist' = Advanced
  /\ UNCHANGED <<process, opened, counter, done, args>>

ParseStep == process = "running" /\ Parse /\ UNCHANGED <<main, args>>

\* The query is executed and its number printed.  QUIT does not return.
Execute ==
  /\ process = "running" /\ at = "extracted"
  /\ done' = Append(done, tokens)
  /\ IF query.op = "QUIT" THEN process' = "quit" /\ UNCHANGED counter
                          ELSE counter' = counter + 1 /\ UNCHANGED process
  /\ at' = "idle"
  /\ UNCHANGED <<tokens, it, complex, query, inputlist, opened, args>>

\* The exception of the last builder is printed, without a number.
Refuse ==
  /\ process = "running" /\ at \in {"failed", "undefined"}
  /\ done' = Append(done, tokens)
  /\ IF at = "failed" THEN at' = "idle" /\ UNCHANGED process
                      ELSE process' = "undefined" /\ UNCHANGED at
  /\ UNCHANGED <<tokens, it, complex, query, inputlist, opened, counter, args>>

\* MUTANT of EndOfInput: the end of any input ends the loop.
EndOfAnyInput ==
  /\ process = "running" /\ at = "idle" /\ Input = <<>>
  /\ process' = "end"
  /\ UNCHANGED <<parser, inputlist, opened, counter, done, args>>

\* MUTANT of EndOfInput: an input that has ended stays on the stack.
EndOfInputStays ==
  /\ process = "running" /\ at = "idle" /\ Input = <<>>
  /\ process' = IF Len(inputlist) = 1 THEN "end" ELSE process
  /\ UNCHANGED <<parser, inputlist, opened, counter, done, args>>

\* The last input ends the loop; the end of another one goes back to the one
\* before.
EndOfInput ==
  /\ process = "running" /\ at = "idle" /\ Input = <<>>
  /\ IF Len(inputlist) = 1 THEN process' = "end" /\ UNCHANGED inputlist
                           ELSE inputlist' = Front(inputlist) /\ UNCHANGED process
  /\ UNCHANGED <<parser, opened, counter, done, args>>

Next == Start \/ Listen \/ ReadQuery \/ ParseStep \/ Execute \/ Refuse \/ EndOfInput

Spec == ReplInit /\ [][Next]_vars /\ WF_vars(Next)
-------------------------------------------------------------------------------
\* The types.
ReplTypeOK ==
  /\ process \in {"start", "running", "failed", "end", "quit", "undefined"}
  /\ at \in Places
  /\ at \in {"idle", "failed", "Debug"} \/ it \in 1 .. end
  /\ opened \in 0 .. MaxOpen
  /\ inputlist = <<>> \/ Len(inputlist) \in 1 .. opened + 1
  /\ counter <= Len(done)

\* Why the types hold: what is on the stack, and what was opened for it.
StackInv ==
  /\ disk \in Disks /\ opened \in 0 .. MaxOpen
  /\ inputlist \in Seq(Seq(Seq(STRING)))
  /\ Len(inputlist) <= opened + 1
  /\ process = "start" => at = "idle" /\ inputlist = <<>> /\ opened = 0 /\ done = <<>>
  /\ process = "running" => Main \in DOMAIN disk /\ inputlist # <<>>
CountInv ==
  /\ process \in {"start", "running", "failed", "end", "quit", "undefined"}
  /\ tokens \in Seq(STRING) /\ done \in Seq(Seq(STRING))
  /\ counter \in Nat /\ counter <= Len(done)
ReplInv == ParseInv /\ StackInv /\ CountInv

\* The query strings a user expects to be dealt with when a file is read that
\* holds text: each in its order, and after a LISTEN those of the file it names.
WithListened(t, below) ==
  <<t>> \o (IF Listens(t) /\ path(t) \in DOMAIN below THEN below[path(t)] ELSE <<>>)
Unfolded(text, below) == FlattenSeq([i \in DOMAIN text |-> WithListened(text[i], below)])

\* The same for every file, when no more than n are open one inside the other.
Expanded[n \in 0 .. MaxOpen + 1] ==
  LET below == Expanded[n - 1]
  IN [p \in DOMAIN disk |-> IF n = 0 THEN <<>> ELSE Unfolded(disk[p], below)]

\* No query string is lost, dealt with twice or out of its turn, however the
\* files listen to each other; at the end of the input every one was dealt with.
ReadInOrder ==
  Main \in DOMAIN disk =>
    LET expected == Expanded[MaxOpen + 1][Main]
    IN /\ IsPrefix(done, expected)
       /\ process = "end" => done = expected

\* Why it is so: what is dealt with, in hand, and still to come of the inputs,
\* the last one first, is what is expected.
ToCome(inputs, expanded) ==
  FlattenSeq([i \in DOMAIN inputs |->
    LET depth == Len(inputs) + 1 - i
    IN Unfolded(inputs[depth], expanded[MaxOpen + 1 - depth])])
InHand == IF at = "idle" THEN <<>> ELSE <<tokens>>
OrderInv ==
  Main \in DOMAIN disk =>
    LET expected == Expanded[MaxOpen + 1][Main]
    IN /\ process = "running" => expected = (done \o InHand) \o ToCome(inputlist, Expanded)
       /\ process \notin {"start", "running"} => ReadInOrder

\* The process comes to an end, also when a file listens to itself.
MainEnds == <>(process \notin {"start", "running"})
================================================================================
