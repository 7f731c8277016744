-------------------------------- MODULE Wire --------------------------------
(***************************************************************************)
(* The text of an answer: how the server writes a QueryResult              *)
(* (TCPServer::format_result) and how the client library reads it back and *)
(* calls the callback (flexql_exec).  A text is a sequence of characters;  *)
(* the prefix "ERROR: " counts as one character.                           *)
(***************************************************************************)
EXTENDS Naturals, Sequences

Tab == "tab"
Newline == "newline"
ErrorPrefix == "ERROR: "

(* A QueryResult.  Only a SELECT has column names.                         *)
Answer(names, rows) ==
  [success |-> TRUE, column_names |-> names, rows |-> rows, text |-> <<>>]
Message(text) ==
  [success |-> TRUE, column_names |-> <<>>, rows |-> <<>>, text |-> text]
Failure(text) ==
  [success |-> FALSE, column_names |-> <<>>, rows |-> <<>>, text |-> text]

(* Cells with a tab between two of them, and a newline at the end.         *)
Line(cells) ==
  LET from[i \in 1..Len(cells) + 1] ==
        IF i > Len(cells) THEN <<Newline>>
        ELSE (IF i > 1 THEN <<Tab>> ELSE <<>>) \o cells[i] \o from[i + 1]
  IN  from[1]

Lines(rows) ==
  LET from[i \in 1..Len(rows) + 1] ==
        IF i > Len(rows) THEN <<>> ELSE Line(rows[i]) \o from[i + 1]
  IN  from[1]

format_result(result) ==
  IF ~result.success THEN <<ErrorPrefix>> \o result.text \o <<Newline>>
  ELSE IF result.column_names # <<>>
    THEN Line(result.column_names) \o Lines(result.rows)
    ELSE result.text \o <<Newline>>

-----------------------------------------------------------------------------
(* The three splitting loops of flexql_exec: a part for each separator, and *)
(* one more for what follows the last separator unless that is empty.       *)
Split(s, sep) ==
  LET part[i \in 1..Len(s) + 1] ==
        LET ends == {j \in i..Len(s) : s[j] = sep}
            end  == CHOOSE j \in ends : \A k \in ends : j <= k
        IN  IF i > Len(s) THEN <<>>
            ELSE IF ends = {} THEN <<SubSeq(s, i, Len(s))>>
            ELSE <<SubSeq(s, i, end - 1)>> \o part[end + 1]
  IN  part[1]

IsError(response) == response # <<>> /\ response[1] = ErrorPrefix

(* The values of one line, padded or cut to the number of names.           *)
Values(line, names) ==
  LET vals == Split(line, Tab)
  IN  [i \in 1..Len(names) |-> IF i <= Len(vals) THEN vals[i] ELSE <<>>]

(* The rows flexql_exec passes to a callback that returns 1 on its         *)
(* limit-th call (0: it never does).  Empty lines are skipped.             *)
callbacks(response, limit) ==
  LET lines == Split(response, Newline)
      names == Split(lines[1], Tab)
      shown == SelectSeq(Tail(lines), LAMBDA l : l # <<>>)
      count == IF limit = 0 \/ limit > Len(shown) THEN Len(shown) ELSE limit
  IN  IF Len(lines) < 2 THEN <<>>
      ELSE [r \in 1..count |-> Values(shown[r], names)]
=============================================================================
