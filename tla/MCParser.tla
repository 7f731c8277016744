------------------------------- MODULE MCParser -------------------------------
(* Instances of Parser for the model checker.                              *)
EXTENDS Parser

MCLetters == Keywords \cup {"t", "u", "a", "b", "insert"}
MCUpper == [w \in MCLetters |-> IF w = "insert" THEN "INSERT" ELSE w]
MCDigits == {"4", "65536"}
MCNumberOf == [d \in MCDigits |-> IF d = "4" THEN 4 ELSE 65536]
MCWidth == [d \in MCDigits |-> IF d = "4" THEN 1 ELSE 5]

Others == {Space, "'", "\"", Backslash, "_", "-", "!", "#"} \cup Symbols
MCAtoms == Others \cup MCDigits
             \cup {"CREATE", "insert", "SELECT", "FROM", "WHERE", "VALUES", "INT", "t", "a"}

Column(name, type, len) == [name |-> <<name>>, type |-> type, len |-> len]
Create(columns) == [kind |-> "CREATE", table |-> <<"t">>, columns |-> columns]
Insert(rows) == [kind |-> "INSERT", table |-> <<"t">>, rows |-> rows]
Plain(c) == [table |-> <<>>, column |-> <<c>>]
Of(t, c) == [table |-> <<t>>, column |-> <<c>>]
Select(columns, join, where) ==
  [kind |-> "SELECT", table |-> <<"t">>, columns |-> columns, join |-> join, where |-> where]
Where(column, op, literal) == <<[column |-> column, op |-> op, literal |-> literal]>>

All == Select(<<>>, <<>>, <<>>)
Short == {Create(<<>>), Insert(<<<<>>>>), All}

(* Strings with a quote, a backslash, both kinds of quote, blanks, none.   *)
Strings == {<<"a", "'", "b">>, <<Backslash>>, <<"'", Backslash, "\"">>, <<"a", Space, "4">>, <<>>,
            <<",", ")">>, <<"insert">>}

MCStatements ==
  Short
  \cup {Create(<<Column("a", "INT", 255), Column("b", "VARCHAR", 4)>>),
        Create(<<Column("a", "VARCHAR", 255), Column("b", "DATETIME", 255),
                 Column("u", "DECIMAL", 255)>>),
        Insert(<<<<<<"4">>, <<"b">>>>, <<<<"65536">>>>>>),
        Select(<<Plain("a"), Of("t", "b")>>, <<>>, <<>>),
        Select(<<>>, <<[table |-> <<"u">>, left |-> Of("t", "a"), right |-> Of("u", "b")]>>,
               Where(Of("u", "a"), "<=", <<"4">>))}
  \cup {Insert(<<<<v>>>>) : v \in Strings}
  \cup {Select(<<>>, <<>>, Where(Plain("a"), op, <<"b">>)) : op \in Operators}

MCMaxEdits(stmt) == IF stmt \in Short THEN 2 ELSE 1
=============================================================================
