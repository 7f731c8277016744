------------------------------- MODULE Parser -------------------------------
(***************************************************************************)
(* The recursive descent parser (server/parser/parser.cpp) on the tokens   *)
(* of Lexer, and somebody who edits a statement before it is parsed.  Each *)
(* production takes the tokens from pos_ on and returns what it built, the *)
(* tokens left, and its outcome: "ok", "error", or "throws" for the        *)
(* exception of std::stoi.                                                 *)
(***************************************************************************)
EXTENDS Lexer, Integers, SequencesExt

CONSTANTS
  Statements,     \* the statements texts start from
  Atoms,          \* what an edit may insert
  MaxEdits(_),    \* bound on the edits of a statement
  NumberOf,       \* NumberOf[d]: the value of a run of digits
  Width           \* Width[d]: how many digits it has

ASSUME ParserAssumption ==
  \A d \in Digits : NumberOf[d] \in 10^(Width[d] - 1)..(10^Width[d] - 1)

Ok(out, rest) == [outcome |-> "ok", out |-> out, rest |-> rest]
Failed(outcome) == [outcome |-> outcome, out |-> <<>>, rest |-> <<>>]
Error == Failed("error")

current(rest) == IF rest = <<>> THEN END ELSE rest[1]
advance(rest) == IF rest = <<>> THEN rest ELSE Tail(rest)
Is(rest, type) == current(rest).type = type

(* Mutant: the token is skipped, whatever it is.                            *)
ExpectedAnything(type, result) == [result EXCEPT !.rest = advance(@)]

(* Go on behind a token that has to be there.                              *)
Expected(type, result) ==
  IF result.outcome = "ok" /\ ~Is(result.rest, type) THEN Error
  ELSE [result EXCEPT !.rest = advance(@)]

-----------------------------------------------------------------------------
(* CREATE TABLE                                                            *)

ColumnTypes == {"INT", "DECIMAL", "VARCHAR", "DATETIME"}
DefaultVarchar == 255

(* The number that digits stand for, or Overflow when it is more than most *)
(* beyond INT_MAX.                                                         *)
IntMax == 2147483647
Overflow == -1
Magnitude(ds, most) ==
  FoldLeft(LAMBDA n, d : IF n = Overflow \/ n > (IntMax - (NumberOf[d] - most)) \div 10^Width[d]
                         THEN Overflow ELSE n * 10^Width[d] + NumberOf[d], 0, ds)

(* std::stoi throws if the number is no int; INT_MIN is one beyond.        *)
Minus(value) == value[1] = "-"
Size(value) == IF Minus(value) THEN Magnitude(Tail(value), 1) ELSE Magnitude(value, 0)
TooLarge(value) == Size(value) = Overflow
stoi(value) == IF Minus(value) THEN 0 - Size(value) ELSE Size(value)

(* VARCHAR(N): the cast keeps 16 bits.                                     *)
VarcharLength(rest) ==
  LET value == current(rest).value IN
  IF ~Is(rest, "INT_LITERAL") THEN Error
  ELSE IF TooLarge(value) THEN Failed("throws")
  ELSE Expected(")", Ok(stoi(value) % 2^16, advance(rest)))

ParseColumn(rest) ==
  LET name == current(rest)
      type == current(advance(rest)).type
      more == advance(advance(rest))
      len == IF type = "VARCHAR" /\ Is(more, "(") THEN VarcharLength(advance(more))
             ELSE Ok(DefaultVarchar, more)
  IN  IF name.type # "IDENTIFIER" \/ type \notin ColumnTypes THEN Error
      ELSE [len EXCEPT !.out = [name |-> name.value, type |-> type, len |-> @]]

(* The loop ends at the parenthesis, at the end of input or where no comma *)
(* follows; a comma before the parenthesis is allowed.                     *)
RECURSIVE ParseColumns(_, _)
ParseColumns(rest, columns) ==
  IF Is(rest, ")") \/ Is(rest, "END") THEN Ok(columns, rest)
  ELSE LET c == ParseColumn(rest) IN
       IF c.outcome # "ok" THEN c
       ELSE IF Is(c.rest, ",") THEN ParseColumns(advance(c.rest), Append(columns, c.out))
       ELSE Ok(Append(columns, c.out), c.rest)

parse_create_table(rest) ==
  LET name == current(From(rest, 3)) IN
  IF ~Is(From(rest, 2), "TABLE") \/ name.type # "IDENTIFIER" \/ ~Is(From(rest, 4), "(")
    THEN Error
    ELSE LET columns == Expected(")", ParseColumns(From(rest, 5), <<>>)) IN
         [columns EXCEPT !.out = [kind |-> "CREATE", table |-> name.value, columns |-> @]]

-----------------------------------------------------------------------------
(* INSERT                                                                  *)

(* Any token is a value.                                                   *)
RECURSIVE ParseValues(_, _)
ParseValues(rest, values) ==
  IF Is(rest, ")") \/ Is(rest, "END") THEN Ok(values, rest)
  ELSE LET more == Append(values, current(rest).value)
           next == advance(rest)
       IN  IF Is(next, ",") THEN ParseValues(advance(next), more) ELSE Ok(more, next)

RECURSIVE ParseRows(_, _)
ParseRows(rest, rows) ==
  LET row == Expected(")", ParseValues(advance(rest), <<>>)) IN
  IF ~Is(rest, "(") \/ row.outcome # "ok" THEN Error
  ELSE IF Is(row.rest, ",") THEN ParseRows(advance(row.rest), Append(rows, row.out))
  ELSE Ok(Append(rows, row.out), row.rest)

parse_insert(rest) ==
  LET name == current(From(rest, 3)) IN
  IF ~Is(From(rest, 2), "INTO") \/ name.type # "IDENTIFIER" \/ ~Is(From(rest, 4), "VALUES")
    THEN Error
    ELSE LET rows == ParseRows(From(rest, 5), <<>>) IN
         [rows EXCEPT !.out = [kind |-> "INSERT", table |-> name.value, rows |-> @]]
-----------------------------------------------------------------------------
(* SELECT                                                                  *)

(* column or table.column; the callers check the first token, or do not.   *)
parse_column_ref(rest) ==
  IF Is(advance(rest), ".")
    THEN Ok([table |-> current(rest).value, column |-> current(From(rest, 3)).value],
            advance(From(rest, 3)))
    ELSE Ok([table |-> <<>>, column |-> current(rest).value], advance(rest))

Operators == {"=", "!=", "<", ">", "<=", ">="}

(* Without an operator the condition is an equality: error_ is set, but    *)
(* the statement is built all the same.                                    *)
parse_cmp_op(rest) ==
  IF current(rest).type \in Operators THEN Ok(current(rest).type, advance(rest)) ELSE Ok("=", rest)

parse_where(rest) ==
  LET column == parse_column_ref(rest)
      op == parse_cmp_op(column.rest)
  IN  Ok(<<[column |-> column.out, op |-> op.out, literal |-> current(op.rest).value]>>,
         advance(op.rest))

RECURSIVE ParseRefs(_, _)
ParseRefs(rest, refs) ==
  LET ref == parse_column_ref(rest) IN
  IF ~Is(rest, "IDENTIFIER") THEN Error
  ELSE IF Is(ref.rest, ",") THEN ParseRefs(advance(ref.rest), Append(refs, ref.out))
  ELSE Ok(Append(refs, ref.out), ref.rest)

(* INNER JOIN table ON column = column                                     *)
ParseJoin(rest) ==
  LET left == parse_column_ref(From(rest, 5))
      right == parse_column_ref(advance(left.rest))
  IN  IF /\ Is(From(rest, 2), "JOIN") /\ Is(From(rest, 3), "IDENTIFIER")
         /\ Is(From(rest, 4), "ON") /\ Is(left.rest, "=")
        THEN Ok(<<[table |-> current(From(rest, 3)).value,
                   left |-> left.out, right |-> right.out]>>, right.rest)
        ELSE Error

parse_select(rest) ==
  LET columns == Expected("FROM", IF Is(From(rest, 2), "*") THEN Ok(<<>>, From(rest, 3))
                                  ELSE ParseRefs(From(rest, 2), <<>>))
      table == current(columns.rest)
      more == advance(columns.rest)
      join == IF Is(more, "INNER") THEN ParseJoin(more) ELSE Ok(<<>>, more)
      where == IF Is(join.rest, "WHERE") THEN parse_where(advance(join.rest))
               ELSE Ok(<<>>, join.rest)
  IN  IF columns.outcome # "ok" \/ table.type # "IDENTIFIER" \/ join.outcome # "ok" THEN Error
      ELSE Ok([kind |-> "SELECT", table |-> table.value, columns |-> columns.out,
               join |-> join.out, where |-> where.out], where.rest)

-----------------------------------------------------------------------------
parse(tokens) ==
  CASE Is(tokens, "CREATE") -> parse_create_table(tokens)
    [] Is(tokens, "INSERT") -> parse_insert(tokens)
    [] Is(tokens, "SELECT") -> parse_select(tokens)
    [] OTHER -> Error

(* A semicolon and whatever follows it, or follows the statement, is left. *)
parse_sql(sql) ==
  LET lexed == tokenize(sql) IN IF lexed.error THEN Error ELSE parse(lexed.tokens)
-----------------------------------------------------------------------------
(* How a statement is written: its words, with a literal written by L.     *)

Commas(parts) ==
  IF parts = <<>> THEN <<>>
  ELSE parts[1] \o FlattenSeq([i \in 1..(Len(parts) - 1) |-> <<<<",">>>> \o parts[i + 1]])

Ref(r) == IF r.table = <<>> THEN <<r.column>> ELSE <<r.table, <<".">>, r.column>>

(* The digits of a length: 16 bits have at most five.                      *)
Number(len) == CHOOSE ds \in UNION {[1..n -> Digits] : n \in 1..5} : Magnitude(ds, 0) = len

ColumnWords(c) ==
  <<c.name, <<c.type>>>>
    \o IF c.len = DefaultVarchar THEN <<>> ELSE <<<<"(">>, Number(c.len), <<")">>>>

OpWord(op) ==
  CASE op = "<=" -> <<"<", "=">> [] op = ">=" -> <<">", "=">> [] op = "!=" -> <<"!", "=">>
    [] OTHER -> <<op>>

Words(stmt, L(_), Op(_)) ==
  CASE stmt.kind = "CREATE" ->
         <<<<"CREATE">>, <<"TABLE">>, stmt.table, <<"(">>>>
           \o Commas([i \in 1..Len(stmt.columns) |-> ColumnWords(stmt.columns[i])]) \o <<<<")">>>>
    [] stmt.kind = "INSERT" ->
         <<<<"INSERT">>, <<"INTO">>, stmt.table, <<"VALUES">>>>
           \o Commas([i \in 1..Len(stmt.rows) |->
                        <<<<"(">>>> \o Commas([j \in 1..Len(stmt.rows[i]) |-> <<L(stmt.rows[i][j])>>])
                          \o <<<<")">>>>])
    [] stmt.kind = "SELECT" ->
         <<<<"SELECT">>>>
           \o (IF stmt.columns = <<>> THEN <<<<"*">>>>
               ELSE Commas([i \in 1..Len(stmt.columns) |-> Ref(stmt.columns[i])]))
           \o <<<<"FROM">>, stmt.table>>
           \o FlattenSeq([i \in 1..Len(stmt.join) |->
                LET j == stmt.join[i] IN
                <<<<"INNER">>, <<"JOIN">>, j.table, <<"ON">>>> \o Ref(j.left) \o <<<<"=">>>> \o Ref(j.right)])
           \o FlattenSeq([i \in 1..Len(stmt.where) |->
                LET w == stmt.where[i] IN
                <<<<"WHERE">>>> \o Ref(w.column) \o Op(w.op) \o <<L(w.literal)>>])

(* A literal as a number, or in quotes with a backslash where it needs one.*)
Quoted(v) ==
  IF v # <<>> /\ \A k \in 1..Len(v) : v[k] \in Digits THEN v
  ELSE <<"'">> \o FlattenSeq([k \in 1..Len(v) |->
                    IF v[k] \in {"'", Backslash} THEN <<Backslash, v[k]>> ELSE <<v[k]>>]) \o <<"'">>

(* The text of a statement, a space between two words.                     *)
Written(stmt) ==
  LET words == Words(stmt, Quoted, LAMBDA op : <<OpWord(op)>>) IN
  FlattenSeq([i \in 1..Len(words) |-> IF i = 1 THEN words[1] ELSE <<Space>> \o words[i]])

-----------------------------------------------------------------------------
VARIABLES
  source,   \* the statement that was written
  text,     \* its text, as edited
  edits     \* edits so far

vars == <<source, text, edits>>

Init == source \in Statements /\ text = Written(source) /\ edits = 0

(* One atom is inserted, removed or replaced.                              *)
Edit ==
  /\ edits < MaxEdits(source)
  /\ edits' = edits + 1
  /\ \E k \in 1..(Len(text) + 1) :
       \/ \E a \in Atoms : text' = InsertAt(text, k, a)
       \/ k <= Len(text) /\ text' = RemoveAt(text, k)
       \/ k <= Len(text) /\ \E a \in Atoms : text' = ReplaceAt(text, k, a)
  /\ UNCHANGED source

Next == Edit
Spec == Init /\ [][Next]_vars

-----------------------------------------------------------------------------
(* The parser builds the statement that was written, whatever its names    *)
(* and literals are: quotes and backslashes in a literal included.         *)
RoundTrip == edits = 0 => parse_sql(text).outcome = "ok" /\ parse_sql(text).out = source

(* Both spellings of "not equal" as one word.                              *)
OneNotEqual(words) ==
  [i \in 1..Len(words) |-> IF words[i] = <<"<", ">">> THEN <<"!", "=">> ELSE words[i]]

(* The commas in front of a closing parenthesis left out.                  *)
NoTrailingCommas(words) ==
  LET Trailing(i) == \E j \in i..Len(words) :
                       words[j] = <<")">> /\ \A k \in i..(j - 1) : words[k] = <<",">>
      kept == SelectSeq([i \in 1..Len(words) |-> i],
                        LAMBDA i : words[i] # <<",">> \/ ~Trailing(i))
  IN  [i \in 1..Len(kept) |-> words[kept[i]]]

Normal(stmt, words) ==
  IF stmt.kind = "SELECT" THEN OneNotEqual(words) ELSE NoTrailingCommas(OneNotEqual(words))

(* A VARCHAR length of more than 16 bits, or a negative one.               *)
LengthWraps(tokens) ==
  \E i \in 3..Len(tokens) :
    /\ tokens[i].type = "INT_LITERAL" /\ tokens[i - 2].type = "VARCHAR"
    /\ ~TooLarge(tokens[i].value) /\ stoi(tokens[i].value) \notin 0..(2^16 - 1)

(* An empty string in front of a dot: the column has no prefix.            *)
EmptyPrefix(tokens) ==
  \E i \in 2..Len(tokens) : tokens[i].type = "." /\ tokens[i - 1].value = <<>>

(* The words that would go on with a statement.                            *)
GoesOn(stmt) ==
  CASE stmt.kind = "INSERT" -> {","}
    [] stmt.kind = "SELECT" /\ stmt.where = <<>> ->
         {"WHERE"} \cup IF stmt.join = <<>> THEN {"INNER"} ELSE {}
    [] OTHER -> {}

(* The words of the statement are those of the tokens that were read;      *)
(* behind the end of the text the parser reads empty words.                *)
ReadsAs(stmt, tokens, rest, Op(_)) ==
  LET read == [i \in 1..(Len(tokens) - Len(rest)) |-> tokens[i].value] IN
  \E n \in (IF rest = <<>> THEN 0..2 ELSE {0}) :
    Normal(stmt, Words(stmt, LAMBDA v : v, Op)) = Normal(stmt, read \o [i \in 1..n |-> <<>>])

(* Whatever the parser accepts it has read word for word: the statement    *)
(* says neither more nor less than the text up to where the parser stopped,*)
(* and there no further clause or row of it begins.  What follows another  *)
(* word is ignored without an error: FROM t a INNER JOIN ... loses its     *)
(* join.  Other exceptions are a comma too many before a parenthesis, a    *)
(* condition without operator, which is an equality (parse_cmp_op), the    *)
(* 16 bits of a VARCHAR length, and '' as a prefix.                        *)
AcceptedAsWritten ==
  \A tokens \in {tokenize(text).tokens}, result \in {parse_sql(text)} :
    result.outcome = "ok" /\ ~LengthWraps(tokens) /\ ~EmptyPrefix(tokens) =>
      LET stmt == result.out IN
      /\ \/ ReadsAs(stmt, tokens, result.rest, LAMBDA op : <<OpWord(op)>>)
         \/ /\ stmt.kind = "SELECT" /\ stmt.where # <<>> /\ stmt.where[1].op = "="
            /\ ReadsAs(stmt, tokens, result.rest, LAMBDA op : <<>>)
      /\ current(result.rest).type \notin GoesOn(stmt)

(* Every statement that changes a table is logged: when the parser sees a  *)
(* CREATE or an INSERT, so does is_mutating_sql, which scans the text on   *)
(* its own and with another idea of what a word is.                        *)
MutationsLogged ==
  LET result == parse_sql(text) IN
  result.outcome # "error" /\ ~Is(tokenize(text).tokens, "SELECT") => is_mutating_sql(text)
=============================================================================
