-------------------------------- MODULE Lexer --------------------------------
(***************************************************************************)
(* The tokenizer (server/parser/lexer.cpp), and is_mutating_sql of         *)
(* database.cpp, which looks at the same text with a scanner of its own to *)
(* decide what goes to the write-ahead log.  A text is a sequence of       *)
(* atoms: a run of letters, a run of digits, or one other character.  Runs *)
(* may stand side by side and then read as one.  Lines and columns are     *)
(* left out.                                                               *)
(***************************************************************************)
EXTENDS Naturals, Sequences

CONSTANTS
  Letters,     \* runs of letters
  Digits,      \* runs of digits
  Upper        \* Upper[w]: w in upper case

Keywords == {"CREATE", "TABLE", "INSERT", "INTO", "VALUES", "SELECT", "FROM", "WHERE",
             "INNER", "JOIN", "ON", "INT", "DECIMAL", "VARCHAR", "DATETIME"}
Space == " "
Quotes == {"'", "\""}
Backslash == "\\"

ASSUME LexerAssumption ==
  /\ \A w \in Letters : Upper[w] \in Letters
  /\ Letters \cap Digits = {}
  /\ Keywords \subseteq Letters

Token(type, value) == [type |-> type, value |-> value]
END == Token("END", <<>>)

(* The length of the longest prefix with all its atoms in S.               *)
Run(text, S) ==
  CHOOSE n \in 0..Len(text) :
    /\ \A k \in 1..n : text[k] \in S
    /\ n = Len(text) \/ text[n + 1] \notin S

From(text, n) == SubSeq(text, n, Len(text))
Starts(text, S) == text # <<>> /\ text[1] \in S

(* Each reader returns the token at the front of the text and the rest.    *)
Read(token, rest) == [token |-> token, rest |-> rest, closed |-> TRUE]

(* Digits with at most one dot among or behind them.                       *)
read_number(text) ==
  LET whole == Run(text, Digits)
      dot == whole < Len(text) /\ text[whole + 1] = "."
      n == IF dot THEN whole + 1 + Run(From(text, whole + 2), Digits) ELSE whole
  IN  Read(Token(IF dot THEN "FLOAT" ELSE "INT_LITERAL", SubSeq(text, 1, n)), From(text, n + 1))

read_negative(text) ==
  LET t == read_number(Tail(text)) IN [t EXCEPT !.token.value = <<"-">> \o @]

(* Keywords are in upper case, an identifier as it is written.             *)
read_identifier_or_keyword(text) ==
  LET n == Run(text, Letters \cup Digits \cup {"_"})
      keyword == n = 1 /\ text[1] \in Letters /\ Upper[text[1]] \in Keywords
  IN  Read(IF keyword THEN Token(Upper[text[1]], <<Upper[text[1]]>>)
                      ELSE Token("IDENTIFIER", SubSeq(text, 1, n)),
           From(text, n + 1))

(* Mutant: a backslash is a character like any other.                       *)
BodyWithoutEscapes(text, quote) ==
  LET n == Run(text, {text[k] : k \in 1..Len(text)} \ {quote})
  IN  [Read(Token("STRING", SubSeq(text, 1, n)), From(text, n + 2))
         EXCEPT !.closed = n < Len(text)]

(* The text behind an opening quote, up to the same quote; a backslash     *)
(* takes the next character as it is.                                      *)
RECURSIVE Body(_, _)
Body(text, quote) ==
  IF text \in {<<>>, <<Backslash>>} THEN [Read(Token("STRING", <<>>), <<>>) EXCEPT !.closed = FALSE]
  ELSE IF text[1] = quote THEN Read(Token("STRING", <<>>), Tail(text))
  ELSE LET skip == IF text[1] = Backslash THEN 1 ELSE 0
           more == Body(From(text, skip + 2), quote)
       IN  [more EXCEPT !.token.value = SubSeq(text, skip + 1, skip + 1) \o @]

read_string(text) == Body(Tail(text), text[1])

(* Operators of two characters before those of one.                        *)
Symbols == {"(", ")", ",", ";", ".", "*", "=", "<", ">"}
Pairs == {<<"<", "=">>, <<"<", ">">>, <<">", "=">>, <<"!", "=">>}
PairType == [p \in Pairs |-> IF p = <<"<", "=">> THEN "<="
                             ELSE IF p = <<">", "=">> THEN ">=" ELSE "!="]

read_symbol(text) ==
  IF Len(text) > 1 /\ SubSeq(text, 1, 2) \in Pairs
    THEN Read(Token(PairType[SubSeq(text, 1, 2)], SubSeq(text, 1, 2)), From(text, 3))
    ELSE Read(Token(IF text[1] \in Symbols THEN text[1] ELSE "INVALID", <<text[1]>>), Tail(text))

Negative(text) == Starts(text, {"-"}) /\ Starts(Tail(text), Digits)

NextToken(text) ==
  CASE Starts(text, Digits) -> read_number(text)
    [] Negative(text) -> read_negative(text)
    [] Starts(text, Letters \cup {"_"}) -> read_identifier_or_keyword(text)
    [] Starts(text, Quotes) -> read_string(text)
    [] OTHER -> read_symbol(text)

(* The tokens of a text, and whether there was an error.                   *)
RECURSIVE tokenize(_)
tokenize(text) ==
  LET rest == From(text, Run(text, {Space}) + 1) IN
  IF rest = <<>> THEN [tokens |-> <<END>>, error |-> FALSE]
  ELSE LET read == NextToken(rest)
           more == tokenize(read.rest)
       IN  [tokens |-> <<read.token>> \o more.tokens,
            error |-> more.error \/ ~read.closed \/ read.token.type = "INVALID"]

-----------------------------------------------------------------------------
(* Mutant: no white space is skipped.                                       *)
MutatingAtOnce(text) ==
  LET n == Run(text, Letters) IN n = 1 /\ Upper[text[1]] \in {"CREATE", "INSERT"}

(* The first word of the text, made of letters only.                       *)
is_mutating_sql(text) ==
  LET rest == From(text, Run(text, {Space}) + 1)
  IN  Run(rest, Letters) = 1 /\ Upper[rest[1]] \in {"CREATE", "INSERT"}
=============================================================================
