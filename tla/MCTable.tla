------------------------------- MODULE MCTable -------------------------------
(* Instances of Table for the model checker.                               *)
EXTENDS Table

Column(type, max_len) == [type |-> type, max_len |-> max_len]

(* Two rows to a chunk; one row to a chunk; a row larger than a chunk.     *)
Small == <<Column("INT", 0), Column("VARCHAR", 2)>>
Wide == <<Column("VARCHAR", 1), Column("DATETIME", 0), Column("DECIMAL", 0)>>
Oversized == <<Column("INT", 0), Column("VARCHAR", 40)>>

Number(x) == Value("INT", Encode(x, 4))
Text(s) == Value("VARCHAR", s)
Long(type, x) == Value(type, Encode(x, 8))

(* Strings that are empty, that fill the column and that overflow it; a    *)
(* value of the wrong type and a value missing.                            *)
MCOffered(s) ==
  CASE s = Small -> {<<Number(k), Text(t)>> : k \in {1, 300}, t \in {<<>>, <<97, 98>>, <<97, 98, 99>>}}
                     \cup {<<Number(1), Number(1)>>, <<Number(1)>>}
    [] s = Wide -> {<<Text(t), Long("DATETIME", 5), Long("DECIMAL", d)>> :
                      t \in {<<>>, <<97>>, <<98>>, <<97, 98>>}, d \in {0, 700}}
    [] s = Oversized -> {<<Number(k), Text([i \in 1..n |-> 97])>> : k \in {1, 2}, n \in {1, 40, 41}}

MCSchemas == {Small, Wide, Oversized}
=============================================================================
