------------------------------ MODULE MCServer ------------------------------
(* Instances of Server for the model checker.                              *)
EXTENDS Server, TLC

x == <<"x">>
y == <<"y">>
none == <<>>

Sql == [NoQuery EXCEPT !.kind = "sql"]
Insert == [Sql EXCEPT !.result = Message(<<"done">>), !.mutates = TRUE]
Rejected == [Sql EXCEPT !.result = Failure(<<"why">>)]
OneColumn == [Sql EXCEPT !.result = Answer(<<x>>, <<<<y>>, <<none>>, <<x>>>>)]
TwoColumns == [Sql EXCEPT !.limit = 2, !.result =
                 Answer(<<x, y>>, <<<<none, y>>, <<x, none>>, <<none, none>>>>)]
HugeAnswer == [Sql EXCEPT !.huge = TRUE, !.result = Answer(<<x>>, <<<<x>>>>)]
LongQuery == [NoQuery EXCEPT !.kind = "long", !.mutates = TRUE]
Throws == [NoQuery EXCEPT !.kind = "throws"]

CONSTANTS c1, c2
ServingQueries == c1 :> {OneColumn, HugeAnswer}
                  @@ c2 :> {Insert, Rejected, TwoColumns, LongQuery, NoQuery, Throws}
ServingExecs == c1 :> 2 @@ c2 :> 1
=============================================================================
