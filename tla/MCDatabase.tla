----------------------------- MODULE MCDatabase -----------------------------
(* Instances of Database for the model checker.                            *)
EXTENDS Database, TLC

CONSTANTS r1, r2

OneRow      == <<r1>>
PartialRows == <<r2, BadRow>>
LongRows    == <<r1, r2>>

MCBatches   == {OneRow, PartialRows}
MCBatches3  == {OneRow, PartialRows, LongRows}
MCOversized == {LongRows}
NoBatches   == {}
=============================================================================
