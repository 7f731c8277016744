-------------------------------- MODULE WAL --------------------------------
(***************************************************************************)
(* The write-ahead log file (storage/wal.cpp) as a sequence of records.    *)
(* The bytes of a record are abstracted to its LSN, its statement and      *)
(* whether it is whole: a record cut short by a crash or a full disk fails *)
(* the reader's length or CRC test.                                        *)
(***************************************************************************)
EXTENDS Statements

WALRecord == [lsn : Nat, sql : Stmt, whole : BOOLEAN]

(* append: the record as it is written out, and one of which only a part  *)
(* reached the file.                                                      *)
Record(lsn, s)  == [lsn |-> lsn, sql |-> s, whole |-> TRUE]
Partial(lsn, s) == [lsn |-> lsn, sql |-> s, whole |-> FALSE]

(* read_record: the record parses, is within 10 MB and its CRC matches.   *)
Readable(rec) == rec.whole /\ ~IsOversized(rec.sql)

(* read_all and replay stop at the first record that read_record rejects, *)
(* so record i is delivered only if every record up to i is readable.     *)
Delivered(log, i) ==
  /\ i \in 0..Len(log)
  /\ \A j \in 1..i : Readable(log[j])

(* The number of records read_all returns.                                *)
ReadCount(log) ==
  CHOOSE n \in 0..Len(log) :
    /\ Delivered(log, n)
    /\ ~Delivered(log, n + 1)

(* Mutant: an empty log starts at 0.                                        *)
NextLsnFromZero(log) ==
  IF ReadCount(log) = 0 THEN 0 ELSE log[ReadCount(log)].lsn + 1
(* Mutant: the last LSN is handed out again.                                *)
NextLsnReused(log) ==
  IF ReadCount(log) = 0 THEN 1 ELSE log[ReadCount(log)].lsn

(* The WALWriter constructor: continue after the last record that can be  *)
(* read, and at 1 when there is none.                                     *)
NextLsn(log) ==
  IF ReadCount(log) = 0 THEN 1 ELSE log[ReadCount(log)].lsn + 1
=============================================================================
