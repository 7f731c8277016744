-------------------------------- MODULE Table --------------------------------
(***************************************************************************)
(* Table (server/storage/table.cpp) and Schema (schema.cpp) on top of the  *)
(* arena: rows are copied byte by byte into a block of it, at the offsets  *)
(* of the schema, with the expiry and the valid flag behind the columns.   *)
(* The B+ tree is the map from keys to row numbers that BPTree.tla shows   *)
(* it to be.  A value is its type and the bytes memcpy takes.              *)
(***************************************************************************)
EXTENDS Arena, FiniteSets

CONSTANTS
  Schemas,     \* the schemas a table may have: sequences of [type, max_len]
  Offered(_),  \* the rows that callers of insert offer a table of a schema
  Ttls,        \* values of ttl_seconds_
  MaxRows,     \* bound on the rows of the table
  MaxTime      \* bound on the clock

Types == {"INT", "DECIMAL", "VARCHAR", "DATETIME"}
Byte == {n \in Nat : n < 256}
Uint16 == {n \in Nat : n < 65536}

ColumnDef == [type : Types, max_len : Uint16]

(* Value: an int32_t, a double, an int64_t or a string.                    *)
Value(type, bytes) == [type |-> type, bytes |-> bytes]
Values ==
  {v \in [type : Types, bytes : Seq(Byte)] :
     /\ v.type = "INT" => Len(v.bytes) = 4
     /\ v.type \in {"DECIMAL", "DATETIME"} => Len(v.bytes) = 8}

(* row_size_ has 32 bits and does not wrap around below 2^15 columns, and  *)
(* times stay in the range of Encode.                                      *)
ASSUME TableAssumption ==
  /\ Schemas # {} /\ Ttls \subseteq Nat /\ MaxRows \in Nat /\ MaxTime \in Nat \ {0}
  /\ \A s \in Schemas : s \in Seq(ColumnDef) /\ 0 < Len(s) /\ Len(s) < 32768
  /\ \A s \in Schemas : \A values \in Offered(s) : values \in Seq(Values)
  /\ \A t \in Ttls : MaxTime + t \in Uint16

VARIABLES
  schema, ttl,   \* schema_ and ttl_seconds_
  memory,        \* the bytes written so far: chunk and offset to byte
  rows,          \* rows_: the block of each row
  pk_index,      \* key to row number
  row_count,     \* row_count_
  now,           \* std::time
  inserted       \* history: values and expiry of each row

tableVars == <<schema, ttl, memory, rows, pk_index, row_count, now, inserted>>
vars == <<arenaVars, tableVars>>

(* A number below 2^16 in n bytes, the lowest byte first, and back; all    *)
(* larger numbers are one here.                                            *)
Encode(x, n) == [k \in 1..n |-> IF k = 1 THEN x % 256 ELSE IF k = 2 THEN x \div 256 ELSE 0]
Decode(bytes) ==
  IF \E k \in 3..Len(bytes) : bytes[k] # 0 THEN 65536 ELSE bytes[1] + 256 * bytes[2]

-----------------------------------------------------------------------------
(* Schema                                                                  *)

storage_size(col) ==
  CASE col.type = "INT" -> 4
    [] col.type = "VARCHAR" -> 2 + col.max_len
    [] col.type \in {"DECIMAL", "DATETIME"} -> 8

(* add_column: row_size_ after each column; the next one starts there.     *)
Ends(columns) ==
  LET end[i \in 0..Len(columns)] ==
        IF i = 0 THEN 0 ELSE end[i - 1] + storage_size(columns[i])
  IN  end
column_offset(i) == Ends(schema)[i - 1]
row_size == Ends(schema)[Len(schema)]

expiry_offset == row_size

(* Mutant: the flag is written into the last byte of the expiry.            *)
FlagInsideExpiry == row_size + 7

valid_offset == row_size + 8

total_row_size == row_size + 9

(* Mutant: the length of a VARCHAR is not checked.                          *)
ValidateTypesOnly(values) ==
  /\ Len(values) = Len(schema)
  /\ \A i \in 1..Len(schema) : values[i].type = schema[i].type

validate_row(values) ==
  /\ Len(values) = Len(schema)
  /\ \A i \in 1..Len(schema) :
       /\ values[i].type = schema[i].type
       /\ schema[i].type = "VARCHAR" => Len(values[i].bytes) <= schema[i].max_len

-----------------------------------------------------------------------------
(* Bytes of a row in the arena                                             *)

At(ptr, k) == <<ptr.chunk, ptr.start + k>>

(* The bytes of a value as write_row lays them out.                        *)
Stored(v) == IF v.type = "VARCHAR" THEN Encode(Len(v.bytes), 2) \o v.bytes ELSE v.bytes

(* memcpy of bytes to the offset `from` of a row.                          *)
Copied(mem, ptr, from, bytes) ==
  LET dest == {At(ptr, from + k - 1) : k \in 1..Len(bytes)} IN
  [a \in DOMAIN mem \cup dest |->
     IF a \in dest THEN bytes[a[2] - ptr.start - from + 1] ELSE mem[a]]

(* write_row: the columns from left to right, the expiry, the flag.        *)
write_row(mem, ptr, values, expiry) ==
  LET columns[i \in 0..Len(values)] ==
        IF i = 0 THEN mem
        ELSE Copied(columns[i - 1], ptr, column_offset(i), Stored(values[i]))
  IN  Copied(Copied(columns[Len(values)], ptr, expiry_offset, Encode(expiry, 8)),
             ptr, valid_offset, <<1>>)

Bytes(ptr, from, n) == [k \in 1..n |-> memory[At(ptr, from + k - 1)]]

read_value(ptr, i) ==
  Value(schema[i].type,
        IF schema[i].type = "VARCHAR"
          THEN Bytes(ptr, column_offset(i) + 2, Decode(Bytes(ptr, column_offset(i), 2)))
          ELSE Bytes(ptr, column_offset(i), storage_size(schema[i])))

read_row(ptr) == [i \in 1..Len(schema) |-> read_value(ptr, i)]

Flag(ptr) == memory[At(ptr, valid_offset)]
Expired(ptr) ==
  LET expiry == Decode(Bytes(ptr, expiry_offset, 8)) IN expiry > 0 /\ now > expiry
is_row_valid(ptr) == Flag(ptr) # 0 /\ ~Expired(ptr)

-----------------------------------------------------------------------------
(* Value: the order of two values of one type, numbers of small magnitude  *)
(* and strings byte by byte                                                *)
Less(v, w) ==
  IF v.type = "VARCHAR"
    THEN \E n \in 0..Len(v.bytes) :
           /\ n <= Len(w.bytes) /\ \A k \in 1..n : v.bytes[k] = w.bytes[k]
           /\ IF n = Len(v.bytes) THEN n < Len(w.bytes)
              ELSE n < Len(w.bytes) /\ v.bytes[n + 1] < w.bytes[n + 1]
    ELSE Decode(v.bytes) < Decode(w.bytes)

Ops == {"EQ", "NE", "LT", "GT", "LE", "GE"}
Holds(v, op, w) ==
  CASE op = "EQ" -> v = w
    [] op = "NE" -> v # w
    [] op = "LT" -> Less(v, w)
    [] op = "GT" -> Less(w, v)
    [] op = "LE" -> ~Less(w, v)
    [] op = "GE" -> ~Less(v, w)

Live == {i \in 1..Len(rows) : is_row_valid(rows[i])}

(* The numbers of the rows that scan_where returns: through the index for  *)
(* the key, by a scan for another column.                                  *)
index_range(op, v) == {pk_index[k] : k \in {k \in DOMAIN pk_index : Holds(k, op, v)}} \cap Live
Scanned(col, op, v) == {i \in Live : Holds(read_value(rows[i], col), op, v)}
scan_where(col, op, v) == IF col = 1 THEN index_range(op, v) ELSE Scanned(col, op, v)

-----------------------------------------------------------------------------
Init ==
  /\ ArenaInit
  /\ schema \in Schemas /\ ttl \in Ttls
  /\ memory = <<>> /\ rows = <<>> /\ pk_index = <<>>
  /\ row_count = 0 /\ now = 1 /\ inserted = <<>>

Allocate == AllocateHere(total_row_size) \/ AllocateInNewChunk(total_row_size)

(* The block that allocate has just returned.                              *)
NewBlock == CHOOSE b \in blocks' : b \notin blocks

(* Mutant: the index keeps the first row of a key.                          *)
KeepFirst(key) ==
  [k \in DOMAIN pk_index \cup {key} |->
     IF k \in DOMAIN pk_index THEN pk_index[k] ELSE Len(rows) + 1]

(* BPTree::insert replaces the row number of a key it has.                 *)
Indexed(key) ==
  [k \in DOMAIN pk_index \cup {key} |-> IF k = key THEN Len(rows) + 1 ELSE pk_index[k]]

insert(values) ==
  LET expiry == IF ttl > 0 THEN now + ttl ELSE 0 IN
  /\ Len(rows) < MaxRows
  /\ validate_row(values)
  /\ Allocate
  /\ memory' = write_row(memory, NewBlock, values, expiry)
  /\ rows' = Append(rows, NewBlock)
  /\ pk_index' = Indexed(values[1])
  /\ row_count' = row_count + 1
  /\ inserted' = Append(inserted, [values |-> values, expiry |-> expiry])
  /\ UNCHANGED <<schema, ttl, now>>

cleanup_expired ==
  LET stale == {i \in 1..Len(rows) : Flag(rows[i]) = 1 /\ Expired(rows[i])} IN
  /\ stale # {}
  /\ memory' = [a \in DOMAIN memory |->
                  IF \E i \in stale : a = At(rows[i], valid_offset) THEN 0 ELSE memory[a]]
  /\ row_count' = row_count - Cardinality(stale)
  /\ UNCHANGED <<arenaVars, schema, ttl, rows, pk_index, now, inserted>>

Tick ==
  /\ now < MaxTime
  /\ now' = now + 1
  /\ UNCHANGED <<arenaVars, schema, ttl, memory, rows, pk_index, row_count, inserted>>

Next ==
  \/ \E values \in Offered(schema) : insert(values)
  \/ cleanup_expired
  \/ Tick

Spec == Init /\ [][Next]_vars

-----------------------------------------------------------------------------
(* Every row reads back as it was inserted, column by column and for as    *)
(* long as the table exists: what insert accepts fits its place in the     *)
(* row, and no later row, sweep or column touches it (write_row,           *)
(* read_value, Schema::validate_row, the offsets of Schema).               *)
ReadBack ==
  \A i \in 1..Len(rows) : read_row(rows[i]) = inserted[i].values

(* A row is shown exactly until its expiry, whatever was written and swept *)
(* around it: the flag and the expiry behind the columns are its own.      *)
LiveInTime ==
  /\ \A i \in 1..Len(rows) :
       i \in Live <=> inserted[i].expiry = 0 \/ now <= inserted[i].expiry
  /\ row_count = Cardinality({i \in 1..Len(rows) : Flag(rows[i]) = 1})

(* A query by primary key and a scan with the same condition agree on the  *)
(* keys: the index returns only rows the scan returns, and for every row   *)
(* of the scan the row with that key that was inserted last (index_range,  *)
(* compare_value).  Rows with the same key are otherwise hidden, and stay  *)
(* so when the last one expires, as it does after the others.              *)
IndexAgrees ==
  \A op \in Ops : \A k \in DOMAIN pk_index :
    LET found == scan_where(1, op, k) IN
    /\ found \subseteq Scanned(1, op, k)
    /\ \A i \in Scanned(1, op, k) :
         \E j \in found : j >= i /\ inserted[j].values[1] = inserted[i].values[1]
=============================================================================
