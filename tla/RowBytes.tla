------------------------------- MODULE RowBytes -------------------------------
(***************************************************************************)
(* How the bytes of a row are read and written: parse_snippet lays out the *)
(* columns with the primary key first, calcul_column_offset finds them in  *)
(* a row with VARCHARs, get_column_value reads one and projection_raw_data *)
(* writes columns and computed decimals to the row of the result.  A byte  *)
(* is a number below Radix; a decimal has two bytes for the integer where  *)
(* the code has six, and one for a fraction below Base.                    *)
(***************************************************************************)
EXTENDS Integers, Sequences, SequencesExt

CONSTANTS Radix,       \* 256
          Base,        \* 100
          Tables,      \* lists of columns
          Values(_),   \* the values of a column: letters, or <<hundredths>>
          Numbers      \* computed decimals, in hundredths

VARIABLES columns,     \* column_list of the request
          values,      \* history: what the row was made of
          schema,      \* column_offset, _name, _length, _type of schema_info
          row, column_offset_list, pc,
          projection,  \* what is still to be projected
          dest

vars == <<columns, values, schema, row, column_offset_list, pc, projection, dest>>

-----------------------------------------------------------------------------
(* Mutant: the columns stay in the order of the table.                     *)
Laid_AsListed(list) ==
    LET add(acc, c) == Append(acc, Last(acc) + c.length)
    IN  [column |-> list, column_offset |-> FoldLeft(add, <<0>>, list)]

(* parse_snippet: the columns of the primary key, then the others.         *)
Laid(list) ==
    LET primary(c) == c.primary
        rest(c) == ~ c.primary
        ordered == SelectSeq(list, primary) \o SelectSeq(list, rest)
        add(acc, c) == Append(acc, Last(acc) + c.length)
    IN  [column |-> ordered, column_offset |-> FoldLeft(add, <<0>>, ordered)]

Half == Radix \div 2
Not(b) == Radix - 1 - b
FlipSign(bytes) == [bytes EXCEPT ![1] = (@ + Half) % Radix]
NotAll(bytes) == [i \in DOMAIN bytes |-> Not(bytes[i])]
Abs(k) == IF k < 0 THEN -k ELSE k
Plain(k) == FlipSign(<<(k \div Base) \div Radix, (k \div Base) % Radix, k % Base>>)

(* How the storage engine stores a row: primary key first, a VARCHAR with  *)
(* one length byte if at most Radix - 1 bytes are declared and two else, a *)
(* decimal with its sign bit inverted, and complemented if negative.       *)
StoredDecimal(number) == IF number < 0 THEN NotAll(Plain(Abs(number))) ELSE Plain(number)

Stored(c, v) ==
    CASE c.type = "STRING" -> v
      [] c.type = "NEWDECIMAL" -> StoredDecimal(v[1])
      [] c.type = "VARSTRING" /\ c.length < Radix -> <<Len(v)>> \o v
      [] OTHER -> <<Len(v) % Radix, Len(v) \div Radix>> \o v

Indices(list, primary) == SelectSeq([i \in DOMAIN list |-> i], LAMBDA i : list[i].primary = primary)
KeyFirst(list) == Indices(list, TRUE) \o Indices(list, FALSE)

StoredRow(list, vals) ==
    LET add(bytes, i) == bytes \o Stored(list[i], vals[i]) IN FoldLeft(add, <<>>, KeyFirst(list))

Init ==
    /\ columns \in Tables
    /\ values \in {vs \in [DOMAIN columns -> UNION {Values(columns[i]) : i \in DOMAIN columns}] :
                       \A i \in DOMAIN columns : vs[i] \in Values(columns[i])}
    /\ schema = [column |-> <<>>, column_offset |-> <<>>]
    /\ row = StoredRow(columns, values) /\ column_offset_list = <<>>
    /\ pc = "parse"
    /\ projection \in [1 .. 2 -> {[column |-> i, number |-> 0] : i \in DOMAIN columns}
                                  \cup {[column |-> 0, number |-> n] : n \in Numbers}]
    /\ dest = <<>>

Parse ==
    /\ pc = "parse"
    /\ schema' = Laid(columns)
    /\ column_offset_list' = schema'.column_offset
    /\ pc' = IF \E i \in DOMAIN columns : columns[i].type = "VARSTRING" THEN "offsets" ELSE "read"
    /\ UNCHANGED <<columns, values, row, projection, dest>>

(* The tune of a VARCHAR at offset: what it has less than declared.        *)
Shift(offset, length) ==
    IF length < Radix THEN row[offset + 1] + 1 - length
    ELSE row[offset + 1] + Radix * row[offset + 2] + 2 - length

(* calcul_column_offset, and the length of the row that its callers add.   *)
calcul_column_offset ==
    /\ pc = "offsets"
    /\ LET place(acc, i) ==
               LET c == schema.column[i]
                   new_offset == schema.column_offset[i] + acc.tune
               IN  [list |-> Append(acc.list, new_offset),
                    tune |-> IF c.type = "VARSTRING" THEN acc.tune + Shift(new_offset, c.length) ELSE acc.tune]
           placed == FoldLeft(place, [list |-> <<>>, tune |-> 0], [i \in DOMAIN schema.column |-> i])
       IN  column_offset_list' = Append(placed.list, Len(row))
    /\ pc' = "read"
    /\ UNCHANGED <<columns, values, schema, row, projection, dest>>

-----------------------------------------------------------------------------
(* get_column_value and the operations on the bytes of column k.           *)

ColumnBytes(k) == SubSeq(row, column_offset_list[k] + 1, column_offset_list[k + 1])

(* Strings; the code takes the number of length bytes from the length of   *)
(* the value in the row.  Trimming is left out: no value ends in blanks.   *)
StringValue(k) ==
    LET bytes == ColumnBytes(k)
        tune == IF schema.column[k].type = "STRING" THEN 0
                ELSE IF Len(bytes) < Radix - 1 THEN 1 ELSE 2
    IN  SubSeq(bytes, tune + 1, Len(bytes))

(* SUBSTRING(column, from, to): to is the number of letters.               *)
calcul_substring_operation(k, from, to) ==
    SubSeq(row, column_offset_list[k] + from, column_offset_list[k] + from + to - 1)

DecimalValue(bytes) ==
    LET negative == bytes[1] < Half
        plain == FlipSign(IF negative THEN NotAll(bytes) ELSE bytes)
        number == (plain[1] * Radix + plain[2]) * Base + plain[3]
    IN  IF negative THEN -number ELSE number

(* convert_value_to_char: for a negative number the code complements the   *)
(* bytes at the beginning of dest, before the number is written.           *)
convert_value_to_char(number) ==
    [i \in DOMAIN dest |-> IF number < 0 /\ i <= 3 THEN Not(dest[i]) ELSE dest[i]] \o Plain(Abs(number))

(* Column c of the table is the k-th of the schema, as column_index_map    *)
(* says.                                                                   *)
Place(c) == CHOOSE k \in DOMAIN columns : KeyFirst(columns)[k] = c

(* Mutant: each column is written over the one before.                     *)
projection_raw_data_Over ==
    /\ pc = "read" /\ projection # <<>>
    /\ LET e == Head(projection)
       IN  dest' = IF e.column # 0 THEN ColumnBytes(Place(e.column)) ELSE convert_value_to_char(e.number)
    /\ projection' = Tail(projection)
    /\ UNCHANGED <<columns, values, schema, row, column_offset_list, pc>>

(* The next column of the result: the bytes of the row, or a number.       *)
projection_raw_data ==
    /\ pc = "read" /\ projection # <<>>
    /\ LET e == Head(projection)
       IN  dest' = IF e.column # 0 THEN dest \o ColumnBytes(Place(e.column)) ELSE convert_value_to_char(e.number)
    /\ projection' = Tail(projection)
    /\ UNCHANGED <<columns, values, schema, row, column_offset_list, pc>>

Next == Parse \/ calcul_column_offset \/ projection_raw_data

Spec == Init /\ [][Next]_vars

-----------------------------------------------------------------------------

Letters(c) == columns[c].type # "NEWDECIMAL"

(* The columns of a row are found where the storage engine has put them,   *)
(* with the key first and after any VARCHARs.                              *)
ColumnsAreFound ==
    pc = "read" => \A c \in DOMAIN columns : ColumnBytes(Place(c)) = Stored(columns[c], values[c])

(* A column is read as the letters or the number that it holds.            *)
ValuesAreRead ==
    pc = "read" => \A c \in DOMAIN columns :
        values[c] = IF Letters(c) THEN StringValue(Place(c)) ELSE <<DecimalValue(ColumnBytes(Place(c)))>>

(* SUBSTRING takes the letters of a CHAR column from a position on (of a   *)
(* VARCHAR it would count the length byte as a letter).                    *)
SubstringsAreTaken ==
    pc = "read" => \A c \in {d \in DOMAIN columns : columns[d].type = "STRING"} :
        \A from \in 1 .. Len(values[c]) : \A to \in 1 .. Len(values[c]) - from + 1 :
            calcul_substring_operation(Place(c), from, to) = SubSeq(values[c], from, from + to - 1)

(* The bytes written last are those of the column or number projected, and *)
(* the ones before stay as they are.                                       *)
ProjectsAsStored ==
    projection' # projection =>
        LET e == Head(projection)
        IN  dest' = dest \o (IF e.column # 0 THEN Stored(columns[e.column], values[e.column])
                             ELSE StoredDecimal(e.number))
=============================================================================
