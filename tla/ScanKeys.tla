------------------------------- MODULE ScanKeys -------------------------------
(***************************************************************************)
(* Which rows a scan finds by their keys.  A key in a block or file is the *)
(* number of the table and the columns of the primary key, as bytes whose  *)
(* order is the order of the rows.  An INT32 has two bytes below Radix     *)
(* here, and Modulus is Radix^2.                                           *)
(***************************************************************************)
EXTENDS Integers, Sequences, FiniteSets, SequencesExt

CONSTANTS Radix,       \* 256
          TableNumbers, Pks,
          MaxRows      \* bound: rows in the file

VARIABLES file,        \* the keys in the blocks or the SST file
          snippet,     \* table_index_number and how to scan
          iter,        \* the iterator: its key, <<>> when it is not Valid()
          rows,        \* the keys as they are put in front of the values
          pc

vars == <<file, snippet, iter, rows, pc>>

Modulus == Radix * Radix
Half == Radix \div 2

LittleEndian(n) == <<(n % Modulus) % Radix, (n % Modulus) \div Radix>>
FlipSign(bytes) == [bytes EXCEPT ![1] = (@ + Half) % Radix]

(* The int at an address.                                                  *)
Int32(bytes) ==
    LET n == bytes[1] + Radix * bytes[2] IN IF n < Modulus \div 2 THEN n ELSE n - Modulus

(* How the storage engine makes a key: big endian, the sign bit inverted.  *)
StoredKey(table, pk) ==
    FoldLeft(LAMBDA bytes, n : bytes \o FlipSign(Reverse(LittleEndian(n))), Reverse(LittleEndian(table)), pk)

(* The order of keys: bytewise, a prefix first.                            *)
Precedes(k, l) ==
    \/ IsStrictPrefix(k, l)
    \/ \E i \in DOMAIN k \cap DOMAIN l : k[i] < l[i] /\ \A j \in 1 .. i - 1 : k[j] = l[j]

(* The iterator: the first key in a set of keys.                           *)
FirstKey(keys) == IF keys = {} THEN <<>> ELSE CHOOSE k \in keys : \A l \in keys : l = k \/ Precedes(k, l)

-----------------------------------------------------------------------------

(* Mutant: the number is not turned round.                                 *)
generate_seek_key_LittleEndian(number) == LittleEndian(number)

generate_seek_key(number) == Reverse(LittleEndian(number))

keti_get_table_index_number(k) == Int32(Reverse(SubSeq(k, 1, 2)))

(* The columns of the primary key, each at its offset behind the table     *)
(* number, back in the byte order of the machine.                          *)
convert_key_to_value(k) ==
    LET column(p) == Reverse(FlipSign(SubSeq(k, 2 * p + 1, 2 * p + 2)))
    IN  FlattenSeq([p \in 1 .. Len(k) \div 2 - 1 |-> column(p)])

(* The keys that the iterator shows: all, or those within the bounds.      *)
Shown ==
    LET lower == generate_seek_key(snippet.table)
        upper == generate_seek_key(snippet.table + 1)
    IN  IF snippet.scan = "block" THEN file
        ELSE {k \in file : ~ Precedes(k, lower) /\ Precedes(k, upper)}

Init ==
    /\ file \in {{StoredKey(r[1], r[2]) : r \in s} :
                     s \in {t \in SUBSET (TableNumbers \X Pks) : Cardinality(t) <= MaxRows}}
    /\ snippet \in [table : TableNumbers, scan : {"block", "file"}]
    /\ iter = <<>> /\ rows = <<>> /\ pc = "seek"

Seek ==
    /\ pc = "seek"
    /\ iter' = FirstKey({k \in Shown : ~ Precedes(k, generate_seek_key(snippet.table))})
    /\ pc' = "read"
    /\ UNCHANGED <<file, snippet, rows>>

(* A block scan stops at the first key of another table.                   *)
Foreign == iter # <<>> /\ snippet.scan = "block" /\ keti_get_table_index_number(iter) # snippet.table

ReadRow ==
    /\ pc = "read" /\ iter # <<>> /\ ~ Foreign
    /\ rows' = Append(rows, convert_key_to_value(iter))
    /\ iter' = FirstKey({k \in Shown : Precedes(iter, k)})
    /\ UNCHANGED <<file, snippet, pc>>

ScanEnds ==
    /\ pc = "read" /\ (iter = <<>> \/ Foreign)
    /\ pc' = "end"
    /\ UNCHANGED <<file, snippet, iter, rows>>

Next == Seek \/ ReadRow \/ ScanEnds

Spec == Init /\ [][Next]_vars

-----------------------------------------------------------------------------

Columns(bytes) == [p \in 1 .. Len(bytes) \div 2 |-> Int32(SubSeq(bytes, 2 * p - 1, 2 * p))]
Found == {Columns(rows[i]) : i \in DOMAIN rows}

(* Both kinds of scan put out every row of the table and no row of another *)
(* one, with the primary key that the row was stored under, negative       *)
(* numbers and table numbers next to a byte boundary included.             *)
ScansTheTable ==
    pc = "end" => Found = {pk \in Pks : StoredKey(snippet.table, pk) \in file} /\ Cardinality(Found) = Len(rows)

(* The rows come in the order of their primary keys, as numbers.           *)
KeysAscend ==
    \A i \in 2 .. Len(rows) :
        LET a == Columns(rows[i - 1]) b == Columns(rows[i])
        IN  \E p \in DOMAIN a : a[p] < b[p] /\ \A q \in 1 .. p - 1 : a[q] = b[q]
=============================================================================
