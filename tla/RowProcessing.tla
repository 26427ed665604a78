---------------------------- MODULE RowProcessing ----------------------------
(***************************************************************************)
(* What a thread computes on data of its own: the keys a scan selects, the *)
(* columns of a row, the value of an operand, the WHERE clause, and on the *)
(* Tmax side the text of a filter and a block filtered with it.  The       *)
(* computations share nothing, so a behaviour is one of them, work says    *)
(* which, on any of its inputs.  Variables of the others are Unused.       *)
(***************************************************************************)
EXTENDS Integers, Sequences

CONSTANTS Radix, Base, Unused,
          TableNumbers, Pks, MaxRows,        \* ScanKeys
          Tables, Values(_), Numbers,        \* RowBytes
          Operands, Junk,                    \* RowValues
          Chains, Percent,                   \* WhereClause
          Bytes, MaxBytes, IntBits,          \* Base64
          RES_CHUNK_SIZE, Garbage, Blocks, FilterInfos, Blank   \* TmaxFilter

(* Bytes have a sign bit, a fraction is a positive char, and keys are ints.*)
ASSUME RowAssumption ==
    /\ Radix % 2 = 0
    /\ Base <= Radix \div 2
    /\ Pks \subseteq Seq(-(Radix * (Radix \div 2)) .. Radix * (Radix \div 2) - 1)

VARIABLES work, pc, iter, index, passed,
          file, snippet, rows,
          columns, values, schema, row, column_offset_list, projection, dest,
          operand, junk, sliced_operand, result,
          filtering, running,
          bytes, input, pos, buffer, bits_collected, output, thrown,
          blk, filter_info, rowno, column_vals, chunk_list

K == INSTANCE ScanKeys
B == INSTANCE RowBytes
V == INSTANCE RowValues
W == INSTANCE WhereClause
D == INSTANCE Base64
T == INSTANCE TmaxFilter

keyVars == <<file, snippet, rows>>
byteVars == <<columns, values, schema, row, column_offset_list, projection, dest>>
valueVars == <<operand, junk, sliced_operand, result>>
whereVars == <<filtering, running>>
textVars == <<bytes, input, pos, buffer, bits_collected, output, thrown>>
blockVars == <<blk, filter_info, rowno, column_vals, chunk_list>>
vars == <<work, pc, iter, index, passed, keyVars, byteVars, valueVars, whereVars, textVars, blockVars>>

NoKeys == file = Unused /\ snippet = Unused /\ rows = Unused
NoBytes == /\ columns = Unused /\ values = Unused /\ schema = Unused /\ row = Unused
           /\ column_offset_list = Unused /\ projection = Unused /\ dest = Unused
NoValues == operand = Unused /\ junk = Unused /\ sliced_operand = Unused /\ result = Unused
NoWhere == filtering = Unused /\ running = Unused
NoText == /\ bytes = Unused /\ input = Unused /\ pos = Unused /\ buffer = Unused
          /\ bits_collected = Unused /\ output = Unused /\ thrown = Unused
NoBlock == blk = Unused /\ filter_info = Unused /\ rowno = Unused /\ column_vals = Unused /\ chunk_list = Unused

Init ==
    \/ /\ work = "keys" /\ K!Init /\ index = Unused /\ passed = Unused
       /\ NoBytes /\ NoValues /\ NoWhere /\ NoText /\ NoBlock
    \/ /\ work = "bytes" /\ B!Init /\ iter = Unused /\ index = Unused /\ passed = Unused
       /\ NoKeys /\ NoValues /\ NoWhere /\ NoText /\ NoBlock
    \/ /\ work = "values" /\ V!Init
       /\ NoKeys /\ NoBytes /\ NoWhere /\ NoText /\ NoBlock
    \/ /\ work = "where" /\ W!Init /\ pc = Unused /\ iter = Unused
       /\ NoKeys /\ NoBytes /\ NoValues /\ NoText /\ NoBlock
    \/ /\ work = "text" /\ D!Init /\ pc = Unused /\ iter = Unused /\ index = Unused /\ passed = Unused
       /\ NoKeys /\ NoBytes /\ NoValues /\ NoWhere /\ NoBlock
    \/ /\ work = "block" /\ T!Init /\ pc = Unused /\ iter = Unused /\ index = Unused /\ passed = Unused
       /\ NoKeys /\ NoBytes /\ NoValues /\ NoWhere /\ NoText

Keys == /\ work = "keys" /\ K!Next
        /\ UNCHANGED <<work, index, passed, byteVars, valueVars, whereVars, textVars, blockVars>>

Columns == /\ work = "bytes" /\ B!Next
           /\ UNCHANGED <<work, iter, index, passed, keyVars, valueVars, whereVars, textVars, blockVars>>

Operand == /\ work = "values" /\ V!Next
           /\ UNCHANGED <<work, keyVars, byteVars, whereVars, textVars, blockVars>>

Clause == /\ work = "where" /\ W!Next
          /\ UNCHANGED <<work, pc, iter, keyVars, byteVars, valueVars, textVars, blockVars>>

Text == /\ work = "text" /\ D!Next
        /\ UNCHANGED <<work, pc, iter, index, passed, keyVars, byteVars, valueVars, whereVars, blockVars>>

Block == /\ work = "block" /\ T!Next
         /\ UNCHANGED <<work, pc, iter, index, passed, keyVars, byteVars, valueVars, whereVars, textVars>>

Next == Keys \/ Columns \/ Operand \/ Clause \/ Text \/ Block

Spec == Init /\ [][Next]_vars

-----------------------------------------------------------------------------
(* The properties of the computations.                                     *)

(* Both kinds of scan put out every row of the table under its own primary *)
(* key, in the order of the keys as numbers, and no row of another table.  *)
ScansTheTable == work = "keys" => K!ScansTheTable /\ K!KeysAscend

(* The columns of a row are found where the storage engine has put them,   *)
(* whatever VARCHARs come before, a column is read as the letters or the   *)
(* number that it holds, and SUBSTRING of a CHAR takes its letters.        *)
ColumnsAreRead == work = "bytes" => B!ColumnsAreFound /\ B!ValuesAreRead /\ B!SubstringsAreTaken

(* projection_raw_data adds the column or number as the storage engine     *)
(* would store it, and leaves the bytes before it alone.                   *)
ProjectsAsStored == [][work = "bytes" => B!ProjectsAsStored]_vars

(* An operand has the value it stands for: the number of an expression,    *)
(* the part of a date, the first WHEN of a CASE that holds, although       *)
(* conditions of an earlier WHEN are left in sliced_operand.               *)
OperandIsExact == work = "values" => V!ExpressionIsExact /\ V!CaseTakesTheFirst /\ V!ExtractsThePart

(* A row passes the filter exactly when the WHERE clause holds for it.     *)
FiltersByWhere == work = "where" => W!FiltersByWhere

(* Base64Decode gives back the bytes of the filter, although its           *)
(* accumulator overflows.                                                  *)
DecodesTheFilter == work = "text" => D!DecodesTheFilter

(* The result chunks of a Tmax block hold the rows that satisfy the where  *)
(* clause, in order, whatever an earlier row left in the context, and none *)
(* is copied past the end of a chunk.                                      *)
BlockIsFiltered == work = "block" => T!FilteredExactly /\ T!ChunksHoldTheirBytes
=============================================================================
