------------------------------- MODULE CsdData -------------------------------
(***************************************************************************)
(* include/data_structure.h: the snippet and the CsdResult that travel     *)
(* between the stages.                                                     *)
(*                                                                         *)
(* A snippet is a record.  Every stage reads query_id, work_id and         *)
(* csd_block_count; Scan reads the rest.  The bytes of raw_data and the    *)
(* offsets in row_offset are abstracted to the sequence of rows they       *)
(* delimit, so row_count is the length of rows; data_length stays, because *)
(* the code tests it against BUFFER_SIZE.                                  *)
(*                                                                         *)
(* One field is not in the code: blocks, the set of the snippet's blocks   *)
(* a result accounts for.  No action reads it; it gives the bare number    *)
(* current_block_count a meaning the properties can state.                 *)
(***************************************************************************)
EXTENDS Integers, Sequences

CONSTANTS Snippets,         \* the snippets the storage engine sends
          Blocks,           \* the blocks the snippets' scans account for
          Rows,             \* the table rows the snippets' blocks hold
          RowLength,        \* bytes of a row as Scan and Filter store it
          ProjectedRows,    \* rows cut down to the columns a query selects
          Projected,        \* the projected row of each row
          ProjectedLength,  \* bytes of a projected row
          BUFFER_SIZE,      \* bytes of Data::raw_data
          NoSnippet         \* the null snippet of a default CsdResult

ASSUME CsdDataAssumption ==
    /\ \A s \in Snippets : s.csd_block_count \in Int
    /\ RowLength \in [Rows -> Nat]
    /\ Projected \in [Rows -> ProjectedRows]
    /\ ProjectedLength \in [ProjectedRows -> Nat]
    /\ BUFFER_SIZE \in Nat
    /\ NoSnippet \notin Snippets

(* utils.h: "query_id|work_id"                                             *)
make_map_key(s) == <<s.query_id, s.work_id>>

Keys == {make_map_key(s) : s \in Snippets}

(* CsdResult(snippet, scanned_row_count, filtered_row_count,               *)
(* current_block_count)                                                    *)
CsdResult(s, scanned, filtered, count, blocks) ==
    [snippet |-> s, rows |-> <<>>, data_length |-> 0, current_block_count |-> count,
     scanned_row_count |-> scanned, filtered_row_count |-> filtered, blocks |-> blocks]

NewResult(s) == CsdResult(s, 0, 0, 0, {})

(* Mutant: clear leaves the counts alone.                                  *)
clear_KeepsCounts(result) == [result EXCEPT !.rows = <<>>, !.data_length = 0]

(* Mutant: clear resets the length and leaves the rows.                    *)
clear_KeepsRows(result) == [NewResult(result.snippet) EXCEPT !.rows = result.rows]

(* Data::clear() keeps the snippet and forgets everything else.            *)
clear(result) == NewResult(result.snippet)

(* A row of the given length goes to the end of raw_data.                  *)
AddRow(result, row, length) ==
    [result EXCEPT !.rows = Append(@, row), !.data_length = @ + length]

(* What a loop over a sequence makes of its initial value.                 *)
Fold(Op(_, _), base, seq) ==
    LET after[n \in 0 .. Len(seq)] == IF n = 0 THEN base ELSE Op(after[n - 1], seq[n])
    IN  after[Len(seq)]

Concat(seqs) == Fold(LAMBDA done, seq : done \o seq, <<>>, seqs)

(* The results of the given snippets with rows from the given set.         *)
CsdResults(SnippetSet, RowSet) ==
    [snippet : SnippetSet, rows : Seq(RowSet), data_length : Nat, current_block_count : Int,
     scanned_row_count : Nat, filtered_row_count : Nat, blocks : SUBSET Blocks]
=============================================================================
