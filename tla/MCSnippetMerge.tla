---------------------------- MODULE MCSnippetMerge ----------------------------
(***************************************************************************)
(* Two snippets whose results reach two projection threads: "A" has three  *)
(* results of one or two blocks, one of them without rows, "B" has one.    *)
(* A merge buffer has room for two projected rows.                         *)
(***************************************************************************)
EXTENDS SnippetMerge, TLC

SnippetA == [query_id |-> 1, work_id |-> 1, csd_block_count |-> 4]

SnippetB == [query_id |-> 1, work_id |-> 2, csd_block_count |-> 1]

MCSnippets == {SnippetA, SnippetB}

MCBlocks == 1 .. 5

MCRows == 1 .. 5

MCRowLength == [r \in MCRows |-> 2]

MCProjectedRows == {<<"columns", r>> : r \in MCRows}

MCProjected == [r \in MCRows |-> <<"columns", r>>]

MCProjectedLength == [r \in MCProjectedRows |-> 1]

MCBlocksOf == [s \in MCSnippets |-> IF s = SnippetA THEN 1 .. 4 ELSE {5}]

Delivered(s, rows, blocks) ==
    [snippet |-> s, rows |-> rows, data_length |-> 2 * Len(rows),
     current_block_count |-> Cardinality(blocks), scanned_row_count |-> Len(rows),
     filtered_row_count |-> Len(rows), blocks |-> blocks]

MCResults ==
    {Delivered(SnippetA, <<1, 2>>, {1, 2}), Delivered(SnippetA, <<3>>, {3}),
     Delivered(SnippetA, <<>>, {4}), Delivered(SnippetB, <<4, 5>>, {5})}

Symmetry == Permutations(Projectors)
=============================================================================
