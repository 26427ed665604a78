------------------------------ MODULE MCPipeline ------------------------------
(***************************************************************************)
(* Small snippets for the pipeline.  A result is passed on after two       *)
(* blocks (NUM_OF_BLOCKS = 2), raw_data holds two blocks of two bytes and  *)
(* a projected row is half as long as a row, or as long.                   *)
(***************************************************************************)
EXTENDS CsdPipeline, TLC

MCRows == 1 .. 6

MCRowLength == [r \in MCRows |-> 2]

MCProjectedRows == {<<"columns", r>> : r \in MCRows}

MCProjected == [r \in MCRows |-> <<"columns", r>>]

MCProjectedLength == [r \in MCProjectedRows |-> IF r[2] = 1 THEN 3 ELSE 2]

MCPassing == {1, 3, 4, 5}

MCBlocks == ({1} \X (1 .. 4)) \X (1 .. 4)

Block(rows) == [rows |-> rows, foreign |-> FALSE]

(* The rows of the table end in this block, keys of the next one follow.   *)
LastBlock(rows) == [rows |-> rows, foreign |-> TRUE]

BlockSnippet(work_id, type, filtering, block_list) ==
    [query_id |-> 1, work_id |-> work_id, type |-> type, filtering |-> filtering,
     block_list |-> block_list, sst_list |-> <<>>, csd_block_count |-> Len(block_list)]

SstSnippet(work_id, filtering, sst_list, csd_block_count) ==
    [query_id |-> 1, work_id |-> work_id, type |-> "SST_FILE_SCAN", filtering |-> filtering,
     block_list |-> <<>>, sst_list |-> sst_list, csd_block_count |-> csd_block_count]

(* A filtered full scan of four blocks, the last shared with the next      *)
(* table, beside an index scan, which is a stub.                           *)
BlockScans ==
    {BlockSnippet(1, "FULL_SCAN", TRUE, <<Block(<<1>>), Block(<<2>>), Block(<<3>>), LastBlock(<<5>>)>>),
     BlockSnippet(4, "INDEX_SCAN", FALSE, <<Block(<<4>>)>>)}

(* A filtered scan of two files whose first two rows fill raw_data, with a *)
(* block count that leaves a block for the last row, beside an index table *)
(* scan.                                                                   *)
SstScans ==
    {SstSnippet(3, TRUE, <<<<1, 2>>, <<3>>>>, 3),
     BlockSnippet(2, "INDEX_TABLE_SCAN", FALSE, <<Block(<<4>>)>>)}

MCWorkloads == {BlockScans, SstScans}
MCSnippets == BlockScans \cup SstScans

(* They are what the theorems of PipelineProofs are about.                 *)
ASSUME WorkloadsAreRegular == Workloads = MCWorkloads => RegularSnippets /\ RowsFit

(* The same two files with a block count that one full buffer uses up.     *)
SstScanUsedUp == {SstSnippet(1, TRUE, <<<<1, 2>>, <<3>>>>, 2)}

UsedUpOnly == {SstScanUsedUp}

(* An index table of two blocks, the second shared with the next table.    *)
IndexTableEnds ==
    {BlockSnippet(1, "INDEX_TABLE_SCAN", FALSE, <<Block(<<1>>), LastBlock(<<3>>)>>)}

IndexTableOnly == {IndexTableEnds}
=============================================================================
