-------------------------------- MODULE Scan ---------------------------------
(***************************************************************************)
(* scan.cc: a scan thread takes a snippet, reads its blocks or files and   *)
(* cuts the rows into results.  Each result carries the number of blocks   *)
(* it accounts for; Projection adds these numbers up to find the end of    *)
(* the snippet.                                                            *)
(*                                                                         *)
(* Of a snippet, Scan reads type, filtering (whether the query has a       *)
(* filter), block_list and sst_list.  block_list is the sequence of reads  *)
(* the two nested loops of the code make: one per length for an entry with *)
(* one offset, one for an entry with several.  A block is the rows that    *)
(* the iterator yields, and whether it then meets a key with another table *)
(* index number.  An element of sst_list is the rows of the file within    *)
(* the table's bounds.  The keys' bytes are abstracted.                    *)
(***************************************************************************)
EXTENDS CsdData

CONSTANTS Scanners,       \* the threads that run scan_worker
          NUM_OF_BLOCKS   \* blocks after which a result is passed on

VARIABLES scan_queue_,        \* snippets to scan, a WorkQueue
          filter_queue_,      \* results to filter, a WorkQueue
          projection_queue_,  \* results to project, a WorkQueue
          Scanned_Row_Count,  \* the counter of the monitoring manager
          scan_pc,            \* the scan function each thread is in
          scan_result,        \* the result each thread is filling
          left_block_count,   \* the local of the scan functions
          position            \* index of the next block, file row to read

scanVars == <<Scanned_Row_Count, scan_pc, scan_result, left_block_count, position>>

snippet(t) == scan_result[t].snippet

ScanInit ==
    /\ Scanned_Row_Count = 0
    /\ scan_pc = [t \in Scanners |-> "pop"]
    /\ scan_result = [t \in Scanners |-> NewResult(NoSnippet)]
    /\ left_block_count = [t \in Scanners |-> 0]
    /\ position = [t \in Scanners |-> 1]

(* The blocks by which left_block_count goes down from one value to        *)
(* another.                                                                *)
Accounted(s, before, after) ==
    {<<make_map_key(s), i>> : i \in (s.csd_block_count - before + 1) .. (s.csd_block_count - after)}

(* The rows the iterator yields go to the end of raw_data, unchecked.      *)
AddScanned(r, row) ==
    [AddRow(r, row, RowLength[row]) EXCEPT !.scanned_row_count = @ + 1]

(* A result without rows, or of a query without a filter, goes past the    *)
(* filter stage.                                                           *)
enqueue_scan_result(r) ==
    IF r.rows = <<>> \/ ~ r.snippet.filtering
    THEN /\ projection_queue_' = Append(projection_queue_,
                                        [r EXCEPT !.filtered_row_count = r.scanned_row_count])
         /\ UNCHANGED filter_queue_
    ELSE /\ filter_queue_' = Append(filter_queue_, r)
         /\ UNCHANGED projection_queue_
-----------------------------------------------------------------------------
(* A scan function returns to the loop of scan_worker: its locals are gone.*)
ScanReturns(t) ==
    /\ scan_pc' = [scan_pc EXCEPT ![t] = "pop"]
    /\ scan_result' = [scan_result EXCEPT ![t] = NewResult(NoSnippet)]
    /\ position' = [position EXCEPT ![t] = 1]

(* wait_and_pop and the dispatch on the snippet's type.  An index scan     *)
(* loops over seek_key, which parse_snippet never fills, and an unknown    *)
(* type is only logged: the thread returns for the next snippet.           *)
scan_worker(t) ==
    /\ scan_pc[t] = "pop"
    /\ scan_queue_ # <<>>
    /\ scan_queue_' = Tail(scan_queue_)
    /\ LET s == Head(scan_queue_)
       IN  IF s.type \in {"FULL_SCAN", "INDEX_TABLE_SCAN", "SST_FILE_SCAN"}
           THEN /\ scan_pc' = [scan_pc EXCEPT ![t] = s.type]
                /\ scan_result' = [scan_result EXCEPT ![t] = NewResult(s)]
                /\ left_block_count' = [left_block_count EXCEPT ![t] = s.csd_block_count]
           ELSE UNCHANGED <<scan_pc, scan_result, left_block_count>>
    /\ UNCHANGED <<filter_queue_, projection_queue_, Scanned_Row_Count, position>>

(* Mutant: a result is passed on one block late.                           *)
BatchComplete_OneLate(count, left) == count > NUM_OF_BLOCKS \/ left = 0

(* current_block_count == NUM_OF_BLOCKS || left_block_count == 0           *)
BatchComplete(count, left) == count = NUM_OF_BLOCKS \/ left = 0

(* One call of read_data_block or read_index_block.  A key of another      *)
(* table ends the read and accounts for all the blocks that are left; the  *)
(* caller's loop over block_list goes on all the same.  The two functions  *)
(* differ in the current_block_count they then give to the result.         *)
ReadBlock(t, countAtForeignKey) ==
    /\ position[t] <= Len(snippet(t).block_list)
    /\ LET block == snippet(t).block_list[position[t]]
           left  == left_block_count[t]
           after == IF block.foreign THEN 0 ELSE left - 1
           read  == [Fold(AddScanned, scan_result[t], block.rows) EXCEPT
                        !.current_block_count = IF block.foreign THEN countAtForeignKey ELSE @ + 1,
                        !.blocks = @ \cup Accounted(snippet(t), left, after)]
       IN  /\ left_block_count' = [left_block_count EXCEPT ![t] = after]
           /\ IF block.foreign \/ BatchComplete(read.current_block_count, after)
              THEN /\ enqueue_scan_result(read)
                   /\ scan_result' = [scan_result EXCEPT ![t] = clear(read)]
              ELSE /\ scan_result' = [scan_result EXCEPT ![t] = read]
                   /\ UNCHANGED <<filter_queue_, projection_queue_>>
    /\ position' = [position EXCEPT ![t] = @ + 1]
    /\ UNCHANGED <<scan_queue_, Scanned_Row_Count, scan_pc>>

(* Mutant: as read_index_block does, the blocks left replace the count.    *)
read_data_block_ForgetsCount(t) ==
    /\ scan_pc[t] = "FULL_SCAN"
    /\ ReadBlock(t, left_block_count[t])

read_data_block(t) ==
    /\ scan_pc[t] = "FULL_SCAN"
    /\ ReadBlock(t, scan_result[t].current_block_count + left_block_count[t])

read_index_block(t) ==
    /\ scan_pc[t] = "INDEX_TABLE_SCAN"
    /\ ReadBlock(t, left_block_count[t])

(* data_block_full_scan and index_block_scan return after the last block;  *)
(* what scan_result still holds is dropped.                                *)
EndOfBlocks(t) ==
    /\ scan_pc[t] \in {"FULL_SCAN", "INDEX_TABLE_SCAN"}
    /\ position[t] > Len(snippet(t).block_list)
    /\ ScanReturns(t)
    /\ left_block_count' = [left_block_count EXCEPT ![t] = 0]
    /\ UNCHANGED <<scan_queue_, filter_queue_, projection_queue_, Scanned_Row_Count>>
-----------------------------------------------------------------------------
(* sst_file_full_scan: the rows of all files, one after the other.         *)
FileRows(t) == Concat(snippet(t).sst_list)

(* scan_result is passed on with the given number of further blocks, and   *)
(* its rows are reported to the monitoring manager.                        *)
PassOn(t, count) ==
    /\ enqueue_scan_result([scan_result[t] EXCEPT
          !.current_block_count = @ + count,
          !.blocks = @ \cup Accounted(snippet(t), left_block_count[t], left_block_count[t] - count)])
    /\ Scanned_Row_Count' = Scanned_Row_Count + Len(scan_result[t].rows)
    /\ left_block_count' = [left_block_count EXCEPT ![t] = @ - count]

(* One row.  A full buffer counts as NUM_OF_BLOCKS blocks (the literal 100 *)
(* in the code), whatever was read.                                        *)
sst_file_full_scan(t) ==
    /\ scan_pc[t] = "SST_FILE_SCAN"
    /\ position[t] <= Len(FileRows(t))
    /\ LET row  == FileRows(t)[position[t]]
           full == scan_result[t].data_length + RowLength[row] > BUFFER_SIZE
       IN  /\ scan_result' = [scan_result EXCEPT ![t] =
                                 AddScanned(IF full THEN clear(@) ELSE @, row)]
           /\ IF full
              THEN PassOn(t, NUM_OF_BLOCKS)
              ELSE UNCHANGED <<filter_queue_, projection_queue_, Scanned_Row_Count, left_block_count>>
    /\ position' = [position EXCEPT ![t] = @ + 1]
    /\ UNCHANGED <<scan_queue_, scan_pc>>

(* After the last row the rest of the blocks, of either sign or none, is   *)
(* accounted for.                                                          *)
EndOfFiles(t) ==
    /\ scan_pc[t] = "SST_FILE_SCAN"
    /\ position[t] > Len(FileRows(t))
    /\ PassOn(t, left_block_count[t])
    /\ ScanReturns(t)
    /\ UNCHANGED scan_queue_

ScanStep(t) ==
    \/ scan_worker(t) \/ read_data_block(t) \/ read_index_block(t) \/ EndOfBlocks(t)
    \/ sst_file_full_scan(t) \/ EndOfFiles(t)
=============================================================================
