------------------------------- MODULE Filter --------------------------------
(***************************************************************************)
(* filter.cc: a filter thread takes a result, keeps the rows that pass the *)
(* query's filter and hands the rest of the result on.  The evaluation of  *)
(* the filter on one row is the constant set Passing here.                 *)
(***************************************************************************)
EXTENDS CsdData

CONSTANTS Filters,   \* the threads that run filter_worker
          Passing    \* the rows that pass their query's filter

VARIABLES filter_queue_,       \* results to filter, a WorkQueue
          projection_queue_,   \* results to project, a WorkQueue
          Filtered_Row_Count,  \* the counter of the monitoring manager
          filter_pc,           \* where each thread is
          filter_in            \* the result each thread is filtering

filterVars == <<Filtered_Row_Count, filter_pc, filter_in>>

FilterInit ==
    /\ Filtered_Row_Count = 0
    /\ filter_pc = [t \in Filters |-> "pop"]
    /\ filter_in = [t \in Filters |-> NewResult(NoSnippet)]

filter_worker(t) ==
    /\ filter_pc[t] = "pop"
    /\ filter_queue_ # <<>>
    /\ filter_in' = [filter_in EXCEPT ![t] = Head(filter_queue_)]
    /\ filter_queue_' = Tail(filter_queue_)
    /\ filter_pc' = [filter_pc EXCEPT ![t] = "filtering"]
    /\ UNCHANGED <<projection_queue_, Filtered_Row_Count>>

(* Mutant: the row that fails the filter is counted as well.               *)
AddFiltered_CountsAll(r, row) ==
    IF row \in Passing
    THEN [AddRow(r, row, RowLength[row]) EXCEPT !.filtered_row_count = @ + 1]
    ELSE [r EXCEPT !.filtered_row_count = @ + 1]

AddFiltered(r, row) ==
    IF row \in Passing
    THEN [AddRow(r, row, RowLength[row]) EXCEPT !.filtered_row_count = @ + 1]
    ELSE r

filtering(t) ==
    /\ filter_pc[t] = "filtering"
    /\ LET in     == filter_in[t]
           start  == CsdResult(in.snippet, in.scanned_row_count, 0, in.current_block_count, in.blocks)
           filter_result == Fold(AddFiltered, start, in.rows)
       IN  /\ Filtered_Row_Count' = Filtered_Row_Count + Len(filter_result.rows)
           /\ projection_queue_' = Append(projection_queue_, filter_result)
    /\ filter_pc' = [filter_pc EXCEPT ![t] = "pop"]
    /\ filter_in' = [filter_in EXCEPT ![t] = NewResult(NoSnippet)]
    /\ UNCHANGED filter_queue_

FilterStep(t) == filter_worker(t) \/ filtering(t)
=============================================================================
