------------------------------ MODULE Projection ------------------------------
(***************************************************************************)
(* projection.cc: the stage that projects rows and merges the results of   *)
(* one snippet (the CSD merge manager).  Every projection thread has a     *)
(* merge buffer per snippet; id_block_count_map_ counts, for all threads   *)
(* together, the blocks of the snippet that are still to come.  The thread *)
(* that brings the count to zero returns and erases the buffers of all     *)
(* threads.                                                                *)
(*                                                                         *)
(* The map of counts is guarded by Projection::mu.  Three accesses are not *)
(* guarded: the push_back on merge_buffer_list_ when a thread starts, the  *)
(* owner's use of its buffers, and the find on another thread's            *)
(* id_buffer_map in the release loop.                                      *)
(***************************************************************************)
EXTENDS CsdData

CONSTANTS Projectors,   \* the threads that run projection_worker
          Absent,       \* "no entry for this key" in a std::map
          Nothing,      \* "no result in hand"
          RacesBite     \* whether the unguarded accesses of two threads that
                        \* overlap may lose an update or miss an entry

ASSUME ProjectionAssumption ==
    /\ Absent \notin Int
    /\ Absent \notin CsdResults(Snippets \cup {NoSnippet}, ProjectedRows)
    /\ RacesBite \in BOOLEAN

VARIABLES projection_queue_,    \* results to project, a WorkQueue
          return_queue_,        \* merged results for the return layer, a WorkQueue
          merge_buffer_list_,   \* threads whose merge buffer is in the list
          id_block_count_map_,  \* blocks still to come of each key, or Absent
          id_buffer_map,        \* id_buffer_map[p][k]: p's merge buffer for k, or Absent
          pc,                   \* where each thread is
          list_seen,            \* the list as p's push_back has read it
          result,               \* the result p is projecting
          index,                \* index of the row loop, then of the release loop
          collided              \* history: an unguarded access has lost an update

projectionVars == <<merge_buffer_list_, id_block_count_map_, id_buffer_map, pc,
                    list_seen, result, index, collided>>

key(p) == make_map_key(result[p].snippet)

(* Projection::mu is held for the whole of the release loop.               *)
MuFree == \A q \in Projectors : pc[q] # "release"

ProjectionInit ==
    /\ merge_buffer_list_ = <<>>
    /\ id_block_count_map_ = [k \in Keys |-> Absent]
    /\ id_buffer_map = [p \in Projectors |-> [k \in Keys |-> Absent]]
    /\ pc = [p \in Projectors |-> "start"]
    /\ list_seen = [p \in Projectors |-> <<>>]
    /\ result = [p \in Projectors |-> Nothing]
    /\ index = [p \in Projectors |-> 1]
    /\ collided = FALSE
-----------------------------------------------------------------------------
(* merge_buffer_list_.push_back(merge_buffer), in two steps: both threads  *)
(* may read the empty list before either has published its new one.        *)
ReadMergeBufferList(p) ==
    /\ pc[p] = "start"
    /\ RacesBite \/ \A q \in Projectors : pc[q] # "push_back"
    /\ list_seen' = [list_seen EXCEPT ![p] = merge_buffer_list_]
    /\ pc' = [pc EXCEPT ![p] = "push_back"]
    /\ UNCHANGED <<projection_queue_, return_queue_, merge_buffer_list_, id_block_count_map_,
                   id_buffer_map, result, index>>

WriteMergeBufferList(p) ==
    /\ pc[p] = "push_back"
    /\ merge_buffer_list_' = Append(list_seen[p], p)
    /\ pc' = [pc EXCEPT ![p] = "pop"]
    /\ UNCHANGED <<projection_queue_, return_queue_, id_block_count_map_, id_buffer_map,
                   list_seen, result, index>>

(* projection_queue_->wait_and_pop()                                       *)
PopResult(p) ==
    /\ pc[p] = "pop"
    /\ projection_queue_ # <<>>
    /\ result' = [result EXCEPT ![p] = Head(projection_queue_)]
    /\ projection_queue_' = Tail(projection_queue_)
    /\ pc' = [pc EXCEPT ![p] = "make_map"]
    /\ UNCHANGED <<return_queue_, merge_buffer_list_, id_block_count_map_, id_buffer_map,
                   list_seen, index>>

(* Mutant: an entry that exists is set again.                              *)
make_block_count_map_Overwrites(p) ==
    /\ pc[p] = "make_map"
    /\ MuFree
    /\ id_block_count_map_' =
          [id_block_count_map_ EXCEPT ![key(p)] = result[p].snippet.csd_block_count]
    /\ pc' = [pc EXCEPT ![p] = "check_buffer"]
    /\ UNCHANGED <<projection_queue_, return_queue_, merge_buffer_list_, id_buffer_map,
                   list_seen, result, index>>

(* Under Projection::mu.                                                   *)
make_block_count_map(p) ==
    /\ pc[p] = "make_map"
    /\ MuFree
    /\ id_block_count_map_' =
          IF id_block_count_map_[key(p)] = Absent
          THEN [id_block_count_map_ EXCEPT ![key(p)] = result[p].snippet.csd_block_count]
          ELSE id_block_count_map_
    /\ pc' = [pc EXCEPT ![p] = "check_buffer"]
    /\ UNCHANGED <<projection_queue_, return_queue_, merge_buffer_list_, id_buffer_map,
                   list_seen, result, index>>

(* MergeBuffer::check_id_buffer: find, then insert when there is no entry. *)
(* The owner's MergeBuffer::mu is held, but the release loop of another    *)
(* thread calls find on this map without it.                               *)
check_id_buffer(p) ==
    /\ pc[p] = "check_buffer"
    /\ index' = [index EXCEPT ![p] = 1]
    /\ pc' = [pc EXCEPT ![p] = IF id_buffer_map[p][key(p)] = Absent THEN "insert" ELSE "rows"]
    /\ UNCHANGED <<projection_queue_, return_queue_, merge_buffer_list_, id_block_count_map_,
                   id_buffer_map, list_seen, result>>

insert_buffer(p) ==
    /\ pc[p] = "insert"
    /\ id_buffer_map' = [id_buffer_map EXCEPT ![p][key(p)] = NewResult(result[p].snippet)]
    /\ pc' = [pc EXCEPT ![p] = "rows"]
    /\ UNCHANGED <<projection_queue_, return_queue_, merge_buffer_list_, id_block_count_map_,
                   list_seen, result, index>>

(* merge_buffer->id_buffer_map[key]: operator[] makes a default entry,     *)
(* with a null snippet, when there is none.                                *)
Buffer(p) ==
    IF id_buffer_map[p][key(p)] = Absent THEN NewResult(NoSnippet) ELSE id_buffer_map[p][key(p)]

(* Mutant: a full buffer is cleared without being handed on.               *)
projectioning_DropsFullBuffer(p) ==
    /\ pc[p] = "rows"
    /\ index[p] <= Len(result[p].rows)
    /\ LET row    == Projected[result[p].rows[index[p]]]
           length == ProjectedLength[row]
           full   == Buffer(p).data_length + length > BUFFER_SIZE
       IN  /\ return_queue_' = return_queue_
           /\ id_buffer_map' = [id_buffer_map EXCEPT ![p][key(p)] =
                                   AddRow(IF full THEN clear(Buffer(p)) ELSE Buffer(p), row, length)]
    /\ index' = [index EXCEPT ![p] = @ + 1]
    /\ UNCHANGED <<projection_queue_, merge_buffer_list_, id_block_count_map_, pc, list_seen, result>>

(* Mutant: the check leaves out the length of the row to be added.         *)
projectioning_ChecksTooLate(p) ==
    /\ pc[p] = "rows"
    /\ index[p] <= Len(result[p].rows)
    /\ LET row    == Projected[result[p].rows[index[p]]]
           length == ProjectedLength[row]
           full   == Buffer(p).data_length > BUFFER_SIZE
       IN  /\ return_queue_' = IF full THEN Append(return_queue_, Buffer(p)) ELSE return_queue_
           /\ id_buffer_map' = [id_buffer_map EXCEPT ![p][key(p)] =
                                   AddRow(IF full THEN clear(Buffer(p)) ELSE Buffer(p), row, length)]
    /\ index' = [index EXCEPT ![p] = @ + 1]
    /\ UNCHANGED <<projection_queue_, merge_buffer_list_, id_block_count_map_, pc, list_seen, result>>

(* One turn of the row loop: project the row, hand the buffer to the       *)
(* return layer when the row does not fit any more, add the row.           *)
projectioning(p) ==
    /\ pc[p] = "rows"
    /\ index[p] <= Len(result[p].rows)
    /\ LET row    == Projected[result[p].rows[index[p]]]
           length == ProjectedLength[row]
           full   == Buffer(p).data_length + length > BUFFER_SIZE
       IN  /\ return_queue_' = IF full THEN Append(return_queue_, Buffer(p)) ELSE return_queue_
           /\ id_buffer_map' = [id_buffer_map EXCEPT ![p][key(p)] =
                                   AddRow(IF full THEN clear(Buffer(p)) ELSE Buffer(p), row, length)]
    /\ index' = [index EXCEPT ![p] = @ + 1]
    /\ UNCHANGED <<projection_queue_, merge_buffer_list_, id_block_count_map_, pc, list_seen, result>>

(* A merge buffer with the counts of a result added to its own.            *)
WithCounts(b, r) ==
    [b EXCEPT !.current_block_count = @ + r.current_block_count,
              !.scanned_row_count   = @ + r.scanned_row_count,
              !.filtered_row_count  = @ + r.filtered_row_count,
              !.blocks              = @ \cup r.blocks]

(* After the last row: add the counts of the result to the buffer's.       *)
AddCounts(p) ==
    /\ pc[p] = "rows"
    /\ index[p] > Len(result[p].rows)
    /\ id_buffer_map' = [id_buffer_map EXCEPT ![p][key(p)] = WithCounts(Buffer(p), result[p])]
    /\ pc' = [pc EXCEPT ![p] = "count_down"]
    /\ UNCHANGED <<projection_queue_, return_queue_, merge_buffer_list_, id_block_count_map_,
                   list_seen, result, index>>

(* Mutant: the buffers are released with one block to come.                *)
block_count_down_OneEarly(p) ==
    /\ pc[p] = "count_down"
    /\ MuFree
    /\ LET left == id_block_count_map_[key(p)] - result[p].current_block_count
       IN  IF id_block_count_map_[key(p)] = Absent
           THEN /\ pc' = [pc EXCEPT ![p] = "pop"]
                /\ UNCHANGED id_block_count_map_
           ELSE /\ pc' = [pc EXCEPT ![p] = IF left <= 1 THEN "release" ELSE "pop"]
                /\ id_block_count_map_' = [id_block_count_map_ EXCEPT ![key(p)] = left]
    /\ result' = [result EXCEPT ![p] = IF pc'[p] = "pop" THEN Nothing ELSE @]
    /\ index' = [index EXCEPT ![p] = 1]
    /\ UNCHANGED <<projection_queue_, return_queue_, merge_buffer_list_, id_buffer_map, list_seen>>

(* Mutant: the last block does not release the buffers.                    *)
block_count_down_OneLate(p) ==
    /\ pc[p] = "count_down"
    /\ MuFree
    /\ LET left == id_block_count_map_[key(p)] - result[p].current_block_count
       IN  IF id_block_count_map_[key(p)] = Absent
           THEN /\ pc' = [pc EXCEPT ![p] = "pop"]
                /\ UNCHANGED id_block_count_map_
           ELSE /\ pc' = [pc EXCEPT ![p] = IF left < 0 THEN "release" ELSE "pop"]
                /\ id_block_count_map_' = [id_block_count_map_ EXCEPT ![key(p)] = left]
    /\ result' = [result EXCEPT ![p] = IF pc'[p] = "pop" THEN Nothing ELSE @]
    /\ index' = [index EXCEPT ![p] = 1]
    /\ UNCHANGED <<projection_queue_, return_queue_, merge_buffer_list_, id_buffer_map, list_seen>>

(* block_count_down_and_release_buffer, up to the release loop.            *)
block_count_down(p) ==
    /\ pc[p] = "count_down"
    /\ MuFree
    /\ LET left == id_block_count_map_[key(p)] - result[p].current_block_count
       IN  IF id_block_count_map_[key(p)] = Absent
           THEN /\ pc' = [pc EXCEPT ![p] = "pop"]
                /\ UNCHANGED id_block_count_map_
           ELSE /\ pc' = [pc EXCEPT ![p] = IF left = 0 THEN "release" ELSE "pop"]
                /\ id_block_count_map_' = [id_block_count_map_ EXCEPT ![key(p)] = left]
    /\ result' = [result EXCEPT ![p] = IF pc'[p] = "pop" THEN Nothing ELSE @]
    /\ index' = [index EXCEPT ![p] = 1]
    /\ UNCHANGED <<projection_queue_, return_queue_, merge_buffer_list_, id_buffer_map, list_seen>>

(* One turn of the release loop.  The find may miss the key when the owner *)
(* of the map is inserting another one; release_buffer takes the owner's   *)
(* mutex and erases the entry all the same.                                *)
release_buffer(p) ==
    /\ pc[p] = "release"
    /\ index[p] <= Len(merge_buffer_list_)
    /\ LET q      == merge_buffer_list_[index[p]]
           buffer == id_buffer_map[q][key(p)]
       IN  /\ \/ buffer # Absent /\ return_queue_' = Append(return_queue_, buffer)
              \/ buffer = Absent /\ UNCHANGED return_queue_
              \/ RacesBite /\ pc[q] = "insert" /\ UNCHANGED return_queue_
           /\ id_buffer_map' = [id_buffer_map EXCEPT ![q][key(p)] = Absent]
    /\ index' = [index EXCEPT ![p] = @ + 1]
    /\ UNCHANGED <<projection_queue_, merge_buffer_list_, id_block_count_map_, pc, list_seen, result>>

(* id_block_count_map_.erase(key)                                          *)
erase_count(p) ==
    /\ pc[p] = "release"
    /\ index[p] > Len(merge_buffer_list_)
    /\ id_block_count_map_' = [id_block_count_map_ EXCEPT ![key(p)] = Absent]
    /\ pc' = [pc EXCEPT ![p] = "pop"]
    /\ result' = [result EXCEPT ![p] = Nothing]
    /\ index' = [index EXCEPT ![p] = 1]
    /\ UNCHANGED <<projection_queue_, return_queue_, merge_buffer_list_, id_buffer_map, list_seen>>

(* This step of p makes its push_back or another thread's come to nothing, *)
(* or its find miss an entry that is there.                                *)
Collides(p) ==
    \/ pc[p] = "start" /\ \E q \in Projectors : pc[q] = "push_back"
    \/ /\ pc[p] = "release" /\ index[p] <= Len(merge_buffer_list_)
       /\ id_buffer_map[merge_buffer_list_[index[p]]][key(p)] # Absent
       /\ return_queue_' = return_queue_

ProjectionStep(p) ==
    /\ \/ ReadMergeBufferList(p) \/ WriteMergeBufferList(p)
       \/ PopResult(p) \/ make_block_count_map(p)
       \/ check_id_buffer(p) \/ insert_buffer(p)
       \/ projectioning(p) \/ AddCounts(p)
       \/ block_count_down(p) \/ release_buffer(p) \/ erase_count(p)
    /\ collided' = (collided \/ Collides(p))
=============================================================================
