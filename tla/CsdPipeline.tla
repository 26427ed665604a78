----------------------------- MODULE CsdPipeline ------------------------------
(***************************************************************************)
(* The worker module's query pipeline: Input enqueues snippets, Scan cuts  *)
(* them into results, Filter drops rows (ScanFilter.tla), Projection       *)
(* merges, Return sends.  The stages share only the queues                 *)
(* (AtomicQueue.tla says what they may expect of them).                    *)
(***************************************************************************)
EXTENDS ScanFilter, FiniteSets

CONSTANTS Projectors, Returners,   \* the threads of main.cc
          MaxFailures, RacesBite, Absent, Nothing

ASSUME PipelineAssumption ==
    /\ MaxFailures \in Nat
    /\ Absent \notin Int
    /\ Absent \notin CsdResults(Snippets \cup {NoSnippet}, ProjectedRows)
    /\ Nothing \notin CsdResults(Snippets, Rows)
    /\ RacesBite \in BOOLEAN
    /\ IsFiniteSet(Returners)

VARIABLES return_queue_,
          merge_buffer_list_, id_block_count_map_, id_buffer_map, pc, list_seen, result, index, collided,
          return_pc, sending, open_sockets, received, failures,
          taken        \* history: the results the return threads have popped

P == INSTANCE Projection
R == INSTANCE Return

projectionVars == <<merge_buffer_list_, id_block_count_map_, id_buffer_map, pc, list_seen, result, index,
                    collided>>
returnVars == <<return_pc, sending, open_sockets, received, failures>>
laterVars == <<return_queue_, projectionVars, returnVars, taken>>

vars == <<scanFilterVars, laterVars>>

Init ==
    /\ ScanFilterInit
    /\ return_queue_ = <<>>
    /\ P!ProjectionInit
    /\ R!ReturnInit
    /\ taken = <<>>

enqueue_scan(s) == SendTurn(s) /\ UNCHANGED laterVars

Scan(t) == ScanTurn(t) /\ UNCHANGED laterVars

Filter(t) == FilterTurn(t) /\ UNCHANGED laterVars

Projection(p) ==
    /\ P!ProjectionStep(p)
    /\ UNCHANGED <<unsent, scan_queue_, filter_queue_, scanVars, filterVars, returnVars, delivered, taken>>

Return(t) ==
    /\ R!ReturnStep(t)
    /\ taken' = IF return_queue_' = return_queue_ THEN taken ELSE Append(taken, Head(return_queue_))
    /\ UNCHANGED <<unsent, scan_queue_, filter_queue_, projection_queue_,
                   scanVars, filterVars, projectionVars, delivered>>

ReturnFailure(t) ==
    /\ R!ReturnFailure(t)
    /\ UNCHANGED <<unsent, scan_queue_, filter_queue_, projection_queue_,
                   scanVars, filterVars, projectionVars, delivered, taken>>

Next ==
    \/ \E s \in Snippets : enqueue_scan(s)
    \/ \E t \in Scanners : Scan(t)
    \/ \E t \in Filters : Filter(t)
    \/ \E p \in Projectors : Projection(p)
    \/ \E t \in Returners : Return(t) \/ ReturnFailure(t)

Spec == Init /\ [][Next]_vars

(* Every thread that can move is run by the scheduler, and the storage     *)
(* engine answers unless the connection fails.                             *)
FairSpec ==
    /\ Spec
    /\ \A t \in Scanners : WF_vars(Scan(t))
    /\ \A t \in Filters : WF_vars(Filter(t))
    /\ \A p \in Projectors : WF_vars(Projection(p))
    /\ \A t \in Returners : WF_vars(Return(t))
-----------------------------------------------------------------------------
(* The results of a snippet that are between the scan and the last         *)
(* count-down, and the threads that still work on it.                      *)
InFlight(s) ==
    \/ s \in unsent \cup Elements(scan_queue_)
    \/ \E t \in Scanners : scan_result[t].snippet = s
    \/ \E r \in Elements(filter_queue_) \cup Elements(projection_queue_) : r.snippet = s
    \/ \E t \in Filters : filter_in[t].snippet = s
    \/ \E p \in Projectors : result[p] # Nothing /\ result[p].snippet = s

Leaving(s) ==
    \/ \E r \in Elements(return_queue_) : r.snippet = s
    \/ \E t \in Returners : sending[t].snippet = s

ReceivedFor(s) == SelectSeq(received, LAMBDA r : r.snippet = s)

(* The rows the query asks for.                                            *)
RowsOf(s) ==
    Concat(IF s.type = "SST_FILE_SCAN" THEN s.sst_list
               ELSE [i \in DOMAIN s.block_list |-> s.block_list[i].rows])

Wanted(s) == {r \in Elements(RowsOf(s)) : s.filtering => r \in Passing}

ReceivedRows(s) == Concat([i \in DOMAIN ReceivedFor(s) |-> ReceivedFor(s)[i].rows])

Total(results, Field(_)) == Fold(LAMBDA sum, r : sum + Field(r), 0, results)

BlocksReceived(s) == Total(ReceivedFor(s), LAMBDA r : r.current_block_count)

FilteredReceived(s) == Total(ReceivedFor(s), LAMBDA r : r.filtered_row_count)

(* The scan functions that exist for a snippet; an index scan is a stub    *)
(* that passes nothing on.                                                 *)
Scanned == {s \in Snippets : s.type # "INDEX_SCAN"}

(* Results of s that are still to be cut from its blocks or files.         *)
ToBeScanned(s) ==
    \/ s \in unsent \cup Elements(scan_queue_)
    \/ \E t \in Scanners :
          /\ scan_result[t].snippet = s
          /\ scan_pc[t] = "SST_FILE_SCAN" \/ position[t] <= Len(s.block_list)
-----------------------------------------------------------------------------
(* "block_count 내리고 작업 완료 시 release_buffer" (projection.cc:83):    *)
(* the merge buffers of a snippet are released when the work on it is      *)
(* complete: nothing of it is still to be scanned, filtered or projected.  *)
ReleaseOnlyWhenComplete ==
    \A p \in Projectors :
        pc[p] = "release" =>
            LET s == result[p].snippet
            IN  /\ ~ ToBeScanned(s)
                /\ \A r \in Elements(filter_queue_) \cup Elements(projection_queue_) : r.snippet # s
                /\ \A t \in Filters : filter_in[t].snippet # s
                /\ \A q \in Projectors \ {p} : result[q] # Nothing => result[q].snippet # s

(* The same comment, the other way round: when the work on a snippet is    *)
(* complete its merge buffers have been released and its count is gone.    *)
CompleteIsReleased ==
    \A s \in Snippets :
        ~ InFlight(s) => /\ id_block_count_map_[make_map_key(s)] = Absent
                         /\ \A p \in Projectors : id_buffer_map[p][make_map_key(s)] = Absent

(* A snippet's answer is exact: when everything has been sent and no       *)
(* connection has failed, the storage engine has received every row that   *)
(* passes the filter once, projected; block counts that add up to          *)
(* csd_block_count; and filtered_row_counts that add up to the rows.       *)
AnswerIsExact ==
    \A s \in Scanned :
        (failures = 0 /\ ~ InFlight(s) /\ ~ Leaving(s)) =>
            /\ Elements(ReceivedRows(s)) = {Projected[r] : r \in Wanted(s)}
            /\ Len(ReceivedRows(s)) = Cardinality(Wanted(s))
            /\ BlocksReceived(s) = s.csd_block_count
            /\ FilteredReceived(s) = Cardinality(Wanted(s))

(* Whatever fails on the way, no row is received twice, no row is received *)
(* that the query does not ask for, and the block counts received never    *)
(* exceed csd_block_count, at which the storage engine takes the snippet   *)
(* for finished.                                                           *)
NothingTwice ==
    \A s \in Snippets :
        /\ \A m, n \in DOMAIN ReceivedRows(s) : ReceivedRows(s)[m] = ReceivedRows(s)[n] => m = n
        /\ Elements(ReceivedRows(s)) \subseteq {Projected[r] : r \in Wanted(s)}
        /\ BlocksReceived(s) <= s.csd_block_count

(* send_data closes its socket on every path but the one where the peer    *)
(* closes first: no more sockets are open than threads wait for a reply    *)
(* and connections have failed.                                            *)
SocketsAreClosed ==
    open_sockets <= Cardinality({t \in Returners : return_pc[t] = "recv"}) + failures

(* Every snippet the storage engine sends is answered: the blocks it waits *)
(* for all arrive, unless a connection fails.  At every moment there is a  *)
(* later one at which the snippets sent by then are all answered; as a     *)
(* snippet that is sent stays sent, it leads to an answer of each.         *)
SnippetIsAnswered ==
    []<>(\A s \in Scanned :
            s \notin unsent => (BlocksReceived(s) = s.csd_block_count \/ failures > 0))
=============================================================================
