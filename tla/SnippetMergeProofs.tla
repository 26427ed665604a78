-------------------------- MODULE SnippetMergeProofs --------------------------
(***************************************************************************)
(* Proofs about the projection stage, for any number of threads, snippets  *)
(* and results and whatever the unguarded accesses do: the types, and that *)
(* merge buffers are released only when the work on a snippet is complete. *)
(* The second half has lemmas about the contents of the merge buffers:     *)
(* which steps merge a row or the blocks of a result, what the operations  *)
(* on a buffer do to its contents, and that the row loop keeps every block *)
(* and every row in one place.                                             *)
(***************************************************************************)
EXTENDS SnippetMerge, FiniteSetTheorems, TLAPS

(* A fresh result, of CsdResult's constructor, is a merge buffer.          *)
LEMMA NewResultType ==
    ASSUME NEW s \in Snippets \cup {NoSnippet}
    PROVE  NewResult(s) \in MergeBuffers /\ NewResult(s).snippet = s
BY DEF NewResult, CsdResult, MergeBuffers, CsdResults

(* Data::clear() keeps the snippet.                                        *)
LEMMA ClearType ==
    ASSUME NEW b \in MergeBuffers
    PROVE  clear(b) \in MergeBuffers /\ clear(b).snippet = b.snippet
<1>1. b.snippet \in Snippets \cup {NoSnippet}
  BY DEF MergeBuffers, CsdResults
<1> QED
  BY <1>1, NewResultType DEF clear

(* Appending a projected row to a merge buffer makes a merge buffer of the *)
(* same snippet.                                                           *)
LEMMA AddRowType ==
    ASSUME NEW b \in MergeBuffers, NEW row \in ProjectedRows
    PROVE  /\ AddRow(b, row, ProjectedLength[row]) \in MergeBuffers
           /\ AddRow(b, row, ProjectedLength[row]).snippet = b.snippet
<1>1. ProjectedLength[row] \in Nat
  BY CsdDataAssumption
<1>2. /\ b.snippet \in Snippets \cup {NoSnippet} /\ b.rows \in Seq(ProjectedRows)
      /\ b.data_length \in Nat /\ b.current_block_count \in Int /\ b.blocks \in SUBSET Blocks
      /\ b.scanned_row_count \in Nat /\ b.filtered_row_count \in Nat
  BY DEF MergeBuffers, CsdResults
<1>3. Append(b.rows, row) \in Seq(ProjectedRows) /\ b.data_length + ProjectedLength[row] \in Nat
  BY <1>1, <1>2
<1>4. ASSUME NEW rows \in Seq(ProjectedRows), NEW length \in Nat
      PROVE  /\ [b EXCEPT !.rows = rows, !.data_length = length] \in MergeBuffers
             /\ [b EXCEPT !.rows = rows, !.data_length = length].snippet = b.snippet
  BY Zenon DEF MergeBuffers, CsdResults
<1> QED
  BY <1>3, <1>4, Zenon DEF AddRow

(* Adding a result's counts makes a merge buffer of the same snippet.      *)
LEMMA AddCountsType ==
    ASSUME NEW b \in MergeBuffers, NEW r \in CsdResults(Snippets, Rows)
    PROVE  WithCounts(b, r) \in MergeBuffers /\ WithCounts(b, r).snippet = b.snippet
<1>1. /\ b.snippet \in Snippets \cup {NoSnippet} /\ b.rows \in Seq(ProjectedRows)
      /\ b.data_length \in Nat /\ b.current_block_count \in Int /\ b.blocks \in SUBSET Blocks
      /\ b.scanned_row_count \in Nat /\ b.filtered_row_count \in Nat
  BY DEF MergeBuffers, CsdResults
<1>2. /\ r.current_block_count \in Int /\ r.blocks \in SUBSET Blocks
      /\ r.scanned_row_count \in Nat /\ r.filtered_row_count \in Nat
  BY DEF CsdResults
<1>3. ASSUME NEW c \in MergeBuffers, NEW count \in Int, NEW scanned \in Nat
      PROVE  /\ [c EXCEPT !.current_block_count = count, !.scanned_row_count = scanned] \in MergeBuffers
             /\ [c EXCEPT !.current_block_count = count, !.scanned_row_count = scanned].snippet = c.snippet
  BY Zenon DEF MergeBuffers, CsdResults
<1>4. ASSUME NEW c \in MergeBuffers, NEW filtered \in Nat, NEW blocks \in SUBSET Blocks
      PROVE  /\ [c EXCEPT !.filtered_row_count = filtered, !.blocks = blocks] \in MergeBuffers
             /\ [c EXCEPT !.filtered_row_count = filtered, !.blocks = blocks].snippet = c.snippet
  BY Zenon DEF MergeBuffers, CsdResults
<1> DEFINE count    == b.current_block_count + r.current_block_count
           scanned  == b.scanned_row_count + r.scanned_row_count
           filtered == b.filtered_row_count + r.filtered_row_count
           blocks   == b.blocks \cup r.blocks
           first    == [b EXCEPT !.current_block_count = count, !.scanned_row_count = scanned]
<1>5. count \in Int /\ scanned \in Nat /\ filtered \in Nat /\ blocks \in SUBSET Blocks
  BY <1>1, <1>2
<1>6. WithCounts(b, r) = [first EXCEPT !.filtered_row_count = filtered, !.blocks = blocks]
  BY DEF WithCounts, MergeBuffers, CsdResults
<1>7. first \in MergeBuffers /\ first.snippet = b.snippet
  <2> HIDE DEF count, scanned
  <2> QED
    BY <1>3, <1>5, Zenon
<1> HIDE DEF first, count, scanned, filtered, blocks
<1>8. /\ [first EXCEPT !.filtered_row_count = filtered, !.blocks = blocks] \in MergeBuffers
      /\ [first EXCEPT !.filtered_row_count = filtered, !.blocks = blocks].snippet = first.snippet
  BY <1>4, <1>5, <1>7, Zenon
<1> QED
  BY <1>6, <1>7, <1>8, Zenon

(* A thread past wait_and_pop has a result of a known snippet in hand.     *)
LEMMA BusyKey ==
    ASSUME TypeOK, NEW p \in Projectors, Busy(p)
    PROVE  /\ result[p] \in Results
           /\ result[p] \in CsdResults(Snippets, Rows)
           /\ result[p].snippet \in Snippets
           /\ key(p) \in Keys
           /\ result[p].current_block_count \in Int
BY ResultsAssumption, Zenon DEF TypeOK, key, Keys, CsdResults

(* merge_buffer->id_buffer_map[key] is a merge buffer, default or not.     *)
LEMMA BufferType ==
    ASSUME TypeOK, NEW p \in Projectors, Busy(p)
    PROVE  Buffer(p) \in MergeBuffers
<1>1. key(p) \in Keys
  BY BusyKey
<1>2. NewResult(NoSnippet) \in MergeBuffers
  BY NewResultType
<1> QED
  BY <1>1, <1>2 DEF TypeOK, Buffer

(* What the row loop adds to a merge buffer is a projected row.            *)
LEMMA RowType ==
    ASSUME TypeOK, NEW p \in Projectors, Busy(p), index[p] <= Len(result[p].rows)
    PROVE  Projected[result[p].rows[index[p]]] \in ProjectedRows
<1>1. result[p].rows \in Seq(Rows)
  BY BusyKey DEF CsdResults
<1>2. index[p] \in Nat \ {0}
  BY DEF TypeOK
<1>3. index[p] \in 1 .. Len(result[p].rows)
  BY <1>1, <1>2
<1>4. result[p].rows[index[p]] \in Rows
  BY <1>1, <1>3
<1> QED
  BY <1>4, CsdDataAssumption

(* Counting down moves the thread on to the release loop, with its result  *)
(* in hand, or back to wait_and_pop without one.                           *)
LEMMA CountDownMoves ==
    ASSUME TypeOK, NEW p \in Projectors, block_count_down(p)
    PROVE  /\ pc[p] = "count_down"
           /\ pc' \in [Projectors -> PcTypes] /\ pc'[p] \in {"pop", "release"}
           /\ result' \in [Projectors -> Results \cup {Nothing}]
           /\ pc'[p] # "pop" => result'[p] = result[p]
           /\ \A q \in Projectors \ {p} : pc'[q] = pc[q] /\ result'[q] = result[q]
           /\ UNCHANGED <<projection_queue_, return_queue_, merge_buffer_list_, id_buffer_map, list_seen>>
<1>1. pc \in [Projectors -> PcTypes] /\ result \in [Projectors -> Results \cup {Nothing}]
  BY Zenon DEF TypeOK
<1>2. PICK at \in {"pop", "release"} : pc' = [pc EXCEPT ![p] = at]
  BY Zenon DEF block_count_down
<1>3. PICK left \in {result[p], Nothing} :
         result' = [result EXCEPT ![p] = left] /\ (pc'[p] # "pop" => left = result[p])
  BY Zenon DEF block_count_down
<1>4. /\ pc[p] = "count_down"
      /\ UNCHANGED <<projection_queue_, return_queue_, merge_buffer_list_, id_buffer_map, list_seen>>
  BY Zenon DEF block_count_down
<1>5. at \in PcTypes /\ left \in Results \cup {Nothing}
  BY <1>1, <1>2, <1>3, Zenon DEF PcTypes
<1>6. /\ pc' \in [Projectors -> PcTypes] /\ pc'[p] = at
      /\ \A q \in Projectors \ {p} : pc'[q] = pc[q]
  BY <1>1, <1>2, <1>5, Zenon
<1>7. result' \in [Projectors -> Results \cup {Nothing}]
  BY <1>1, <1>3, <1>5, Zenon
<1>8. result'[p] = left /\ \A q \in Projectors \ {p} : result'[q] = result[q]
  BY <1>1, <1>3, Zenon
<1>9. pc'[p] \in {"pop", "release"} /\ (pc'[p] # "pop" => result'[p] = result[p])
  BY <1>2, <1>3, <1>6, <1>8, Zenon
<1> QED
  BY <1>4, <1>6, <1>7, <1>8, <1>9, Zenon

(* Every step of projection.cc keeps the types.                            *)
LEMMA TypeStep == TypeOK /\ [Next]_vars => TypeOK'
<1> SUFFICES ASSUME TypeOK, [Next]_vars PROVE TypeOK'
  OBVIOUS
<1>0. collided' \in BOOLEAN
  BY Zenon DEF TypeOK, Next, Project, ProjectionStep, enqueue_projection, vars, projectionVars
<1> USE <1>0
<1>1. CASE UNCHANGED vars
  BY <1>1 DEF TypeOK, vars, projectionVars, Busy
<1>2. ASSUME NEW r \in Results, enqueue_projection(r) PROVE TypeOK'
  BY <1>2 DEF TypeOK, enqueue_projection, projectionVars, Busy
<1>3. ASSUME NEW p \in Projectors, UNCHANGED delivered, ReadMergeBufferList(p) PROVE TypeOK'
  BY <1>3 DEF TypeOK, ReadMergeBufferList, PcTypes, Busy
<1>4. ASSUME NEW p \in Projectors, UNCHANGED delivered, WriteMergeBufferList(p) PROVE TypeOK'
  BY <1>4 DEF TypeOK, WriteMergeBufferList, PcTypes, Busy
<1>5. ASSUME NEW p \in Projectors, UNCHANGED delivered, PopResult(p) PROVE TypeOK'
  BY <1>5 DEF TypeOK, PopResult, PcTypes, Busy
<1>6. ASSUME NEW p \in Projectors, UNCHANGED delivered, make_block_count_map(p) PROVE TypeOK'
  <2>1. Busy(p)
    BY <1>6 DEF make_block_count_map, Busy
  <2>2. key(p) \in Keys /\ result[p].snippet.csd_block_count \in Int
    BY <2>1, BusyKey, CsdDataAssumption
  <2> QED
    BY <1>6, <2>1, <2>2 DEF TypeOK, make_block_count_map, PcTypes, Busy
<1>7. ASSUME NEW p \in Projectors, UNCHANGED delivered, check_id_buffer(p) PROVE TypeOK'
  BY <1>7 DEF TypeOK, check_id_buffer, PcTypes, Busy
<1>8. ASSUME NEW p \in Projectors, UNCHANGED delivered, insert_buffer(p) PROVE TypeOK'
  <2>1. Busy(p)
    BY <1>8 DEF insert_buffer, Busy
  <2>2. key(p) \in Keys /\ NewResult(result[p].snippet) \in MergeBuffers
    BY <2>1, BusyKey, NewResultType
  <2> QED
    BY <1>8, <2>1, <2>2 DEF TypeOK, insert_buffer, PcTypes, Busy
<1>9. ASSUME NEW p \in Projectors, UNCHANGED delivered, projectioning(p) PROVE TypeOK'
  <2> DEFINE row  == Projected[result[p].rows[index[p]]]
             full == Buffer(p).data_length + ProjectedLength[row] > BUFFER_SIZE
             base == IF full THEN clear(Buffer(p)) ELSE Buffer(p)
             new  == AddRow(base, row, ProjectedLength[row])
  <2>1. Busy(p)
    BY <1>9 DEF projectioning, Busy
  <2>2. key(p) \in Keys /\ Buffer(p) \in MergeBuffers
    BY <2>1, BusyKey, BufferType
  <2>3. row \in ProjectedRows
    BY <1>9, <2>1, RowType DEF projectioning
  <2>4. base \in MergeBuffers
    BY <2>2, ClearType
  <2> HIDE DEF base, full, row
  <2>5. new \in MergeBuffers
    BY <2>3, <2>4, AddRowType
  <2> HIDE DEF new
  <2>6. /\ return_queue_' = IF full THEN Append(return_queue_, Buffer(p)) ELSE return_queue_
        /\ id_buffer_map' = [id_buffer_map EXCEPT ![p][key(p)] = new]
    BY <1>9 DEF projectioning, new, base, full, row
  <2>7. return_queue_' \in Seq(MergeBuffers)
    BY <2>2, <2>6 DEF TypeOK
  <2>8. id_buffer_map' \in [Projectors -> [Keys -> MergeBuffers \cup {Absent}]]
    BY <2>2, <2>5, <2>6 DEF TypeOK
  <2>9. index' \in [Projectors -> Nat \ {0}]
    <3>1. index \in [Projectors -> Nat \ {0}] /\ index[p] + 1 \in Nat \ {0}
      BY DEF TypeOK
    <3>2. index' = [index EXCEPT ![p] = index[p] + 1]
      BY <1>9 DEF projectioning
    <3> QED
      BY <3>1, <3>2
  <2> QED
    BY <1>9, <2>7, <2>8, <2>9, Zenon DEF TypeOK, projectioning, Busy
<1>10. ASSUME NEW p \in Projectors, UNCHANGED delivered, AddCounts(p) PROVE TypeOK'
  <2> DEFINE new == WithCounts(Buffer(p), result[p])
  <2>1. Busy(p)
    BY <1>10 DEF AddCounts, Busy
  <2>2. key(p) \in Keys /\ Buffer(p) \in MergeBuffers /\ result[p] \in CsdResults(Snippets, Rows)
    BY <2>1, BusyKey, BufferType
  <2>3. new \in MergeBuffers
    BY <2>2, AddCountsType
  <2> HIDE DEF new
  <2>4. id_buffer_map' = [id_buffer_map EXCEPT ![p][key(p)] = new]
    BY <1>10 DEF AddCounts, new
  <2>5. id_buffer_map' \in [Projectors -> [Keys -> MergeBuffers \cup {Absent}]]
    BY <2>2, <2>3, <2>4 DEF TypeOK
  <2> QED
    BY <1>10, <2>1, <2>5 DEF TypeOK, AddCounts, PcTypes, Busy
<1>11. ASSUME NEW p \in Projectors, UNCHANGED delivered, block_count_down(p) PROVE TypeOK'
  <2>1. Busy(p) /\ index' = [index EXCEPT ![p] = 1]
    BY <1>11, Zenon DEF block_count_down, Busy
  <2>2. key(p) \in Keys /\ result[p] \in Results /\ result[p].current_block_count \in Int
    BY <2>1, BusyKey
  <2>3. id_block_count_map_' \in [Keys -> Int \cup {Absent}]
    <3>1. PICK k, n : k = key(p) /\ n = result[p].current_block_count
      BY Zenon
    <3>2. id_block_count_map_ \in [Keys -> Int \cup {Absent}]
      BY Zenon DEF TypeOK
    <3>3. \/ id_block_count_map_' = id_block_count_map_
          \/ /\ id_block_count_map_[k] # Absent
             /\ id_block_count_map_' = [id_block_count_map_ EXCEPT ![k] = id_block_count_map_[k] - n]
      BY <1>11, <3>1, Zenon DEF block_count_down
    <3>4. k \in Keys /\ n \in Int
      BY <2>2, <3>1, Zenon
    <3> QED
      BY <3>2, <3>3, <3>4
  <2>4. /\ pc' \in [Projectors -> PcTypes] /\ pc'[p] \in {"pop", "release"}
        /\ result' \in [Projectors -> Results \cup {Nothing}] /\ (pc'[p] # "pop" => result'[p] = result[p])
        /\ \A q \in Projectors \ {p} : pc'[q] = pc[q] /\ result'[q] = result[q]
        /\ UNCHANGED <<projection_queue_, return_queue_, merge_buffer_list_, id_buffer_map, list_seen>>
    BY <1>11, CountDownMoves
  <2>5. \A q \in Projectors : Busy(q)' => result'[q] \in Results
    <3>1. \A q \in Projectors : Busy(q) => result[q] \in Results
      BY Zenon DEF TypeOK
    <3> QED
      BY <2>2, <2>4, <3>1 DEF Busy
  <2>6. index' \in [Projectors -> Nat \ {0}]
    <3>1. index \in [Projectors -> Nat \ {0}]
      BY Zenon DEF TypeOK
    <3> QED
      BY <2>1, <3>1
  <2> QED
    BY <1>11, <2>3, <2>4, <2>5, <2>6 DEF TypeOK
<1>12. ASSUME NEW p \in Projectors, UNCHANGED delivered, release_buffer(p) PROVE TypeOK'
  <2> DEFINE q == merge_buffer_list_[index[p]]
  <2>1. Busy(p)
    BY <1>12 DEF release_buffer, Busy
  <2>2. key(p) \in Keys /\ q \in Projectors
    <3>1. merge_buffer_list_ \in Seq(Projectors) /\ index[p] \in Nat \ {0}
      BY DEF TypeOK
    <3>2. index[p] <= Len(merge_buffer_list_)
      BY <1>12 DEF release_buffer
    <3> QED
      BY <2>1, <3>1, <3>2, BusyKey
  <2>3. return_queue_' \in Seq(MergeBuffers)
    <3>1. id_buffer_map[q][key(p)] # Absent => id_buffer_map[q][key(p)] \in MergeBuffers
      BY <2>2 DEF TypeOK
    <3>2. \/ return_queue_' = return_queue_
          \/ /\ id_buffer_map[q][key(p)] # Absent
             /\ return_queue_' = Append(return_queue_, id_buffer_map[q][key(p)])
      BY <1>12 DEF release_buffer
    <3>3. return_queue_ \in Seq(MergeBuffers)
      BY DEF TypeOK
    <3> HIDE DEF q
    <3> QED
      BY <3>1, <3>2, <3>3
  <2>4. id_buffer_map' \in [Projectors -> [Keys -> MergeBuffers \cup {Absent}]]
    BY <1>12, <2>2 DEF TypeOK, release_buffer
  <2>5. index' \in [Projectors -> Nat \ {0}]
    <3>1. index' = [index EXCEPT ![p] = @ + 1]
      BY <1>12 DEF release_buffer
    <3> QED
      BY <3>1 DEF TypeOK
  <2> QED
    BY <1>12, <2>3, <2>4, <2>5, Zenon DEF TypeOK, release_buffer, Busy
<1>13. ASSUME NEW p \in Projectors, UNCHANGED delivered, erase_count(p) PROVE TypeOK'
  <2>1. Busy(p)
    BY <1>13 DEF erase_count, Busy
  <2>2. key(p) \in Keys
    BY <2>1, BusyKey
  <2> QED
    BY <1>13, <2>2 DEF TypeOK, erase_count, PcTypes, Busy
<1> QED
  BY <1>1, <1>2, <1>3, <1>4, <1>5, <1>6, <1>7, <1>8, <1>9, <1>10, <1>11, <1>12, <1>13
     DEF Next, Project, ProjectionStep

-----------------------------------------------------------------------------
(* A step that delivers and takes no result and counts none down.          *)
Quiet ==
    /\ delivered' = delivered
    /\ projection_queue_' = projection_queue_
    /\ \A q \in Projectors : /\ Counting(q)' <=> Counting(q)
                             /\ Busy(q)' => (Busy(q) /\ result'[q] = result[q])
                             /\ pc'[q] = "release" => pc[q] = "release"

(* All steps but enqueue_projection, wait_and_pop and the count-down are   *)
(* quiet.                                                                  *)
LEMMA QuietSteps ==
    ASSUME TypeOK, [Next]_vars,
           ~ \E r \in Results : enqueue_projection(r),
           ~ \E p \in Projectors : PopResult(p) \/ block_count_down(p)
    PROVE  Quiet
<1> USE DEF TypeOK, Quiet, Counting, Busy
<1>1. CASE UNCHANGED vars
  BY <1>1 DEF vars, projectionVars
<1>2. ASSUME NEW p \in Projectors, UNCHANGED delivered, ReadMergeBufferList(p) PROVE Quiet
  BY <1>2 DEF ReadMergeBufferList
<1>3. ASSUME NEW p \in Projectors, UNCHANGED delivered, WriteMergeBufferList(p) PROVE Quiet
  BY <1>3 DEF WriteMergeBufferList
<1>4. ASSUME NEW p \in Projectors, UNCHANGED delivered, make_block_count_map(p) PROVE Quiet
  BY <1>4 DEF make_block_count_map
<1>5. ASSUME NEW p \in Projectors, UNCHANGED delivered, check_id_buffer(p) PROVE Quiet
  BY <1>5 DEF check_id_buffer
<1>6. ASSUME NEW p \in Projectors, UNCHANGED delivered, insert_buffer(p) PROVE Quiet
  BY <1>6 DEF insert_buffer
<1>7. ASSUME NEW p \in Projectors, UNCHANGED delivered, projectioning(p) PROVE Quiet
  BY <1>7 DEF projectioning
<1>8. ASSUME NEW p \in Projectors, UNCHANGED delivered, AddCounts(p) PROVE Quiet
  BY <1>8 DEF AddCounts
<1>9. ASSUME NEW p \in Projectors, UNCHANGED delivered, release_buffer(p) PROVE Quiet
  BY <1>9 DEF release_buffer
<1>10. ASSUME NEW p \in Projectors, UNCHANGED delivered, erase_count(p) PROVE Quiet
  BY <1>10 DEF erase_count
<1> HIDE DEF TypeOK, Quiet, Counting, Busy
<1> QED
  BY <1>1, <1>2, <1>3, <1>4, <1>5, <1>6, <1>7, <1>8, <1>9, <1>10 DEF Next, Project, ProjectionStep

(* work.pop() takes the head out of the queue and leaves the rest.         *)
LEMMA PopQueue ==
    ASSUME TypeOK, OnePlace,
           projection_queue_ # <<>>, projection_queue_' = Tail(projection_queue_)
    PROVE  /\ Queued = Queued' \cup {Head(projection_queue_)}
           /\ Head(projection_queue_) \notin Queued'
           /\ \A i, j \in DOMAIN projection_queue_' :
                 projection_queue_'[i] = projection_queue_'[j] => i = j
<1> DEFINE r == Head(projection_queue_)
           n == Len(projection_queue_)
<1>1. projection_queue_ \in Seq(Results)
  BY DEF TypeOK
<1>2. /\ DOMAIN projection_queue_ = 1 .. n
      /\ DOMAIN projection_queue_' = 1 .. n - 1
      /\ \A i \in 1 .. n - 1 : projection_queue_'[i] = projection_queue_[i + 1]
      /\ r = projection_queue_[1] /\ n \in Nat \ {0}
  BY <1>1
<1> HIDE DEF r, n
<1>3. \A i, j \in 1 .. n : projection_queue_[i] = projection_queue_[j] => i = j
  BY <1>2 DEF OnePlace
<1>4. Queued' \subseteq Queued
  <2>1. ASSUME NEW i \in 1 .. n - 1 PROVE projection_queue_'[i] \in Queued
    <3>1. i + 1 \in 1 .. n
      BY <1>2
    <3> QED
      BY <1>2, <3>1 DEF Queued
  <2> QED
    BY <1>2, <2>1 DEF Queued
<1>5. r \in Queued
  BY <1>2 DEF Queued
<1>6. r \notin Queued'
  <2>1. ASSUME NEW i \in 1 .. n - 1 PROVE projection_queue_'[i] # r
    <3>1. i + 1 \in 1 .. n /\ 1 \in 1 .. n /\ i + 1 # 1
      BY <1>2
    <3> QED
      BY <1>2, <1>3, <3>1
  <2> QED
    BY <1>2, <2>1 DEF Queued
<1>7. Queued \subseteq Queued' \cup {r}
  <2>1. ASSUME NEW i \in 1 .. n, i # 1 PROVE projection_queue_[i] \in Queued'
    <3>1. i - 1 \in 1 .. n - 1 /\ (i - 1) + 1 = i
      BY <1>2, <2>1
    <3>2. projection_queue_'[i - 1] = projection_queue_[i]
      BY <1>2, <3>1
    <3> QED
      BY <1>2, <3>1, <3>2, Zenon DEF Queued
  <2>2. ASSUME NEW q \in Queued PROVE q \in Queued' \cup {r}
    <3>1. PICK i \in 1 .. n : q = projection_queue_[i]
      BY <1>2, Zenon DEF Queued
    <3> QED
      BY <1>2, <2>1, <3>1, Zenon
  <2> QED
    BY <2>2, Zenon
<1>8. \A i, j \in 1 .. n - 1 : projection_queue_'[i] = projection_queue_'[j] => i = j
  BY <1>2, <1>3
<1> QED
  BY <1>2, <1>4, <1>5, <1>6, <1>7, <1>8 DEF r

(* What a count-down does to the places of the results: the thread gives   *)
(* its result up or takes it into the release loop.                        *)
LEMMA CountDownPlaces ==
    ASSUME TypeOK, NEW p \in Projectors, block_count_down(p), UNCHANGED delivered
    PROVE  /\ delivered' = delivered /\ projection_queue_' = projection_queue_
           /\ Counting(p) /\ ~ Counting(p)'
           /\ \A q \in Projectors \ {p} : /\ pc'[q] = pc[q] /\ result'[q] = result[q]
                                          /\ Counting(q)' <=> Counting(q)
                                          /\ Busy(q)' <=> Busy(q)
           /\ Busy(p)' => (pc'[p] = "release" /\ result'[p] = result[p])
<1>1. /\ pc[p] = "count_down" /\ pc'[p] \in {"pop", "release"} /\ (pc'[p] # "pop" => result'[p] = result[p])
      /\ \A q \in Projectors \ {p} : pc'[q] = pc[q] /\ result'[q] = result[q]
      /\ delivered' = delivered /\ projection_queue_' = projection_queue_
  BY CountDownMoves
<1> QED
  BY <1>1 DEF Counting, Busy

(* A result that may be delivered is new and shares no block with those of *)
(* its snippet that have been.                                             *)
LEMMA FreshResult ==
    ASSUME NEW r \in Results, r.blocks \subseteq Undelivered(r.snippet)
    PROVE  /\ r \notin delivered
           /\ \A q \in DeliveredFor(r.snippet) : q.blocks \cap r.blocks = {}
<1>1. \A q \in DeliveredFor(r.snippet) : q.blocks \cap r.blocks = {}
  BY DEF Undelivered, BlocksIn
<1>2. r.blocks # {}
  BY ResultsAssumption
<1> QED
  BY <1>1, <1>2 DEF DeliveredFor

(* What delivering a result changes.                                       *)
LEMMA Delivers ==
    ASSUME TypeOK, NEW r \in Results, enqueue_projection(r)
    PROVE  /\ r.blocks \subseteq Undelivered(r.snippet)
           /\ delivered' = delivered \cup {r}
           /\ projection_queue_' = Append(projection_queue_, r)
           /\ Queued' = Queued \cup {r}
           /\ UNCHANGED <<return_queue_, merge_buffer_list_, id_block_count_map_, id_buffer_map,
                          pc, list_seen, result, index, collided>>
<1>1. projection_queue_ \in Seq(Results) /\ projection_queue_' = Append(projection_queue_, r)
  BY DEF TypeOK, enqueue_projection
<1>2. Queued' = Queued \cup {r}
  BY <1>1 DEF Queued
<1> QED
  BY <1>1, <1>2 DEF enqueue_projection, projectionVars

(* No step puts a result in two places.                                    *)
LEMMA OnePlaceStep == TypeOK /\ OnePlace /\ [Next]_vars => OnePlace'
<1> SUFFICES ASSUME TypeOK, OnePlace, [Next]_vars PROVE OnePlace'
  OBVIOUS
<1>1. ASSUME NEW r \in Results, enqueue_projection(r) PROVE OnePlace'
  <2>1. /\ r.blocks \subseteq Undelivered(r.snippet) /\ delivered' = delivered \cup {r}
        /\ projection_queue_' = Append(projection_queue_, r)
        /\ Queued' = Queued \cup {r} /\ UNCHANGED <<pc, result>>
    BY <1>1, Delivers
  <2>2. r \notin delivered /\ \A q \in DeliveredFor(r.snippet) : q.blocks \cap r.blocks = {}
    BY <2>1, FreshResult
  <2>3. projection_queue_ \in Seq(Results)
    BY DEF TypeOK
  <2>4. /\ DOMAIN projection_queue_ = 1 .. Len(projection_queue_)
        /\ DOMAIN projection_queue_' = 1 .. Len(projection_queue_) + 1
        /\ \A i \in 1 .. Len(projection_queue_) : projection_queue_'[i] = projection_queue_[i]
        /\ projection_queue_'[Len(projection_queue_) + 1] = r
        /\ Len(projection_queue_) \in Nat
    BY <2>1, <2>3
  <2>5. r \notin Queued
    BY <2>2 DEF OnePlace
  <2>6. \A i, j \in DOMAIN projection_queue_' : projection_queue_'[i] = projection_queue_'[j] => i = j
    BY <2>4, <2>5 DEF OnePlace, Queued
  <2>7. Queued' \subseteq delivered'
    BY <2>1 DEF OnePlace
  <2>8. \A p \in Projectors : Busy(p)' => result'[p] \in delivered' \ Queued'
    BY <2>1, <2>2 DEF OnePlace, Busy
  <2>9. \A p, q \in Projectors : (Busy(p)' /\ Busy(q)' /\ result'[p] = result'[q]) => p = q
    BY <2>1 DEF OnePlace, Busy
  <2>10. \A x, y \in delivered' : (x.snippet = y.snippet /\ x # y) => x.blocks \cap y.blocks = {}
    BY <2>1, <2>2 DEF OnePlace, DeliveredFor
  <2> QED
    BY <2>6, <2>7, <2>8, <2>9, <2>10 DEF OnePlace
<1>2. ASSUME NEW p \in Projectors, UNCHANGED delivered, PopResult(p) PROVE OnePlace'
  <2> DEFINE r == Head(projection_queue_)
  <2>1. /\ result' = [result EXCEPT ![p] = r] /\ ~ Busy(p)
        /\ \A q \in Projectors \ {p} : Busy(q)' <=> Busy(q)
    BY <1>2 DEF PopResult, TypeOK, Busy
  <2>2. projection_queue_ # <<>> /\ projection_queue_' = Tail(projection_queue_)
    BY <1>2 DEF PopResult
  <2> HIDE DEF r
  <2>4. Queued = Queued' \cup {r} /\ r \notin Queued'
    BY <2>2, PopQueue DEF r
  <2>5. \A i, j \in DOMAIN projection_queue_' : projection_queue_'[i] = projection_queue_'[j] => i = j
    BY <2>2, PopQueue
  <2>6. Queued' \subseteq delivered' /\ r \in delivered'
    BY <1>2, <2>4 DEF OnePlace
  <2>7. \A q \in Projectors : result'[q] = IF q = p THEN r ELSE result[q]
    BY <2>1 DEF TypeOK
  <2>8. \A q \in Projectors : Busy(q)' => result'[q] \in delivered' \ Queued'
    BY <1>2, <2>1, <2>4, <2>6, <2>7 DEF OnePlace
  <2>9. \A q, t \in Projectors : (Busy(q)' /\ Busy(t)' /\ result'[q] = result'[t]) => q = t
    BY <2>1, <2>4, <2>7 DEF OnePlace
  <2> QED
    BY <1>2, <2>5, <2>6, <2>8, <2>9 DEF OnePlace
<1>3. ASSUME NEW p \in Projectors, UNCHANGED delivered, block_count_down(p) PROVE OnePlace'
  <2>1. /\ delivered' = delivered /\ projection_queue_' = projection_queue_
        /\ \A q \in Projectors : Busy(q)' => Busy(q) /\ result'[q] = result[q]
    BY <1>3, CountDownPlaces DEF Counting
  <2> QED
    BY <2>1 DEF OnePlace, Queued
<1>4. CASE Quiet
  BY <1>4 DEF Quiet, OnePlace, Queued
<1>5. \A p \in Projectors : (PopResult(p) \/ block_count_down(p)) => UNCHANGED delivered
  BY DEF Next, Project, vars, enqueue_projection, projectionVars, PopResult, block_count_down, TypeOK
<1> QED
  BY <1>1, <1>2, <1>3, <1>4, <1>5, QuietSteps

-----------------------------------------------------------------------------
(* Delivering a result moves its blocks from the undelivered ones to the   *)
(* uncounted ones.                                                         *)
LEMMA LeftDelivered ==
    ASSUME TypeOK, NEW r \in Results, enqueue_projection(r)
    PROVE  \A s : BlocksLeft(s)' = BlocksLeft(s)
<1> TAKE s
<1>1. /\ r.blocks \subseteq Undelivered(r.snippet) /\ delivered' = delivered \cup {r}
      /\ Queued' = Queued \cup {r} /\ UNCHANGED <<pc, result>>
  BY Delivers
<1>2. r \notin delivered
  BY <1>1, FreshResult
<1>3. \A q \in Projectors : Counting(q)' <=> Counting(q)
  BY <1>1 DEF Counting, Busy
<1>4. CASE r.snippet = s
  <2>1. DeliveredFor(s)' = DeliveredFor(s) \cup {r}
    BY <1>1, <1>4 DEF DeliveredFor
  <2>2. Uncounted(s)' = Uncounted(s) \cup {r}
    BY <1>1, <1>2, <1>3, <2>1 DEF Uncounted, DeliveredFor
  <2>3. Undelivered(s)' = Undelivered(s) \ r.blocks
    BY <2>1 DEF Undelivered, BlocksIn
  <2>4. BlocksIn(Uncounted(s)') = BlocksIn(Uncounted(s)) \cup r.blocks
    BY <2>2 DEF BlocksIn
  <2>5. BlocksLeft(s)' = Undelivered(s)' \cup BlocksIn(Uncounted(s)')
    BY DEF BlocksLeft, BlocksIn
  <2> QED
    BY <1>1, <1>4, <2>3, <2>4, <2>5 DEF BlocksLeft
<1>5. CASE r.snippet # s
  <2>1. DeliveredFor(s)' = DeliveredFor(s)
    BY <1>1, <1>5 DEF DeliveredFor
  <2>2. Uncounted(s)' = Uncounted(s)
    BY <1>1, <1>3, <1>5, <2>1 DEF Uncounted, DeliveredFor
  <2> QED
    BY <2>1, <2>2 DEF BlocksLeft, Undelivered, BlocksIn
<1> QED
  BY <1>4, <1>5

(* Steps that leave the delivered results alone leave those undelivered.   *)
LEMMA UndeliveredSame ==
    ASSUME delivered' = delivered
    PROVE  \A s : DeliveredFor(s)' = DeliveredFor(s) /\ Undelivered(s)' = Undelivered(s)
BY DEF DeliveredFor, Undelivered, BlocksIn

(* No step but a count-down changes what is left to count.                 *)
LEMMA LeftSame ==
    ASSUME TypeOK, OnePlace, [Next]_vars, ~ \E p \in Projectors : block_count_down(p)
    PROVE  \A s : BlocksLeft(s)' = BlocksLeft(s)
<1>1. ASSUME NEW r \in Results, enqueue_projection(r) PROVE \A s : BlocksLeft(s)' = BlocksLeft(s)
  BY <1>1, LeftDelivered
<1>2. ASSUME NEW p \in Projectors, PopResult(p) PROVE \A s : BlocksLeft(s)' = BlocksLeft(s)
  <2> DEFINE r == Head(projection_queue_)
  <2>1. /\ result' = [result EXCEPT ![p] = r] /\ pc' = [pc EXCEPT ![p] = "make_map"] /\ pc[p] = "pop"
        /\ projection_queue_ # <<>> /\ projection_queue_' = Tail(projection_queue_)
    BY <1>2 DEF PopResult
  <2>2. delivered' = delivered
    BY <2>1 DEF Next, Project, vars, enqueue_projection, projectionVars, TypeOK
  <2>3. Queued = Queued' \cup {r}
    BY <2>1, PopQueue
  <2> HIDE DEF r
  <2>4. \A q \in Projectors : /\ Counting(q)' <=> (Counting(q) \/ q = p)
                              /\ result'[q] = IF q = p THEN r ELSE result[q]
    BY <2>1 DEF Counting, Busy, TypeOK
  <2>5. ~ Counting(p)
    BY <2>1 DEF Counting, Busy
  <2>6. \A x : (\E q \in Projectors : Counting(q)' /\ result'[q] = x)
                 <=> (x = r \/ \E q \in Projectors : Counting(q) /\ result[q] = x)
    BY <2>4, <2>5
  <2>7. \A s : Uncounted(s)' = Uncounted(s)
    BY <2>2, <2>3, <2>6, UndeliveredSame DEF Uncounted
  <2> QED
    BY <2>2, <2>7, UndeliveredSame DEF BlocksLeft, BlocksIn
<1>3. CASE Quiet
  <2>1. \A q \in Projectors : Counting(q) => result'[q] = result[q]
    BY <1>3 DEF Quiet, Counting
  <2>2. Queued' = Queued /\ delivered' = delivered
    BY <1>3 DEF Quiet, Queued
  <2>3. \A s : Uncounted(s)' = Uncounted(s)
    BY <1>3, <2>1, <2>2, UndeliveredSame DEF Quiet, Uncounted
  <2> QED
    BY <2>2, <2>3, UndeliveredSame DEF BlocksLeft, BlocksIn
<1> QED
  BY <1>1, <1>2, <1>3, QuietSteps

(* A count-down takes the blocks of the thread's result out of what is     *)
(* left to count.                                                          *)
LEMMA LeftDown ==
    ASSUME TypeOK, OnePlace, NEW p \in Projectors, block_count_down(p), UNCHANGED delivered
    PROVE  /\ result[p].blocks \subseteq BlocksLeft(result[p].snippet)
           /\ \A s : BlocksLeft(s)' = IF s = result[p].snippet
                                      THEN BlocksLeft(s) \ result[p].blocks ELSE BlocksLeft(s)
<1>0. PICK r : r = result[p]
  OBVIOUS
<1>1. Busy(p) /\ Counting(p) /\ r \in Results
  BY <1>0, CountDownPlaces, BusyKey DEF Counting
<1>2. r \in delivered \ Queued /\ r \in Uncounted(r.snippet)
  BY <1>0, <1>1 DEF OnePlace, Uncounted, DeliveredFor
<1>3. Queued' = Queued /\ delivered' = delivered
  BY CountDownPlaces DEF Queued
<1>4. \A x : (\E q \in Projectors : Counting(q)' /\ result'[q] = x)
               <=> (x # r /\ \E q \in Projectors : Counting(q) /\ result[q] = x)
  <2>1. \A q \in Projectors \ {p} : Counting(q) => result[q] # r
    BY <1>0, <1>1 DEF OnePlace, Counting
  <2> QED
    BY <1>0, <2>1, CountDownPlaces
<1>5. \A s : Uncounted(s)' = Uncounted(s) \ {r}
  BY <1>2, <1>3, <1>4, UndeliveredSame DEF Uncounted
<1>6. r.blocks \cap Undelivered(r.snippet) = {}
  BY <1>2 DEF Undelivered, BlocksIn, DeliveredFor
<1>7. \A x \in Uncounted(r.snippet) \ {r} : x.blocks \cap r.blocks = {}
  BY <1>2 DEF OnePlace, Uncounted, DeliveredFor
<1>8. r.blocks \subseteq BlocksLeft(r.snippet)
  BY <1>2 DEF BlocksLeft, BlocksIn
<1>9. BlocksIn(Uncounted(r.snippet) \ {r}) = BlocksIn(Uncounted(r.snippet)) \ r.blocks
  BY <1>7 DEF BlocksIn
<1>10. \A s : BlocksLeft(s)' = Undelivered(s) \cup BlocksIn(Uncounted(s) \ {r})
  BY <1>3, <1>5, UndeliveredSame DEF BlocksLeft, BlocksIn
<1>11. BlocksLeft(r.snippet)' = BlocksLeft(r.snippet) \ r.blocks
  BY <1>6, <1>9, <1>10 DEF BlocksLeft
<1>12. ASSUME NEW s, s # r.snippet PROVE BlocksLeft(s)' = BlocksLeft(s)
  <2>1. Uncounted(s) \ {r} = Uncounted(s)
    BY <1>12 DEF Uncounted, DeliveredFor
  <2> QED
    BY <1>10, <2>1 DEF BlocksLeft
<1> QED
  BY <1>0, <1>8, <1>11, <1>12

(* The blocks left are blocks of the snippet, finitely many.               *)
LEMMA LeftFinite ==
    ASSUME TypeOK, NEW s \in Snippets
    PROVE  BlocksLeft(s) \subseteq BlocksOf[s] /\ IsFiniteSet(BlocksLeft(s))
<1>1. \A r \in DeliveredFor(s) : r.blocks \subseteq BlocksOf[s]
  BY ResultsAssumption DEF TypeOK, DeliveredFor
<1>2. BlocksLeft(s) \subseteq BlocksOf[s]
  BY <1>1 DEF BlocksLeft, Undelivered, Uncounted, BlocksIn
<1> QED
  BY <1>2, ResultsAssumption, FS_Subset

(* Counting down a result takes exactly its blocks off the blocks left,    *)
(* and the last count-down is the one after which nothing is left.         *)
LEMMA CountArithmetic ==
    ASSUME NEW L, IsFiniteSet(L), NEW D \in SUBSET L
    PROVE  /\ Cardinality(L) - Cardinality(D) = Cardinality(L \ D)
           /\ Cardinality(L \ D) \in Nat
           /\ Cardinality(L \ D) = 0 <=> L \ D = {}
<1>1. L \cap D = D
  OBVIOUS
<1>2. /\ IsFiniteSet(L \ D)
      /\ Cardinality(L \ D) = Cardinality(L) - Cardinality(L \cap D)
  BY FS_Difference, Zenon
<1>3. Cardinality(L \ D) \in Nat /\ (Cardinality(L \ D) = 0 <=> L \ D = {})
  BY <1>2, FS_CardinalityType, FS_EmptySet
<1> QED
  BY <1>1, <1>2, <1>3

(* A snippet with nothing left to count has no result on its way.          *)
LEMMA NothingOnTheWay ==
    ASSUME TypeOK, OnePlace, NEW s, BlocksLeft(s) = {}
    PROVE  /\ Undelivered(s) = {}
           /\ \A r \in Queued : r.snippet # s
           /\ \A q \in Projectors : Counting(q) => result[q].snippet # s
<1>1. Undelivered(s) = {} /\ \A r \in Uncounted(s) : r.blocks = {}
  BY DEF BlocksLeft, BlocksIn
<1>2. \A r \in delivered : r.blocks # {}
  BY ResultsAssumption, Zenon DEF TypeOK
<1>3. Uncounted(s) = {}
  BY <1>1, <1>2 DEF Uncounted, DeliveredFor
<1>4. \A r \in Queued : r.snippet # s
  BY <1>3 DEF OnePlace, Uncounted, DeliveredFor
<1>5. \A q \in Projectors : Counting(q) => result[q].snippet # s
  BY <1>3 DEF OnePlace, Uncounted, DeliveredFor, Counting
<1> QED
  BY <1>1, <1>4, <1>5

-----------------------------------------------------------------------------
(* A snippet's count stays right when the count, the blocks left and the   *)
(* threads past make_block_count_map stay the same.                        *)
LEMMA CountKept ==
    ASSUME NEW s, CountRight(s), BlocksLeft(s)' = BlocksLeft(s),
           id_block_count_map_'[make_map_key(s)] = id_block_count_map_[make_map_key(s)],
           \A q \in Projectors : (Busy(q)' /\ result'[q].snippet = s /\ pc'[q] # "make_map") =>
               Busy(q) /\ result[q].snippet = s /\ pc[q] # "make_map"
    PROVE  CountRight(s)'
BY DEF CountRight

(* The key of a snippet is its own.                                        *)
LEMMA OwnKey ==
    ASSUME TypeOK, NEW p \in Projectors, Busy(p), NEW s \in Snippets
    PROVE  /\ make_map_key(s) \in Keys
           /\ make_map_key(s) = key(p) <=> s = result[p].snippet
BY BusyKey, ResultsAssumption DEF key, Keys

(* make_block_count_map starts the count with all blocks of the snippet.   *)
LEMMA CountMade ==
    ASSUME TypeOK, OnePlace, CountIsBlocksLeft, \A s : BlocksLeft(s)' = BlocksLeft(s),
           NEW p \in Projectors, make_block_count_map(p)
    PROVE  CountIsBlocksLeft'
<1>0. PICK t : t = result[p].snippet
  OBVIOUS
<1>1. /\ pc[p] = "make_map" /\ Busy(p) /\ Counting(p) /\ result' = result
      /\ pc' = [pc EXCEPT ![p] = "check_buffer"]
  BY DEF make_block_count_map, Busy, Counting
<1>2. t \in Snippets /\ result[p] \in Results /\ key(p) \in Keys
  BY <1>0, <1>1, BusyKey
<1>3. \A q \in Projectors : /\ q # p => pc'[q] = pc[q]
                            /\ Busy(q)' <=> Busy(q)
  BY <1>1 DEF Busy, TypeOK
<1>4. CountRight(t) /\ make_map_key(t) = key(p)
  BY <1>0, <1>2 DEF CountIsBlocksLeft, key
<1>5. id_block_count_map_'[key(p)] = Cardinality(BlocksLeft(t)) /\ id_block_count_map_'[key(p)] # Absent
  <2>1. CASE id_block_count_map_[key(p)] = Absent
    <3>1. BlocksLeft(t) # {}
      BY <1>0, <1>1, NothingOnTheWay
    <3>2. BlocksLeft(t) = BlocksOf[t]
      BY <1>4, <2>1, <3>1 DEF CountRight
    <3>3. t.csd_block_count = Cardinality(BlocksOf[t]) /\ t.csd_block_count \in Int
      BY <1>2, ResultsAssumption, CsdDataAssumption
    <3>4. id_block_count_map_'[key(p)] = t.csd_block_count
      BY <1>0, <1>2, <2>1 DEF make_block_count_map, TypeOK
    <3> QED
      BY <3>2, <3>3, <3>4, ProjectionAssumption
  <2>2. CASE id_block_count_map_[key(p)] # Absent
    <3>1. id_block_count_map_' = id_block_count_map_
      BY <2>2 DEF make_block_count_map
    <3> QED
      BY <1>4, <2>2, <3>1 DEF CountRight
  <2> QED
    BY <2>1, <2>2
<1>6. CountRight(t)'
  BY <1>4, <1>5 DEF CountRight
<1>7. ASSUME NEW s \in Snippets, s # t PROVE CountRight(s)'
  <2>1. make_map_key(s) # key(p) /\ make_map_key(s) \in Keys
    BY <1>0, <1>1, <1>7, OwnKey
  <2>2. id_block_count_map_'[make_map_key(s)] = id_block_count_map_[make_map_key(s)]
    BY <1>2, <2>1 DEF make_block_count_map, TypeOK
  <2>3. CountRight(s)
    BY DEF CountIsBlocksLeft
  <2> QED
    BY <1>0, <1>1, <1>3, <1>7, <2>2, <2>3, CountKept
<1> QED
  BY <1>6, <1>7 DEF CountIsBlocksLeft

(* block_count_down_and_release_buffer takes the blocks of the result off  *)
(* the count, and enters the release loop when nothing is left to count.   *)
LEMMA CountedDown ==
    ASSUME TypeOK, OnePlace, CountIsBlocksLeft, UNCHANGED delivered,
           NEW p \in Projectors, block_count_down(p),
           NEW r, r = result[p], NEW t, t = r.snippet
    PROVE  /\ CountIsBlocksLeft'
           /\ pc'[p] = "release" => (result'[p] = r /\ BlocksLeft(t)' = {})
           /\ pc'[p] = "pop" => BlocksLeft(t)' # {}
<1> DEFINE L    == BlocksLeft(t)
           old  == id_block_count_map_[key(p)]
           left == old - r.current_block_count
<1>1. pc[p] = "count_down" /\ Busy(p)
  BY DEF block_count_down, Busy
<1>2. t \in Snippets /\ r \in Results /\ key(p) \in Keys /\ make_map_key(t) = key(p)
  BY <1>1, BusyKey DEF key
<1>3. r.blocks \subseteq L /\ L' = L \ r.blocks /\ \A s : s # t => BlocksLeft(s)' = BlocksLeft(s)
  <2>1. /\ r.blocks \subseteq BlocksLeft(t)
        /\ \A s : BlocksLeft(s)' = IF s = t THEN BlocksLeft(s) \ r.blocks ELSE BlocksLeft(s)
    BY LeftDown
  <2> QED
    BY <2>1
<1>4. CountRight(t)
  BY <1>2 DEF CountIsBlocksLeft
<1>5. old # Absent /\ old = Cardinality(L)
  BY <1>1, <1>2, <1>4 DEF CountRight
<1>6. /\ id_block_count_map_' = [id_block_count_map_ EXCEPT ![key(p)] = left]
      /\ pc' = [pc EXCEPT ![p] = IF left = 0 THEN "release" ELSE "pop"]
      /\ result' = [result EXCEPT ![p] = IF pc'[p] = "pop" THEN Nothing ELSE @]
  BY <1>5 DEF block_count_down
<1>7. left = Cardinality(L \ r.blocks) /\ left \in Nat /\ (left = 0 <=> L \ r.blocks = {})
  <2>1. IsFiniteSet(L)
    BY <1>2, LeftFinite
  <2>2. r.current_block_count = Cardinality(r.blocks)
    BY <1>2, ResultsAssumption
  <2> HIDE DEF L
  <2> QED
    BY <1>3, <1>5, <2>1, <2>2, CountArithmetic
<1> HIDE DEF left
<1>8. id_block_count_map_'[make_map_key(t)] = left /\ left # Absent
  BY <1>2, <1>6, <1>7, ProjectionAssumption DEF TypeOK
<1>9. CountRight(t)'
  BY <1>3, <1>7, <1>8 DEF CountRight
<1>10. ASSUME NEW s \in Snippets, s # t PROVE CountRight(s)'
  <2>1. make_map_key(s) # key(p) /\ make_map_key(s) \in Keys
    BY <1>1, <1>10, OwnKey
  <2>2. id_block_count_map_'[make_map_key(s)] = id_block_count_map_[make_map_key(s)]
    BY <1>2, <1>6, <2>1 DEF TypeOK
  <2>3. BlocksLeft(s)' = BlocksLeft(s)
    BY <1>3, <1>10
  <2>4. \A q \in Projectors : (Busy(q)' /\ result'[q].snippet = s) =>
            Busy(q) /\ result[q].snippet = s /\ pc'[q] = pc[q]
    <3> TAKE q \in Projectors
    <3>1. CASE q = p
      <4>1. pc'[p] \in {"release", "pop"} /\ (pc'[p] = "release" => result'[p] = result[p])
        BY <1>6 DEF TypeOK
      <4> QED
        BY <1>10, <3>1, <4>1 DEF Busy
    <3>2. CASE q # p
      BY <1>6, <3>2 DEF Busy, TypeOK
    <3> QED
      BY <3>1, <3>2
  <2>5. CountRight(s)
    BY DEF CountIsBlocksLeft
  <2> QED
    BY <2>2, <2>3, <2>4, <2>5, CountKept
<1>11. CountIsBlocksLeft'
  BY <1>9, <1>10 DEF CountIsBlocksLeft
<1>12. /\ pc'[p] = "release" => left = 0 /\ result'[p] = r
       /\ pc'[p] = "pop" => left # 0
  BY <1>6 DEF TypeOK
<1> QED
  BY <1>3, <1>7, <1>11, <1>12

(* While a thread is in the release loop no other has a result of its      *)
(* snippet.                                                                *)
LEMMA AloneWithSnippet ==
    ASSUME TypeOK, OnePlace, ReleaseAlone, NEW p \in Projectors, pc[p] = "release",
           NEW q \in Projectors \ {p}, Busy(q)
    PROVE  result[q].snippet # result[p].snippet
<1>1. BlocksLeft(result[p].snippet) = {} /\ pc[q] # "release"
  BY DEF ReleaseAlone
<1>2. Counting(q)
  BY <1>1 DEF Counting
<1> QED
  BY <1>1, <1>2, NothingOnTheWay

(* The erase at the end of the release loop leaves no thread on the        *)
(* snippet and nothing to count.                                           *)
LEMMA CountErased ==
    ASSUME TypeOK, OnePlace, ReleaseAlone, CountIsBlocksLeft, \A s : BlocksLeft(s)' = BlocksLeft(s),
           NEW p \in Projectors, erase_count(p)
    PROVE  CountIsBlocksLeft'
<1>0. PICK t : t = result[p].snippet
  OBVIOUS
<1>1. /\ pc[p] = "release" /\ Busy(p) /\ pc' = [pc EXCEPT ![p] = "pop"]
      /\ id_block_count_map_' = [id_block_count_map_ EXCEPT ![key(p)] = Absent]
      /\ result' = [result EXCEPT ![p] = Nothing]
  BY DEF erase_count, Busy
<1>2. t \in Snippets /\ key(p) \in Keys /\ make_map_key(t) = key(p)
  BY <1>0, <1>1, BusyKey DEF key
<1>3. BlocksLeft(t) = {}
  BY <1>0, <1>1 DEF ReleaseAlone
<1>4. \A q \in Projectors \ {p} : Busy(q) => result[q].snippet # t
  BY <1>0, <1>1, AloneWithSnippet
<1>5. \A q \in Projectors : Busy(q)' => q # p /\ Busy(q) /\ result'[q] = result[q] /\ pc'[q] = pc[q]
  BY <1>1 DEF Busy, TypeOK
<1>6. \A s \in Snippets : id_block_count_map_'[make_map_key(s)] =
                              IF s = t THEN Absent ELSE id_block_count_map_[make_map_key(s)]
  BY <1>0, <1>1, <1>2, OwnKey DEF TypeOK
<1>7. CountRight(t)'
  BY <1>2, <1>3, <1>4, <1>5, <1>6 DEF CountRight
<1>8. ASSUME NEW s \in Snippets, s # t PROVE CountRight(s)'
  <2>1. CountRight(s) /\ id_block_count_map_'[make_map_key(s)] = id_block_count_map_[make_map_key(s)]
    BY <1>6, <1>8 DEF CountIsBlocksLeft
  <2> QED
    BY <1>5, <2>1, CountKept
<1> QED
  BY <1>7, <1>8 DEF CountIsBlocksLeft

(* A step that counts down delivers no result.                             *)
LEMMA CountDownAlone ==
    ASSUME TypeOK, [Next]_vars, NEW p \in Projectors, block_count_down(p)
    PROVE  UNCHANGED delivered
<1>1. pc' # pc
  BY CountDownMoves
<1>2. \A r \in Results : ~ enqueue_projection(r)
  BY <1>1, Zenon DEF enqueue_projection, projectionVars
<1> QED
  BY <1>1, <1>2 DEF Next, Project, vars, projectionVars

(* Every step of projection.cc keeps the count right.                      *)
LEMMA CountStep ==
    ASSUME TypeOK, OnePlace, ReleaseAlone, CountIsBlocksLeft, [Next]_vars
    PROVE  CountIsBlocksLeft'
<1>1. ASSUME NEW p \in Projectors, block_count_down(p), UNCHANGED delivered PROVE CountIsBlocksLeft'
  BY <1>1, CountedDown
<1>2. CASE ~ \E p \in Projectors : block_count_down(p)
  <2>1. \A s : BlocksLeft(s)' = BlocksLeft(s)
    BY <1>2, LeftSame
  <2>2. ASSUME NEW p \in Projectors, make_block_count_map(p) PROVE CountIsBlocksLeft'
    BY <2>1, <2>2, CountMade
  <2>3. ASSUME NEW p \in Projectors, erase_count(p) PROVE CountIsBlocksLeft'
    BY <2>1, <2>3, CountErased
  <2>4. CASE ~ \E p \in Projectors : make_block_count_map(p) \/ erase_count(p)
    <3> DEFINE Calm == /\ id_block_count_map_' = id_block_count_map_
                       /\ \A p \in Projectors : (Busy(p)' /\ pc'[p] # "make_map") =>
                              Busy(p) /\ pc[p] # "make_map" /\ result'[p] = result[p]
    <3> USE DEF TypeOK, Busy
    <3>1. UNCHANGED vars => Calm
      BY DEF vars, projectionVars
    <3>2. ASSUME NEW r \in Results, enqueue_projection(r) PROVE Calm
      BY <3>2 DEF enqueue_projection, projectionVars
    <3>3. ASSUME NEW p \in Projectors, ReadMergeBufferList(p) PROVE Calm
      BY <3>3 DEF ReadMergeBufferList
    <3>4. ASSUME NEW p \in Projectors, WriteMergeBufferList(p) PROVE Calm
      BY <3>4 DEF WriteMergeBufferList
    <3>5. ASSUME NEW p \in Projectors, PopResult(p) PROVE Calm
      BY <3>5 DEF PopResult
    <3>6. ASSUME NEW p \in Projectors, check_id_buffer(p) PROVE Calm
      BY <3>6 DEF check_id_buffer
    <3>7. ASSUME NEW p \in Projectors, insert_buffer(p) PROVE Calm
      BY <3>7 DEF insert_buffer
    <3>8. ASSUME NEW p \in Projectors, projectioning(p) PROVE Calm
      BY <3>8, Zenon DEF projectioning
    <3>9. ASSUME NEW p \in Projectors, AddCounts(p) PROVE Calm
      BY <3>9 DEF AddCounts
    <3>10. ASSUME NEW p \in Projectors, release_buffer(p) PROVE Calm
      BY <3>10 DEF release_buffer
    <3> HIDE DEF Calm, TypeOK, Busy
    <3>11. Calm
      BY <1>2, <2>4, <3>1, <3>2, <3>3, <3>4, <3>5, <3>6, <3>7, <3>8, <3>9, <3>10
         DEF Next, Project, ProjectionStep
    <3>12. ASSUME NEW s \in Snippets PROVE CountRight(s)'
      BY <2>1, <3>11, CountKept, Zenon DEF Calm, CountIsBlocksLeft
    <3> QED
      BY <3>12 DEF CountIsBlocksLeft
  <2> QED
    BY <2>2, <2>3, <2>4
<1> QED
  BY <1>1, <1>2, CountDownAlone

(* Projection::mu keeps a second thread out of the release loop, and no    *)
(* result of a released snippet comes back.                                *)
LEMMA ReleaseStep ==
    ASSUME TypeOK, OnePlace, ReleaseAlone, CountIsBlocksLeft, [Next]_vars
    PROVE  ReleaseAlone'
<1>1. ASSUME NEW p \in Projectors, block_count_down(p), UNCHANGED delivered PROVE ReleaseAlone'
  <2>1. \A q \in Projectors : pc'[q] = "release" => q = p
    <3>1. \A q \in Projectors \ {p} : pc'[q] = pc[q] /\ pc[q] # "release"
      BY <1>1, CountDownPlaces, Zenon DEF block_count_down, MuFree
    <3> QED
      BY <3>1
  <2>2. ASSUME NEW r, r = result[p], NEW t, t = r.snippet, pc'[p] = "release"
        PROVE  result'[p].snippet = t /\ BlocksLeft(t)' = {}
    BY <1>1, <2>2, CountedDown
  <2>3. pc'[p] = "release" => BlocksLeft(result[p].snippet)' = {}
    BY <2>2 DEF BlocksLeft, Undelivered, Uncounted, DeliveredFor
  <2> QED
    BY <2>1, <2>3 DEF ReleaseAlone
<1>2. CASE ~ \E p \in Projectors : block_count_down(p)
  <2>1. \A s : BlocksLeft(s)' = BlocksLeft(s)
    BY <1>2, LeftSame
  <2>2. \A q \in Projectors : pc'[q] = "release" => pc[q] = "release" /\ result'[q] = result[q]
    <3>1. ASSUME NEW r \in Results, enqueue_projection(r)
          PROVE  pc' = pc /\ result' = result
      BY <3>1 DEF enqueue_projection, projectionVars
    <3>2. ASSUME NEW p \in Projectors, PopResult(p), NEW q \in Projectors, pc'[q] = "release"
          PROVE  pc[q] = "release" /\ result'[q] = result[q]
      BY <3>2 DEF PopResult, TypeOK
    <3>3. CASE Quiet
      <4>1. \A q \in Projectors : pc'[q] = "release" => Busy(q)'
        BY DEF Busy
      <4> QED
        BY <3>3, <4>1 DEF Quiet
    <3> QED
      BY <1>2, <3>1, <3>2, <3>3, QuietSteps
  <2>3. ASSUME NEW q \in Projectors, pc'[q] = "release"
        PROVE  BlocksLeft(result[q].snippet)' = {}
    <3>1. PICK t : t = result[q].snippet
      OBVIOUS
    <3>2. BlocksLeft(t)' = {} /\ result'[q].snippet = t
      BY <2>1, <2>2, <2>3, <3>1 DEF ReleaseAlone
    <3> QED
      BY <3>2 DEF BlocksLeft, Undelivered, Uncounted, DeliveredFor
  <2> QED
    BY <2>2, <2>3 DEF ReleaseAlone
<1> QED
  BY <1>1, <1>2, CountDownAlone

-----------------------------------------------------------------------------
(* The owner of a merge buffer writes it under the key of its snippet.     *)
LEMMA OwnerWrites ==
    ASSUME TypeOK, BuffersAreFiled, BufferStaysWhileInUse,
           NEW p \in Projectors, Busy(p),
           NEW b \in MergeBuffers, b.snippet = result[p].snippet,
           id_buffer_map' = [id_buffer_map EXCEPT ![p][key(p)] = b],
           result' = result, \A q \in Projectors \ {p} : pc'[q] = pc[q]
    PROVE  BuffersAreFiled' /\ BufferStaysWhileInUse'
<1>1. key(p) \in Keys /\ b # Absent
  BY BusyKey, ProjectionAssumption DEF MergeBuffers
<1>2. /\ id_buffer_map'[p][key(p)] = b
      /\ \A k \in Keys \ {key(p)} : id_buffer_map'[p][k] = id_buffer_map[p][k]
      /\ \A q \in Projectors \ {p} : id_buffer_map'[q] = id_buffer_map[q]
  BY <1>1 DEF TypeOK
<1>3. \A s \in Snippets : /\ make_map_key(s) \in Keys
                          /\ make_map_key(s) = key(p) => b.snippet = s
  BY OwnKey
<1>4. BuffersAreFiled'
  BY <1>2, <1>3 DEF BuffersAreFiled
<1>5. \A q \in Projectors : key(q)' = key(q)
  BY DEF key
<1>6. BufferStaysWhileInUse'
  BY <1>1, <1>2, <1>5 DEF BufferStaysWhileInUse
<1> QED
  BY <1>4, <1>6

(* A step that leaves the buffers alone and takes no thread into the row   *)
(* loop keeps what is known about them.                                    *)
LEMMA BuffersSame ==
    ASSUME BuffersAreFiled, BufferStaysWhileInUse, id_buffer_map' = id_buffer_map,
           \A q \in Projectors : pc'[q] \in {"rows", "count_down"} =>
               pc[q] \in {"rows", "count_down"} /\ result'[q] = result[q]
    PROVE  BuffersAreFiled' /\ BufferStaysWhileInUse'
<1>1. BuffersAreFiled'
  BY DEF BuffersAreFiled
<1>2. BufferStaysWhileInUse'
  BY DEF BufferStaysWhileInUse, key
<1> QED
  BY <1>1, <1>2

(* The release loop erases no buffer that its owner is using.              *)
LEMMA ReleaseSpares ==
    ASSUME TypeOK, OnePlace, ReleaseAlone, BuffersAreFiled, BufferStaysWhileInUse,
           NEW p \in Projectors, release_buffer(p)
    PROVE  BuffersAreFiled' /\ BufferStaysWhileInUse'
<1> DEFINE q == merge_buffer_list_[index[p]]
<1>1. /\ pc[p] = "release" /\ Busy(p) /\ pc' = pc /\ result' = result
      /\ id_buffer_map' = [id_buffer_map EXCEPT ![q][key(p)] = Absent]
  BY DEF release_buffer, Busy
<1>2. q \in Projectors /\ key(p) \in Keys
  <2>1. merge_buffer_list_ \in Seq(Projectors) /\ index[p] \in Nat \ {0}
    BY DEF TypeOK
  <2>2. index[p] <= Len(merge_buffer_list_)
    BY DEF release_buffer
  <2>3. q \in Projectors
    BY <2>1, <2>2
  <2> QED
    BY <1>1, <2>3, BusyKey
<1> HIDE DEF q
<1>3. /\ id_buffer_map'[q][key(p)] = Absent
      /\ \A k \in Keys \ {key(p)} : id_buffer_map'[q][k] = id_buffer_map[q][k]
      /\ \A x \in Projectors \ {q} : id_buffer_map'[x] = id_buffer_map[x]
  <2>1. id_buffer_map \in [Projectors -> [Keys -> MergeBuffers \cup {Absent}]]
    BY DEF TypeOK
  <2> QED
    BY <1>1, <1>2, <2>1
<1>4. \A s \in Snippets : make_map_key(s) \in Keys
  BY DEF Keys
<1>5. BuffersAreFiled'
  BY <1>3, <1>4 DEF BuffersAreFiled
<1>6. ASSUME NEW x \in Projectors, pc[x] \in {"rows", "count_down"}
      PROVE  key(x) \in Keys \ {key(p)}
  <2>1. Busy(x) /\ x # p
    BY <1>1, <1>6 DEF Busy
  <2>2. result[x] \in Results /\ result[x].snippet \in Snippets /\ key(x) \in Keys
    BY <2>1, BusyKey
  <2>3. result[x].snippet # result[p].snippet
    BY <1>1, <2>1, AloneWithSnippet
  <2>4. key(x) # key(p)
    BY <1>1, <2>2, <2>3, OwnKey DEF key
  <2> QED
    BY <2>2, <2>4
<1>7. \A x \in Projectors : key(x)' = key(x)
  BY <1>1 DEF key
<1>8. BufferStaysWhileInUse'
  BY <1>1, <1>3, <1>6, <1>7 DEF BufferStaysWhileInUse
<1> QED
  BY <1>5, <1>8

(* Every step of projection.cc keeps the buffers of the threads in order.  *)
LEMMA BufferStep ==
    ASSUME TypeOK, OnePlace, ReleaseAlone, BuffersAreFiled, BufferStaysWhileInUse, [Next]_vars
    PROVE  BuffersAreFiled' /\ BufferStaysWhileInUse'
<1> DEFINE Goal == BuffersAreFiled' /\ BufferStaysWhileInUse'
           Same == /\ id_buffer_map' = id_buffer_map
                   /\ \A q \in Projectors : pc'[q] \in {"rows", "count_down"} =>
                          pc[q] \in {"rows", "count_down"} /\ result'[q] = result[q]
<1>1. Same => Goal
  BY BuffersSame
<1>2. UNCHANGED vars => Same
  BY DEF vars, projectionVars
<1>3. ASSUME NEW r \in Results, enqueue_projection(r) PROVE Same
  BY <1>3 DEF enqueue_projection, projectionVars
<1>4. ASSUME NEW p \in Projectors, ReadMergeBufferList(p) PROVE Same
  BY <1>4 DEF ReadMergeBufferList, TypeOK
<1>5. ASSUME NEW p \in Projectors, WriteMergeBufferList(p) PROVE Same
  BY <1>5 DEF WriteMergeBufferList, TypeOK
<1>6. ASSUME NEW p \in Projectors, PopResult(p) PROVE Same
  BY <1>6 DEF PopResult, TypeOK
<1>7. ASSUME NEW p \in Projectors, make_block_count_map(p) PROVE Same
  BY <1>7 DEF make_block_count_map, TypeOK
<1>8. ASSUME NEW p \in Projectors, block_count_down(p) PROVE Same
  <2>1. /\ pc'[p] \in {"pop", "release"} /\ id_buffer_map' = id_buffer_map
        /\ \A q \in Projectors \ {p} : pc'[q] = pc[q] /\ result'[q] = result[q]
    BY <1>8, CountDownMoves
  <2> QED
    BY <2>1
<1>9. ASSUME NEW p \in Projectors, erase_count(p) PROVE Same
  BY <1>9 DEF erase_count, TypeOK
<1>10. ASSUME NEW p \in Projectors, release_buffer(p) PROVE Goal
  BY <1>10, ReleaseSpares
<1>11. ASSUME NEW p \in Projectors, check_id_buffer(p) PROVE Goal
  <2>1. /\ pc[p] = "check_buffer" /\ Busy(p) /\ id_buffer_map' = id_buffer_map /\ result' = result
        /\ pc' = [pc EXCEPT ![p] = IF id_buffer_map[p][key(p)] = Absent THEN "insert" ELSE "rows"]
    BY <1>11 DEF check_id_buffer, Busy
  <2>2. BuffersAreFiled'
    BY <2>1 DEF BuffersAreFiled
  <2>3. \A q \in Projectors : key(q)' = key(q)
    BY <2>1 DEF key
  <2>4. pc'[p] = "rows" => /\ id_buffer_map[p][key(p)] # Absent
                           /\ id_buffer_map[p][key(p)].snippet = result[p].snippet
    BY <2>1, BusyKey, Zenon DEF TypeOK, BuffersAreFiled, key
  <2>5. pc'[p] # "count_down" /\ \A q \in Projectors \ {p} : pc'[q] = pc[q]
    BY <2>1 DEF TypeOK
  <2>6. BufferStaysWhileInUse'
    BY <2>1, <2>3, <2>4, <2>5 DEF BufferStaysWhileInUse
  <2> QED
    BY <2>2, <2>6
<1>12. ASSUME NEW p \in Projectors, insert_buffer(p) PROVE Goal
  <2>1. /\ Busy(p) /\ result' = result /\ \A q \in Projectors \ {p} : pc'[q] = pc[q]
        /\ id_buffer_map' = [id_buffer_map EXCEPT ![p][key(p)] = NewResult(result[p].snippet)]
    BY <1>12 DEF insert_buffer, Busy, TypeOK
  <2>2. /\ NewResult(result[p].snippet) \in MergeBuffers
        /\ NewResult(result[p].snippet).snippet = result[p].snippet
    BY <2>1, BusyKey, NewResultType
  <2> QED
    BY <2>1, <2>2, OwnerWrites, Zenon
<1>13. ASSUME NEW p \in Projectors, pc[p] = "rows"
       PROVE  Busy(p) /\ Buffer(p) \in MergeBuffers /\ Buffer(p).snippet = result[p].snippet
  <2>1. Busy(p)
    BY <1>13 DEF Busy
  <2> QED
    BY <1>13, <2>1, BufferType DEF BufferStaysWhileInUse, Buffer
<1>14. ASSUME NEW p \in Projectors, projectioning(p) PROVE Goal
  <2> DEFINE row  == Projected[result[p].rows[index[p]]]
             full == Buffer(p).data_length + ProjectedLength[row] > BUFFER_SIZE
             base == IF full THEN clear(Buffer(p)) ELSE Buffer(p)
             new  == AddRow(base, row, ProjectedLength[row])
  <2>1. /\ pc[p] = "rows" /\ index[p] <= Len(result[p].rows)
        /\ id_buffer_map' = [id_buffer_map EXCEPT ![p][key(p)] = new]
        /\ result' = result /\ pc' = pc
    BY <1>14 DEF projectioning
  <2>2. Busy(p) /\ Buffer(p) \in MergeBuffers /\ Buffer(p).snippet = result[p].snippet
    BY <1>13, <2>1
  <2>3. row \in ProjectedRows
    BY <2>1, <2>2, RowType
  <2>4. base \in MergeBuffers /\ base.snippet = result[p].snippet
    BY <2>2, ClearType
  <2> HIDE DEF base, full, row
  <2>5. new \in MergeBuffers /\ new.snippet = result[p].snippet
    BY <2>3, <2>4, AddRowType
  <2> HIDE DEF new
  <2> QED
    BY <2>1, <2>2, <2>5, OwnerWrites, Zenon
<1>15. ASSUME NEW p \in Projectors, AddCounts(p) PROVE Goal
  <2> DEFINE new == WithCounts(Buffer(p), result[p])
  <2>1. pc[p] = "rows" /\ result' = result /\ \A q \in Projectors \ {p} : pc'[q] = pc[q]
    BY <1>15 DEF AddCounts, TypeOK
  <2>2. Busy(p) /\ Buffer(p) \in MergeBuffers /\ Buffer(p).snippet = result[p].snippet
    BY <1>13, <2>1
  <2>3. id_buffer_map' = [id_buffer_map EXCEPT ![p][key(p)] = new]
    BY <1>15 DEF AddCounts
  <2>4. new \in MergeBuffers /\ new.snippet = result[p].snippet
    BY <2>2, BusyKey, AddCountsType
  <2> HIDE DEF new
  <2> QED
    BY <2>1, <2>2, <2>3, <2>4, OwnerWrites, Zenon
<1> HIDE DEF Goal, Same
<1>16. Goal
  BY <1>1, <1>2, <1>3, <1>4, <1>5, <1>6, <1>7, <1>8, <1>9, <1>10, <1>11, <1>12, <1>14, <1>15
     DEF Next, Project, ProjectionStep
<1> QED
  BY <1>16 DEF Goal
-----------------------------------------------------------------------------
(* Before the first result all threads are at the start of                 *)
(* projection_worker and the maps are empty.                               *)
LEMMA InitCountInv == Init => CountInv
<1> SUFFICES ASSUME Init PROVE CountInv
  OBVIOUS
<1>1. /\ \A p \in Projectors : pc[p] = "start" /\ ~ Busy(p) /\ ~ Counting(p)
      /\ Queued = {} /\ delivered = {}
  BY DEF Init, ProjectionInit, Busy, Counting, Queued
<1>2. TypeOK
  <2>1. collided \in BOOLEAN
    BY Zenon DEF Init, ProjectionInit
  <2> QED
    BY <1>1, <2>1 DEF Init, ProjectionInit, TypeOK, PcTypes
<1>3. OnePlace
  BY <1>1 DEF Init, OnePlace
<1>4. ReleaseAlone
  BY <1>1 DEF ReleaseAlone
<1>5. CountIsBlocksLeft
  <2>1. \A s \in Snippets : id_block_count_map_[make_map_key(s)] = Absent
    BY Zenon DEF Init, ProjectionInit, Keys
  <2>2. \A s : BlocksLeft(s) = BlocksOf[s]
    BY <1>1 DEF BlocksLeft, Undelivered, Uncounted, DeliveredFor, BlocksIn
  <2> QED
    BY <1>1, <2>1, <2>2, Zenon DEF CountIsBlocksLeft, CountRight
<1>6. BuffersAreFiled
  BY Zenon DEF BuffersAreFiled, Init, ProjectionInit, Keys
<1>7. BufferStaysWhileInUse
  BY <1>1 DEF BufferStaysWhileInUse
<1> QED
  BY <1>2, <1>3, <1>4, <1>5, <1>6, <1>7 DEF CountInv

(* The block counting of projection.cc hangs together in every reachable   *)
(* state, for any number of threads, snippets and results, also when the   *)
(* unguarded accesses collide.                                             *)
THEOREM CountInvariant == Spec => []CountInv
<1>1. ASSUME CountInv, [Next]_vars PROVE CountInv'
  BY <1>1, TypeStep, OnePlaceStep, ReleaseStep, CountStep, BufferStep DEF CountInv
<1> QED
  BY <1>1, InitCountInv, PTL DEF Spec

(* The maps, queues and locals of projection.cc keep their types.          *)
THEOREM TypeCorrect == Spec => []TypeOK
<1>1. CountInv => TypeOK
  BY DEF CountInv
<1> QED
  BY <1>1, CountInvariant, PTL

(* "block_count 내리고 작업 완료 시 release_buffer" (projection.cc:83):    *)
(* block_count_down_and_release_buffer enters the release loop only when   *)
(* no result of the snippet is to come, queued or in another thread's      *)
(* hands.                                                                  *)
THEOREM ReleasesOnlyComplete == Spec => []ReleaseOnlyWhenComplete
<1>1. CountInv => ReleaseOnlyWhenComplete
  <2> SUFFICES ASSUME CountInv, NEW p \in Projectors, pc[p] = "release"
               PROVE  /\ Undelivered(result[p].snippet) = {}
                      /\ \A r \in Queued : r.snippet # result[p].snippet
                      /\ \A q \in Projectors \ {p} : Busy(q) => result[q].snippet # result[p].snippet
    BY DEF ReleaseOnlyWhenComplete
  <2>1. TypeOK /\ OnePlace /\ ReleaseAlone /\ BlocksLeft(result[p].snippet) = {}
    BY DEF CountInv, ReleaseAlone
  <2> QED
    BY <2>1, NothingOnTheWay, AloneWithSnippet
<1> QED
  BY <1>1, CountInvariant, PTL

(* No merge buffer is erased by another thread's release loop while its    *)
(* owner, which takes no lock, is adding rows or counts to it.             *)
THEOREM BuffersStay == Spec => []BufferStaysWhileInUse
<1>1. CountInv => BufferStaysWhileInUse
  BY DEF CountInv
<1> QED
  BY <1>1, CountInvariant, PTL
-----------------------------------------------------------------------------
(* Merging something new puts it in one more place.                        *)
LEMMA SpreadAdd ==
    ASSUME NEW P, NEW B, B = [x \in P |-> B[x]], NEW R, NEW M, NEW lost, Spread(B, R, M, lost),
           NEW p \in P, NEW N, N \cap M = {}
    PROVE  Spread([B EXCEPT ![p] = B[p] \cup N], R, M \cup N, lost)
<1> DEFINE C == [B EXCEPT ![p] = B[p] \cup N]
<1>1. DOMAIN B = P /\ DOMAIN C = P /\ \A x \in P : C[x] = IF x = p THEN B[p] \cup N ELSE B[x]
  OBVIOUS
<1>2. /\ \A x \in P : B[x] \subseteq M
      /\ \A i \in DOMAIN R : R[i] \subseteq M
      /\ \A x, y \in P : x # y => B[x] \cap B[y] = {}
      /\ \A i, j \in DOMAIN R : i # j => R[i] \cap R[j] = {}
      /\ \A x \in P, i \in DOMAIN R : B[x] \cap R[i] = {}
      /\ lost \/ \A z \in M : (\E x \in P : z \in B[x]) \/ (\E i \in DOMAIN R : z \in R[i])
  BY <1>1 DEF Spread
<1> HIDE DEF C
<1>3. \A x \in P : C[x] \subseteq M \cup N
  BY <1>1, <1>2
<1>4. \A x, y \in P : x # y => C[x] \cap C[y] = {}
  BY <1>1, <1>2
<1>5. \A x \in P, i \in DOMAIN R : C[x] \cap R[i] = {}
  BY <1>1, <1>2
<1>6. lost \/ \A z \in M \cup N : (\E x \in P : z \in C[x]) \/ (\E i \in DOMAIN R : z \in R[i])
  BY <1>1, <1>2
<1> QED
  BY <1>1, <1>2, <1>3, <1>4, <1>5, <1>6 DEF Spread, C

(* A buffer that is returned gives what it holds to the return layer.      *)
LEMMA SpreadReturn ==
    ASSUME NEW P, NEW B, B = [x \in P |-> B[x]], NEW S, NEW R \in Seq(S), NEW M, NEW lost,
           Spread(B, R, M, lost), NEW p \in P, B[p] \in S
    PROVE  Spread([B EXCEPT ![p] = {}], Append(R, B[p]), M, lost)
<1> DEFINE C == [B EXCEPT ![p] = {}]
           Q == Append(R, B[p])
           n == Len(R) + 1
<1>1. DOMAIN B = P /\ DOMAIN C = P /\ \A x \in P : C[x] = IF x = p THEN {} ELSE B[x]
  OBVIOUS
<1>2. /\ DOMAIN R \subseteq DOMAIN Q /\ n \in DOMAIN Q /\ n \notin DOMAIN R
      /\ \A i \in DOMAIN Q : (i \in DOMAIN R /\ Q[i] = R[i]) \/ (i = n /\ Q[i] = B[p])
  OBVIOUS
<1>3. /\ \A x \in P : B[x] \subseteq M
      /\ \A i \in DOMAIN R : R[i] \subseteq M
      /\ \A x, y \in P : x # y => B[x] \cap B[y] = {}
      /\ \A i, j \in DOMAIN R : i # j => R[i] \cap R[j] = {}
      /\ \A x \in P, i \in DOMAIN R : B[x] \cap R[i] = {}
      /\ lost \/ \A z \in M : (\E x \in P : z \in B[x]) \/ (\E i \in DOMAIN R : z \in R[i])
  BY <1>1 DEF Spread
<1> HIDE DEF C, Q, n
<1>4. \A x \in P : C[x] \subseteq M
  BY <1>1, <1>3
<1>5. \A i \in DOMAIN Q : Q[i] \subseteq M
  BY <1>2, <1>3
<1>6. \A x, y \in P : x # y => C[x] \cap C[y] = {}
  BY <1>1, <1>3
<1>7. \A i, j \in DOMAIN Q : i # j => Q[i] \cap Q[j] = {}
  BY <1>2, <1>3
<1>8. \A x \in P, i \in DOMAIN Q : C[x] \cap Q[i] = {}
  BY <1>1, <1>2, <1>3
<1>9. lost \/ \A z \in M : (\E x \in P : z \in C[x]) \/ (\E i \in DOMAIN Q : z \in Q[i])
  <2> SUFFICES ASSUME ~ lost, NEW z \in M
               PROVE  (\E x \in P : z \in C[x]) \/ (\E i \in DOMAIN Q : z \in Q[i])
    OBVIOUS
  <2>1. CASE \E i \in DOMAIN R : z \in R[i]
    <3>1. PICK i \in DOMAIN R : z \in R[i]
      BY <2>1
    <3>2. i \in DOMAIN Q /\ Q[i] = R[i]
      BY <1>2
    <3> QED
      BY <3>1, <3>2
  <2>2. CASE \E x \in P : z \in B[x]
    <3>1. PICK x \in P : z \in B[x]
      BY <2>2
    <3>2. Q[n] = B[p]
      BY <1>2
    <3> QED
      BY <1>1, <1>2, <3>1, <3>2
  <2> QED
    BY <1>3, <2>1, <2>2
<1> QED
  BY <1>1, <1>4, <1>5, <1>6, <1>7, <1>8, <1>9 DEF Spread, C, Q

(* The return layer is handed nothing of this kind.                        *)
LEMMA SpreadPad ==
    ASSUME NEW B, NEW S, NEW R \in Seq(S), {} \in S, NEW M, NEW lost, Spread(B, R, M, lost)
    PROVE  Spread(B, Append(R, {}), M, lost)
<1> DEFINE Q == Append(R, {})
           n == Len(R) + 1
<1>1. /\ DOMAIN R \subseteq DOMAIN Q
      /\ \A i \in DOMAIN Q : (i \in DOMAIN R /\ Q[i] = R[i]) \/ (i = n /\ Q[i] = {})
      /\ n \notin DOMAIN R
  OBVIOUS
<1> HIDE DEF Q, n
<1>2. /\ \A i \in DOMAIN Q : Q[i] \subseteq M
      /\ \A i, j \in DOMAIN Q : i # j => Q[i] \cap Q[j] = {}
      /\ \A p \in DOMAIN B, i \in DOMAIN Q : B[p] \cap Q[i] = {}
      /\ \A z : (\E i \in DOMAIN R : z \in R[i]) => \E i \in DOMAIN Q : z \in Q[i]
  BY <1>1 DEF Spread
<1> QED
  BY <1>2 DEF Spread, Q

(* A buffer that is erased without being returned is a loss, unless it is  *)
(* empty.                                                                  *)
LEMMA SpreadLose ==
    ASSUME NEW P, NEW B, B = [x \in P |-> B[x]], NEW R, NEW M, NEW lost, NEW later,
           Spread(B, R, M, lost), NEW p \in P, later \/ B[p] = {}, lost => later
    PROVE  Spread([B EXCEPT ![p] = {}], R, M, later)
<1> DEFINE C == [B EXCEPT ![p] = {}]
<1>1. DOMAIN B = P /\ DOMAIN C = P /\ \A x \in P : C[x] = IF x = p THEN {} ELSE B[x]
  OBVIOUS
<1> HIDE DEF C
<1>2. /\ \A x \in P : B[x] \subseteq M
      /\ \A i \in DOMAIN R : R[i] \subseteq M
      /\ \A x, y \in P : x # y => B[x] \cap B[y] = {}
      /\ \A i, j \in DOMAIN R : i # j => R[i] \cap R[j] = {}
      /\ \A x \in P, i \in DOMAIN R : B[x] \cap R[i] = {}
      /\ lost \/ \A z \in M : (\E x \in P : z \in B[x]) \/ (\E i \in DOMAIN R : z \in R[i])
  BY <1>1 DEF Spread
<1>3. later \/ \A z \in M : (\E x \in P : z \in C[x]) \/ (\E i \in DOMAIN R : z \in R[i])
  BY <1>1, <1>2
<1> QED
  BY <1>1, <1>2, <1>3 DEF Spread, C

(* What may have been lost stays lost.                                     *)
LEMMA SpreadLost ==
    ASSUME NEW B, NEW R, NEW M, NEW lost, NEW later, Spread(B, R, M, lost), lost => later
    PROVE  Spread(B, R, M, later)
BY DEF Spread
-----------------------------------------------------------------------------
(* A step that merges nothing: what has been merged stays the same when    *)
(* nothing delivered before changes and nothing new is merged yet.         *)
LEMMA MergedSame ==
    ASSUME NEW kind, NEW s, DeliveredFor(s) \subseteq DeliveredFor(s)',
           \A r \in DeliveredFor(s) :
               /\ Unmerged(r)' <=> Unmerged(r)
               /\ \A n \in DOMAIN r.rows : RowMerged(r, n)' <=> RowMerged(r, n),
           \A r \in DeliveredFor(s)' \ DeliveredFor(s) :
               Unmerged(r)' /\ \A n \in DOMAIN r.rows : ~ RowMerged(r, n)'
    PROVE  Merged(kind, s)' = Merged(kind, s)
<1>1. {r \in DeliveredFor(s)' : ~ Unmerged(r)'} = {r \in DeliveredFor(s) : ~ Unmerged(r)}
  OBVIOUS
<1> DEFINE rows(r)  == {Projected[r.rows[n]] : n \in {m \in DOMAIN r.rows : RowMerged(r, m)}}
           later(r) == {Projected[r.rows[n]] : n \in {m \in DOMAIN r.rows : RowMerged(r, m)'}}
<1>2. \A r \in DeliveredFor(s) : later(r) = rows(r)
  OBVIOUS
<1>3. \A r \in DeliveredFor(s)' \ DeliveredFor(s) : later(r) = {}
  OBVIOUS
<1> HIDE DEF rows, later
<1>4. UNION {later(r) : r \in DeliveredFor(s)'} = UNION {rows(r) : r \in DeliveredFor(s)}
  BY <1>2, <1>3
<1>5. Merged("blocks", s)' = Merged("blocks", s)
  BY <1>1 DEF Merged, BlocksIn
<1>6. kind # "blocks" => Merged(kind, s)' = Merged(kind, s)
  BY <1>4, Zenon DEF Merged, rows, later
<1> QED
  BY <1>5, <1>6

(* The positions of a result's rows are positive.                          *)
LEMMA RowPositions ==
    ASSUME TypeOK, NEW r \in delivered, NEW n \in DOMAIN r.rows
    PROVE  n \in Nat \ {0} /\ r.rows \in Seq(Rows) /\ n <= Len(r.rows) /\ Projected[r.rows[n]] \in ProjectedRows
<1>1. r.rows \in Seq(Rows)
  BY ResultsAssumption, Zenon DEF TypeOK, CsdResults
<1> QED
  BY <1>1, CsdDataAssumption

(* A step in which no thread takes a result, merges a row or adds counts.  *)
Placid ==
    /\ delivered' = delivered
    /\ projection_queue_' = projection_queue_
    /\ \A q \in Projectors : /\ Merging(q)' <=> Merging(q)
                             /\ Merging(q) => result'[q] = result[q] /\ NextRow(q)' = NextRow(q)

(* Such a step leaves what has been merged alone.                          *)
LEMMA PlacidMerged ==
    ASSUME Placid, NEW kind, NEW s
    PROVE  Merged(kind, s)' = Merged(kind, s)
<1>1. DeliveredFor(s)' = DeliveredFor(s) /\ Queued' = Queued
  BY DEF Placid, DeliveredFor, Queued
<1>2. \A r : Unmerged(r)' <=> Unmerged(r)
  BY <1>1 DEF Placid, Unmerged
<1>3. \A r, n : RowMerged(r, n)' <=> RowMerged(r, n)
  BY <1>2 DEF Placid, RowMerged
<1> QED
  BY <1>1, <1>2, <1>3, MergedSame

(* Delivering a result merges nothing.                                     *)
LEMMA DeliverMerged ==
    ASSUME TypeOK, OnePlace, NEW r \in Results, enqueue_projection(r), NEW kind, NEW s
    PROVE  Merged(kind, s)' = Merged(kind, s)
<1>1. /\ r.blocks \subseteq Undelivered(r.snippet) /\ delivered' = delivered \cup {r}
      /\ Queued' = Queued \cup {r} /\ UNCHANGED <<pc, result, index>>
  BY Delivers
<1>2. r \notin delivered
  BY <1>1, FreshResult
<1>3. \A q \in Projectors : /\ Merging(q)' <=> Merging(q)
                            /\ NextRow(q)' = NextRow(q) /\ result'[q] = result[q]
                            /\ Merging(q) => result[q] # r
  BY <1>1, <1>2 DEF Merging, NextRow, Counting, Busy, OnePlace
<1>4. \A x \in delivered : Unmerged(x)' <=> Unmerged(x)
  <2>1. \A x \in delivered : x \in Queued' <=> x \in Queued
    BY <1>1, <1>2
  <2>2. \A x : (\E q \in Projectors : Merging(q)' /\ result'[q] = x)
                 <=> \E q \in Projectors : Merging(q) /\ result[q] = x
    BY <1>3
  <2> QED
    BY <2>1, <2>2 DEF Unmerged
<1>5. \A x \in delivered : \A n : RowMerged(x, n)' <=> RowMerged(x, n)
  BY <1>3, <1>4 DEF RowMerged
<1>8. Unmerged(r)'
  BY <1>1 DEF Unmerged
<1>9. \A n : ~ RowMerged(r, n)'
  BY <1>3, <1>8 DEF RowMerged
<1>6. DeliveredFor(s) \subseteq DeliveredFor(s)' /\ DeliveredFor(s)' \ DeliveredFor(s) \subseteq {r}
  BY <1>1 DEF DeliveredFor
<1>7. DeliveredFor(s) \subseteq delivered
  BY DEF DeliveredFor
<1> QED
  BY <1>4, <1>5, <1>6, <1>7, <1>8, <1>9, MergedSame

(* Taking a result from the queue merges nothing.                          *)
LEMMA PopMerged ==
    ASSUME TypeOK, OnePlace, UNCHANGED delivered, NEW p \in Projectors, PopResult(p), NEW kind, NEW s
    PROVE  Merged(kind, s)' = Merged(kind, s)
<1>0. PICK r : r = Head(projection_queue_)
  OBVIOUS
<1>1. /\ result' = [result EXCEPT ![p] = r] /\ pc' = [pc EXCEPT ![p] = "make_map"] /\ pc[p] = "pop"
      /\ projection_queue_ # <<>> /\ projection_queue_' = Tail(projection_queue_) /\ index' = index
  BY <1>0 DEF PopResult
<1>2. Queued = Queued' \cup {r} /\ r \notin Queued'
  BY <1>0, <1>1, PopQueue
<1>3. /\ ~ Merging(p) /\ Merging(p)' /\ result'[p] = r /\ NextRow(p)' = 1
      /\ \A q \in Projectors \ {p} : /\ Merging(q)' <=> Merging(q)
                                     /\ result'[q] = result[q] /\ NextRow(q)' = NextRow(q)
  BY <1>1 DEF Merging, NextRow, Counting, Busy, TypeOK
<1>4. \A q \in Projectors : Merging(q) => result[q] # r
  BY <1>2 DEF Merging, Counting, OnePlace
<1>5. \A x : Unmerged(x)' <=> Unmerged(x)
  BY <1>2, <1>3 DEF Unmerged
<1>6. ASSUME NEW x \in delivered, NEW n \in DOMAIN x.rows PROVE RowMerged(x, n)' <=> RowMerged(x, n)
  <2>1. n \in Nat \ {0}
    BY RowPositions
  <2>2. CASE x = r
    <3>1. Unmerged(r) /\ ~ RowMerged(r, n)
      BY <1>2, <1>4 DEF Unmerged, RowMerged
    <3>2. \A q \in Projectors : (Merging(q)' /\ result'[q] = r) => ~ (n < NextRow(q)')
      BY <1>3, <1>4, <2>1
    <3>3. ~ RowMerged(r, n)'
      BY <1>5, <3>1, <3>2 DEF RowMerged
    <3> QED
      BY <2>2, <3>1, <3>3
  <2>3. CASE x # r
    BY <1>3, <1>5, <2>3 DEF RowMerged
  <2> QED
    BY <2>2, <2>3
<1>7. DeliveredFor(s)' = DeliveredFor(s) /\ DeliveredFor(s) \subseteq delivered
  BY DEF DeliveredFor
<1> QED
  BY <1>5, <1>6, <1>7, MergedSame

(* Rows that can be told apart are equal only at the same place.           *)
LEMMA SameRow ==
    ASSUME NEW s, RowsApart(s), NEW q \in DeliveredFor(s), NEW r \in DeliveredFor(s),
           NEW m \in DOMAIN q.rows, NEW n \in DOMAIN r.rows, Projected[q.rows[m]] = Projected[r.rows[n]]
    PROVE  q = r /\ m = n
BY DEF RowsApart

(* One turn of the row loop merges one row of the thread's result.         *)
LEMMA RowMerges ==
    ASSUME TypeOK, OnePlace, UNCHANGED delivered, NEW p \in Projectors, projectioning(p),
           NEW r, r = result[p], NEW x, x = Projected[r.rows[index[p]]]
    PROVE  /\ \A s : Merged("blocks", s)' = Merged("blocks", s)
           /\ \A s : s # r.snippet => Merged("rows", s)' = Merged("rows", s)
           /\ Merged("rows", r.snippet)' = Merged("rows", r.snippet) \cup {x}
           /\ RowsApart(r.snippet) => x \notin Merged("rows", r.snippet)
<1>1. /\ pc[p] = "rows" /\ index[p] <= Len(r.rows) /\ index' = [index EXCEPT ![p] = @ + 1]
      /\ UNCHANGED <<projection_queue_, pc, result>>
  BY Zenon DEF projectioning
<1>2. Busy(p) /\ Merging(p) /\ r \in delivered \ Queued
  BY <1>1 DEF Busy, Merging, Counting, OnePlace
<1>3. \A q \in Projectors \ {p} : Merging(q) => result[q] # r
  BY <1>2 DEF OnePlace, Merging, Counting
<1>4. \A q \in Projectors : (Merging(q)' <=> Merging(q)) /\ result'[q] = result[q]
  BY <1>1 DEF Merging, Counting, Busy
<1>5. /\ NextRow(p) = index[p] /\ NextRow(p)' = index[p] + 1
      /\ \A q \in Projectors \ {p} : NextRow(q)' = NextRow(q)
  BY <1>1, Zenon DEF NextRow, TypeOK
<1>6. \A y : Unmerged(y)' <=> Unmerged(y)
  BY <1>1, <1>4 DEF Unmerged, Queued
<1>7. \A y : y # r => \A n : RowMerged(y, n)' <=> RowMerged(y, n)
  BY <1>4, <1>5, <1>6, Zenon DEF RowMerged
<1>8. Unmerged(r) /\ \A n : /\ RowMerged(r, n) <=> n < index[p]
                            /\ RowMerged(r, n)' <=> n < index[p] + 1
  <2>1. Unmerged(r)
    BY <1>2 DEF Unmerged
  <2> QED
    BY <1>2, <1>3, <1>4, <1>5, <1>6, <2>1, Zenon DEF RowMerged
<1>9. \A s : DeliveredFor(s)' = DeliveredFor(s)
  BY UndeliveredSame
<1>10. \A s : Merged("blocks", s)' = Merged("blocks", s)
  BY <1>6, <1>9 DEF Merged, BlocksIn
<1>11. \A s : s # r.snippet => Merged("rows", s)' = Merged("rows", s)
  <2> TAKE s
  <2> HAVE s # r.snippet
  <2>1. \A y \in DeliveredFor(s) : y # r
    BY DEF DeliveredFor
  <2> QED
    BY <1>6, <1>7, <1>9, <2>1, MergedSame
<1>12. r \in DeliveredFor(r.snippet) /\ r.rows \in Seq(Rows) /\ index[p] \in DOMAIN r.rows
       /\ index[p] \in Nat \ {0}
  <2>1. r.rows \in Seq(Rows) /\ index[p] \in Nat \ {0}
    BY <1>2, ResultsAssumption DEF TypeOK, CsdResults
  <2> QED
    BY <1>1, <1>2, <2>1 DEF DeliveredFor
<1> DEFINE D == DeliveredFor(r.snippet)
           rows(y)  == {Projected[y.rows[n]] : n \in {m \in DOMAIN y.rows : RowMerged(y, m)}}
           later(y) == {Projected[y.rows[n]] : n \in {m \in DOMAIN y.rows : RowMerged(y, m)'}}
           before == UNION {rows(y) : y \in D}
           after  == UNION {later(y) : y \in D}
<1>13. \A y \in D : y # r => later(y) = rows(y)
  BY <1>7
<1>14. later(r) = rows(r) \cup {x}
  <2>1. \A n \in DOMAIN r.rows : RowMerged(r, n)' <=> (RowMerged(r, n) \/ n = index[p])
    BY <1>8, <1>12
  <2> QED
    BY <1>12, <2>1
<1>15. Merged("rows", r.snippet) = before
  BY DEF Merged
<1>16. Merged("rows", r.snippet)' = after
  BY <1>9 DEF Merged
<1>17. r \in D
  BY <1>12
<1>18. RowsApart(r.snippet) => \A y \in D : x \notin rows(y)
  <2> SUFFICES ASSUME RowsApart(r.snippet), NEW y \in D, NEW n \in DOMAIN y.rows, RowMerged(y, n),
                      x = Projected[y.rows[n]]
               PROVE  FALSE
    OBVIOUS
  <2>0. PICK i : i = index[p]
    OBVIOUS
  <2>1. r \in DeliveredFor(r.snippet) /\ y \in DeliveredFor(r.snippet) /\ i \in DOMAIN r.rows
    BY <1>12, <2>0
  <2>2. Projected[y.rows[n]] = Projected[r.rows[i]]
    BY <2>0, Zenon
  <2>3. y = r /\ n = i
    BY <2>1, <2>2, SameRow
  <2>4. RowMerged(r, i) /\ i \in Nat
    BY <1>12, <2>0, <2>3, Zenon
  <2>5. i < i
    BY <1>8, <2>0, <2>4, Zenon
  <2> QED
    BY <2>4, <2>5
<1> HIDE DEF D, rows, later
<1>19. \A z : z \in after <=> (z \in before \/ z = x)
  <2>1. \A z, y : y \in D => (z \in later(y) <=> (z \in rows(y) \/ (y = r /\ z = x)))
    BY <1>13, <1>14
  <2> QED
    BY <1>17, <2>1
<1>20. RowsApart(r.snippet) => x \notin before
  BY <1>18
<1> HIDE DEF before, after
<1>21. after = before \cup {x}
  BY <1>19
<1>22. Merged("rows", r.snippet)' = Merged("rows", r.snippet) \cup {x}
  BY <1>15, <1>16, <1>21
<1> QED
  BY <1>10, <1>11, <1>15, <1>20, <1>22, Zenon

(* Adding the counts of a result merges its blocks.                        *)
LEMMA CountsMerge ==
    ASSUME TypeOK, OnePlace, UNCHANGED delivered, NEW p \in Projectors, AddCounts(p),
           NEW r, r = result[p]
    PROVE  /\ \A s : Merged("rows", s)' = Merged("rows", s)
           /\ \A s : s # r.snippet => Merged("blocks", s)' = Merged("blocks", s)
           /\ Merged("blocks", r.snippet)' = Merged("blocks", r.snippet) \cup r.blocks
           /\ r.blocks \cap Merged("blocks", r.snippet) = {}
<1>1. /\ pc[p] = "rows" /\ index[p] > Len(r.rows) /\ pc' = [pc EXCEPT ![p] = "count_down"]
      /\ UNCHANGED <<projection_queue_, index, result>>
  BY DEF AddCounts
<1>2. Busy(p) /\ Merging(p) /\ r \in delivered \ Queued
  BY <1>1 DEF Busy, Merging, Counting, OnePlace
<1>3. \A q \in Projectors \ {p} : Merging(q) => result[q] # r
  BY <1>2 DEF OnePlace, Merging, Counting
<1>4. /\ ~ Merging(p)'
      /\ \A q \in Projectors \ {p} : /\ Merging(q)' <=> Merging(q)
                                     /\ result'[q] = result[q] /\ NextRow(q)' = NextRow(q)
  BY <1>1 DEF Merging, Counting, Busy, NextRow, TypeOK
<1>5. Queued' = Queued
  BY <1>1 DEF Queued
<1>6. Unmerged(r) /\ ~ Unmerged(r)' /\ \A y : y # r => (Unmerged(y)' <=> Unmerged(y))
  BY <1>2, <1>3, <1>4, <1>5 DEF Unmerged
<1>7. \A y : y # r => \A n : RowMerged(y, n)' <=> RowMerged(y, n)
  BY <1>2, <1>4, <1>6 DEF RowMerged
<1>8. \A n \in DOMAIN r.rows : RowMerged(r, n) /\ RowMerged(r, n)'
  <2> TAKE n \in DOMAIN r.rows
  <2>1. n \in Nat \ {0} /\ n <= Len(r.rows) /\ r.rows \in Seq(Rows)
    BY <1>2, RowPositions
  <2>2. n < NextRow(p)
    BY <1>1, <2>1 DEF NextRow, TypeOK
  <2>3. RowMerged(r, n)
    BY <1>2, <2>2 DEF RowMerged
  <2>4. RowMerged(r, n)'
    BY <1>6 DEF RowMerged
  <2> QED
    BY <2>3, <2>4
<1>9. \A s : DeliveredFor(s)' = DeliveredFor(s)
  BY UndeliveredSame
<1>10. \A y : \A n \in DOMAIN y.rows : RowMerged(y, n)' <=> RowMerged(y, n)
  BY <1>7, <1>8
<1>11. \A s : Merged("rows", s)' = Merged("rows", s)
  <2> DEFINE rows(y)  == {Projected[y.rows[n]] : n \in {m \in DOMAIN y.rows : RowMerged(y, m)}}
             later(y) == {Projected[y.rows[n]] : n \in {m \in DOMAIN y.rows : RowMerged(y, m)'}}
  <2>1. \A y : later(y) = rows(y)
    BY <1>10
  <2>2. \A s : /\ Merged("rows", s) = UNION {rows(y) : y \in DeliveredFor(s)}
               /\ Merged("rows", s)' = UNION {later(y) : y \in DeliveredFor(s)'}
    BY DEF Merged
  <2> HIDE DEF rows, later
  <2>3. ASSUME NEW D PROVE {later(y) : y \in D} = {rows(y) : y \in D}
    BY <2>1
  <2> QED
    BY <1>9, <2>2, <2>3, Zenon
<1>12. \A s : s # r.snippet => Merged("blocks", s)' = Merged("blocks", s)
  <2> TAKE s
  <2> HAVE s # r.snippet
  <2>1. \A y \in DeliveredFor(s) : y # r
    BY DEF DeliveredFor
  <2> QED
    BY <1>6, <1>9, <2>1 DEF Merged, BlocksIn
<1>13. r \in DeliveredFor(r.snippet)
  BY <1>2 DEF DeliveredFor
<1>14. {y \in DeliveredFor(r.snippet)' : ~ Unmerged(y)'} = {y \in DeliveredFor(r.snippet) : ~ Unmerged(y)} \cup {r}
  BY <1>6, <1>9, <1>13
<1>15. Merged("blocks", r.snippet)' = Merged("blocks", r.snippet) \cup r.blocks
  BY <1>14 DEF Merged, BlocksIn
<1>16. r.blocks \cap Merged("blocks", r.snippet) = {}
  <2> SUFFICES ASSUME NEW b \in r.blocks, b \in Merged("blocks", r.snippet) PROVE FALSE
    BY Zenon
  <2>1. PICK y \in DeliveredFor(r.snippet) : ~ Unmerged(y) /\ b \in y.blocks
    BY Zenon DEF Merged, BlocksIn
  <2>2. y \in delivered /\ r \in delivered /\ y.snippet = r.snippet /\ y # r
    BY <1>2, <1>6, <2>1, Zenon DEF DeliveredFor
  <2>3. y.blocks \cap r.blocks = {}
    BY <2>2, Zenon DEF OnePlace
  <2> QED
    BY <2>1, <2>3, Zenon
<1> QED
  BY <1>11, <1>12, <1>15, <1>16

(* All other steps merge nothing.                                          *)
LEMMA PlacidSteps ==
    ASSUME TypeOK, InsertsNew, UNCHANGED delivered, NEW p \in Projectors,
           \/ ReadMergeBufferList(p) \/ WriteMergeBufferList(p) \/ make_block_count_map(p)
           \/ check_id_buffer(p) \/ insert_buffer(p) \/ block_count_down(p)
           \/ release_buffer(p) \/ erase_count(p)
    PROVE  Placid
<1> USE DEF TypeOK, Placid, Merging, NextRow, Counting, Busy
<1>1. CASE ReadMergeBufferList(p)
  BY <1>1 DEF ReadMergeBufferList
<1>2. CASE WriteMergeBufferList(p)
  BY <1>2 DEF WriteMergeBufferList
<1>3. CASE make_block_count_map(p)
  BY <1>3, Zenon DEF make_block_count_map
<1>4. CASE check_id_buffer(p)
  BY <1>4 DEF check_id_buffer
<1>5. CASE insert_buffer(p)
  BY <1>5 DEF insert_buffer, InsertsNew
<1>6. CASE block_count_down(p)
  <2>1. pc[p] = "count_down" /\ pc'[p] \in {"pop", "release"} /\ projection_queue_' = projection_queue_
    BY <1>6 DEF block_count_down
  <2>2. \A q \in Projectors \ {p} : pc'[q] = pc[q] /\ result'[q] = result[q] /\ index'[q] = index[q]
    BY <1>6 DEF block_count_down
  <2> QED
    BY <2>1, <2>2, Zenon
<1>7. CASE release_buffer(p)
  BY <1>7 DEF release_buffer
<1>8. CASE erase_count(p)
  BY <1>8 DEF erase_count
<1> QED
  BY <1>1, <1>2, <1>3, <1>4, <1>5, <1>6, <1>7, <1>8, Zenon

(* What results and merge buffers can hold.                                *)
Contents == SUBSET (Blocks \cup ProjectedRows)

(* The contents of a merge buffer are blocks or projected rows.            *)
LEMMA ContentType ==
    ASSUME NEW kind, NEW b \in MergeBuffers
    PROVE  Content(kind, b) \in Contents
<1>1. b.blocks \in SUBSET Blocks /\ b.rows \in Seq(ProjectedRows)
  BY DEF MergeBuffers, CsdResults
<1> QED
  BY <1>1 DEF Content, Contents

(* The contents of a buffer after each of the operations on it.            *)
LEMMA ContentAddRow ==
    ASSUME NEW b \in MergeBuffers, NEW x \in ProjectedRows, NEW length \in Nat
    PROVE  /\ Content("blocks", AddRow(b, x, length)) = Content("blocks", b)
           /\ Content("rows", AddRow(b, x, length)) = Content("rows", b) \cup {x}
           /\ AddRow(b, x, length).snippet = b.snippet
<1>1. b.rows \in Seq(ProjectedRows)
  BY DEF MergeBuffers, CsdResults
<1>2. /\ AddRow(b, x, length).blocks = b.blocks
      /\ AddRow(b, x, length).rows = Append(b.rows, x)
      /\ AddRow(b, x, length).snippet = b.snippet
  BY DEF MergeBuffers, CsdResults, AddRow
<1> DEFINE R == b.rows
           Q == Append(R, x)
           n == Len(R) + 1
<1>3. /\ DOMAIN R \subseteq DOMAIN Q /\ n \in DOMAIN Q /\ n \notin DOMAIN R
      /\ \A i \in DOMAIN Q : (i \in DOMAIN R /\ Q[i] = R[i]) \/ (i = n /\ Q[i] = x)
  BY <1>1
<1> HIDE DEF Q, n
<1>4. {Q[i] : i \in DOMAIN Q} = {R[i] : i \in DOMAIN R} \cup {x}
  <2>1. \A i \in DOMAIN R : i \in DOMAIN Q /\ Q[i] = R[i]
    BY <1>3
  <2>2. Q[n] = x
    BY <1>3
  <2> QED
    BY <1>3, <2>1, <2>2
<1> QED
  BY <1>2, <1>4 DEF Content, Q

(* Adding the counts of a result adds its blocks and no row.               *)
LEMMA ContentWithCounts ==
    ASSUME NEW b \in MergeBuffers, NEW r
    PROVE  /\ Content("blocks", WithCounts(b, r)) = Content("blocks", b) \cup r.blocks
           /\ Content("rows", WithCounts(b, r)) = Content("rows", b)
           /\ WithCounts(b, r).snippet = b.snippet
BY DEF MergeBuffers, CsdResults, Content, WithCounts

(* A fresh buffer holds nothing.                                           *)
LEMMA ContentNew ==
    ASSUME NEW kind, NEW s
    PROVE  Content(kind, NewResult(s)) = {} /\ NewResult(s).snippet = s
<1>1. NewResult(s).rows = <<>> /\ NewResult(s).blocks = {} /\ NewResult(s).snippet = s
  BY DEF NewResult, CsdResult
<1>2. {<< >>[i] : i \in DOMAIN << >>} = {}
  OBVIOUS
<1> QED
  BY <1>1, <1>2 DEF Content
-----------------------------------------------------------------------------
(* The step writes one entry of a thread's map.                            *)
Written(p, k, b) ==
    \A q \in Projectors, j \in Keys :
        id_buffer_map'[q][j] = IF q = p /\ j = k THEN b ELSE id_buffer_map[q][j]

(* An assignment through operator[] writes one entry.                      *)
LEMMA Writes ==
    ASSUME id_buffer_map \in [Projectors -> [Keys -> MergeBuffers \cup {Absent}]],
           NEW p \in Projectors, NEW k \in Keys, NEW b,
           id_buffer_map' = [id_buffer_map EXCEPT ![p][k] = b]
    PROVE  Written(p, k, b)
BY DEF Written

(* The places where the contents of a snippet are, after a write to one    *)
(* entry of a thread's map.                                                *)
LEMMA BufferWritten ==
    ASSUME NEW p \in Projectors, NEW s \in Snippets, NEW b,
           Written(p, make_map_key(s), b), NEW kind
    PROVE  /\ InBuffers(kind, s)' = [InBuffers(kind, s) EXCEPT ![p] = IF b = Absent THEN {} ELSE Content(kind, b)]
           /\ \A t \in Snippets \ {s} : InBuffers(kind, t)' = InBuffers(kind, t)
<1>1. \A t \in Snippets : make_map_key(t) \in Keys /\ (make_map_key(t) = make_map_key(s) => t = s)
  BY ResultsAssumption DEF Keys
<1>2. \A t \in Snippets, q \in Projectors :
          id_buffer_map'[q][make_map_key(t)] = IF q = p /\ t = s THEN b ELSE id_buffer_map[q][make_map_key(t)]
  BY <1>1 DEF Written
<1> DEFINE in(x) == IF x = Absent THEN {} ELSE Content(kind, x)
<1>3. \A t \in Snippets : /\ InBuffers(kind, t) = [q \in Projectors |-> in(id_buffer_map[q][make_map_key(t)])]
                          /\ InBuffers(kind, t)' = [q \in Projectors |-> in(id_buffer_map'[q][make_map_key(t)])]
  BY DEF InBuffers
<1> HIDE DEF in
<1>4. InBuffers(kind, s)' = [InBuffers(kind, s) EXCEPT ![p] = in(b)]
  <2>1. PICK B, C : B = InBuffers(kind, s) /\ C = InBuffers(kind, s)'
    BY Zenon
  <2>2. /\ B = [q \in Projectors |-> in(id_buffer_map[q][make_map_key(s)])]
        /\ C = [q \in Projectors |-> in(id_buffer_map'[q][make_map_key(s)])]
    BY <1>3, <2>1, Zenon
  <2>3. \A q \in Projectors : C[q] = IF q = p THEN in(b) ELSE B[q]
    BY <1>2, <2>2, Zenon
  <2>4. B = [q \in Projectors |-> B[q]] /\ C = [q \in Projectors |-> C[q]]
    BY <2>2
  <2>5. C = [B EXCEPT ![p] = in(b)]
    BY <2>3, <2>4
  <2> QED
    BY <2>1, <2>5, Zenon
<1>5. ASSUME NEW t \in Snippets \ {s} PROVE InBuffers(kind, t)' = InBuffers(kind, t)
  <2>1. \A q \in Projectors : in(id_buffer_map'[q][make_map_key(t)]) = in(id_buffer_map[q][make_map_key(t)])
    BY <1>2, Zenon
  <2> QED
    BY <1>3, <2>1, Zenon
<1> QED
  BY <1>4, <1>5 DEF in

(* The contents of the other snippets.                                     *)
LEMMA OthersWritten ==
    ASSUME NEW p \in Projectors, NEW s \in Snippets, NEW b,
           Written(p, make_map_key(s), b), NEW kind, NEW t \in Snippets \ {s}
    PROVE  InBuffers(kind, t)' = InBuffers(kind, t)
BY BufferWritten

(* enqueue_return adds the contents of a buffer to those returned for its  *)
(* snippet, and nothing to those of the others.                            *)
LEMMA ResultReturned ==
    ASSUME return_queue_ \in Seq(MergeBuffers), NEW b \in MergeBuffers,
           return_queue_' = Append(return_queue_, b), NEW kind, NEW s
    PROVE  InReturned(kind, s)' = Append(InReturned(kind, s), IF b.snippet = s THEN Content(kind, b) ELSE {})
<1>1. \A x \in MergeBuffers : Content(kind, x) \in Contents
  BY ContentType
<1>2. {} \in Contents
  BY DEF Contents
<1> DEFINE in(x) == IF x.snippet = s THEN Content(kind, x) ELSE {}
           R == InReturned(kind, s)
           Q == InReturned(kind, s)'
<1>3. /\ DOMAIN return_queue_ = 1 .. Len(return_queue_) /\ Len(return_queue_) \in Nat
      /\ DOMAIN return_queue_' = 1 .. (Len(return_queue_) + 1)
      /\ \A i \in 1 .. Len(return_queue_) : return_queue_'[i] = return_queue_[i] /\ return_queue_[i] \in MergeBuffers
      /\ return_queue_'[Len(return_queue_) + 1] = b
  OBVIOUS
<1>4. R = [i \in 1 .. Len(return_queue_) |-> in(return_queue_[i])]
  BY <1>3 DEF InReturned
<1>5. Q = [i \in 1 .. (Len(return_queue_) + 1) |-> in(return_queue_'[i])]
  BY <1>3 DEF InReturned
<1>6. R \in Seq(Contents) /\ Len(R) = Len(return_queue_)
  BY <1>1, <1>2, <1>3, <1>4
<1>7. Append(R, in(b)) = [i \in 1 .. (Len(R) + 1) |-> IF i = Len(R) + 1 THEN in(b) ELSE R[i]]
  BY <1>6
<1>8. \A i \in 1 .. (Len(return_queue_) + 1) : i = Len(return_queue_) + 1 \/ i \in 1 .. Len(return_queue_)
  BY <1>3
<1>9. \A i \in 1 .. (Len(return_queue_) + 1) :
          in(return_queue_'[i]) = IF i = Len(return_queue_) + 1 THEN in(b) ELSE R[i]
  <2> HIDE DEF in
  <2> QED
    BY <1>3, <1>4, <1>8, Zenon
<1>10. Q = Append(R, in(b))
  <2> HIDE DEF in, R, Q
  <2> QED
    BY <1>5, <1>6, <1>7, <1>9, Zenon
<1> QED
  BY <1>10, Zenon

(* What has been returned, as a sequence of contents.                      *)
LEMMA InReturnedType ==
    ASSUME return_queue_ \in Seq(MergeBuffers), NEW kind, NEW s
    PROVE  InReturned(kind, s) \in Seq(Contents)
<1>1. \A x \in MergeBuffers : Content(kind, x) \in Contents
  BY ContentType
<1>2. {} \in Contents
  BY DEF Contents
<1>3. DOMAIN return_queue_ = 1 .. Len(return_queue_) /\ \A i \in DOMAIN return_queue_ : return_queue_[i] \in MergeBuffers
  OBVIOUS
<1>4. InReturned(kind, s) \in [1 .. Len(return_queue_) -> Contents]
  BY <1>1, <1>2, <1>3 DEF InReturned
<1> QED
  BY <1>4

(* What one thread's map holds of a snippet.                               *)
LEMMA InBuffersIs ==
    ASSUME NEW kind, NEW s, NEW p \in Projectors, NEW b, b = id_buffer_map[p][make_map_key(s)]
    PROVE  /\ InBuffers(kind, s) = [q \in Projectors |-> InBuffers(kind, s)[q]]
           /\ InBuffers(kind, s)[p] = IF b = Absent THEN {} ELSE Content(kind, b)
BY DEF InBuffers

(* The owner adds something new to its buffer.                             *)
LEMMA WriteOnce ==
    ASSUME NEW p \in Projectors, NEW s \in Snippets, NEW b, b = id_buffer_map[p][make_map_key(s)],
           b # Absent, NEW c \in MergeBuffers, c # Absent,
           Written(p, make_map_key(s), c),
           return_queue_' = return_queue_, collided' = collided,
           NEW kind, NEW N, Content(kind, c) = Content(kind, b) \cup N,
           Merged(kind, s)' = Merged(kind, s) \cup N, N \cap Merged(kind, s) = {}, Once(kind, s)
    PROVE  Once(kind, s)'
<1> DEFINE B == InBuffers(kind, s)
           R == InReturned(kind, s)
           M == Merged(kind, s)
<1>1. B = [q \in Projectors |-> B[q]] /\ B[p] = Content(kind, b)
  BY DEF InBuffers
<1>2. InBuffers(kind, s)' = [B EXCEPT ![p] = B[p] \cup N]
  <2>1. InBuffers(kind, s)' = [B EXCEPT ![p] = IF c = Absent THEN {} ELSE Content(kind, c)]
    BY BufferWritten
  <2> QED
    BY <1>1, <2>1
<1>3. InReturned(kind, s)' = R
  BY DEF InReturned
<1>4. Spread(B, R, M, collided)
  BY DEF Once
<1> HIDE DEF B, R, M
<1>5. Spread([B EXCEPT ![p] = B[p] \cup N], R, M \cup N, collided)
  BY <1>1, <1>4, SpreadAdd DEF M
<1> QED
  BY <1>2, <1>3, <1>5 DEF Once, M

(* The owner sends a full buffer and starts it again with something new.   *)
LEMMA FlushOnce ==
    ASSUME return_queue_ \in Seq(MergeBuffers),
           NEW p \in Projectors, NEW s \in Snippets, NEW b \in MergeBuffers,
           b = id_buffer_map[p][make_map_key(s)], b # Absent, b.snippet = s,
           NEW c \in MergeBuffers, c # Absent,
           Written(p, make_map_key(s), c),
           return_queue_' = Append(return_queue_, b), collided' = collided,
           NEW kind, NEW N, Content(kind, c) = N,
           Merged(kind, s)' = Merged(kind, s) \cup N, N \cap Merged(kind, s) = {}, Once(kind, s)
    PROVE  Once(kind, s)'
<1> DEFINE B == InBuffers(kind, s)
           R == InReturned(kind, s)
           M == Merged(kind, s)
           C == [B EXCEPT ![p] = {}]
           Q == Append(R, B[p])
<1>1. B = [q \in Projectors |-> B[q]] /\ B[p] = Content(kind, b)
  BY InBuffersIs
<1>2. InBuffers(kind, s)' = [B EXCEPT ![p] = N]
  <2>1. InBuffers(kind, s)' = [B EXCEPT ![p] = IF c = Absent THEN {} ELSE Content(kind, c)]
    BY BufferWritten
  <2> QED
    BY <1>1, <2>1
<1>3. InReturned(kind, s)' = Q
  BY <1>1, ResultReturned
<1>4. Spread(B, R, M, collided)
  BY DEF Once
<1>5. R \in Seq(Contents) /\ B[p] \in Contents
  BY <1>1, InReturnedType, ContentType
<1> HIDE DEF B, R, M
<1>6. Spread(C, Q, M, collided)
  BY <1>1, <1>4, <1>5, SpreadReturn, Zenon
<1>7. C = [q \in Projectors |-> C[q]] /\ C[p] = {} /\ [C EXCEPT ![p] = C[p] \cup N] = [B EXCEPT ![p] = N]
  BY <1>1, Zenon
<1>8. Spread([C EXCEPT ![p] = C[p] \cup N], Q, M \cup N, collided)
  <2> HIDE DEF C, Q
  <2> QED
    BY <1>6, <1>7, SpreadAdd, Zenon DEF M
<1> QED
  BY <1>2, <1>3, <1>7, <1>8 DEF Once, M

(* The release loop erases a buffer, which it has sent unless accesses     *)
(* collide.                                                                *)
LEMMA EraseOnce ==
    ASSUME return_queue_ \in Seq(MergeBuffers), Absent \notin MergeBuffers,
           NEW q \in Projectors, NEW s \in Snippets, NEW b \in MergeBuffers \cup {Absent},
           b = id_buffer_map[q][make_map_key(s)], b # Absent => b.snippet = s,
           Written(q, make_map_key(s), Absent),
           \/ b # Absent /\ return_queue_' = Append(return_queue_, b)
           \/ return_queue_' = return_queue_ /\ (b = Absent \/ collided'),
           collided => collided', NEW kind, Merged(kind, s)' = Merged(kind, s), Once(kind, s)
    PROVE  Once(kind, s)'
<1> DEFINE B == InBuffers(kind, s)
           R == InReturned(kind, s)
           M == Merged(kind, s)
           C == [B EXCEPT ![q] = {}]
<1>1. B = [x \in Projectors |-> B[x]] /\ B[q] = IF b = Absent THEN {} ELSE Content(kind, b)
  BY InBuffersIs
<1>2. InBuffers(kind, s)' = C
  <2>1. InBuffers(kind, s)' = [B EXCEPT ![q] = IF Absent = Absent THEN {} ELSE Content(kind, Absent)]
    BY BufferWritten
  <2> QED
    BY <1>1, <2>1
<1>3. Spread(B, R, M, collided)
  BY DEF Once
<1>4. CASE b # Absent /\ return_queue_' = Append(return_queue_, b)
  <2>1. InReturned(kind, s)' = Append(R, B[q])
    BY <1>1, <1>4, ResultReturned
  <2>2. R \in Seq(Contents) /\ B[q] \in Contents
    BY <1>1, <1>4, InReturnedType, ContentType
  <2> HIDE DEF B, R, M
  <2>3. Spread(C, Append(R, B[q]), M, collided)
    BY <1>1, <1>3, <2>2, SpreadReturn
  <2>4. Spread(C, Append(R, B[q]), M, collided')
    <3> HIDE DEF C
    <3> QED
      BY <2>3, SpreadLost
  <2> QED
    BY <1>2, <2>1, <2>4 DEF Once, M
<1>5. CASE return_queue_' = return_queue_ /\ (b = Absent \/ collided')
  <2>1. InReturned(kind, s)' = R
    BY <1>5, Zenon DEF InReturned
  <2>2. collided' \/ B[q] = {}
    BY <1>1, <1>5
  <2> HIDE DEF B, R, M
  <2>3. Spread(C, R, M, collided')
    BY <1>1, <1>3, <2>2, SpreadLose
  <2> QED
    BY <1>2, <2>1, <2>3 DEF Once, M
<1> QED
  BY <1>4, <1>5

(* The other snippets are not concerned.                                   *)
LEMMA OtherOnce ==
    ASSUME return_queue_ \in Seq(MergeBuffers), NEW kind, NEW t,
           InBuffers(kind, t)' = InBuffers(kind, t), Merged(kind, t)' = Merged(kind, t),
           \/ return_queue_' = return_queue_
           \/ \E b \in MergeBuffers : b.snippet # t /\ return_queue_' = Append(return_queue_, b),
           collided => collided', Once(kind, t)
    PROVE  Once(kind, t)'
<1> DEFINE B == InBuffers(kind, t)
           R == InReturned(kind, t)
           M == Merged(kind, t)
<1>1. Spread(B, R, M, collided)
  BY DEF Once
<1>2. Spread(B, R, M, collided')
  <2> HIDE DEF B, R, M
  <2> QED
    BY <1>1, SpreadLost
<1>3. CASE return_queue_' = return_queue_
  <2>1. InReturned(kind, t)' = R
    BY <1>3 DEF InReturned
  <2> QED
    BY <1>2, <2>1 DEF Once
<1>4. CASE \E b \in MergeBuffers : b.snippet # t /\ return_queue_' = Append(return_queue_, b)
  <2>1. InReturned(kind, t)' = Append(R, {})
    BY <1>4, ResultReturned
  <2>2. R \in Seq(Contents) /\ {} \in Contents
    BY InReturnedType DEF Contents
  <2> HIDE DEF B, R, M
  <2>3. Spread(B, Append(R, {}), M, collided')
    BY <1>2, <2>2, SpreadPad
  <2> QED
    BY <2>1, <2>3 DEF Once, B, M
<1> QED
  BY <1>3, <1>4
-----------------------------------------------------------------------------
(* The operations on a buffer keep it sound.                               *)
LEMMA SoundNew ==
    ASSUME NEW s
    PROVE  Sound(NewResult(s)) /\ NoRowTwice(NewResult(s))
<1>1. /\ NewResult(s).blocks = {} /\ NewResult(s).current_block_count = 0
      /\ NewResult(s).data_length = 0 /\ NewResult(s).rows = <<>>
  BY DEF NewResult, CsdResult
<1>2. IsFiniteSet({}) /\ Cardinality({}) = 0
  BY FS_EmptySet
<1> QED
  BY <1>1, <1>2, CsdDataAssumption DEF Sound, NoRowTwice

(* A row that fits keeps a buffer sound, and a new one keeps its rows      *)
(* apart.                                                                  *)
LEMMA SoundAddRow ==
    ASSUME NEW b \in MergeBuffers, Sound(b), NEW x \in ProjectedRows, NEW length \in Nat,
           b.data_length + length <= BUFFER_SIZE
    PROVE  /\ Sound(AddRow(b, x, length))
           /\ (NoRowTwice(b) /\ x \notin Content("rows", b)) => NoRowTwice(AddRow(b, x, length))
<1>1. b.rows \in Seq(ProjectedRows)
  BY DEF MergeBuffers, CsdResults
<1>2. /\ AddRow(b, x, length).blocks = b.blocks
      /\ AddRow(b, x, length).current_block_count = b.current_block_count
      /\ AddRow(b, x, length).data_length = b.data_length + length
      /\ AddRow(b, x, length).rows = Append(b.rows, x)
  BY DEF MergeBuffers, CsdResults, AddRow
<1>3. Sound(AddRow(b, x, length))
  BY <1>2 DEF Sound
<1>4. ASSUME NoRowTwice(b), x \notin Content("rows", b) PROVE NoRowTwice(AddRow(b, x, length))
  <2> DEFINE Q == Append(b.rows, x)
             n == Len(b.rows) + 1
  <2>1. \A i \in DOMAIN Q : \/ i \in DOMAIN b.rows /\ Q[i] = b.rows[i] /\ i # n
                            \/ i = n /\ Q[i] = x
    BY <1>1
  <2> HIDE DEF Q, n
  <2>2. \A i \in DOMAIN b.rows : b.rows[i] # x
    BY <1>4 DEF Content
  <2>3. \A i, j \in DOMAIN Q : Q[i] = Q[j] => i = j
    BY <1>4, <2>1, <2>2 DEF NoRowTwice
  <2> QED
    BY <1>2, <2>3 DEF NoRowTwice, Q
<1> QED
  BY <1>3, <1>4

(* The counts of a result with other blocks keep a buffer sound.           *)
LEMMA SoundWithCounts ==
    ASSUME NEW b \in MergeBuffers, Sound(b), NEW r \in Results, r.blocks \cap b.blocks = {}
    PROVE  Sound(WithCounts(b, r)) /\ (NoRowTwice(b) => NoRowTwice(WithCounts(b, r)))
<1>1. /\ WithCounts(b, r).blocks = b.blocks \cup r.blocks
      /\ WithCounts(b, r).current_block_count = b.current_block_count + r.current_block_count
      /\ WithCounts(b, r).data_length = b.data_length
      /\ WithCounts(b, r).rows = b.rows
  BY DEF MergeBuffers, CsdResults, WithCounts
<1>2. IsFiniteSet(r.blocks) /\ r.current_block_count = Cardinality(r.blocks)
  <2>1. r.snippet \in Snippets
    BY ResultsAssumption DEF CsdResults
  <2>2. IsFiniteSet(BlocksOf[r.snippet]) /\ r.blocks \subseteq BlocksOf[r.snippet]
    BY <2>1, ResultsAssumption
  <2> QED
    BY <2>2, FS_Subset, ResultsAssumption
<1>3. IsFiniteSet(b.blocks) /\ b.current_block_count = Cardinality(b.blocks) /\ b.data_length <= BUFFER_SIZE
  BY DEF Sound
<1>4. /\ IsFiniteSet(b.blocks \cup r.blocks)
      /\ Cardinality(b.blocks \cup r.blocks) = Cardinality(b.blocks) + Cardinality(r.blocks)
                                               - Cardinality(b.blocks \cap r.blocks)
  BY <1>2, <1>3, FS_Union
<1>5. Cardinality(b.blocks \cap r.blocks) = 0
  <2>1. b.blocks \cap r.blocks = {}
    OBVIOUS
  <2> QED
    BY <2>1, FS_EmptySet
<1>6. Cardinality(b.blocks) \in Nat /\ Cardinality(r.blocks) \in Nat
  BY <1>2, <1>3, FS_CardinalityType
<1>7. Cardinality(b.blocks \cup r.blocks) = b.current_block_count + r.current_block_count
  <2>1. PICK m, n : m = Cardinality(b.blocks) /\ n = Cardinality(r.blocks)
    BY Zenon
  <2>2. m \in Nat /\ n \in Nat
    BY <1>6, <2>1, Zenon
  <2>3. m + n - 0 = m + n
    BY <2>2
  <2> QED
    BY <1>2, <1>3, <1>4, <1>5, <2>1, <2>3, Zenon
<1>8. Sound(WithCounts(b, r))
  BY <1>1, <1>3, <1>4, <1>7 DEF Sound
<1> QED
  BY <1>1, <1>8 DEF NoRowTwice

(* A step that writes one sound buffer and at most returns another.        *)
LEMMA StaysSound ==
    ASSUME return_queue_ \in Seq(MergeBuffers), AllSound,
           NEW p \in Projectors, NEW k \in Keys, NEW c, Written(p, k, c), c # Absent => Sound(c),
           \/ return_queue_' = return_queue_
           \/ \E b \in MergeBuffers : Sound(b) /\ return_queue_' = Append(return_queue_, b)
    PROVE  AllSound'
<1>1. \A q \in Projectors, j \in Keys : id_buffer_map'[q][j] # Absent => Sound(id_buffer_map'[q][j])
  BY DEF Written, AllSound
<1>2. \A i \in DOMAIN return_queue_' : Sound(return_queue_'[i])
  <2>1. CASE return_queue_' = return_queue_
    BY <2>1 DEF AllSound
  <2>2. CASE \E b \in MergeBuffers : Sound(b) /\ return_queue_' = Append(return_queue_, b)
    <3>1. PICK b \in MergeBuffers : Sound(b) /\ return_queue_' = Append(return_queue_, b)
      BY <2>2
    <3>2. \A i \in DOMAIN return_queue_' : \/ i \in DOMAIN return_queue_ /\ return_queue_'[i] = return_queue_[i]
                                           \/ return_queue_'[i] = b
      BY <3>1
    <3> QED
      BY <3>1, <3>2 DEF AllSound
  <2> QED
    BY <2>1, <2>2
<1> QED
  BY <1>1, <1>2, Zenon DEF AllSound, Sound

(* A step that writes one buffer without a row twice, and at most returns  *)
(* another.                                                                *)
LEMMA StaysApart ==
    ASSUME return_queue_ \in Seq(MergeBuffers), NEW t \in Snippets, NoneTwice(t),
           NEW p \in Projectors, NEW s \in Snippets, NEW c, Written(p, make_map_key(s), c),
           (c # Absent /\ t = s) => NoRowTwice(c),
           \/ return_queue_' = return_queue_
           \/ \E b \in MergeBuffers : /\ b.snippet = t => NoRowTwice(b)
                                      /\ return_queue_' = Append(return_queue_, b)
    PROVE  NoneTwice(t)'
<1>0. make_map_key(t) \in Keys /\ (make_map_key(t) = make_map_key(s) => t = s)
  BY ResultsAssumption DEF Keys
<1> DEFINE k == make_map_key(t)
<1>1. \A q \in Projectors : id_buffer_map'[q][k] # Absent => NoRowTwice(id_buffer_map'[q][k])
  BY <1>0, Zenon DEF Written, NoneTwice
<1>2. \A i \in DOMAIN return_queue_' : return_queue_'[i].snippet = t => NoRowTwice(return_queue_'[i])
  <2>1. CASE return_queue_' = return_queue_
    BY <2>1 DEF NoneTwice, Returned
  <2>2. CASE \E b \in MergeBuffers : /\ b.snippet = t => NoRowTwice(b)
                                     /\ return_queue_' = Append(return_queue_, b)
    <3>1. PICK b \in MergeBuffers : (b.snippet = t => NoRowTwice(b)) /\ return_queue_' = Append(return_queue_, b)
      BY <2>2
    <3>2. \A i \in DOMAIN return_queue_' : \/ i \in DOMAIN return_queue_ /\ return_queue_'[i] = return_queue_[i]
                                           \/ return_queue_'[i] = b
      BY <3>1
    <3> QED
      BY <3>1, <3>2 DEF NoneTwice, Returned
  <2> QED
    BY <2>1, <2>2
<1> QED
  BY <1>1, <1>2, Zenon DEF NoneTwice, Returned, NoRowTwice

(* More deliveries cannot make rows easier to tell apart.                  *)
LEMMA StillApart ==
    ASSUME delivered \subseteq delivered', NEW s, RowsApart(s)'
    PROVE  RowsApart(s)
BY DEF RowsApart, DeliveredFor

(* Where neither buffers nor returned results change and nothing is        *)
(* merged, everything is still held once.                                  *)
LEMMA HeldStill ==
    ASSUME AllSound, \A s \in Snippets : HeldFor(s), return_queue_ \in Seq(MergeBuffers),
           UNCHANGED <<id_buffer_map, return_queue_>>, collided => collided',
           delivered \subseteq delivered', \A kind, s : Merged(kind, s)' = Merged(kind, s)
    PROVE  AllSound' /\ \A s \in Snippets : HeldFor(s)'
<1>1. AllSound'
  BY DEF AllSound, Sound
<1>2. ASSUME NEW kind, NEW s, Once(kind, s) PROVE Once(kind, s)'
  <2>1. InBuffers(kind, s)' = InBuffers(kind, s)
    BY DEF InBuffers
  <2> QED
    BY <1>2, <2>1, OtherOnce
<1>3. ASSUME NEW s, NoneTwice(s) PROVE NoneTwice(s)'
  BY <1>3 DEF NoneTwice, NoRowTwice, Returned
<1>4. ASSUME NEW s \in Snippets PROVE HeldFor(s)'
  <2>1. Once("blocks", s)'
    BY <1>2 DEF HeldFor
  <2>2. RowsApart(s)' => (Once("rows", s)' /\ NoneTwice(s)')
    BY <1>2, <1>3, StillApart DEF HeldFor, RowsOnce
  <2> QED
    BY <2>1, <2>2 DEF HeldFor, RowsOnce
<1> QED
  BY <1>1, <1>4

(* A thread that is in the row loop or after it has its own merge buffer.  *)
LEMMA BufferInUse ==
    ASSUME TypeOK, BufferStaysWhileInUse, NEW p \in Projectors, pc[p] = "rows",
           NEW b, b = id_buffer_map[p][key(p)]
    PROVE  /\ Busy(p) /\ Buffer(p) = b /\ b \in MergeBuffers /\ b # Absent
           /\ b.snippet = result[p].snippet
<1>1. Busy(p)
  BY DEF Busy
<1>2. key(p) \in Keys
  BY <1>1, BusyKey
<1>3. b # Absent /\ b.snippet = result[p].snippet
  BY DEF BufferStaysWhileInUse
<1>4. b \in MergeBuffers \cup {Absent}
  BY <1>2 DEF TypeOK
<1> QED
  BY <1>1, <1>3, <1>4 DEF Buffer

(* The rows or blocks N join a thread's buffer for the snippet, or an      *)
(* empty one after the buffer has been returned.                           *)
LEMMA PlaceOnce ==
    ASSUME return_queue_ \in Seq(MergeBuffers), Absent \notin MergeBuffers, collided' = collided,
           NEW p \in Projectors, NEW s \in Snippets,
           NEW b \in MergeBuffers, b = id_buffer_map[p][make_map_key(s)], b.snippet = s,
           NEW base, NEW c \in MergeBuffers, Written(p, make_map_key(s), c),
           NEW kind, NEW N,
           \/ base = b /\ return_queue_' = return_queue_
           \/ Content(kind, base) = {} /\ return_queue_' = Append(return_queue_, b),
           Content(kind, c) = Content(kind, base) \cup N,
           Merged(kind, s)' = Merged(kind, s) \cup N, N \cap Merged(kind, s) = {}, Once(kind, s)
    PROVE  Once(kind, s)'
<1>1. b # Absent /\ c # Absent
  OBVIOUS
<1>2. CASE base = b /\ return_queue_' = return_queue_
  <2>1. Content(kind, c) = Content(kind, b) \cup N
    BY <1>2
  <2> QED
    BY <1>1, <1>2, <2>1, WriteOnce, Zenon
<1>3. CASE Content(kind, base) = {} /\ return_queue_' = Append(return_queue_, b)
  <2>1. Content(kind, c) = N
    BY <1>3
  <2> QED
    BY <1>1, <1>3, <2>1, FlushOnce, Zenon
<1> QED
  BY <1>2, <1>3

(* What adding row x to a buffer, or to an empty one after the buffer has  *)
(* been returned, does to the contents; and what it does to what is merged.*)
RowInto(b, base, c, x) ==
    /\ \/ base = b /\ return_queue_' = return_queue_
       \/ /\ NoRowTwice(base) /\ \A kind : Content(kind, base) = {}
          /\ return_queue_' = Append(return_queue_, b)
    /\ Sound(c)
    /\ (NoRowTwice(base) /\ x \notin Content("rows", base)) => NoRowTwice(c)
    /\ Content("blocks", c) = Content("blocks", base)
    /\ Content("rows", c) = Content("rows", base) \cup {x}

RowJoins(s, x) ==
    /\ \A t : Merged("blocks", t)' = Merged("blocks", t)
    /\ \A t : t # s => Merged("rows", t)' = Merged("rows", t)
    /\ Merged("rows", s)' = Merged("rows", s) \cup {x}
    /\ RowsApart(s) => x \notin Merged("rows", s)

(* A row goes to a thread's buffer for the snippet, or to an empty one     *)
(* after the buffer has been returned.                                     *)
LEMMA RowAdded ==
    ASSUME return_queue_ \in Seq(MergeBuffers), Absent \notin MergeBuffers,
           AllSound, \A t \in Snippets : HeldFor(t), UNCHANGED <<delivered, collided>>,
           NEW p \in Projectors, NEW s \in Snippets,
           NEW b \in MergeBuffers, b = id_buffer_map[p][make_map_key(s)], b.snippet = s,
           NEW base, NEW c \in MergeBuffers, NEW x, Written(p, make_map_key(s), c),
           RowInto(b, base, c, x), RowJoins(s, x)
    PROVE  AllSound' /\ \A t \in Snippets : HeldFor(t)'
<1>1. b # Absent /\ c # Absent /\ make_map_key(s) \in Keys
  BY DEF Keys
<1>2. Sound(b)
  BY <1>1 DEF AllSound
<1>3. AllSound'
  <2>1. \/ return_queue_' = return_queue_
        \/ \E y \in MergeBuffers : Sound(y) /\ return_queue_' = Append(return_queue_, y)
    BY <1>2 DEF RowInto
  <2>2. Sound(c)
    BY DEF RowInto
  <2> QED
    BY <1>1, <2>1, <2>2, StaysSound
<1>4. ASSUME NEW kind \in {"blocks", "rows"}, Once(kind, s), kind = "rows" => RowsApart(s)
      PROVE  Once(kind, s)'
  <2>1. PICK N : N = IF kind = "blocks" THEN {} ELSE {x}
    BY Zenon
  <2>2. Merged(kind, s)' = Merged(kind, s) \cup N /\ N \cap Merged(kind, s) = {}
    BY <1>4, <2>1 DEF RowJoins
  <2>3. Content(kind, c) = Content(kind, base) \cup N
    BY <2>1 DEF RowInto
  <2>4. \/ base = b /\ return_queue_' = return_queue_
        \/ Content(kind, base) = {} /\ return_queue_' = Append(return_queue_, b)
    BY Zenon DEF RowInto
  <2> QED
    BY <1>4, <2>2, <2>3, <2>4, PlaceOnce, Zenon
<1>5. ASSUME NEW kind \in {"blocks", "rows"}, NEW t \in Snippets \ {s}, Once(kind, t)
      PROVE  Once(kind, t)'
  <2>1. InBuffers(kind, t)' = InBuffers(kind, t)
    BY OthersWritten
  <2>2. Merged(kind, t)' = Merged(kind, t)
    BY DEF RowJoins
  <2>3. \/ return_queue_' = return_queue_
        \/ \E y \in MergeBuffers : y.snippet # t /\ return_queue_' = Append(return_queue_, y)
    BY DEF RowInto
  <2> QED
    BY <1>5, <2>1, <2>2, <2>3, OtherOnce, Zenon
<1>6. ASSUME NEW t \in Snippets, RowsOnce(t), t = s => RowsApart(s) PROVE NoneTwice(t)'
  <2>1. NoneTwice(t) /\ Once("rows", t)
    BY <1>6 DEF RowsOnce
  <2>2. t = s => NoRowTwice(b)
    BY <1>1, <2>1, Zenon DEF NoneTwice
  <2>3. ASSUME t = s PROVE x \notin Content("rows", b)
    <3> DEFINE B == InBuffers("rows", s)
               M == Merged("rows", s)
    <3>1. Spread(B, InReturned("rows", s), M, collided)
      BY <2>1, <2>3 DEF Once
    <3>2. B[p] = Content("rows", b) /\ p \in DOMAIN B
      BY <1>1 DEF InBuffers
    <3>3. x \notin M
      BY <1>6, <2>3 DEF RowJoins
    <3> HIDE DEF B, M
    <3>4. B[p] \subseteq M
      BY <3>1, <3>2, Zenon DEF Spread
    <3> QED
      BY <3>2, <3>3, <3>4, Zenon
  <2>4. t = s => (NoRowTwice(base) /\ x \notin Content("rows", base))
    BY <2>2, <2>3, Zenon DEF RowInto
  <2>5. \/ return_queue_' = return_queue_
        \/ \E y \in MergeBuffers : (y.snippet = t => NoRowTwice(y)) /\ return_queue_' = Append(return_queue_, y)
    BY <2>2 DEF RowInto
  <2>6. t = s => NoRowTwice(c)
    BY <2>4, Zenon DEF RowInto
  <2> QED
    BY <2>1, <2>5, <2>6, StaysApart, Zenon
<1>7. ASSUME NEW t \in Snippets PROVE HeldFor(t)'
  <2>1. Once("blocks", t)'
    BY <1>4, <1>5 DEF HeldFor
  <2>2. RowsApart(t)' => (Once("rows", t)' /\ NoneTwice(t)')
    BY <1>4, <1>5, <1>6, StillApart DEF HeldFor, RowsOnce
  <2> QED
    BY <2>1, <2>2 DEF HeldFor, RowsOnce
<1> QED
  BY <1>3, <1>7

(* One turn of the row loop.                                               *)
LEMMA RowHeld ==
    ASSUME TypeOK, OnePlace, BufferStaysWhileInUse, AllSound, \A s \in Snippets : HeldFor(s),
           UNCHANGED <<delivered, collided>>, NEW p \in Projectors, projectioning(p)
    PROVE  AllSound' /\ \A s \in Snippets : HeldFor(s)'
<1>0. PICK r, b, x : r = result[p] /\ b = Buffer(p) /\ x = Projected[r.rows[index[p]]]
  OBVIOUS
<1> DEFINE s      == r.snippet
           k      == make_map_key(s)
           length == ProjectedLength[x]
           full   == b.data_length + length > BUFFER_SIZE
           base   == IF full THEN clear(b) ELSE b
           c      == AddRow(base, x, length)
<1>1. pc[p] = "rows" /\ index[p] <= Len(result[p].rows)
  BY Zenon DEF projectioning
<1>2. /\ return_queue_' = IF full THEN Append(return_queue_, b) ELSE return_queue_
      /\ id_buffer_map' = [id_buffer_map EXCEPT ![p][k] = c]
  BY <1>0, Zenon DEF projectioning, key
<1>3. Busy(p) /\ b \in MergeBuffers /\ b # Absent /\ b.snippet = s /\ b = id_buffer_map[p][k]
  BY <1>0, <1>1, BufferInUse, Zenon DEF key
<1>4. s \in Snippets /\ k \in Keys
  BY <1>0, <1>3, BusyKey, Zenon DEF key
<1>5. x \in ProjectedRows
  BY <1>0, <1>1, <1>3, RowType, Zenon
<1>6. length \in Nat /\ length <= BUFFER_SIZE /\ BUFFER_SIZE \in Nat
  BY <1>5, CsdDataAssumption, ResultsAssumption, Zenon
<1>7. return_queue_ \in Seq(MergeBuffers) /\ Absent \notin MergeBuffers
  BY ProjectionAssumption, Zenon DEF TypeOK, MergeBuffers
<1>8. Sound(b) /\ b.data_length \in Nat
  <2>1. Sound(b)
    BY <1>3, <1>4, Zenon DEF AllSound
  <2> QED
    BY <1>3, <2>1, Zenon DEF MergeBuffers, CsdResults
<1>9. RowJoins(s, x)
  BY <1>0, RowMerges, Zenon DEF RowJoins
<1>10. ASSUME NEW y \in MergeBuffers, Sound(y), y.data_length + length <= BUFFER_SIZE,
              \/ y = b /\ return_queue_' = return_queue_
              \/ /\ NoRowTwice(y) /\ \A kind : Content(kind, y) = {}
                 /\ return_queue_' = Append(return_queue_, b)
       PROVE  AddRow(y, x, length) \in MergeBuffers /\ RowInto(b, y, AddRow(y, x, length), x)
  <2>1. AddRow(y, x, length) \in MergeBuffers
    BY <1>5, AddRowType
  <2> HIDE DEF length
  <2>2. /\ Sound(AddRow(y, x, length))
        /\ (NoRowTwice(y) /\ x \notin Content("rows", y)) => NoRowTwice(AddRow(y, x, length))
    BY <1>5, <1>6, <1>10, SoundAddRow
  <2>3. /\ Content("blocks", AddRow(y, x, length)) = Content("blocks", y)
        /\ Content("rows", AddRow(y, x, length)) = Content("rows", y) \cup {x}
    BY <1>5, <1>6, ContentAddRow
  <2> QED
    BY <1>10, <2>1, <2>2, <2>3, Zenon DEF RowInto
<1> HIDE DEF length
<1>11. CASE ~ full
  <2>1. c = AddRow(b, x, length) /\ return_queue_' = return_queue_
    BY <1>2, <1>11, Zenon
  <2>2. b.data_length + length <= BUFFER_SIZE
    BY <1>6, <1>8, <1>11
  <2>3. c \in MergeBuffers /\ RowInto(b, b, c, x)
    <3> HIDE DEF c, s, k, base, full
    <3> QED
      BY <1>3, <1>8, <1>10, <2>1, <2>2, Zenon
  <2>4. Written(p, k, c)
    <3> HIDE DEF c, s, k, base, full
    <3> QED
      BY <1>2, <1>4, Writes, Zenon DEF TypeOK
  <2> HIDE DEF c, s, base, full
  <2> QED
    BY <1>3, <1>4, <1>7, <1>9, <2>3, <2>4, RowAdded, Zenon
<1>12. CASE full
  <2>1. c = AddRow(clear(b), x, length) /\ return_queue_' = Append(return_queue_, b)
    BY <1>2, <1>12, Zenon
  <2>2. /\ clear(b) \in MergeBuffers /\ Sound(clear(b)) /\ NoRowTwice(clear(b))
        /\ \A kind : Content(kind, clear(b)) = {}
    BY <1>3, ClearType, SoundNew, ContentNew, Zenon DEF clear
  <2>3. clear(b).data_length + length <= BUFFER_SIZE
    <3>1. clear(b).data_length = 0
      BY DEF clear, NewResult, CsdResult
    <3> QED
      BY <1>6, <3>1
  <2>4. c \in MergeBuffers /\ RowInto(b, clear(b), c, x)
    <3> HIDE DEF c, s, k, base, full
    <3> QED
      BY <1>10, <2>1, <2>2, <2>3, Zenon
  <2>5. Written(p, k, c)
    <3> HIDE DEF c, s, k, base, full
    <3> QED
      BY <1>2, <1>4, Writes, Zenon DEF TypeOK
  <2> HIDE DEF c, s, base, full
  <2> QED
    BY <1>3, <1>4, <1>7, <1>9, <2>4, <2>5, RowAdded, Zenon
<1> QED
  BY <1>11, <1>12
=============================================================================
