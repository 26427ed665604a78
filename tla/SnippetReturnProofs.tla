------------------------- MODULE SnippetReturnProofs -------------------------
(***************************************************************************)
(* Proofs about what the projection stage returns, for any number of       *)
(* threads, snippets and results: every block and every row that was       *)
(* merged is held by one merge buffer or has been returned once, nothing   *)
(* of it is lost without a collision of unguarded accesses, and no merge   *)
(* buffer exceeds raw_data.  The counting is proved in SnippetMergeProofs. *)
(***************************************************************************)
EXTENDS SnippetMergeProofs

(* Adding the counts of a result to a merge buffer.                        *)
LEMMA CountsHeld ==
    ASSUME TypeOK, OnePlace, BufferStaysWhileInUse, AllSound, \A s \in Snippets : HeldFor(s),
           UNCHANGED <<delivered, collided>>, NEW p \in Projectors, AddCounts(p)
    PROVE  AllSound' /\ \A s \in Snippets : HeldFor(s)'
<1>0. PICK r, k, b : r = result[p] /\ k = key(p) /\ b = id_buffer_map[p][k]
  OBVIOUS
<1>1. pc[p] = "rows" /\ return_queue_' = return_queue_
  BY Zenon DEF AddCounts
<1>2. Busy(p) /\ Buffer(p) = b /\ b \in MergeBuffers /\ b # Absent /\ b.snippet = r.snippet
  BY <1>0, <1>1, BufferInUse
<1> DEFINE c == WithCounts(b, r)
           s == r.snippet
<1>3. id_buffer_map' = [id_buffer_map EXCEPT ![p][k] = c]
  BY <1>0, <1>2, Zenon DEF AddCounts
<1>4. /\ s \in Snippets /\ k = make_map_key(s) /\ k \in Keys
      /\ r \in Results /\ r \in CsdResults(Snippets, Rows)
  BY <1>0, <1>2, BusyKey DEF key
<1>5. return_queue_ \in Seq(MergeBuffers) /\ Absent \notin MergeBuffers
  BY ProjectionAssumption, Zenon DEF TypeOK, MergeBuffers
<1>6. /\ \A t : Merged("rows", t)' = Merged("rows", t)
      /\ \A t : t # s => Merged("blocks", t)' = Merged("blocks", t)
      /\ Merged("blocks", s)' = Merged("blocks", s) \cup r.blocks
      /\ r.blocks \cap Merged("blocks", s) = {}
  BY <1>0, CountsMerge
<1>7. b.blocks \subseteq Merged("blocks", s)
  <2>1. Spread(InBuffers("blocks", s), InReturned("blocks", s), Merged("blocks", s), collided)
    BY <1>4 DEF HeldFor, Once
  <2>2. InBuffers("blocks", s)[p] = b.blocks /\ p \in DOMAIN InBuffers("blocks", s)
    BY <1>0, <1>2, <1>4 DEF InBuffers, Content
  <2> QED
    BY <2>1, <2>2, Zenon DEF Spread
<1>8. Sound(b)
  BY <1>0, <1>2, <1>4 DEF AllSound
<1>9. /\ c \in MergeBuffers /\ Sound(c) /\ (NoRowTwice(b) => NoRowTwice(c))
      /\ Content("blocks", c) = Content("blocks", b) \cup r.blocks
      /\ Content("rows", c) = Content("rows", b)
  <2>1. c \in MergeBuffers
    BY <1>2, <1>4, AddCountsType
  <2>2. r.blocks \cap b.blocks = {}
    BY <1>6, <1>7
  <2> QED
    BY <1>2, <1>4, <1>8, <2>1, <2>2, SoundWithCounts, ContentWithCounts, Zenon
<1> HIDE DEF c
<1>10. Written(p, k, c)
  BY <1>3, <1>4, Writes, Zenon DEF TypeOK
<1>11. AllSound'
  BY <1>1, <1>4, <1>5, <1>9, <1>10, StaysSound
<1>12. ASSUME NEW kind \in {"blocks", "rows"}, Once(kind, s) PROVE Once(kind, s)'
  <2> DEFINE N == IF kind = "blocks" THEN r.blocks ELSE {}
  <2>1. Merged(kind, s)' = Merged(kind, s) \cup N /\ N \cap Merged(kind, s) = {}
    BY <1>6
  <2>2. Content(kind, c) = Content(kind, b) \cup N
    BY <1>9
  <2>3. c # Absent /\ Written(p, make_map_key(s), c) /\ b = id_buffer_map[p][make_map_key(s)]
    BY <1>0, <1>4, <1>5, <1>9, <1>10
  <2> HIDE DEF N
  <2> QED
    BY <1>1, <1>2, <1>4, <1>9, <1>12, <2>1, <2>2, <2>3, WriteOnce, ZenonT(30)
<1>13. ASSUME NEW kind \in {"blocks", "rows"}, NEW t \in Snippets \ {s}, Once(kind, t)
       PROVE  Once(kind, t)'
  <2>1. InBuffers(kind, t)' = InBuffers(kind, t)
    BY <1>4, <1>10, BufferWritten
  <2>2. Merged(kind, t)' = Merged(kind, t)
    BY <1>6
  <2> QED
    BY <1>1, <1>5, <1>13, <2>1, <2>2, OtherOnce
<1>14. ASSUME NEW t \in Snippets, RowsOnce(t) PROVE NoneTwice(t)'
  <2>1. t = s => NoRowTwice(c)
    BY <1>0, <1>2, <1>4, <1>9, <1>14 DEF RowsOnce, NoneTwice
  <2>2. NoneTwice(t)
    BY <1>14 DEF RowsOnce
  <2> QED
    BY <1>1, <1>4, <1>5, <1>10, <2>1, <2>2, StaysApart
<1>15. ASSUME NEW t \in Snippets PROVE HeldFor(t)'
  <2>1. Once("blocks", t)'
    BY <1>12, <1>13 DEF HeldFor
  <2>2. RowsApart(t)' => (Once("rows", t)' /\ NoneTwice(t)')
    BY <1>12, <1>13, <1>14, StillApart DEF HeldFor, RowsOnce
  <2> QED
    BY <2>1, <2>2 DEF HeldFor, RowsOnce
<1> QED
  BY <1>11, <1>15

(* The insert of a fresh buffer, where there was none.                     *)
LEMMA InsertHeld ==
    ASSUME TypeOK, InsertsNew, AllSound, \A s \in Snippets : HeldFor(s),
           UNCHANGED <<delivered, collided>>, NEW p \in Projectors, insert_buffer(p)
    PROVE  AllSound' /\ \A s \in Snippets : HeldFor(s)'
<1>0. PICK s, k : s = result[p].snippet /\ k = key(p)
  OBVIOUS
<1>1. /\ pc[p] = "insert" /\ return_queue_' = return_queue_
      /\ id_buffer_map' = [id_buffer_map EXCEPT ![p][k] = NewResult(s)]
  BY <1>0 DEF insert_buffer
<1>2. Busy(p) /\ id_buffer_map[p][k] = Absent
  BY <1>0, <1>1 DEF Busy, InsertsNew
<1>3. s \in Snippets /\ k = make_map_key(s) /\ k \in Keys
  BY <1>0, <1>2, BusyKey DEF key
<1>4. return_queue_ \in Seq(MergeBuffers) /\ Absent \notin MergeBuffers
  BY ProjectionAssumption, Zenon DEF TypeOK, MergeBuffers
<1>5. \A kind, t : Merged(kind, t)' = Merged(kind, t)
  BY PlacidSteps, PlacidMerged
<1> DEFINE c == NewResult(s)
<1>6. c \in MergeBuffers /\ Sound(c) /\ NoRowTwice(c) /\ \A kind : Content(kind, c) = {}
  BY <1>3, NewResultType, SoundNew, ContentNew
<1> HIDE DEF c
<1>7. Written(p, k, c)
  BY <1>1, <1>3, Writes, Zenon DEF TypeOK, c
<1>8. AllSound'
  BY <1>1, <1>3, <1>4, <1>6, <1>7, StaysSound
<1>9. ASSUME NEW kind, NEW t \in Snippets PROVE InBuffers(kind, t)' = InBuffers(kind, t)
  <2>1. CASE t # s
    BY <1>3, <1>7, <2>1, BufferWritten
  <2>2. CASE t = s
    <3>1. InBuffers(kind, s)' = [InBuffers(kind, s) EXCEPT ![p] = {}]
      <4>1. InBuffers(kind, s)' = [InBuffers(kind, s) EXCEPT ![p] = IF c = Absent THEN {} ELSE Content(kind, c)]
        BY <1>3, <1>7, BufferWritten
      <4> QED
        BY <1>6, <4>1, Zenon
    <3>2. InBuffers(kind, s)[p] = {} /\ InBuffers(kind, s) = [q \in Projectors |-> InBuffers(kind, s)[q]]
      BY <1>2, <1>3 DEF InBuffers
    <3> QED
      BY <2>2, <3>1, <3>2
  <2> QED
    BY <2>1, <2>2
<1>10. ASSUME NEW kind, NEW t \in Snippets, Once(kind, t) PROVE Once(kind, t)'
  BY <1>1, <1>4, <1>5, <1>9, <1>10, OtherOnce
<1>11. ASSUME NEW t \in Snippets, NoneTwice(t) PROVE NoneTwice(t)'
  BY <1>1, <1>3, <1>4, <1>6, <1>7, <1>11, StaysApart
<1>12. ASSUME NEW t \in Snippets PROVE HeldFor(t)'
  <2>1. Once("blocks", t)'
    BY <1>10 DEF HeldFor
  <2>2. RowsApart(t)' => (Once("rows", t)' /\ NoneTwice(t)')
    BY <1>10, <1>11, StillApart DEF HeldFor, RowsOnce
  <2> QED
    BY <2>1, <2>2 DEF HeldFor, RowsOnce
<1> QED
  BY <1>8, <1>12

(* One turn of the release loop.                                           *)
LEMMA ReleaseHeld ==
    ASSUME TypeOK, InsertsNew, BuffersAreFiled, AllSound, \A s \in Snippets : HeldFor(s),
           UNCHANGED delivered, NEW p \in Projectors, release_buffer(p),
           collided' = (collided \/ Collides(p))
    PROVE  AllSound' /\ \A s \in Snippets : HeldFor(s)'
<1>0. PICK q, s, k, b : /\ q = merge_buffer_list_[index[p]] /\ s = result[p].snippet /\ k = key(p)
                        /\ b = id_buffer_map[q][k]
  OBVIOUS
<1>1. /\ pc[p] = "release" /\ index[p] <= Len(merge_buffer_list_)
      /\ id_buffer_map' = [id_buffer_map EXCEPT ![q][k] = Absent]
      /\ \/ b # Absent /\ return_queue_' = Append(return_queue_, b)
         \/ return_queue_' = return_queue_
  BY <1>0 DEF release_buffer
<1>2. Busy(p)
  BY <1>1 DEF Busy
<1>3. s \in Snippets /\ k = make_map_key(s) /\ k \in Keys
  BY <1>0, <1>2, BusyKey DEF key
<1>4. q \in Projectors
  <2>1. merge_buffer_list_ \in Seq(Projectors) /\ index[p] \in Nat \ {0}
    BY DEF TypeOK
  <2> QED
    BY <1>0, <1>1, <2>1
<1>5. return_queue_ \in Seq(MergeBuffers) /\ Absent \notin MergeBuffers
  BY ProjectionAssumption, Zenon DEF TypeOK, MergeBuffers
<1>6. b \in MergeBuffers \cup {Absent} /\ (b # Absent => b.snippet = s /\ Sound(b))
  <2>1. b \in MergeBuffers \cup {Absent}
    BY <1>0, <1>3, <1>4 DEF TypeOK
  <2> QED
    BY <1>0, <1>3, <1>4, <2>1 DEF BuffersAreFiled, AllSound
<1>7. \A kind, t : Merged(kind, t)' = Merged(kind, t)
  BY PlacidSteps, PlacidMerged
<1>8. (b # Absent /\ return_queue_' = return_queue_) => collided'
  BY <1>0, <1>1, Zenon DEF Collides
<1>9. collided => collided'
  BY Zenon
<1>10. \/ b # Absent /\ return_queue_' = Append(return_queue_, b)
       \/ return_queue_' = return_queue_ /\ (b = Absent \/ collided')
  BY <1>1, <1>8
<1>11. Written(q, k, Absent)
  BY <1>1, <1>3, <1>4, Writes, Zenon DEF TypeOK
<1>12. AllSound'
  <2>1. \/ return_queue_' = return_queue_
        \/ \E x \in MergeBuffers : Sound(x) /\ return_queue_' = Append(return_queue_, x)
    BY <1>1, <1>6
  <2> QED
    BY <1>3, <1>4, <1>5, <1>11, <2>1, StaysSound
<1>13. ASSUME NEW kind, Once(kind, s) PROVE Once(kind, s)'
  <2>1. Written(q, make_map_key(s), Absent) /\ b = id_buffer_map[q][make_map_key(s)]
    BY <1>0, <1>3, <1>11
  <2> QED
    BY <1>3, <1>4, <1>5, <1>6, <1>7, <1>9, <1>10, <1>13, <2>1, EraseOnce
<1>14. ASSUME NEW kind, NEW t \in Snippets \ {s}, Once(kind, t) PROVE Once(kind, t)'
  <2>1. InBuffers(kind, t)' = InBuffers(kind, t)
    BY <1>3, <1>4, <1>11, BufferWritten
  <2>2. \/ return_queue_' = return_queue_
        \/ \E x \in MergeBuffers : x.snippet # t /\ return_queue_' = Append(return_queue_, x)
    BY <1>1, <1>6
  <2> QED
    BY <1>5, <1>7, <1>9, <1>14, <2>1, <2>2, OtherOnce
<1>15. ASSUME NEW t \in Snippets, NoneTwice(t) PROVE NoneTwice(t)'
  <2>1. (b # Absent /\ t = s) => NoRowTwice(b)
    BY <1>0, <1>3, <1>4, <1>15 DEF NoneTwice
  <2>2. \/ return_queue_' = return_queue_
        \/ \E x \in MergeBuffers : (x.snippet = t => NoRowTwice(x)) /\ return_queue_' = Append(return_queue_, x)
    BY <1>1, <1>6, <2>1
  <2> QED
    BY <1>3, <1>4, <1>5, <1>11, <1>15, <2>2, StaysApart
<1>16. ASSUME NEW t \in Snippets PROVE HeldFor(t)'
  <2>1. Once("blocks", t)'
    BY <1>13, <1>14 DEF HeldFor
  <2>2. RowsApart(t)' => (Once("rows", t)' /\ NoneTwice(t)')
    BY <1>13, <1>14, <1>15, StillApart DEF HeldFor, RowsOnce
  <2> QED
    BY <2>1, <2>2 DEF HeldFor, RowsOnce
<1> QED
  BY <1>12, <1>16

(* A step of one thread leaves the locals of the others alone, writes to   *)
(* its own merge buffer only, or erases one in the release loop.           *)
Moves(p) ==
    /\ \A q \in Projectors \ {p} : /\ pc'[q] = pc[q] /\ result'[q] = result[q]
                                   /\ index'[q] = index[q] /\ list_seen'[q] = list_seen[q]
    /\ \A q \in Projectors, k \in Keys :
          \/ id_buffer_map'[q][k] = id_buffer_map[q][k]
          \/ id_buffer_map'[q][k] = Absent /\ pc[p] = "release"
          \/ q = p /\ k = key(p) /\ pc[p] \in {"insert", "rows"}
    /\ \A k \in Keys : \/ id_block_count_map_'[k] = id_block_count_map_[k]
                       \/ id_block_count_map_'[k] = Absent
                       \/ k = key(p) /\ Busy(p)

(* Every step of projection.cc is of this kind.                            *)
LEMMA OneMoves ==
    ASSUME TypeOK, NEW p \in Projectors, ProjectionStep(p)
    PROVE  Moves(p)
<1> USE DEF TypeOK, Moves
<1>1. CASE ReadMergeBufferList(p)
  BY <1>1 DEF ReadMergeBufferList
<1>2. CASE WriteMergeBufferList(p)
  BY <1>2 DEF WriteMergeBufferList
<1>3. CASE PopResult(p)
  BY <1>3 DEF PopResult
<1>4. CASE make_block_count_map(p)
  BY <1>4 DEF make_block_count_map, Busy
<1>5. CASE check_id_buffer(p)
  BY <1>5 DEF check_id_buffer
<1>6. CASE insert_buffer(p)
  <2>1. PICK b : b = NewResult(result[p].snippet)
    OBVIOUS
  <2>2. id_buffer_map' = [id_buffer_map EXCEPT ![p][key(p)] = b]
    BY <1>6, <2>1 DEF insert_buffer
  <2>3. /\ pc[p] = "insert" /\ pc' = [pc EXCEPT ![p] = "rows"]
        /\ UNCHANGED <<id_block_count_map_, list_seen, result, index>>
    BY <1>6 DEF insert_buffer
  <2> QED
    BY <2>2, <2>3
<1>7. CASE projectioning(p)
  <2>1. PICK b : id_buffer_map' = [id_buffer_map EXCEPT ![p][key(p)] = b]
    BY <1>7, Zenon DEF projectioning
  <2>2. /\ pc[p] = "rows" /\ index' = [index EXCEPT ![p] = @ + 1]
        /\ UNCHANGED <<id_block_count_map_, list_seen, result, pc>>
    BY <1>7 DEF projectioning
  <2> QED
    BY <2>1, <2>2
<1>8. CASE AddCounts(p)
  <2>1. PICK b : id_buffer_map' = [id_buffer_map EXCEPT ![p][key(p)] = b]
    BY <1>8, Zenon DEF AddCounts
  <2>2. /\ pc[p] = "rows" /\ pc' = [pc EXCEPT ![p] = "count_down"]
        /\ UNCHANGED <<id_block_count_map_, list_seen, result, index>>
    BY <1>8 DEF AddCounts
  <2> QED
    BY <2>1, <2>2
<1>9. CASE block_count_down(p)
  <2>1. \A q \in Projectors \ {p} : pc'[q] = pc[q] /\ result'[q] = result[q] /\ index'[q] = index[q]
    BY <1>9 DEF block_count_down
  <2>2. \A k \in Keys : id_block_count_map_'[k] = id_block_count_map_[k] \/ k = key(p)
    BY <1>9 DEF block_count_down
  <2>3. Busy(p) /\ id_buffer_map' = id_buffer_map /\ list_seen' = list_seen
    BY <1>9 DEF block_count_down, Busy
  <2> QED
    BY <2>1, <2>2, <2>3
<1>10. CASE release_buffer(p)
  <2>1. PICK x : x = merge_buffer_list_[index[p]]
    OBVIOUS
  <2>2. id_buffer_map' = [id_buffer_map EXCEPT ![x][key(p)] = Absent]
    BY <1>10, <2>1 DEF release_buffer
  <2>3. /\ pc[p] = "release" /\ index' = [index EXCEPT ![p] = @ + 1]
        /\ UNCHANGED <<id_block_count_map_, pc, list_seen, result>>
    BY <1>10 DEF release_buffer
  <2>4. \A q \in Projectors, k \in Keys : id_buffer_map'[q][k] \in {id_buffer_map[q][k], Absent}
    BY <2>2
  <2> QED
    BY <2>3, <2>4
<1>11. CASE erase_count(p)
  BY <1>11 DEF erase_count
<1> QED
  BY <1>1, <1>2, <1>3, <1>4, <1>5, <1>6, <1>7, <1>8, <1>9, <1>10, <1>11, Zenon DEF ProjectionStep

(* Which steps lead to the places the invariants speak of.                 *)
LEMMA Arrivals ==
    ASSUME TypeOK, NEW p \in Projectors, ProjectionStep(p)
    PROVE  /\ pc'[p] = "insert" => check_id_buffer(p)
           /\ pc'[p] # "start"
           /\ pc'[p] = "push_back" => ReadMergeBufferList(p)
           /\ pc[p] \in {"start", "push_back"} => ReadMergeBufferList(p) \/ WriteMergeBufferList(p)
           /\ pc'[p] = "release" => block_count_down(p) \/ release_buffer(p)
           /\ merge_buffer_list_' # merge_buffer_list_ => WriteMergeBufferList(p)
<1> USE DEF TypeOK
<1>1. CASE ReadMergeBufferList(p)
  BY <1>1 DEF ReadMergeBufferList
<1>2. CASE WriteMergeBufferList(p)
  BY <1>2 DEF WriteMergeBufferList
<1>3. CASE PopResult(p)
  BY <1>3 DEF PopResult
<1>4. CASE make_block_count_map(p)
  BY <1>4 DEF make_block_count_map
<1>5. CASE check_id_buffer(p)
  BY <1>5 DEF check_id_buffer
<1>6. CASE insert_buffer(p)
  BY <1>6 DEF insert_buffer
<1>7. CASE projectioning(p)
  BY <1>7, Zenon DEF projectioning
<1>8. CASE AddCounts(p)
  BY <1>8 DEF AddCounts
<1>9. CASE block_count_down(p)
  BY <1>9 DEF block_count_down
<1>10. CASE release_buffer(p)
  BY <1>10 DEF release_buffer
<1>11. CASE erase_count(p)
  BY <1>11 DEF erase_count
<1> QED
  BY <1>1, <1>2, <1>3, <1>4, <1>5, <1>6, <1>7, <1>8, <1>9, <1>10, <1>11 DEF ProjectionStep

(* The history of collisions.                                              *)
LEMMA CollidedStep ==
    ASSUME TypeOK, NEW p \in Projectors, ProjectionStep(p)
    PROVE  /\ collided => collided'
           /\ pc[p] \notin {"start", "release"} => collided' = collided
<1>1. collided' = (collided \/ Collides(p)) /\ collided \in BOOLEAN
  BY DEF ProjectionStep, TypeOK
<1>2. pc[p] \notin {"start", "release"} => ~ Collides(p)
  BY DEF Collides
<1> QED
  BY <1>1, <1>2, Zenon

(* Only the find of check_id_buffer leads to the insert, and only the      *)
(* owner puts a buffer where there is none.                                *)
LEMMA InsertsStep ==
    ASSUME TypeOK, InsertsNew, NEW p \in Projectors, ProjectionStep(p)
    PROVE  InsertsNew'
<1>1. SUFFICES ASSUME NEW q \in Projectors, pc'[q] = "insert"
               PROVE  index'[q] = 1 /\ id_buffer_map'[q][key(q)'] = Absent
  BY DEF InsertsNew, key
<1>2. CASE q = p
  <2>1. check_id_buffer(p)
    BY <1>1, <1>2, Arrivals
  <2> QED
    BY <1>1, <1>2, <2>1 DEF check_id_buffer, key, TypeOK
<1>3. CASE q # p
  <2>1. Moves(p)
    BY OneMoves
  <2>2. pc[q] = "insert" /\ key(q)' = key(q) /\ index'[q] = index[q]
    BY <1>1, <1>3, <2>1 DEF Moves, key
  <2>3. Busy(q)
    BY <2>2 DEF Busy
  <2>4. key(q) \in Keys /\ id_buffer_map[q][key(q)] = Absent /\ index[q] = 1
    BY <2>2, <2>3, BusyKey DEF InsertsNew
  <2> QED
    BY <1>3, <2>1, <2>2, <2>4 DEF Moves
<1> QED
  BY <1>2, <1>3

(* Every step keeps what has been merged in one place.                     *)
LEMMA HeldStep ==
    ASSUME CountInv, HeldOnce, [Next]_vars
    PROVE  HeldOnce'
<1>1. /\ TypeOK /\ OnePlace /\ BuffersAreFiled /\ BufferStaysWhileInUse
      /\ InsertsNew /\ AllSound /\ \A s \in Snippets : HeldFor(s)
  BY DEF CountInv, HeldOnce
<1>2. return_queue_ \in Seq(MergeBuffers)
  BY <1>1 DEF TypeOK
<1> DEFINE Goal == AllSound' /\ \A s \in Snippets : HeldFor(s)'
<1>3. ASSUME NEW r \in Results, enqueue_projection(r) PROVE InsertsNew' /\ Goal
  <2>1. /\ delivered \subseteq delivered'
        /\ UNCHANGED <<return_queue_, id_buffer_map, pc, result, index, collided>>
    BY <1>1, <1>3, Delivers
  <2>2. \A kind, s : Merged(kind, s)' = Merged(kind, s)
    BY <1>1, <1>3, DeliverMerged
  <2>3. InsertsNew'
    BY <1>1, <2>1 DEF InsertsNew, key
  <2> QED
    BY <1>1, <1>2, <2>1, <2>2, <2>3, HeldStill
<1>4. ASSUME UNCHANGED vars PROVE InsertsNew' /\ Goal
  <2>1. /\ delivered' = delivered /\ projection_queue_' = projection_queue_
        /\ UNCHANGED <<return_queue_, id_buffer_map, pc, result, index, collided>>
    BY <1>4 DEF vars, projectionVars
  <2>2. Placid
    BY <2>1 DEF Placid, Merging, Counting, Busy, NextRow
  <2>3. \A kind, s : Merged(kind, s)' = Merged(kind, s)
    BY <2>2, PlacidMerged
  <2>4. InsertsNew'
    BY <1>1, <2>1 DEF InsertsNew, key
  <2> QED
    BY <1>1, <1>2, <2>1, <2>3, <2>4, HeldStill
<1>5. ASSUME NEW p \in Projectors, Project(p) PROVE InsertsNew' /\ Goal
  <2>1. ProjectionStep(p) /\ UNCHANGED delivered
    BY <1>5 DEF Project
  <2>2. InsertsNew'
    BY <1>1, <2>1, InsertsStep
  <2>3. /\ collided => collided'
        /\ pc[p] \notin {"start", "release"} => collided' = collided
    BY <1>1, <2>1, CollidedStep
  <2>4. CASE projectioning(p)
    <3>1. collided' = collided
      BY <2>3, <2>4, Zenon DEF projectioning
    <3> QED
      BY <1>1, <2>1, <2>2, <2>4, <3>1, RowHeld
  <2>5. CASE AddCounts(p)
    <3>1. collided' = collided
      BY <2>3, <2>5 DEF AddCounts
    <3> QED
      BY <1>1, <2>1, <2>2, <2>5, <3>1, CountsHeld
  <2>6. CASE insert_buffer(p)
    <3>1. collided' = collided
      BY <2>3, <2>6 DEF insert_buffer
    <3> QED
      BY <1>1, <2>1, <2>2, <2>6, <3>1, InsertHeld
  <2>7. CASE release_buffer(p)
    <3>1. collided' = (collided \/ Collides(p))
      BY <2>1 DEF ProjectionStep
    <3> QED
      BY <1>1, <2>1, <2>2, <2>7, <3>1, ReleaseHeld
  <2>8. CASE PopResult(p)
    <3>1. \A kind, s : Merged(kind, s)' = Merged(kind, s)
      BY <1>1, <2>1, <2>8, PopMerged
    <3>2. UNCHANGED <<id_buffer_map, return_queue_>>
      BY <2>8 DEF PopResult
    <3> QED
      BY <1>1, <1>2, <2>1, <2>2, <2>3, <3>1, <3>2, HeldStill
  <2>9. CASE \/ ReadMergeBufferList(p) \/ WriteMergeBufferList(p) \/ make_block_count_map(p)
             \/ check_id_buffer(p) \/ block_count_down(p) \/ erase_count(p)
    <3>1. \A kind, s : Merged(kind, s)' = Merged(kind, s)
      BY <1>1, <2>1, <2>9, PlacidSteps, PlacidMerged
    <3>2. UNCHANGED <<id_buffer_map, return_queue_>>
      BY <2>9, Zenon DEF ReadMergeBufferList, WriteMergeBufferList, make_block_count_map, check_id_buffer,
                  block_count_down, erase_count
    <3> QED
      BY <1>1, <1>2, <2>1, <2>2, <2>3, <3>1, <3>2, HeldStill
  <2> QED
    BY <2>1, <2>4, <2>5, <2>6, <2>7, <2>8, <2>9 DEF ProjectionStep
<1>6. InsertsNew' /\ Goal
  <2> HIDE DEF Goal
  <2> QED
    BY <1>3, <1>4, <1>5 DEF Next
<1> QED
  BY <1>6 DEF HeldOnce

(* While one thread is in the release loop, no other writes to a buffer    *)
(* with the same key.                                                      *)
LEMMA ReleaseKey ==
    ASSUME TypeOK, OnePlace, ReleaseAlone, NEW p \in Projectors, pc[p] = "release",
           NEW q \in Projectors \ {p}, Busy(q)
    PROVE  key(q) # key(p) /\ key(p) \in Keys
<1>1. Busy(p)
  BY DEF Busy
<1>2. result[q].snippet # result[p].snippet /\ result[q].snippet \in Snippets
  BY AloneWithSnippet, BusyKey
<1>3. make_map_key(result[q].snippet) = key(p) <=> result[q].snippet = result[p].snippet
  BY <1>1, <1>2, OwnKey
<1> QED
  BY <1>1, <1>2, <1>3, BusyKey DEF key

(* The registration of a thread's buffers and the release loop.            *)
LEMMA RegisteredStep ==
    ASSUME TypeOK, OnePlace, ReleaseAlone, Registered, NEW p \in Projectors, ProjectionStep(p)
    PROVE  Registered'
<1>1. Moves(p) /\ (collided => collided')
  BY OneMoves, CollidedStep
<1>2. /\ merge_buffer_list_ \in Seq(Projectors) /\ index[p] \in Nat \ {0} /\ pc \in [Projectors -> PcTypes]
      /\ list_seen \in [Projectors -> Seq(Projectors)]
  BY DEF TypeOK
<1>3. ASSUME NEW q \in Projectors, pc'[q] \in {"start", "push_back"}, NEW k \in Keys
      PROVE  id_buffer_map'[q][k] = Absent
  <2>1. pc[q] \in {"start", "push_back"}
    <3>1. CASE q = p
      BY <1>3, <3>1, Arrivals DEF ReadMergeBufferList
    <3> QED
      BY <1>1, <1>3, <3>1 DEF Moves
  <2>2. id_buffer_map[q][k] = Absent
    BY <2>1 DEF Registered
  <2> QED
    BY <1>1, <2>1, <2>2 DEF Moves
<1>4. ASSUME ~ collided', NEW q \in Projectors, pc'[q] \notin {"start", "push_back"}
      PROVE  q \in Listed'
  <2>1. ~ collided
    BY <1>1, <1>4
  <2>2. CASE WriteMergeBufferList(p)
    <3>1. /\ pc[p] = "push_back" /\ merge_buffer_list_' = Append(list_seen[p], p)
      BY <2>2 DEF WriteMergeBufferList
    <3>2. list_seen[p] = merge_buffer_list_
      BY <2>1, <3>1 DEF Registered
    <3>3. Listed' = Listed \cup {p}
      <4> DEFINE R == merge_buffer_list_
                 Q == Append(R, p)
                 n == Len(R) + 1
      <4>1. /\ DOMAIN R \subseteq DOMAIN Q /\ n \in DOMAIN Q /\ n \notin DOMAIN R
            /\ \A i \in DOMAIN Q : (i \in DOMAIN R /\ Q[i] = R[i]) \/ (i = n /\ Q[i] = p)
        BY <1>2
      <4>2. merge_buffer_list_' = Q
        BY <3>1, <3>2
      <4> HIDE DEF Q, n
      <4>3. \A i \in DOMAIN R : i \in DOMAIN Q /\ Q[i] = R[i]
        BY <4>1
      <4>4. Q[n] = p
        BY <4>1
      <4> QED
        BY <4>1, <4>2, <4>3, <4>4 DEF Listed
    <3>4. q # p => q \in Listed
      BY <1>1, <1>4, <2>1 DEF Moves, Registered
    <3> QED
      BY <3>3, <3>4
  <2>3. CASE ~ WriteMergeBufferList(p)
    <3>1. merge_buffer_list_' = merge_buffer_list_
      BY <2>3, Arrivals
    <3>2. pc[q] \notin {"start", "push_back"}
      <4>1. CASE q = p
        BY <1>2, <1>4, <2>3, <4>1, Arrivals DEF ReadMergeBufferList
      <4> QED
        BY <1>1, <1>4, <4>1 DEF Moves
    <3> QED
      BY <2>1, <3>1, <3>2 DEF Registered, Listed
  <2> QED
    BY <2>2, <2>3
<1>5. ASSUME ~ collided', NEW q \in Projectors, pc'[q] = "push_back"
      PROVE  /\ list_seen'[q] = merge_buffer_list_'
             /\ \A x \in Projectors : pc'[x] = "push_back" => x = q
  <2>1. ~ collided
    BY <1>1, <1>5
  <2>2. CASE q = p
    <3>1. ReadMergeBufferList(p)
      BY <1>5, <2>2, Arrivals, Zenon
    <3>2. \A x \in Projectors : pc[x] # "push_back"
      BY <1>5, <3>1, Zenon DEF ProjectionStep, Collides, ReadMergeBufferList
    <3> QED
      BY <1>1, <1>2, <2>2, <3>1, <3>2, Zenon DEF ReadMergeBufferList, Moves
  <2>3. CASE q # p
    <3>1. pc[q] = "push_back" /\ list_seen'[q] = list_seen[q]
      BY <1>1, <1>5, <2>3, Zenon DEF Moves
    <3>2. /\ list_seen[q] = merge_buffer_list_
          /\ \A x \in Projectors : pc[x] = "push_back" => x = q
      BY <2>1, <3>1 DEF Registered
    <3>3. pc[p] # "push_back" /\ pc'[p] # "push_back"
      <4>1. pc[p] # "push_back"
        BY <2>3, <3>2
      <4>2. ~ ReadMergeBufferList(p)
        BY <1>5, <3>1, Zenon DEF ProjectionStep, Collides, ReadMergeBufferList
      <4> QED
        BY <4>1, <4>2, Arrivals, Zenon
    <3>4. merge_buffer_list_' = merge_buffer_list_
      BY <3>3, Arrivals DEF WriteMergeBufferList
    <3> QED
      BY <1>1, <3>1, <3>2, <3>3, <3>4, Zenon DEF Moves
  <2> QED
    BY <2>2, <2>3
<1>6. ASSUME ~ collided', NEW q \in Projectors, pc'[q] = "release",
             NEW i \in DOMAIN merge_buffer_list_', i < index'[q]
      PROVE  id_buffer_map'[merge_buffer_list_'[i]][key(q)'] = Absent
  <2>1. ~ collided
    BY <1>1, <1>6
  <2>2. CASE q = p /\ block_count_down(p)
    <3>1. index'[p] = 1 /\ merge_buffer_list_' = merge_buffer_list_
      BY <2>2 DEF block_count_down, TypeOK
    <3> QED
      BY <1>2, <1>6, <2>2, <3>1
  <2>3. CASE q = p /\ release_buffer(p)
    <3>0. PICK x, k, n : x = merge_buffer_list_[index[p]] /\ k = key(p) /\ n = index[p]
      OBVIOUS
    <3>1. /\ pc[p] = "release" /\ merge_buffer_list_' = merge_buffer_list_ /\ result' = result
          /\ n <= Len(merge_buffer_list_)
          /\ id_buffer_map' = [id_buffer_map EXCEPT ![x][k] = Absent]
          /\ index' = [index EXCEPT ![p] = n + 1]
      BY <2>3, <3>0 DEF release_buffer
    <3>2. Busy(p)
      BY <3>1 DEF Busy
    <3>3. k \in Keys /\ x \in Projectors /\ i \in Nat /\ merge_buffer_list_[i] \in Projectors
          /\ key(q)' = k /\ n \in Nat \ {0}
      BY <1>2, <1>6, <2>3, <3>0, <3>1, <3>2, BusyKey DEF key
    <3>4. i = n \/ i < n
      <4>1. i < n + 1
        BY <1>6, <2>3, <3>1 DEF TypeOK
      <4> QED
        BY <3>3, <4>1
    <3>5. merge_buffer_list_[i] = x \/ id_buffer_map[merge_buffer_list_[i]][k] = Absent
      <4>1. CASE i = n
        BY <3>0, <4>1
      <4>2. CASE i < n
        BY <1>6, <2>1, <3>0, <3>1, <4>2 DEF Registered
      <4> QED
        BY <3>4, <4>1, <4>2
    <3> QED
      BY <3>1, <3>3, <3>5 DEF TypeOK
  <2>4. CASE q # p
    <3>0. PICK k, n : k = key(q) /\ n = index[q]
      OBVIOUS
    <3>1. pc[q] = "release" /\ key(q)' = k /\ index'[q] = n
      BY <1>1, <1>6, <2>4, <3>0, Zenon DEF Moves, key
    <3>2. Busy(q)
      BY <3>1 DEF Busy
    <3>3. k \in Keys /\ (Busy(p) => key(p) # k)
      BY <2>4, <3>0, <3>1, <3>2, BusyKey, ReleaseKey
    <3>4. pc[p] \in {"insert", "rows"} => Busy(p)
      BY DEF Busy
    <3>5. \A x \in Projectors : id_buffer_map[x][k] = Absent => id_buffer_map'[x][k] = Absent
      BY <1>1, <3>3, <3>4 DEF Moves
    <3>6. CASE WriteMergeBufferList(p)
      <4>1. /\ pc[p] = "push_back" /\ merge_buffer_list_' = Append(list_seen[p], p)
        BY <3>6 DEF WriteMergeBufferList
      <4>2. list_seen[p] = merge_buffer_list_
        BY <2>1, <4>1 DEF Registered
      <4>3. \/ i \in DOMAIN merge_buffer_list_ /\ merge_buffer_list_'[i] = merge_buffer_list_[i]
            \/ merge_buffer_list_'[i] = p
        BY <1>2, <1>6, <4>1, <4>2
      <4>4. id_buffer_map[p][k] = Absent
        BY <3>3, <4>1 DEF Registered
      <4>5. i \in DOMAIN merge_buffer_list_ => /\ id_buffer_map[merge_buffer_list_[i]][k] = Absent
                                               /\ merge_buffer_list_[i] \in Projectors
        BY <1>2, <1>6, <2>1, <3>0, <3>1 DEF Registered
      <4> QED
        BY <3>1, <3>5, <4>3, <4>4, <4>5
    <3>7. CASE ~ WriteMergeBufferList(p)
      <4>1. merge_buffer_list_' = merge_buffer_list_
        BY <3>7, Arrivals
      <4>2. id_buffer_map[merge_buffer_list_[i]][k] = Absent /\ merge_buffer_list_[i] \in Projectors
        BY <1>2, <1>6, <2>1, <3>0, <3>1, <4>1 DEF Registered
      <4> QED
        BY <3>1, <3>5, <4>1, <4>2
    <3> QED
      BY <3>6, <3>7
  <2> QED
    BY <1>6, <2>2, <2>3, <2>4, Arrivals
<1> QED
  BY <1>3, <1>4, <1>5, <1>6 DEF Registered

(* A thread that works on another snippet leaves no trace under the key.   *)
LEMMA Untouched ==
    ASSUME TypeOK, NEW p \in Projectors, ProjectionStep(p), NEW s \in Snippets,
           Busy(p) => result[p].snippet # s
    PROVE  /\ id_block_count_map_[make_map_key(s)] = Absent => id_block_count_map_'[make_map_key(s)] = Absent
           /\ \A q \in Projectors : id_buffer_map[q][make_map_key(s)] = Absent =>
                                    id_buffer_map'[q][make_map_key(s)] = Absent
<1>1. Moves(p)
  BY OneMoves
<1>2. make_map_key(s) \in Keys /\ (Busy(p) => key(p) # make_map_key(s))
  BY OwnKey, ResultsAssumption DEF Keys
<1>3. pc[p] \in {"insert", "rows"} => Busy(p)
  BY DEF Busy
<1> QED
  BY <1>1, <1>2, <1>3, Zenon DEF Moves

(* How a thread lets go of its result.                                     *)
LEMMA LetsGo ==
    ASSUME TypeOK, NEW p \in Projectors, ProjectionStep(p)
    PROVE  /\ PopResult(p) \/ projection_queue_' = projection_queue_
           /\ Busy(p) => \/ Busy(p)' /\ result'[p] = result[p]
                         \/ erase_count(p)
                         \/ block_count_down(p) /\ pc'[p] = "pop"
<1> USE DEF TypeOK, Busy
<1>1. CASE ReadMergeBufferList(p)
  BY <1>1 DEF ReadMergeBufferList
<1>2. CASE WriteMergeBufferList(p)
  BY <1>2 DEF WriteMergeBufferList
<1>3. CASE PopResult(p)
  BY <1>3 DEF PopResult
<1>4. CASE make_block_count_map(p)
  BY <1>4, Zenon DEF make_block_count_map
<1>5. CASE check_id_buffer(p)
  BY <1>5 DEF check_id_buffer
<1>6. CASE insert_buffer(p)
  BY <1>6 DEF insert_buffer
<1>7. CASE projectioning(p)
  BY <1>7, Zenon DEF projectioning
<1>8. CASE AddCounts(p)
  BY <1>8 DEF AddCounts
<1>9. CASE block_count_down(p)
  <2>1. /\ pc'[p] \in {"pop", "release"} /\ projection_queue_' = projection_queue_
        /\ pc'[p] = "release" => result'[p] = result[p]
    BY <1>9 DEF block_count_down
  <2> QED
    BY <1>9, <2>1, Zenon
<1>10. CASE release_buffer(p)
  BY <1>10 DEF release_buffer
<1>11. CASE erase_count(p)
  BY <1>11 DEF erase_count
<1> QED
  BY <1>1, <1>2, <1>3, <1>4, <1>5, <1>6, <1>7, <1>8, <1>9, <1>10, <1>11, Zenon DEF ProjectionStep

(* The last result of a snippet leaves the stage when it is counted down   *)
(* or when the count is erased.                                            *)
LEMMA LastGoes ==
    ASSUME TypeOK, OnePlace, NEW p \in Projectors, ProjectionStep(p), NEW s,
           Pending(s) # {}, Pending(s)' = {}
    PROVE  /\ Busy(p) /\ result[p].snippet = s
           /\ erase_count(p) \/ (block_count_down(p) /\ pc'[p] = "pop")
<1>1. PICK r : r \in Queued \cup InHand /\ r.snippet = s
  BY DEF Pending
<1>2. r \notin Queued' \cup InHand'
  BY <1>1 DEF Pending
<1>3. Moves(p)
  BY OneMoves
<1>4. r \notin Queued
  <2>1. SUFFICES ASSUME r \in Queued PROVE FALSE
    OBVIOUS
  <2>2. CASE PopResult(p)
    <3>0. PICK h : h = Head(projection_queue_)
      OBVIOUS
    <3>1. /\ projection_queue_ # <<>> /\ projection_queue_' = Tail(projection_queue_)
          /\ pc'[p] = "make_map" /\ result'[p] = h
      BY <2>2, <3>0 DEF PopResult, TypeOK
    <3>2. Queued = Queued' \cup {h}
      BY <3>0, <3>1, PopQueue
    <3>3. h \in InHand'
      BY <3>1 DEF InHand, Busy
    <3> QED
      BY <1>2, <2>1, <3>2, <3>3
  <2>3. CASE projection_queue_' = projection_queue_
    BY <1>2, <2>1, <2>3 DEF Queued
  <2> QED
    BY <2>2, <2>3, LetsGo
<1>5. PICK q \in Projectors : Busy(q) /\ result[q] = r
  BY <1>1, <1>4 DEF InHand
<1>6. ~ (Busy(q)' /\ result'[q] = r)
  BY <1>2 DEF InHand
<1>7. q = p
  BY <1>3, <1>5, <1>6 DEF Moves, Busy
<1> QED
  BY <1>1, <1>5, <1>6, <1>7, LetsGo, Zenon

(* A thread that finishes a result without releasing leaves blocks of the  *)
(* snippet to come.                                                        *)
LEMMA RestStep ==
    ASSUME CountInv, RestIsEmpty, Registered, [Next]_vars
    PROVE  RestIsEmpty'
<1>1. TypeOK /\ OnePlace /\ ReleaseAlone /\ CountIsBlocksLeft
  BY DEF CountInv
<1>2. SUFFICES ASSUME NEW s \in Snippets, Pending(s)' = {}, Undelivered(s)' \in {{}, BlocksOf[s]}
               PROVE  /\ id_block_count_map_'[make_map_key(s)] = Absent
                      /\ ~ collided' => \A q \in Projectors : id_buffer_map'[q][make_map_key(s)] = Absent
  BY Zenon DEF RestIsEmpty, NothingLeft
<1> DEFINE k == make_map_key(s)
<1>3. ASSUME Pending(s) = {}, Undelivered(s)' = Undelivered(s)
      PROVE  /\ id_block_count_map_[k] = Absent
             /\ ~ collided => \A q \in Projectors : id_buffer_map[q][k] = Absent
  BY <1>2, <1>3, Zenon DEF RestIsEmpty, NothingLeft
<1>4. CASE UNCHANGED vars
  <2>1. /\ UNCHANGED <<delivered, projection_queue_, pc, result, collided>>
        /\ UNCHANGED <<id_block_count_map_, id_buffer_map>>
    BY <1>4 DEF vars, projectionVars
  <2>2. Pending(s) = {} /\ Undelivered(s)' = Undelivered(s)
    BY <1>2, <2>1, UndeliveredSame DEF Pending, Queued, InHand, Busy
  <2> QED
    BY <1>3, <2>1, <2>2
<1>5. ASSUME NEW r \in Results, enqueue_projection(r)
      PROVE  /\ id_block_count_map_'[k] = Absent
             /\ ~ collided' => \A q \in Projectors : id_buffer_map'[q][k] = Absent
  <2>1. /\ delivered' = delivered \cup {r} /\ Queued' = Queued \cup {r}
        /\ UNCHANGED <<id_block_count_map_, id_buffer_map, pc, result, collided>>
    BY <1>1, <1>5, Delivers
  <2>2. InHand' = InHand
    BY <2>1 DEF InHand, Busy
  <2>3. r.snippet # s /\ Pending(s) = {}
    BY <1>2, <2>1, <2>2 DEF Pending
  <2>4. Undelivered(s)' = Undelivered(s)
    BY <2>1, <2>3 DEF Undelivered, DeliveredFor
  <2> QED
    BY <1>3, <2>1, <2>3, <2>4
<1>6. ASSUME NEW p \in Projectors, Project(p)
      PROVE  /\ id_block_count_map_'[k] = Absent
             /\ ~ collided' => \A q \in Projectors : id_buffer_map'[q][k] = Absent
  <2>1. ProjectionStep(p) /\ UNCHANGED delivered
    BY <1>6 DEF Project
  <2>2. Undelivered(s)' = Undelivered(s) /\ (collided => collided')
    BY <1>1, <2>1, UndeliveredSame, CollidedStep
  <2>3. CASE Pending(s) = {}
    <3>1. Busy(p) => result[p].snippet # s
      BY <2>3 DEF Pending, InHand
    <3> QED
      BY <1>1, <1>3, <2>1, <2>2, <2>3, <3>1, Untouched, Zenon
  <2>4. CASE Pending(s) # {}
    <3>1. /\ Busy(p) /\ result[p].snippet = s
          /\ erase_count(p) \/ (block_count_down(p) /\ pc'[p] = "pop")
      BY <1>1, <1>2, <2>1, <2>4, LastGoes, Zenon
    <3>2. k = key(p) /\ k \in Keys
      BY <1>1, <3>1, BusyKey, Zenon DEF key
    <3>3. CASE erase_count(p)
      <4>1. /\ pc[p] = "release" /\ index[p] > Len(merge_buffer_list_) /\ id_buffer_map' = id_buffer_map
            /\ id_block_count_map_'[k] = Absent
        BY <1>1, <3>2, <3>3 DEF erase_count, TypeOK
      <4>2. ASSUME ~ collided', NEW q \in Projectors PROVE id_buffer_map[q][k] = Absent
        <5>1. pc[q] \in {"start", "push_back"} \/ q \in Listed
          BY <2>2, <4>2 DEF Registered
        <5>2. CASE q \in Listed
          <6>1. PICK i \in DOMAIN merge_buffer_list_ : merge_buffer_list_[i] = q
            BY <5>2 DEF Listed
          <6>2. i < index[p]
            BY <1>1, <4>1, <6>1 DEF TypeOK
          <6>3. pc[p] = "release" =>
                    \A j \in DOMAIN merge_buffer_list_ :
                        j < index[p] => id_buffer_map[merge_buffer_list_[j]][key(p)] = Absent
            BY <2>2, <4>2, Zenon DEF Registered
          <6> QED
            BY <3>2, <4>1, <6>1, <6>2, <6>3, Zenon
        <5>3. CASE pc[q] \in {"start", "push_back"}
          BY <3>2, <5>3, Zenon DEF Registered
        <5> QED
          BY <5>1, <5>2, <5>3
      <4> QED
        BY <4>1, <4>2
    <3>4. CASE block_count_down(p) /\ pc'[p] = "pop"
      <4>0. PICK r : r = result[p]
        OBVIOUS
      <4>1. BlocksLeft(s)' # {}
        BY <1>1, <2>1, <3>1, <3>4, <4>0, CountedDown
      <4>2. Uncounted(s)' = {}
        BY <1>2 DEF Uncounted, Pending, DeliveredFor, InHand, Counting
      <4>3. Undelivered(s)' # {}
        BY <4>1, <4>2 DEF BlocksLeft, BlocksIn
      <4>4. r \in Results /\ r \in DeliveredFor(s)
        BY <1>1, <3>1, <4>0, BusyKey, Zenon DEF OnePlace, DeliveredFor
      <4>5. r.blocks # {} /\ r.blocks \subseteq BlocksOf[s]
        BY <3>1, <4>0, <4>4, ResultsAssumption, Zenon
      <4>6. r.blocks \subseteq BlocksIn(DeliveredFor(s))
        BY <4>4 DEF BlocksIn
      <4>7. Undelivered(s) # BlocksOf[s]
        BY <4>5, <4>6 DEF Undelivered
      <4> QED
        BY <1>2, <2>2, <4>3, <4>7, Zenon
    <3> QED
      BY <3>1, <3>3, <3>4, Zenon
  <2> QED
    BY <2>3, <2>4
<1> QED
  BY <1>4, <1>5, <1>6, Zenon DEF Next
-----------------------------------------------------------------------------
(* Before the first result there is nothing to be merged.                  *)
LEMMA InitMergeInv == Init => MergeInv
<1> SUFFICES ASSUME Init PROVE MergeInv
  OBVIOUS
<1>1. CountInv
  BY InitCountInv
<1>2. /\ delivered = {} /\ return_queue_ = <<>> /\ merge_buffer_list_ = <<>>
      /\ id_block_count_map_ = [k \in Keys |-> Absent]
      /\ id_buffer_map = [p \in Projectors |-> [k \in Keys |-> Absent]]
      /\ pc = [p \in Projectors |-> "start"]
  BY DEF Init, ProjectionInit
<1>3. \A s \in Snippets : make_map_key(s) \in Keys
  BY DEF Keys
<1>4. \A s \in Snippets : NothingLeft(s) /\ id_block_count_map_[make_map_key(s)] = Absent
  BY <1>2, <1>3, Zenon DEF NothingLeft
<1>5. RestIsEmpty
  BY <1>4 DEF RestIsEmpty
<1>6. Registered
  BY <1>2 DEF Registered
<1>7. \A kind, s : Merged(kind, s) = {}
  BY <1>2 DEF Merged, DeliveredFor, BlocksIn
<1>8. \A kind : \A s \in Snippets : InBuffers(kind, s) = [p \in Projectors |-> {}]
  BY <1>2, <1>3, Zenon DEF InBuffers
<1>9. \A kind, s : DOMAIN InReturned(kind, s) = {}
  BY <1>2 DEF InReturned
<1>10. ASSUME NEW kind, NEW s \in Snippets PROVE Once(kind, s)
  <2>1. PICK B, R, M : B = InBuffers(kind, s) /\ R = InReturned(kind, s) /\ M = Merged(kind, s)
    BY Zenon
  <2>2. DOMAIN B = Projectors /\ (\A p \in Projectors : B[p] = {}) /\ DOMAIN R = {} /\ M = {}
    BY <1>7, <1>8, <1>9, <2>1
  <2>3. Spread(B, R, M, collided)
    BY <2>2 DEF Spread
  <2> QED
    BY <2>1, <2>3, Zenon DEF Once
<1>11. \A s \in Snippets : NoneTwice(s)
  <2>1. \A s : Returned(s) = {}
    BY <1>2 DEF Returned
  <2> QED
    BY <1>2, <1>3, <2>1, Zenon DEF NoneTwice
<1>12. InsertsNew /\ AllSound
  BY <1>2 DEF InsertsNew, AllSound
<1> QED
  BY <1>1, <1>5, <1>6, <1>10, <1>11, <1>12 DEF MergeInv, HeldOnce, HeldFor, RowsOnce

(* Counting, registration and merging of projection.cc hang together.      *)
THEOREM MergeInvariant == Spec => []MergeInv
<1>1. MergeInv /\ [Next]_vars => MergeInv'
  <2> SUFFICES ASSUME MergeInv, [Next]_vars PROVE MergeInv'
    OBVIOUS
  <2>1. /\ CountInv /\ RestIsEmpty /\ Registered /\ HeldOnce
        /\ TypeOK /\ OnePlace /\ ReleaseAlone /\ CountIsBlocksLeft /\ BuffersAreFiled /\ BufferStaysWhileInUse
    BY DEF MergeInv, CountInv
  <2>2. CountInv'
    BY <2>1, TypeStep, OnePlaceStep, ReleaseStep, CountStep, BufferStep DEF CountInv
  <2>3. RestIsEmpty'
    BY <2>1, RestStep
  <2>4. HeldOnce'
    BY <2>1, HeldStep
  <2>5. Registered'
    <3>1. CASE UNCHANGED vars
      BY <2>1, <3>1 DEF vars, projectionVars, Registered, Listed, key
    <3>2. ASSUME NEW r \in Results, enqueue_projection(r) PROVE Registered'
      BY <2>1, <3>2 DEF enqueue_projection, projectionVars, Registered, Listed, key
    <3>3. ASSUME NEW p \in Projectors, Project(p) PROVE Registered'
      BY <2>1, <3>3, RegisteredStep DEF Project
    <3> QED
      BY <3>1, <3>2, <3>3 DEF Next
  <2> QED
    BY <2>2, <2>3, <2>4, <2>5 DEF MergeInv
<1> QED
  BY InitMergeInv, <1>1, PTL DEF Spec

(* What MergeInv says of a snippet that is complete: all that was          *)
(* delivered for it has been merged, and no buffer holds any of it.        *)
LEMMA CompleteIsMerged ==
    ASSUME MergeInv, NEW s \in Snippets, Complete(s), ~ collided
    PROVE  /\ NothingLeft(s)
           /\ BlocksOf[s] \subseteq Merged("blocks", s)
           /\ \A r \in DeliveredFor(s) : \A n \in DOMAIN r.rows : Projected[r.rows[n]] \in Merged("rows", s)
           /\ \A kind : \A p \in DOMAIN InBuffers(kind, s) : InBuffers(kind, s)[p] = {}
<1>1. NothingLeft(s)
  BY DEF MergeInv, RestIsEmpty, Complete
<1>2. \A r \in DeliveredFor(s) : ~ Unmerged(r)
  BY DEF Complete, Pending, InHand, Unmerged, Merging, Counting, DeliveredFor
<1>3. BlocksOf[s] \subseteq Merged("blocks", s)
  <2>1. BlocksOf[s] \subseteq BlocksIn(DeliveredFor(s))
    BY DEF Complete, Undelivered
  <2>2. {r \in DeliveredFor(s) : ~ Unmerged(r)} = DeliveredFor(s)
    BY <1>2
  <2> QED
    BY <2>1, <2>2 DEF Merged
<1>4. ASSUME NEW r \in DeliveredFor(s), NEW n \in DOMAIN r.rows PROVE Projected[r.rows[n]] \in Merged("rows", s)
  <2>1. RowMerged(r, n)
    BY <1>2, Zenon DEF RowMerged
  <2>2. Projected[r.rows[n]] \in {Projected[r.rows[i]] : i \in {m \in DOMAIN r.rows : RowMerged(r, m)}}
    BY <2>1, Zenon
  <2> QED
    BY <2>2, Zenon DEF Merged
<1>5. \A kind : \A p \in DOMAIN InBuffers(kind, s) : InBuffers(kind, s)[p] = {}
  BY <1>1 DEF NothingLeft, InBuffers
<1> QED
  BY <1>1, <1>3, <1>4, <1>5, Zenon

(* Every block of a complete snippet is in exactly one returned result,    *)
(* and each result counts its blocks, however projectioning split them     *)
(* over threads and buffers, unless unguarded accesses have collided.      *)
THEOREM ReturnsBlocksOnce == Spec => []BlocksReturnedOnce
<1>1. MergeInv => BlocksReturnedOnce
  <2> SUFFICES ASSUME MergeInv, NEW s \in Snippets, ~ collided, Complete(s)
               PROVE  /\ \A b \in BlocksOf[s] : \E i \in Returned(s) :
                            /\ b \in return_queue_[i].blocks
                            /\ \A j \in Returned(s) \ {i} : b \notin return_queue_[j].blocks
                      /\ \A i \in Returned(s) :
                            return_queue_[i].current_block_count = Cardinality(return_queue_[i].blocks)
    BY DEF BlocksReturnedOnce
  <2> DEFINE R == InReturned("blocks", s)
             B == InBuffers("blocks", s)
             M == Merged("blocks", s)
  <2>1. /\ BlocksOf[s] \subseteq M /\ \A p \in DOMAIN B : B[p] = {}
    BY CompleteIsMerged
  <2>2. Spread(B, R, M, collided) /\ AllSound
    BY DEF MergeInv, HeldOnce, HeldFor, Once
  <2>3. /\ DOMAIN R = DOMAIN return_queue_
        /\ \A i \in DOMAIN R : R[i] = IF return_queue_[i].snippet = s THEN return_queue_[i].blocks ELSE {}
    BY DEF InReturned, Content
  <2> HIDE DEF R, B, M
  <2>4. ASSUME NEW b \in BlocksOf[s]
        PROVE  \E i \in Returned(s) : /\ b \in return_queue_[i].blocks
                                      /\ \A j \in Returned(s) \ {i} : b \notin return_queue_[j].blocks
    <3>1. PICK i \in DOMAIN R : b \in R[i]
      BY <2>1, <2>2 DEF Spread
    <3>2. i \in Returned(s) /\ b \in return_queue_[i].blocks
      BY <2>3, <3>1 DEF Returned
    <3>3. ASSUME NEW j \in Returned(s) \ {i} PROVE b \notin return_queue_[j].blocks
      <4>1. j \in DOMAIN R /\ R[j] = return_queue_[j].blocks
        BY <2>3 DEF Returned
      <4>2. R[i] \cap R[j] = {}
        BY <2>2, <4>1 DEF Spread
      <4> QED
        BY <3>1, <4>1, <4>2
    <3> QED
      BY <3>2, <3>3
  <2>5. \A i \in Returned(s) : return_queue_[i].current_block_count = Cardinality(return_queue_[i].blocks)
    BY <2>2 DEF AllSound, Sound, Returned
  <2> QED
    BY <2>4, <2>5
<1> QED
  BY MergeInvariant, <1>1, PTL

(* Every row delivered for a complete snippet is at exactly one place of   *)
(* exactly one returned result, unless unguarded accesses have collided.   *)
THEOREM ReturnsRowsOnce == Spec => []RowsReturnedOnce
<1>1. MergeInv => RowsReturnedOnce
  <2> SUFFICES ASSUME MergeInv, NEW s \in Snippets, ~ collided, Complete(s), RowsApart(s),
                      NEW r \in DeliveredFor(s), NEW n \in DOMAIN r.rows
               PROVE  \E i \in Returned(s) : \E m \in DOMAIN return_queue_[i].rows :
                          /\ return_queue_[i].rows[m] = Projected[r.rows[n]]
                          /\ \A j \in Returned(s) : \A k \in DOMAIN return_queue_[j].rows :
                                return_queue_[j].rows[k] = Projected[r.rows[n]] => j = i /\ k = m
    BY Zenon DEF RowsReturnedOnce
  <2> DEFINE R == InReturned("rows", s)
             B == InBuffers("rows", s)
             M == Merged("rows", s)
             x == Projected[r.rows[n]]
             rows(i) == return_queue_[i].rows
  <2>1. x \in M /\ \A p \in DOMAIN B : B[p] = {}
    BY CompleteIsMerged
  <2>2. Spread(B, R, M, collided) /\ NoneTwice(s)
    BY DEF MergeInv, HeldOnce, HeldFor, RowsOnce, Once
  <2>3. /\ DOMAIN R = DOMAIN return_queue_
        /\ \A i \in DOMAIN R : R[i] = IF return_queue_[i].snippet = s THEN {rows(i)[m] : m \in DOMAIN rows(i)} ELSE {}
    BY DEF InReturned, Content
  <2> HIDE DEF R, B, M, x
  <2>4. PICK i \in DOMAIN R : x \in R[i]
    BY <2>1, <2>2 DEF Spread
  <2>5. i \in Returned(s)
    BY <2>3, <2>4 DEF Returned
  <2>6. PICK m \in DOMAIN rows(i) : rows(i)[m] = x
    BY <2>3, <2>4
  <2>7. ASSUME NEW j \in Returned(s), NEW k \in DOMAIN rows(j), rows(j)[k] = x PROVE j = i /\ k = m
    <3>1. j \in DOMAIN R /\ x \in R[j]
      BY <2>3, <2>7 DEF Returned
    <3>2. j = i
      BY <2>2, <2>4, <3>1 DEF Spread
    <3>3. NoRowTwice(return_queue_[i])
      BY <2>2, <2>5, Zenon DEF NoneTwice
    <3> QED
      BY <2>6, <2>7, <3>2, <3>3 DEF NoRowTwice
  <2> QED
    BY <2>5, <2>6, <2>7, Zenon DEF x
<1> QED
  BY MergeInvariant, <1>1, PTL

(* The test against BUFFER_SIZE in projectioning keeps every merge buffer  *)
(* within raw_data.                                                        *)
THEOREM BuffersFit == Spec => []BufferNeverOverflows
<1>1. MergeInv => BufferNeverOverflows
  BY DEF MergeInv, HeldOnce, AllSound, Sound, BufferNeverOverflows
<1> QED
  BY MergeInvariant, <1>1, PTL

(* Were the push_back on merge_buffer_list_ and the find of the release    *)
(* loop guarded, no access would collide with another.                     *)
THEOREM GuardedNeverCollides ==
    ASSUME ~ RacesBite
    PROVE  Spec => []~ collided
<1>1. Init => ~ collided
  BY DEF Init, ProjectionInit
<1>2. TypeOK /\ ~ collided /\ [Next]_vars => ~ collided'
  <2> SUFFICES ASSUME TypeOK, ~ collided, [Next]_vars PROVE ~ collided'
    OBVIOUS
  <2>1. CASE UNCHANGED vars
    BY <2>1 DEF vars, projectionVars
  <2>2. ASSUME NEW r \in Results, enqueue_projection(r) PROVE ~ collided'
    BY <2>2 DEF enqueue_projection, projectionVars
  <2>3. ASSUME NEW p \in Projectors, Project(p) PROVE ~ collided'
    <3>1. ProjectionStep(p) /\ collided' = (collided \/ Collides(p))
      BY <2>3 DEF Project, ProjectionStep
    <3>2. CASE pc[p] = "start"
      <4>1. ReadMergeBufferList(p)
        BY <3>1, <3>2, Arrivals DEF WriteMergeBufferList
      <4> QED
        BY <3>1, <3>2, <4>1, Zenon DEF ReadMergeBufferList, Collides
    <3>3. CASE pc[p] = "release"
      <4>1. release_buffer(p) \/ erase_count(p)
        BY <3>1, <3>3, Zenon DEF ProjectionStep, ReadMergeBufferList, WriteMergeBufferList, PopResult,
                          make_block_count_map, check_id_buffer, insert_buffer, projectioning,
                          AddCounts, block_count_down
      <4>2. return_queue_ \in Seq(MergeBuffers)
        BY DEF TypeOK
      <4>3. \A b : Append(return_queue_, b) # return_queue_
        BY <4>2
      <4>4. ~ Collides(p)
        BY <3>3, <4>1, <4>3 DEF release_buffer, erase_count, Collides, TypeOK
      <4> QED
        BY <3>1, <4>4, Zenon
    <3>4. CASE pc[p] \notin {"start", "release"}
      BY <3>1, <3>4, CollidedStep
    <3> QED
      BY <3>2, <3>3, <3>4
  <2> QED
    BY <2>1, <2>2, <2>3 DEF Next
<1> QED
  BY TypeCorrect, <1>1, <1>2, PTL DEF Spec

(* And nothing of a complete snippet would be left behind.                 *)
THEOREM GuardedIsReleased ==
    ASSUME ~ RacesBite
    PROVE  Spec => []CompleteIsReleased
<1>1. MergeInv /\ ~ collided => CompleteIsReleased
  BY CompleteIsMerged DEF CompleteIsReleased
<1>2. Spec => []~ collided
  BY GuardedNeverCollides
<1> QED
  BY MergeInvariant, <1>1, <1>2, PTL
=============================================================================
