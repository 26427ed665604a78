------------------------- MODULE PipelineReturnProofs -------------------------
(***************************************************************************)
(* What the theorems about SnippetMerge say of the pipeline, which         *)
(* implements it (PipelineProofs): buffers are released when a snippet is  *)
(* complete, and blocks and rows are returned once.  And that the return   *)
(* layer closes its sockets.  Both count, blocks or threads, with the      *)
(* theorems of the library.                                                *)
(***************************************************************************)
EXTENDS PipelineProofs

(* Counting, from the library's theorems.                                  *)
FS == INSTANCE FiniteSetTheorems

(* The library counts as this module does.                                 *)
LEMMA SameCount ==
    /\ \A X : FS!IsFiniteSet(X) <=> IsFiniteSet(X)
    /\ \A X : FS!Cardinality(X) = Cardinality(X)
BY Zenon DEF FS!IsFiniteSet, IsFiniteSet, FS!Cardinality, Cardinality

(* A part has as many blocks as its bounds say.                            *)
LEMMA PartCardinality ==
    ASSUME NEW s, NEW i \in Int, NEW j \in Int, i <= j + 1
    PROVE  IsFiniteSet(Part(s, i, j)) /\ Cardinality(Part(s, i, j)) = j - i + 1
<1>1. [n \in i .. j |-> <<make_map_key(s), n>>] \in FS!Bijection(i .. j, Part(s, i, j))
  BY Zenon DEF FS!Bijection, FS!Injection, FS!IsInjective, FS!Surjection, Part
<1>2. FS!IsFiniteSet(i .. j) /\ FS!Cardinality(i .. j) = j - i + 1
  BY FS!FS_Interval
<1> QED
  BY <1>1, <1>2, SameCount, FS!FS_Bijection, Zenon DEF FS!ExistsBijection

(* What SnippetMerge assumes of its constants.                             *)
LEMMA MergeAssumptions ==
    ASSUME RegularSnippets
    PROVE  /\ ScanResults \subseteq CsdResults(Snippets, Rows)
           /\ \A s, t \in Snippets : make_map_key(s) = make_map_key(t) => s = t
           /\ \A r \in ScanResults :
                 /\ r.blocks \subseteq BlocksOf[r.snippet]
                 /\ r.blocks # {}
                 /\ r.current_block_count = Cardinality(r.blocks)
           /\ \A s \in Snippets : /\ IsFiniteSet(BlocksOf[s])
                                  /\ s.csd_block_count = Cardinality(BlocksOf[s])
           /\ \A row \in ProjectedRows : ProjectedLength[row] <= BUFFER_SIZE
<1>1. \A s \in Snippets : s.csd_block_count \in Nat
  BY Zenon DEF RegularSnippets
<1>2. ASSUME NEW r \in ScanResults
      PROVE  /\ r.blocks \subseteq BlocksOf[r.snippet] /\ r.blocks # {}
             /\ r.current_block_count = Cardinality(r.blocks)
  <2>1. r.snippet \in Snippets /\ r.blocks \subseteq BlocksOf[r.snippet] /\ r.blocks # {}
    BY PartOfBlocks, Zenon
  <2>2. PICK s, n : s = r.snippet /\ n = s.csd_block_count
    BY Zenon
  <2>3. PICK i, j \in 1 .. n : i <= j /\ r.blocks = Part(s, i, j) /\ r.current_block_count = j - i + 1
    BY <2>2, Zenon DEF ScanResults, IsPart
  <2>4. i \in Int /\ j \in Int /\ i <= j + 1
    BY <1>1, <2>1, <2>2, <2>3
  <2>5. Cardinality(Part(s, i, j)) = j - i + 1
    BY <2>4, PartCardinality, Zenon
  <2> QED
    BY <2>1, <2>3, <2>5, Zenon
<1>3. ASSUME NEW s \in Snippets
      PROVE  IsFiniteSet(BlocksOf[s]) /\ s.csd_block_count = Cardinality(BlocksOf[s])
  <2>1. PICK n : n = s.csd_block_count
    BY Zenon
  <2>2. 1 \in Int /\ n \in Int /\ 1 <= n + 1 /\ n - 1 + 1 = n
    BY <1>1, <2>1
  <2>3. IsFiniteSet(Part(s, 1, n)) /\ Cardinality(Part(s, 1, n)) = n - 1 + 1
    BY <2>2, PartCardinality, Zenon
  <2>4. BlocksOf[s] = Part(s, 1, n)
    BY <2>1, Zenon DEF BlocksOf
  <2> QED
    BY <2>1, <2>2, <2>3, <2>4, Zenon
<1>4. /\ \A s, t \in Snippets : make_map_key(s) = make_map_key(t) => s = t
      /\ \A row \in ProjectedRows : ProjectedLength[row] <= BUFFER_SIZE
  BY Zenon DEF RegularSnippets
<1>5. ScanResults \subseteq CsdResults(Snippets, Rows)
  BY Zenon DEF ScanResults
<1> QED
  BY <1>2, <1>3, <1>4, <1>5, Zenon

(* Sets of return threads can be counted.                                  *)
LEMMA CountReturners == ReturnersCounted
<1>1. \A W \in SUBSET Returners : FS!IsFiniteSet(W)
  BY PipelineAssumption, SameCount, FS!FS_Subset, Zenon
<1>2. FS!Cardinality({}) = 0 /\ \A W \in SUBSET Returners : FS!Cardinality(W) \in Int
  BY <1>1, FS!FS_EmptySet, FS!FS_CardinalityType
<1>3. \A W \in SUBSET Returners : \A t \in Returners \ W : FS!Cardinality(W \cup {t}) = FS!Cardinality(W) + 1
  BY <1>1, FS!FS_AddElement, Zenon
<1> QED
  BY <1>2, <1>3, SameCount, Zenon DEF ReturnersCounted

(* send_data closes its socket on every path but the one where the peer    *)
(* closes first, for any number of return threads.                         *)
THEOREM ClosesSockets == Spec => []SocketsAreClosed
<1>1. SocketsInv => SocketsAreClosed
  BY Zenon DEF SocketsInv
<1> QED
  BY <1>1, CountReturners, SocketsStart, SocketsStep, PTL DEF Spec
-----------------------------------------------------------------------------
(* The same stage with the theorems about it.                              *)
Merge == INSTANCE SnippetReturnProofs WITH Results <- ScanResults, return_queue_ <- taken \o return_queue_

(* What the instance with the theorems says, it says of the stage.         *)
LEMMA StageHolds ==
    ASSUME RegularSnippets
    PROVE  /\ Stage!Spec => [](/\ StageInv /\ Stage!ReleaseOnlyWhenComplete
                               /\ Stage!BlocksReturnedOnce /\ Stage!RowsReturnedOnce)
           /\ ~ RacesBite => (Stage!Spec => []~ collided)
<1>1. /\ ScanResults \subseteq Merge!CsdResults(Snippets, Rows)
      /\ \A s, t \in Snippets : Merge!make_map_key(s) = Merge!make_map_key(t) => s = t
      /\ \A r \in ScanResults : /\ r.blocks \subseteq BlocksOf[r.snippet] /\ r.blocks # {}
                                /\ r.current_block_count = Merge!Cardinality(r.blocks)
      /\ \A s \in Snippets : /\ Merge!IsFiniteSet(BlocksOf[s])
                             /\ s.csd_block_count = Merge!Cardinality(BlocksOf[s])
      /\ \A row \in ProjectedRows : ProjectedLength[row] <= BUFFER_SIZE
      /\ Absent \notin Int
      /\ Absent \notin Merge!CsdResults(Snippets \cup {NoSnippet}, ProjectedRows)
      /\ RacesBite \in BOOLEAN
  BY MergeAssumptions, PipelineAssumption, Zenon
     DEF Merge!CsdResults, CsdResults, Merge!make_map_key, make_map_key, Merge!Cardinality, Cardinality,
         Merge!IsFiniteSet, IsFiniteSet
<1>2. /\ Merge!Spec => []Merge!MergeInv
      /\ Merge!Spec => []Merge!ReleaseOnlyWhenComplete
      /\ Merge!Spec => []Merge!BlocksReturnedOnce
      /\ Merge!Spec => []Merge!RowsReturnedOnce
      /\ ~ RacesBite => (Merge!Spec => []~ collided)
  BY <1>1, CsdDataAssumption, Merge!MergeInvariant, Merge!ReleasesOnlyComplete, Merge!ReturnsBlocksOnce,
     Merge!ReturnsRowsOnce, Merge!GuardedNeverCollides, Zenon
<1>3. Stage!Init => Merge!Init
  BY Zenon DEF Stage!Init, Merge!Init, Stage!ProjectionInit, Merge!ProjectionInit, Stage!Keys, Merge!Keys,
     Stage!make_map_key, Merge!make_map_key
<1>4. [Stage!Next]_(Stage!vars) => [Merge!Next]_(Merge!vars)
  BY Zenon
     DEF Stage!Next, Merge!Next, Stage!vars, Merge!vars, Stage!projectionVars,
       Merge!projectionVars, Stage!enqueue_projection, Merge!enqueue_projection,
       Stage!Undelivered, Merge!Undelivered, Stage!BlocksIn, Merge!BlocksIn, Stage!DeliveredFor,
       Merge!DeliveredFor, Stage!Project, Merge!Project, Stage!ProjectionStep,
       Merge!ProjectionStep, Stage!Collides, Merge!Collides, Stage!ReadMergeBufferList,
       Merge!ReadMergeBufferList, Stage!WriteMergeBufferList, Merge!WriteMergeBufferList,
       Stage!PopResult, Merge!PopResult, Stage!make_block_count_map, Merge!make_block_count_map,
       Stage!check_id_buffer, Merge!check_id_buffer, Stage!insert_buffer, Merge!insert_buffer,
       Stage!projectioning, Merge!projectioning, Stage!AddCounts, Merge!AddCounts,
       Stage!block_count_down, Merge!block_count_down, Stage!release_buffer,
       Merge!release_buffer, Stage!erase_count, Merge!erase_count, Stage!key, Merge!key,
       Stage!make_map_key, Merge!make_map_key, Stage!MuFree, Merge!MuFree, Stage!Buffer,
       Merge!Buffer, Stage!AddRow, Merge!AddRow, Stage!clear, Merge!clear, Stage!NewResult,
       Merge!NewResult, Stage!CsdResult, Merge!CsdResult, Stage!WithCounts, Merge!WithCounts
<1>5. /\ Merge!MergeInv => StageInv
      /\ Merge!ReleaseOnlyWhenComplete => Stage!ReleaseOnlyWhenComplete
      /\ Merge!BlocksReturnedOnce => Stage!BlocksReturnedOnce
      /\ Merge!RowsReturnedOnce => Stage!RowsReturnedOnce
  BY Zenon
     DEF Merge!MergeInv, Merge!CountInv, Merge!TypeOK, Merge!OnePlace, Merge!Busy, AtWork, StageInv,
       Merge!RestIsEmpty, Stage!RestIsEmpty, Merge!Pending, Stage!Pending, Merge!Queued, Stage!Queued,
       Merge!InHand, Stage!InHand, Stage!Busy, Merge!Undelivered, Stage!Undelivered, Merge!BlocksIn,
       Stage!BlocksIn, Merge!DeliveredFor, Stage!DeliveredFor, Merge!NothingLeft, Stage!NothingLeft,
       Merge!make_map_key, Stage!make_map_key, Merge!ReleaseOnlyWhenComplete, Stage!ReleaseOnlyWhenComplete,
       Merge!BlocksReturnedOnce, Stage!BlocksReturnedOnce, Merge!Complete, Stage!Complete, Merge!Returned,
       Stage!Returned, Merge!Cardinality, Stage!Cardinality, Merge!IsFiniteSet, Stage!IsFiniteSet,
       Merge!RowsReturnedOnce, Stage!RowsReturnedOnce, Merge!RowsApart, Stage!RowsApart
<1> QED
  BY <1>2, <1>3, <1>4, <1>5, PTL DEF Stage!Spec, Merge!Spec

(* "block_count 내리고 작업 완료 시 release_buffer" (projection.cc:83), of *)
(* the whole pipeline: when a projection thread starts to release the      *)
(* merge buffers of a snippet, no thread of any stage is still to scan,    *)
(* filter or project a block of it.                                        *)
THEOREM ReleasesWhenComplete ==
    ASSUME RegularSnippets
    PROVE  Spec => []ReleaseOnlyWhenComplete
BY StageHolds, FromStage, PTL

(* The same comment, the other way round, for a build in which the         *)
(* unguarded accesses do not go wrong: a snippet that is nowhere in the    *)
(* pipeline has neither a count nor a merge buffer.                        *)
THEOREM ReleasesComplete ==
    ASSUME RegularSnippets, ~ RacesBite
    PROVE  Spec => []CompleteIsReleased
BY StageHolds, FromStage, PTL

(* Every block of a snippet is sent to the storage engine once: in the     *)
(* results the return threads have taken and those in their queue, it is   *)
(* in exactly one when the snippet has left the projection stage and no    *)
(* unguarded accesses have collided.                                       *)
THEOREM PipelineReturnsBlocks ==
    ASSUME RegularSnippets
    PROVE  Spec => []Stage!BlocksReturnedOnce
BY StageHolds, PipelineMerges, PTL

(* So is every row that reaches the projection stage, projected.           *)
THEOREM PipelineReturnsRows ==
    ASSUME RegularSnippets
    PROVE  Spec => []Stage!RowsReturnedOnce
BY StageHolds, PipelineMerges, PTL
=============================================================================
