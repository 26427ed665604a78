----------------------------- MODULE SnippetMerge -----------------------------
(***************************************************************************)
(* The projection stage on its own.  The scan and filter stages are an     *)
(* environment that delivers results in any order: two scan threads, two   *)
(* filter threads and the short cut past the filter for a result without   *)
(* rows reorder the results of a snippet.  Which results it delivers is    *)
(* its choice, as long as no block of a snippet comes twice.               *)
(***************************************************************************)
EXTENDS Projection, FiniteSets

CONSTANTS Results,   \* the results that enqueue_projection may be called with
          BlocksOf   \* the blocks of each snippet

(* What Projection relies on: no two snippets share a key, a snippet has   *)
(* csd_block_count blocks, a result has the count of its blocks, at least  *)
(* one, and raw_data has room for any one projected row.                   *)
ASSUME ResultsAssumption ==
    /\ Results \subseteq CsdResults(Snippets, Rows)
    /\ \A s, t \in Snippets : make_map_key(s) = make_map_key(t) => s = t
    /\ \A r \in Results :
          /\ r.blocks \subseteq BlocksOf[r.snippet]
          /\ r.blocks # {}
          /\ r.current_block_count = Cardinality(r.blocks)
    /\ \A s \in Snippets : /\ IsFiniteSet(BlocksOf[s])
                           /\ s.csd_block_count = Cardinality(BlocksOf[s])
    /\ \A row \in ProjectedRows : ProjectedLength[row] <= BUFFER_SIZE

VARIABLE delivered   \* history: the results delivered so far

vars == <<projection_queue_, return_queue_, projectionVars, delivered>>

DeliveredFor(s) == {r \in delivered : r.snippet = s}

BlocksIn(R) == UNION {r.blocks : r \in R}

(* The blocks of a snippet that are still to come.                         *)
Undelivered(s) == BlocksOf[s] \ BlocksIn(DeliveredFor(s))

Init ==
    /\ ProjectionInit
    /\ projection_queue_ = <<>>
    /\ return_queue_ = <<>>
    /\ delivered = {}

enqueue_projection(r) ==
    /\ r.blocks \subseteq Undelivered(r.snippet)
    /\ delivered' = delivered \cup {r}
    /\ projection_queue_' = Append(projection_queue_, r)
    /\ UNCHANGED <<return_queue_, projectionVars>>

Project(p) == ProjectionStep(p) /\ UNCHANGED delivered

Next ==
    \/ \E r \in Results : enqueue_projection(r)
    \/ \E p \in Projectors : Project(p)

Spec == Init /\ [][Next]_vars

(* Every projection thread that can move is run.  Whether the other stages *)
(* deliver their results is not assumed.                                   *)
FairSpec == Spec /\ \A p \in Projectors : WF_vars(Project(p))
-----------------------------------------------------------------------------
Busy(p) == pc[p] \notin {"start", "push_back", "pop"}

Queued == {projection_queue_[i] : i \in DOMAIN projection_queue_}

InHand == {result[p] : p \in {q \in Projectors : Busy(q)}}

(* The results of s that are in the stage.                                 *)
Pending(s) == {r \in Queued \cup InHand : r.snippet = s}

Complete(s) == Undelivered(s) = {} /\ Pending(s) = {}

Returned(s) == {i \in DOMAIN return_queue_ : return_queue_[i].snippet = s}

PcTypes == {"start", "push_back", "pop", "make_map", "check_buffer", "insert", "rows",
            "count_down", "release"}

MergeBuffers == CsdResults(Snippets \cup {NoSnippet}, ProjectedRows)

(* Types of the queues, the shared maps and the threads' locals.           *)
TypeOK ==
    /\ projection_queue_ \in Seq(Results)
    /\ return_queue_ \in Seq(MergeBuffers)
    /\ merge_buffer_list_ \in Seq(Projectors)
    /\ id_block_count_map_ \in [Keys -> Int \cup {Absent}]
    /\ id_buffer_map \in [Projectors -> [Keys -> MergeBuffers \cup {Absent}]]
    /\ pc \in [Projectors -> PcTypes]
    /\ list_seen \in [Projectors -> Seq(Projectors)]
    /\ result \in [Projectors -> Results \cup {Nothing}]
    /\ \A p \in Projectors : Busy(p) => result[p] \in Results
    /\ index \in [Projectors -> Nat \ {0}]
    /\ collided \in BOOLEAN
    /\ delivered \in SUBSET Results

(* "block_count 내리고 작업 완료 시 release_buffer" (projection.cc:83):    *)
(* a thread releases the buffers of a snippet only when the work on it is  *)
(* complete, that is, when the snippet has no block left to deliver and no *)
(* result in the queue or in the hands of another thread.                  *)
ReleaseOnlyWhenComplete ==
    \A p \in Projectors :
        pc[p] = "release" => /\ Undelivered(result[p].snippet) = {}
                             /\ \A r \in Queued : r.snippet # result[p].snippet
                             /\ \A q \in Projectors \ {p} :
                                   Busy(q) => result[q].snippet # result[p].snippet

(* Neither a count nor a merge buffer is there for a snippet whose count   *)
(* should be gone or not made yet.                                         *)
NothingLeft(s) ==
    /\ id_block_count_map_[make_map_key(s)] = Absent
    /\ \A p \in Projectors : id_buffer_map[p][make_map_key(s)] = Absent

(* The converse: once the last result of a snippet has been dealt with,    *)
(* neither its count nor a merge buffer for it is left behind.             *)
CompleteIsReleased == \A s \in Snippets : Complete(s) => NothingLeft(s)

(* The owner of a merge buffer uses it without a lock; it never finds that *)
(* another thread has erased it, which would make operator[] invent a      *)
(* result with a null snippet.                                             *)
BufferStaysWhileInUse ==
    \A p \in Projectors :
        pc[p] \in {"rows", "count_down"} =>
            /\ id_buffer_map[p][key(p)] # Absent
            /\ id_buffer_map[p][key(p)].snippet = result[p].snippet

(* Every block the storage engine waits for is reported exactly once, and  *)
(* the current_block_count sent with a merge buffer is the number of       *)
(* blocks merged into it, so that the counts returned for a snippet add up *)
(* to its csd_block_count, however the results were split over threads, as *)
(* long as no registration and no find has been lost to a collision.       *)
BlocksReturnedOnce ==
    \A s \in Snippets :
        (~ collided /\ Complete(s)) =>
            /\ \A b \in BlocksOf[s] : \E i \in Returned(s) :
                  /\ b \in return_queue_[i].blocks
                  /\ \A j \in Returned(s) \ {i} : b \notin return_queue_[j].blocks
            /\ \A i \in Returned(s) :
                  return_queue_[i].current_block_count = Cardinality(return_queue_[i].blocks)

(* The rows delivered for s can be told apart after the projection.        *)
RowsApart(s) ==
    \A q, r \in DeliveredFor(s) : \A m \in DOMAIN q.rows, n \in DOMAIN r.rows :
        Projected[q.rows[m]] = Projected[r.rows[n]] => q = r /\ m = n

(* Every row delivered for a snippet is in exactly one place of exactly    *)
(* one returned buffer when the snippet is complete, although the rows     *)
(* were merged by several threads, in several buffers, some of which were  *)
(* sent early because they were full (again unless accesses have           *)
(* collided).                                                              *)
RowsReturnedOnce ==
    \A s \in Snippets :
        (~ collided /\ Complete(s) /\ RowsApart(s)) =>
            \A r \in DeliveredFor(s) : \A n \in DOMAIN r.rows :
                \E i \in Returned(s) : \E m \in DOMAIN return_queue_[i].rows :
                    /\ return_queue_[i].rows[m] = Projected[r.rows[n]]
                    /\ \A j \in Returned(s) : \A k \in DOMAIN return_queue_[j].rows :
                          return_queue_[j].rows[k] = Projected[r.rows[n]] => j = i /\ k = m

(* A merge buffer never holds more bytes than raw_data has.                *)
BufferNeverOverflows ==
    \A p \in Projectors : \A k \in Keys :
        id_buffer_map[p][k] # Absent => id_buffer_map[p][k].data_length <= BUFFER_SIZE

(* A snippet does not stay in the stage: once all its blocks have been     *)
(* delivered they are projected, collision or not, and every merge buffer  *)
(* for it is released unless accesses have collided.                       *)
SnippetIsReturned ==
    \A s \in Snippets :
        (Undelivered(s) = {})
            ~> /\ Pending(s) = {}
               /\ collided \/ \A p \in Projectors : id_buffer_map[p][make_map_key(s)] = Absent
-----------------------------------------------------------------------------
(* The inductive invariant behind ReleaseOnlyWhenComplete and              *)
(* BufferStaysWhileInUse.                                                  *)

Counting(p) == Busy(p) /\ pc[p] # "release"

(* The delivered results of s whose blocks have not been counted down yet, *)
(* and all blocks of s that have not.                                      *)
Uncounted(s) ==
    {r \in DeliveredFor(s) : r \in Queued \/ \E p \in Projectors : Counting(p) /\ result[p] = r}

BlocksLeft(s) == Undelivered(s) \cup BlocksIn(Uncounted(s))

(* A delivered result is once in the queue, in the hands of one thread or  *)
(* done with, and shares no block with another one of its snippet.         *)
OnePlace ==
    /\ \A i, j \in DOMAIN projection_queue_ : projection_queue_[i] = projection_queue_[j] => i = j
    /\ Queued \subseteq delivered
    /\ \A p \in Projectors : Busy(p) => result[p] \in delivered \ Queued
    /\ \A p, q \in Projectors : (Busy(p) /\ Busy(q) /\ result[p] = result[q]) => p = q
    /\ \A q, r \in delivered : (q.snippet = r.snippet /\ q # r) => q.blocks \cap r.blocks = {}

(* One thread at a time is in the release loop, under Projection::mu, and  *)
(* nothing of its snippet is left to count.                                *)
ReleaseAlone ==
    \A p \in Projectors :
        pc[p] = "release" => /\ BlocksLeft(result[p].snippet) = {}
                             /\ \A q \in Projectors : pc[q] = "release" => q = p

(* The entry of id_block_count_map_ is the number of blocks left.  Without *)
(* an entry the snippet has not been started or is finished, and no thread *)
(* has got past make_block_count_map for it.                               *)
CountRight(s) ==
    LET count == id_block_count_map_[make_map_key(s)]
    IN  IF count = Absent
        THEN /\ BlocksLeft(s) \in {{}, BlocksOf[s]}
             /\ \A p \in Projectors : (Busy(p) /\ result[p].snippet = s) => pc[p] = "make_map"
        ELSE count = Cardinality(BlocksLeft(s))

CountIsBlocksLeft == \A s \in Snippets : CountRight(s)

(* A merge buffer is filed under the key of its snippet.                   *)
BuffersAreFiled ==
    \A p \in Projectors : \A s \in Snippets :
        id_buffer_map[p][make_map_key(s)] # Absent => id_buffer_map[p][make_map_key(s)].snippet = s

(* Block counting in projection.cc hangs together: the conjunction is kept *)
(* by every step, whatever the unguarded accesses do.                      *)
CountInv ==
    /\ TypeOK
    /\ OnePlace
    /\ ReleaseAlone
    /\ CountIsBlocksLeft
    /\ BuffersAreFiled
    /\ BufferStaysWhileInUse
-----------------------------------------------------------------------------
(* The inductive invariant behind CompleteIsReleased, BlocksReturnedOnce   *)
(* and RowsReturnedOnce: where the blocks and rows of a snippet are that   *)
(* have been merged.                                                       *)

(* A snippet of which nothing or everything has been delivered and nothing *)
(* is in the stage has neither a count nor a buffer.                       *)
RestIsEmpty ==
    \A s \in Snippets :
        (Pending(s) = {} /\ Undelivered(s) \in {{}, BlocksOf[s]}) =>
            /\ id_block_count_map_[make_map_key(s)] = Absent
            /\ ~ collided => NothingLeft(s)

Listed == {merge_buffer_list_[i] : i \in DOMAIN merge_buffer_list_}

(* Without a collision the buffers of every thread that is past push_back  *)
(* are in merge_buffer_list_, and the release loop leaves none behind it.  *)
Registered ==
    /\ \A p \in Projectors :
          pc[p] \in {"start", "push_back"} => \A k \in Keys : id_buffer_map[p][k] = Absent
    /\ ~ collided =>
          \A p \in Projectors :
              /\ pc[p] \notin {"start", "push_back"} => p \in Listed
              /\ pc[p] = "push_back" => /\ list_seen[p] = merge_buffer_list_
                                        /\ \A q \in Projectors : pc[q] = "push_back" => q = p
              /\ pc[p] = "release" =>
                    \A i \in DOMAIN merge_buffer_list_ :
                        i < index[p] => id_buffer_map[merge_buffer_list_[i]][key(p)] = Absent

(* What a result or merge buffer holds: its blocks, or its rows.           *)
Content(kind, b) == IF kind = "blocks" THEN b.blocks ELSE {b.rows[i] : i \in DOMAIN b.rows}

(* p has a result whose counts it has not added yet, and the row it will   *)
(* merge next.                                                             *)
Merging(p) == Counting(p) /\ pc[p] # "count_down"

NextRow(p) == IF pc[p] = "rows" THEN index[p] ELSE 1

(* r still waits for AddCounts, and its n-th row has been through the row  *)
(* loop.                                                                   *)
Unmerged(r) == r \in Queued \/ \E p \in Projectors : Merging(p) /\ result[p] = r

RowMerged(r, n) ==
    Unmerged(r) => \E p \in Projectors : Merging(p) /\ result[p] = r /\ n < NextRow(p)

(* What has been merged into a buffer so far.                              *)
Merged(kind, s) ==
    IF kind = "blocks"
    THEN BlocksIn({r \in DeliveredFor(s) : ~ Unmerged(r)})
    ELSE UNION {{Projected[r.rows[n]] : n \in {m \in DOMAIN r.rows : RowMerged(r, m)}} :
                   r \in DeliveredFor(s)}

InBuffers(kind, s) ==
    [p \in Projectors |-> IF id_buffer_map[p][make_map_key(s)] = Absent THEN {}
                          ELSE Content(kind, id_buffer_map[p][make_map_key(s)])]

InReturned(kind, s) ==
    [i \in DOMAIN return_queue_ |-> IF return_queue_[i].snippet = s
                                    THEN Content(kind, return_queue_[i]) ELSE {}]

(* The sets of B and R hold elements of M only, each at most once, and all *)
(* of M unless some of it may have been lost.                              *)
Spread(B, R, M, lost) ==
    /\ \A p \in DOMAIN B : B[p] \subseteq M
    /\ \A i \in DOMAIN R : R[i] \subseteq M
    /\ \A p, q \in DOMAIN B : p # q => B[p] \cap B[q] = {}
    /\ \A i, j \in DOMAIN R : i # j => R[i] \cap R[j] = {}
    /\ \A p \in DOMAIN B, i \in DOMAIN R : B[p] \cap R[i] = {}
    /\ lost \/ \A x \in M : (\E p \in DOMAIN B : x \in B[p]) \/ (\E i \in DOMAIN R : x \in R[i])

Once(kind, s) == Spread(InBuffers(kind, s), InReturned(kind, s), Merged(kind, s), collided)

NoRowTwice(b) == \A m, n \in DOMAIN b.rows : b.rows[m] = b.rows[n] => m = n

(* A merge buffer counts its blocks and does not exceed raw_data.          *)
Sound(b) ==
    /\ IsFiniteSet(b.blocks)
    /\ b.current_block_count = Cardinality(b.blocks)
    /\ b.data_length <= BUFFER_SIZE

AllSound ==
    /\ \A p \in Projectors : \A k \in Keys : id_buffer_map[p][k] # Absent => Sound(id_buffer_map[p][k])
    /\ \A i \in DOMAIN return_queue_ : Sound(return_queue_[i])

NoneTwice(s) ==
    /\ \A p \in Projectors :
          id_buffer_map[p][make_map_key(s)] # Absent => NoRowTwice(id_buffer_map[p][make_map_key(s)])
    /\ \A i \in Returned(s) : NoRowTwice(return_queue_[i])

RowsOnce(s) == Once("rows", s) /\ NoneTwice(s)

(* The insert of check_id_buffer overwrites no buffer.                     *)
InsertsNew ==
    \A p \in Projectors :
        pc[p] = "insert" => index[p] = 1 /\ id_buffer_map[p][key(p)] = Absent

HeldFor(s) == Once("blocks", s) /\ (RowsApart(s) => RowsOnce(s))

HeldOnce ==
    /\ InsertsNew
    /\ AllSound
    /\ \A s \in Snippets : HeldFor(s)

(* The counting is right, and every block and row merged is in one buffer  *)
(* or has been returned once: the conjunction is kept by every step.       *)
MergeInv ==
    /\ CountInv
    /\ RestIsEmpty
    /\ Registered
    /\ HeldOnce
=============================================================================
