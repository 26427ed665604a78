----------------------------- MODULE PipelineProofs -----------------------------
(***************************************************************************)
(* The pipeline implements SnippetMerge: the scan and filter stages are    *)
(* the environment that module assumes, and what its theorems say of the   *)
(* projection stage holds in the pipeline.                                 *)
(***************************************************************************)
EXTENDS CsdPipeline, ScanFilterProofs

(* For the scan and filter stages, a step of the projection stage takes a  *)
(* result off projection_queue_ or does nothing, and a step of the return  *)
(* stage does nothing.                                                     *)
LEMMA StepScans == [Next]_vars => [ScanFilterNext]_scanFilterVars
<1> SUFFICES ASSUME [Next]_vars PROVE [ScanFilterNext]_scanFilterVars
  OBVIOUS
<1>1. ASSUME NEW s \in Snippets, enqueue_scan(s) PROVE ScanFilterNext
  BY <1>1, Zenon DEF enqueue_scan, ScanFilterNext
<1>2. ASSUME NEW t \in Scanners, Scan(t) PROVE ScanFilterNext
  BY <1>2, Zenon DEF Scan, ScanFilterNext
<1>3. ASSUME NEW t \in Filters, Filter(t) PROVE ScanFilterNext
  BY <1>3, Zenon DEF Filter, ScanFilterNext
<1>4. ASSUME NEW p \in Projectors, Projection(p) PROVE [ScanFilterNext]_scanFilterVars
  <2>1. /\ UNCHANGED <<unsent, scan_queue_, filter_queue_, scanVars, filterVars, delivered>>
        /\ P!ProjectionStep(p)
    BY <1>4, Zenon DEF Projection
  <2>2. CASE P!PopResult(p)
    <3>1. projection_queue_ # <<>> /\ projection_queue_' = Tail(projection_queue_)
      BY <2>2, Zenon DEF P!PopResult
    <3> QED
      BY <2>1, <3>1, Zenon DEF TakeResult, ScanFilterNext
  <2>3. CASE ~ P!PopResult(p)
    <3>1. UNCHANGED projection_queue_
      BY <2>1, <2>3, Zenon DEF P!ProjectionStep, P!ReadMergeBufferList, P!WriteMergeBufferList,
         P!make_block_count_map, P!check_id_buffer, P!insert_buffer, P!projectioning, P!AddCounts,
         P!block_count_down, P!release_buffer, P!erase_count
    <3> QED
      BY <2>1, <3>1, Zenon DEF scanFilterVars
  <2> QED
    BY <2>2, <2>3
<1>5. ASSUME NEW t \in Returners, Return(t) \/ ReturnFailure(t) PROVE UNCHANGED scanFilterVars
  BY <1>5, Zenon DEF Return, ReturnFailure, scanFilterVars
<1>6. CASE UNCHANGED vars
  BY <1>6, Zenon DEF vars
<1> QED
  BY <1>1, <1>2, <1>3, <1>4, <1>5, <1>6, Zenon DEF Next

(* The pipeline implements ScanFilter: to the scan and filter stages the   *)
(* projection and return stages are no more than a reader of               *)
(* projection_queue_ (projection.cc, wait_and_pop).                        *)
THEOREM PipelineScans == Spec => ScanFilterSpec
<1>1. Init => ScanFilterInit
  BY Zenon DEF Init
<1> QED
  BY <1>1, StepScans, PTL DEF Spec, ScanFilterSpec

(* So every block of a scanned snippet is in one place until it is handed  *)
(* to the projection stage, in the whole pipeline.                         *)
THEOREM PipelineBlocks ==
    ASSUME RegularSnippets
    PROVE  Spec => []BlocksInv
BY PipelineScans, BlocksInvariant, PTL

(* And no result that Scan and Filter fill outgrows raw_data.              *)
THEOREM PipelineBuffersHold ==
    ASSUME RegularSnippets, RowsFit
    PROVE  Spec => []ScanBufferNeverOverflows
BY PipelineScans, BuffersHoldScans, PTL
-----------------------------------------------------------------------------
(* Facts about queues that do not depend on what is in them.               *)
IsSeq(q) == q \in Seq(Elements(q))

(* A sequence over a set is a sequence.                                    *)
LEMMA SeqOf ==
    ASSUME NEW X, NEW q \in Seq(X)
    PROVE  IsSeq(q)
<1>1. DOMAIN q = 1 .. Len(q) /\ Len(q) \in Nat /\ q = [i \in 1 .. Len(q) |-> q[i]]
  OBVIOUS
<1>2. q \in [1 .. Len(q) -> Elements(q)]
  BY <1>1 DEF Elements
<1> QED
  BY <1>1, <1>2 DEF IsSeq

(* Two sequences are over a common set.                                    *)
LEMMA QueueEnds ==
    ASSUME NEW h, NEW q, IsSeq(h), IsSeq(q)
    PROVE  \E X : h \in Seq(X) /\ q \in Seq(X)
<1>1. h \in Seq(Elements(h) \cup Elements(q)) /\ q \in Seq(Elements(h) \cup Elements(q))
  BY DEF IsSeq
<1> QED
  BY <1>1

(* What the concatenation of two sequences is.                             *)
LEMMA Concatenated ==
    ASSUME NEW X, NEW h \in Seq(X), NEW q \in Seq(X)
    PROVE  /\ h \o q \in Seq(X) /\ Len(h \o q) = Len(h) + Len(q)
           /\ \A i \in 1 .. Len(h) + Len(q) : (h \o q)[i] = IF i <= Len(h) THEN h[i] ELSE q[i - Len(h)]
OBVIOUS

(* Sequences that agree everywhere are the same.                           *)
LEMMA SameSeq ==
    ASSUME NEW X, NEW h \in Seq(X), NEW q \in Seq(X), Len(h) = Len(q), \A i \in 1 .. Len(h) : h[i] = q[i]
    PROVE  h = q
OBVIOUS

(* A push to the queue is one to the history of the queue.                 *)
LEMMA PushAfter ==
    ASSUME NEW h, NEW q, NEW x, IsSeq(h), IsSeq(q)
    PROVE  /\ IsSeq(Append(q, x)) /\ h \o Append(q, x) = Append(h \o q, x)
           /\ h \o Append(q, x) # h \o q /\ Append(q, x) # q
<1>1. PICK X : h \in Seq(X) /\ q \in Seq(X)
  BY QueueEnds
<1>2. PICK Y : Y = X \cup {x}
  BY Zenon
<1>3. h \in Seq(Y) /\ q \in Seq(Y) /\ x \in Y
  BY <1>1, <1>2
<1>4. Append(q, x) \in Seq(Y) /\ Append(q, x) # q
  BY <1>3
<1>5. h \o Append(q, x) \in Seq(Y) /\ Append(h \o q, x) \in Seq(Y)
  BY <1>3
<1>6. /\ Len(h \o Append(q, x)) = Len(h) + Len(q) + 1 /\ Len(Append(h \o q, x)) = Len(h) + Len(q) + 1
      /\ Len(h \o q) = Len(h) + Len(q) /\ Len(h) \in Nat /\ Len(q) \in Nat
  BY <1>3
<1>7. ASSUME NEW i \in 1 .. Len(h) + Len(q) + 1
      PROVE  (h \o Append(q, x))[i] = Append(h \o q, x)[i]
  BY <1>3
<1>8. h \o Append(q, x) = Append(h \o q, x)
  BY <1>5, <1>6, <1>7
<1>9. h \o Append(q, x) # h \o q
  BY <1>6
<1>10. IsSeq(Append(q, x))
  BY <1>4, SeqOf, Zenon
<1> QED
  BY <1>4, <1>8, <1>9, <1>10, Zenon

(* A pop moves an element into the history of the queue.                   *)
LEMMA PopAfter ==
    ASSUME NEW h, NEW q, IsSeq(h), IsSeq(q), q # <<>>
    PROVE  /\ IsSeq(Append(h, Head(q))) /\ IsSeq(Tail(q))
           /\ Append(h, Head(q)) \o Tail(q) = h \o q /\ Tail(q) # q
<1>1. PICK X : h \in Seq(X) /\ q \in Seq(X)
  BY QueueEnds
<1>2. PICK g, tail, x : g = Append(h, Head(q)) /\ tail = Tail(q) /\ x = Head(q)
  BY Zenon
<1>3. /\ tail \in Seq(X) /\ Len(tail) = Len(q) - 1 /\ Len(q) \in Nat \ {0} /\ tail # q
      /\ q[1] = x /\ \A i \in 1 .. Len(q) - 1 : tail[i] = q[i + 1]
  BY <1>1, <1>2
<1>4. /\ g \in Seq(X) /\ Len(g) = Len(h) + 1 /\ Len(h) \in Nat
      /\ \A i \in 1 .. Len(h) : g[i] = h[i]
      /\ g[Len(h) + 1] = x
  BY <1>1, <1>2
<1>5. /\ g \o tail \in Seq(X) /\ Len(g \o tail) = Len(h) + Len(q)
      /\ \A i \in 1 .. Len(h) + Len(q) : (g \o tail)[i] = IF i <= Len(h) + 1 THEN g[i] ELSE tail[i - (Len(h) + 1)]
  <2>1. Len(g) + Len(tail) = Len(h) + Len(q)
    BY <1>3, <1>4
  <2>2. /\ g \o tail \in Seq(X) /\ Len(g \o tail) = Len(g) + Len(tail)
        /\ \A i \in 1 .. Len(g) + Len(tail) : (g \o tail)[i] = IF i <= Len(g) THEN g[i] ELSE tail[i - Len(g)]
    BY <1>3, <1>4, Concatenated, Zenon
  <2> QED
    BY <1>4, <2>1, <2>2, Zenon
<1>6. /\ h \o q \in Seq(X) /\ Len(h \o q) = Len(h) + Len(q)
      /\ \A i \in 1 .. Len(h) + Len(q) : (h \o q)[i] = IF i <= Len(h) THEN h[i] ELSE q[i - Len(h)]
  BY <1>1, Concatenated, Zenon
<1>7. ASSUME NEW i \in 1 .. Len(h) + Len(q) PROVE (g \o tail)[i] = (h \o q)[i]
  <2>1. CASE i <= Len(h)
    BY <1>4, <1>5, <1>6, <2>1
  <2>2. CASE i = Len(h) + 1
    <3>1. i - Len(h) = 1 /\ ~ (i <= Len(h)) /\ i <= Len(h) + 1
      BY <1>4, <2>2
    <3>2. (h \o q)[i] = q[1] /\ (g \o tail)[i] = g[Len(h) + 1]
      BY <1>5, <1>6, <2>2, <3>1
    <3> QED
      BY <1>3, <1>4, <3>2, Zenon
  <2>3. CASE i > Len(h) + 1
    <3>1. /\ i - (Len(h) + 1) \in 1 .. Len(q) - 1 /\ i - (Len(h) + 1) + 1 = i - Len(h)
          /\ ~ (i <= Len(h)) /\ ~ (i <= Len(h) + 1)
      BY <1>3, <1>4, <2>3
    <3>2. (h \o q)[i] = q[i - Len(h)] /\ (g \o tail)[i] = tail[i - (Len(h) + 1)]
      BY <1>5, <1>6, <3>1
    <3>3. tail[i - (Len(h) + 1)] = q[i - (Len(h) + 1) + 1]
      BY <1>3, <3>1
    <3> QED
      BY <3>1, <3>2, <3>3
  <2>4. i <= Len(h) \/ i = Len(h) + 1 \/ i > Len(h) + 1
    BY <1>4
  <2> QED
    BY <2>1, <2>2, <2>3, <2>4, Zenon
<1>8. g \o tail = h \o q
  BY <1>5, <1>6, <1>7, SameSeq, Zenon
<1>9. IsSeq(g) /\ IsSeq(tail)
  BY <1>3, <1>4, SeqOf
<1> QED
  BY <1>2, <1>3, <1>8, <1>9, Zenon
-----------------------------------------------------------------------------
(* The results the scan and filter stages make.                            *)
ScanResults == {r \in CsdResults(Snippets, Rows) : IsPart(r)}

(* The blocks of a result are blocks of its snippet.                       *)
LEMMA PartOfBlocks ==
    ASSUME RegularSnippets, NEW r \in ScanResults
    PROVE  r.snippet \in Snippets /\ r.blocks \subseteq BlocksOf[r.snippet] /\ r.blocks # {}
<1>1. PICK s, n : s = r.snippet /\ n = s.csd_block_count
  BY Zenon
<1>2. s \in Snippets /\ n \in Nat
  BY <1>1 DEF ScanResults, CsdResults, RegularSnippets
<1>3. PICK i \in 1 .. n, j \in 1 .. n : i <= j /\ r.blocks = Part(s, i, j)
  BY <1>1 DEF ScanResults, IsPart
<1>4. i \in Int /\ j \in Int /\ 1 \in Int /\ n \in Int /\ 1 <= i /\ j <= n /\ ~ (j < i)
  BY <1>2, <1>3
<1>5. Part(s, i, j) # {} /\ Part(s, i, j) \subseteq Part(s, 1, n)
  BY <1>4, PartEmpty, PartWithin
<1>6. BlocksOf[s] = Part(s, 1, n)
  BY <1>1, <1>2 DEF BlocksOf
<1> QED
  BY <1>1, <1>2, <1>3, <1>5, <1>6, Zenon
-----------------------------------------------------------------------------
(* return_queue_ and its history are sequences.                            *)
ReturnQueues == IsSeq(return_queue_) /\ IsSeq(taken)

(* A step of a projection thread leaves return_queue_ alone or appends one *)
(* result to it.                                                           *)
LEMMA ProjectionPushes ==
    ASSUME NEW p \in Projectors, P!ProjectionStep(p)
    PROVE  return_queue_' = return_queue_ \/ \E b : return_queue_' = Append(return_queue_, b)
<1>1. CASE P!projectioning(p)
  BY <1>1, Zenon DEF P!projectioning
<1>2. CASE P!release_buffer(p)
  BY <1>2, Zenon DEF P!release_buffer
<1>3. CASE ~ P!projectioning(p) /\ ~ P!release_buffer(p)
  BY <1>3, Zenon DEF P!ProjectionStep, P!ReadMergeBufferList, P!WriteMergeBufferList, P!PopResult,
     P!make_block_count_map, P!check_id_buffer, P!insert_buffer, P!AddCounts, P!block_count_down, P!erase_count
<1> QED
  BY <1>1, <1>2, <1>3

(* A return thread moves the head of the queue to the history, or leaves   *)
(* both alone.                                                             *)
LEMMA ReturnPops ==
    ASSUME ReturnQueues, NEW t \in Returners, Return(t) \/ ReturnFailure(t)
    PROVE  ReturnQueues' /\ taken' \o return_queue_' = taken \o return_queue_
<1>1. CASE return_queue_' = return_queue_
  <2>1. taken' = taken
    BY <1>1, Zenon DEF Return, ReturnFailure
  <2> QED
    BY <1>1, <2>1 DEF ReturnQueues, IsSeq, Elements
<1>2. CASE return_queue_' # return_queue_
  <2>1. Return(t) /\ R!return_worker(t)
    BY <1>2, Zenon DEF Return, ReturnFailure, R!ReturnStep, R!SendHeader, R!SendRows, R!ReturnFailure,
       R!ConnectFails, R!RecvFails, R!PeerCloses
  <2>2. PICK g, tail : g = Append(taken, Head(return_queue_)) /\ tail = Tail(return_queue_)
    BY Zenon
  <2>3. return_queue_ # <<>> /\ return_queue_' = tail /\ taken' = g
    BY <1>2, <2>1, <2>2, Zenon DEF R!return_worker, Return
  <2>4. IsSeq(g) /\ IsSeq(tail) /\ g \o tail = taken \o return_queue_
    BY <2>2, <2>3, PopAfter, Zenon DEF ReturnQueues
  <2>5. IsSeq(return_queue_)' /\ IsSeq(taken)'
    BY <2>3, <2>4 DEF IsSeq, Elements
  <2> QED
    BY <2>3, <2>4, <2>5 DEF ReturnQueues
<1> QED
  BY <1>1, <1>2

(* What the return threads have popped and what is still queued stay       *)
(* sequences.                                                              *)
LEMMA ReturnQueuesStep ==
    ASSUME ReturnQueues, [Next]_vars
    PROVE  ReturnQueues'
<1>1. ASSUME UNCHANGED <<return_queue_, taken>> PROVE ReturnQueues'
  BY <1>1 DEF ReturnQueues, IsSeq, Elements
<1>2. ASSUME NEW s \in Snippets, enqueue_scan(s) PROVE ReturnQueues'
  BY <1>1, <1>2, Zenon DEF enqueue_scan, laterVars
<1>3. ASSUME NEW t \in Scanners, Scan(t) PROVE ReturnQueues'
  BY <1>1, <1>3, Zenon DEF Scan, laterVars
<1>4. ASSUME NEW t \in Filters, Filter(t) PROVE ReturnQueues'
  BY <1>1, <1>4, Zenon DEF Filter, laterVars
<1>5. ASSUME NEW p \in Projectors, Projection(p) PROVE ReturnQueues'
  <2>1. taken' = taken /\ P!ProjectionStep(p)
    BY <1>5, Zenon DEF Projection
  <2>2. ASSUME NEW b, return_queue_' = Append(return_queue_, b) PROVE ReturnQueues'
    <3>1. IsSeq(Append(return_queue_, b))
      BY PushAfter DEF ReturnQueues
    <3> QED
      BY <2>1, <2>2, <3>1 DEF ReturnQueues, IsSeq, Elements
  <2> QED
    BY <1>1, <2>1, <2>2, ProjectionPushes
<1>6. ASSUME NEW t \in Returners, Return(t) \/ ReturnFailure(t) PROVE ReturnQueues'
  BY <1>6, ReturnPops
<1>7. CASE UNCHANGED vars
  BY <1>1, <1>7, Zenon DEF vars, laterVars
<1> QED
  BY <1>2, <1>3, <1>4, <1>5, <1>6, <1>7, Zenon DEF Next
-----------------------------------------------------------------------------
(* The sockets of the return stage.                                        *)
Waiting == {t \in Returners : return_pc[t] = "recv"}

SocketsInv ==
    /\ return_pc \in [Returners -> {"pop", "send_data", "recv"}]
    /\ open_sockets \in Int /\ failures \in Nat
    /\ SocketsAreClosed

(* What counting sets of return threads comes to.                          *)
ReturnersCounted ==
    /\ Cardinality({}) = 0
    /\ \A W \in SUBSET Returners : Cardinality(W) \in Int
    /\ \A W \in SUBSET Returners : \A t \in Returners \ W : Cardinality(W \cup {t}) = Cardinality(W) + 1

(* A return thread that moves changes the number of threads that wait for  *)
(* a reply by what it leaves and enters.                                   *)
LEMMA ReturnerMoves ==
    ASSUME ReturnersCounted, SocketsInv, NEW t \in Returners, NEW at \in {"pop", "send_data", "recv"},
           return_pc' = [return_pc EXCEPT ![t] = at]
    PROVE  /\ return_pc' \in [Returners -> {"pop", "send_data", "recv"}]
           /\ Cardinality(Waiting) \in Int
           /\ Cardinality(Waiting') = Cardinality(Waiting) + (IF at = "recv" THEN 1 ELSE 0)
                                         - (IF return_pc[t] = "recv" THEN 1 ELSE 0)
<1>1. return_pc \in [Returners -> {"pop", "send_data", "recv"}]
  BY DEF SocketsInv
<1>2. Cardinality(Waiting) \in Int
  BY Zenon DEF ReturnersCounted, Waiting
<1>3. Waiting' = (Waiting \ {t}) \cup (IF at = "recv" THEN {t} ELSE {})
  BY <1>1 DEF Waiting
<1>4. t \in Waiting <=> return_pc[t] = "recv"
  BY DEF Waiting
<1>5. PICK W : W = Waiting \ {t}
  BY Zenon
<1>6. /\ W \in SUBSET Returners /\ t \in Returners \ W
      /\ Waiting = IF t \in Waiting THEN W \cup {t} ELSE W
  BY <1>5 DEF Waiting
<1>7. Cardinality(W) \in Int /\ Cardinality(W \cup {t}) = Cardinality(W) + 1
  BY <1>6, Zenon DEF ReturnersCounted
<1>8. W \cup {} = W
  OBVIOUS
<1>9. return_pc' \in [Returners -> {"pop", "send_data", "recv"}]
  BY <1>1
<1>10. CASE at = "recv"
  <2>1. Cardinality(Waiting') = Cardinality(W) + 1
    BY <1>3, <1>5, <1>7, <1>10
  <2> QED
    BY <1>2, <1>4, <1>6, <1>7, <1>9, <1>10, <2>1
<1>11. CASE at # "recv"
  <2>1. Cardinality(Waiting') = Cardinality(W)
    BY <1>3, <1>5, <1>8, <1>11
  <2> QED
    BY <1>2, <1>4, <1>6, <1>7, <1>9, <1>11, <2>1
<1> QED
  BY <1>10, <1>11

(* No socket is open at the start.                                         *)
LEMMA SocketsStart ==
    ASSUME ReturnersCounted
    PROVE  Init => SocketsInv
<1> SUFFICES ASSUME Init PROVE SocketsInv
  OBVIOUS
<1>1. return_pc = [t \in Returners |-> "pop"] /\ open_sockets = 0 /\ failures = 0
  BY DEF Init, R!ReturnInit
<1>2. {t \in Returners : return_pc[t] = "recv"} = {}
  BY <1>1
<1> QED
  BY <1>1, <1>2 DEF ReturnersCounted, SocketsInv, SocketsAreClosed

(* A step opens a socket only where a thread begins to wait, and leaves it *)
(* open only where a connection has failed.                                *)
LEMMA SocketsStep ==
    ASSUME ReturnersCounted
    PROVE  SocketsInv /\ [Next]_vars => SocketsInv'
<1> SUFFICES ASSUME SocketsInv, [Next]_vars PROVE SocketsInv'
  OBVIOUS
<1>1. ASSUME UNCHANGED returnVars PROVE SocketsInv'
  BY <1>1 DEF SocketsInv, SocketsAreClosed, returnVars
<1>2. ASSUME NEW t \in Returners, Return(t) \/ ReturnFailure(t) PROVE SocketsInv'
  <2>1. PICK w : w = Cardinality(Waiting)
    BY Zenon
  <2>2. /\ open_sockets \in Int /\ failures \in Nat /\ open_sockets <= w + failures
        /\ return_pc \in [Returners -> {"pop", "send_data", "recv"}]
    BY <2>1 DEF SocketsInv, SocketsAreClosed, Waiting
  <2>3. ASSUME NEW at \in {"pop", "send_data", "recv"}, return_pc' = [return_pc EXCEPT ![t] = at],
               NEW d \in Int, open_sockets' = open_sockets + d, NEW e \in {0, 1}, failures' = failures + e,
               d <= (IF at = "recv" THEN 1 ELSE 0) - (IF return_pc[t] = "recv" THEN 1 ELSE 0) + e
        PROVE  SocketsInv'
    <3>1. /\ return_pc' \in [Returners -> {"pop", "send_data", "recv"}] /\ w \in Int
          /\ Cardinality(Waiting') = w + (IF at = "recv" THEN 1 ELSE 0)
                                       - (IF return_pc[t] = "recv" THEN 1 ELSE 0)
      BY <2>1, <2>3, ReturnerMoves, Zenon
    <3>2. PICK v : v = Cardinality(Waiting')
      BY Zenon
    <3>3. open_sockets' \in Int /\ failures' \in Nat /\ open_sockets' <= v + failures'
      BY <2>2, <2>3, <3>1, <3>2
    <3> QED
      BY <3>1, <3>2, <3>3, Zenon DEF SocketsInv, SocketsAreClosed, Waiting
  <2>4. CASE R!return_worker(t)
    BY <2>2, <2>3, <2>4 DEF R!return_worker
  <2>5. CASE R!SendHeader(t)
    BY <2>2, <2>3, <2>5 DEF R!SendHeader
  <2>6. CASE R!SendRows(t)
    BY <2>2, <2>3, <2>6 DEF R!SendRows, R!Finished
  <2>7. CASE R!ConnectFails(t)
    BY <2>2, <2>3, <2>7 DEF R!ConnectFails, R!Finished
  <2>8. CASE R!RecvFails(t)
    BY <2>2, <2>3, <2>8 DEF R!RecvFails, R!Finished
  <2>9. CASE R!PeerCloses(t)
    BY <2>2, <2>3, <2>9 DEF R!PeerCloses, R!Finished
  <2> QED
    BY <1>2, <2>4, <2>5, <2>6, <2>7, <2>8, <2>9, Zenon
       DEF Return, ReturnFailure, R!ReturnStep, R!ReturnFailure
<1> QED
  BY <1>1, <1>2, Zenon DEF Next, vars, laterVars, enqueue_scan, Scan, Filter, Projection
-----------------------------------------------------------------------------
(* The blocks of s that have not been handed to the projection stage.      *)
StillToCome(s) == BlocksOf[s] \ UNION {r.blocks : r \in {q \in delivered : q.snippet = s}}

(* What the scan and filter stages hand over is what SnippetMerge expects. *)
LEMMA HandsResult ==
    ASSUME RegularSnippets, BlocksInv', HandsNew
    PROVE  \/ delivered' = delivered /\ projection_queue_' = projection_queue_
           \/ \E r \in ScanResults : /\ r.blocks \subseteq StillToCome(r.snippet)
                                     /\ delivered' = delivered \cup {r}
                                     /\ projection_queue_' = Append(projection_queue_, r)
<1> SUFFICES ASSUME NEW r, r.blocks \cap Handed = {}, delivered' = delivered \cup {r},
                    projection_queue_' = Append(projection_queue_, r)
             PROVE  r \in ScanResults /\ r.blocks \subseteq StillToCome(r.snippet)
  BY Zenon DEF HandsNew
<1>1. r \in delivered'
  OBVIOUS
<1>2. r \in CsdResults(Snippets, Rows)
  BY <1>1, Zenon DEF BlocksInv, TypeOK
<1>3. IsPart(r)
  BY <1>1, Zenon DEF BlocksInv, BlocksApart
<1>4. r \in ScanResults
  BY <1>2, <1>3, Zenon DEF ScanResults
<1>5. r.blocks \subseteq BlocksOf[r.snippet]
  BY <1>4, PartOfBlocks
<1>6. UNION {q.blocks : q \in {x \in delivered : x.snippet = r.snippet}} \subseteq Handed
  BY Zenon DEF Handed
<1> QED
  BY <1>4, <1>5, <1>6, Zenon DEF StillToCome

(* A block tells its snippet.                                              *)
LEMMA BlockOfOne ==
    ASSUME RegularSnippets, NEW s \in Snippets, NEW b \in BlocksOf[s],
           NEW r, IsPart(r), r.snippet \in Snippets, b \in r.blocks
    PROVE  r.snippet = s
<1>1. PICK t : t = r.snippet
  BY Zenon
<1>2. s.csd_block_count \in Nat /\ t.csd_block_count \in Nat /\ t \in Snippets
  BY <1>1 DEF RegularSnippets
<1>3. PICK i \in 1 .. t.csd_block_count, j \in 1 .. t.csd_block_count : r.blocks = Part(t, i, j)
  BY <1>1 DEF IsPart
<1>4. b \in Part(s, 1, s.csd_block_count)
  BY DEF BlocksOf
<1>5. i \in Int /\ j \in Int /\ 1 \in Int /\ s.csd_block_count \in Int
  BY <1>2, <1>3
<1>6. s # t => Part(s, 1, s.csd_block_count) \cap Part(t, i, j) = {}
  BY <1>2, <1>5, PartsOfTwo
<1> QED
  BY <1>1, <1>3, <1>4, <1>6, Zenon

(* When all blocks of a snippet have been handed over, no thread is going  *)
(* to read one, and none is in the filter stage.                           *)
LEMMA AllHanded ==
    ASSUME RegularSnippets, BlocksInv, NEW s \in Snippets, StillToCome(s) = {},
           NEW d \in delivered, d.snippet = s
    PROVE  /\ ~ ToBeScanned(s)
           /\ \A r \in Elements(filter_queue_) : r.snippet # s
           /\ \A t \in Filters : filter_in[t].snippet # s
<1>1. TypeOK /\ ScansRight /\ ScannedOnce /\ FilteredOnce /\ BlocksApart
  BY DEF BlocksInv
<1>2. BlocksOf[s] \subseteq Handed
  BY Zenon DEF StillToCome, Handed
<1>3. s \notin ToScan
  BY <1>1, Zenon DEF BlocksApart
<1>4. BlocksOf[s] = Part(s, 1, s.csd_block_count) /\ s.csd_block_count \in Nat
  BY DEF BlocksOf, RegularSnippets
<1>5. ASSUME NEW t \in Scanners, scan_result[t].snippet = s
      PROVE  scan_pc[t] # "SST_FILE_SCAN" /\ ~ (position[t] <= Len(s.block_list))
  <2>1. Scanning(t)
    <3>1. NewResult(NoSnippet).snippet # s
      BY CsdDataAssumption DEF NewResult, CsdResult
    <3> QED
      BY <1>1, <1>5, <3>1, Zenon DEF ScansRight, Idle
  <2>2. PICK r, left, n, first : r = scan_result[t] /\ left = left_block_count[t] /\ n = s.csd_block_count
                                 /\ first = FirstOf(r, left)
    BY Zenon
  <2>3. /\ ScanRight(t) /\ left \in Nat /\ n \in Nat /\ r.current_block_count \in Nat
        /\ first \in Nat \ {0} /\ s.type = scan_pc[t] /\ s.type \in ScanTypes
        /\ position[t] \in Nat \ {0}
    BY <1>1, <1>5, <2>1, <2>2, InHand
  <2>4. Kept(t) = Part(s, first, n)
    BY <1>5, <2>2, Zenon DEF Kept
  <2>5. Part(s, first, n) \subseteq BlocksOf[s]
    BY <1>4, <2>2, <2>3, PartWithin
  <2>6. Kept(t) \cap Handed = {}
    BY <1>1, <2>1, Zenon DEF BlocksApart
  <2>7. n < first
    BY <1>2, <2>3, <2>4, <2>5, <2>6, PartEmpty
  <2>8. first = n - left - r.current_block_count + 1
    BY <1>5, <2>2, Zenon DEF FirstOf
  <2>9. left = 0
    BY <2>3, <2>7, <2>8
  <2>10. s.type # "SST_FILE_SCAN"
    <3>1. scan_pc[t] = "SST_FILE_SCAN" => left_block_count[t] > 0
      BY <1>1, BlocksRemain
    <3> QED
      BY <2>2, <2>3, <2>9, <3>1
  <2>11. left = Len(s.block_list) + 1 - position[t]
    BY <1>5, <2>2, <2>3, <2>10, Zenon DEF ScanRight, Agrees
  <2>12. Len(s.block_list) \in Nat
    BY <2>3, <2>10 DEF RegularSnippets, ScanTypes
  <2> QED
    BY <2>3, <2>9, <2>10, <2>11, <2>12
<1>6. ASSUME NEW r \in InFilter PROVE r.snippet # s
  <2> SUFFICES ASSUME r.snippet = s PROVE FALSE
    OBVIOUS
  <2>1. IsPart(r) /\ r.blocks \cap Handed = {}
    BY <1>1, Zenon DEF BlocksApart
  <2>2. PICK i \in 1 .. s.csd_block_count, j \in 1 .. s.csd_block_count : i <= j /\ r.blocks = Part(s, i, j)
    BY <2>1 DEF IsPart
  <2>3. /\ i \in Int /\ j \in Int /\ 1 \in Int /\ s.csd_block_count \in Int
        /\ 1 <= i /\ j <= s.csd_block_count /\ ~ (j < i)
    BY <1>4, <2>2
  <2>4. Part(s, i, j) # {} /\ Part(s, i, j) \subseteq BlocksOf[s]
    BY <1>4, <2>3, PartWithin, PartEmpty
  <2> QED
    BY <1>2, <2>1, <2>2, <2>4, Zenon
<1>7. ASSUME NEW t \in Filters PROVE filter_in[t].snippet # s
  <2>1. NewResult(NoSnippet).snippet # s
    BY CsdDataAssumption DEF NewResult, CsdResult
  <2>2. CASE filter_pc[t] = "filtering"
    BY <1>6, <2>2, Zenon DEF InFilter
  <2>3. CASE filter_pc[t] # "filtering"
    BY <1>1, <2>1, <2>3, Zenon DEF FilteredOnce
  <2> QED
    BY <2>2, <2>3
<1> QED
  BY <1>3, <1>5, <1>6, <1>7, Zenon DEF ToBeScanned, ToScan, InFilter

(* Of a snippet with nothing on the way to the projection stage, all or    *)
(* nothing has been handed over.                                           *)
LEMMA AllOrNothing ==
    ASSUME RegularSnippets, BlocksInv, NEW s \in Snippets, ~ InFlight(s)
    PROVE  StillToCome(s) \in {{}, BlocksOf[s]}
<1>1. BlocksApart /\ NoBlockLost
  BY DEF BlocksInv
<1>2. CASE s.type \in ScanTypes
  <2> SUFFICES ASSUME NEW b \in BlocksOf[s]
               PROVE  b \in UNION {r.blocks : r \in {q \in delivered : q.snippet = s}}
    BY Zenon DEF StillToCome
  <2>1. s \in Snippets \ ToScan
    BY Zenon DEF InFlight, ToScan
  <2>2. ~ \E t \in Scanners : Scanning(t) /\ scan_result[t].snippet = s /\ b \in Kept(t)
    BY Zenon DEF InFlight
  <2>3. ASSUME NEW r \in InFilter, b \in r.blocks PROVE FALSE
    <3>1. IsPart(r) /\ r.snippet \in Snippets
      BY <1>1, Zenon DEF BlocksApart
    <3>2. r.snippet = s
      BY <2>3, <3>1, BlockOfOne
    <3> QED
      BY <3>2, Zenon DEF InFilter, InFlight
  <2>4. b \in Handed
    BY <1>1, <1>2, <2>1, <2>2, <2>3, Zenon DEF NoBlockLost
  <2>5. PICK r \in delivered : b \in r.blocks
    BY <2>4, Zenon DEF Handed
  <2>6. IsPart(r) /\ r.snippet \in Snippets
    BY <1>1, Zenon DEF BlocksApart
  <2>7. r.snippet = s
    BY <2>5, <2>6, BlockOfOne
  <2> QED
    BY <2>5, <2>7, Zenon
<1>3. CASE s.type \notin ScanTypes
  <2>1. {q \in delivered : q.snippet = s} = {}
    BY <1>1, <1>3, Zenon DEF BlocksApart
  <2>2. UNION {r.blocks : r \in {q \in delivered : q.snippet = s}} = {}
    BY <2>1, Zenon
  <2> QED
    BY <2>2, Zenon DEF StillToCome
<1> QED
  BY <1>2, <1>3

(* The threads of the projection stage that are between two results have   *)
(* none in hand.                                                           *)
AtWork(p) == pc[p] \notin {"start", "push_back", "pop"}

HandsEmpty ==
    /\ pc = [p \in Projectors |-> pc[p]] /\ result = [p \in Projectors |-> result[p]]
    /\ \A p \in Projectors : ~ AtWork(p) => result[p] = Nothing

(* A projection thread that is not at work holds no result.                *)
LEMMA HandsEmptyStep ==
    ASSUME HandsEmpty, [Next]_vars
    PROVE  HandsEmpty'
<1>1. ASSUME UNCHANGED <<pc, result>> PROVE HandsEmpty'
  BY <1>1, Zenon DEF HandsEmpty, AtWork
<1>2. ASSUME NEW p \in Projectors, P!ProjectionStep(p) PROVE HandsEmpty'
  <2>1. ASSUME NEW at, pc' = [pc EXCEPT ![p] = at], NEW r, result' = [result EXCEPT ![p] = r],
               at \in {"start", "push_back", "pop"} => r = Nothing
        PROVE  HandsEmpty'
    BY <2>1, Zenon DEF HandsEmpty, AtWork
  <2>2. ASSUME NEW at, pc' = [pc EXCEPT ![p] = at], result' = result,
               ~ AtWork(p) \/ at \notin {"start", "push_back", "pop"}
        PROVE  HandsEmpty'
    BY <2>2 DEF HandsEmpty, AtWork
  <2>3. pc[p] \in {"start", "push_back"} => ~ AtWork(p)
    BY DEF AtWork
  <2>4. CASE P!ReadMergeBufferList(p)
    <3>1. pc[p] = "start" /\ pc' = [pc EXCEPT ![p] = "push_back"] /\ result' = result
      BY <2>4, Zenon DEF P!ReadMergeBufferList
    <3> QED
      BY <2>2, <2>3, <3>1, Zenon
  <2>5. CASE P!WriteMergeBufferList(p)
    <3>1. pc[p] = "push_back" /\ pc' = [pc EXCEPT ![p] = "pop"] /\ result' = result
      BY <2>5, Zenon DEF P!WriteMergeBufferList
    <3> QED
      BY <2>2, <2>3, <3>1, Zenon
  <2>6. CASE P!PopResult(p)
    <3>1. PICK r : pc' = [pc EXCEPT ![p] = "make_map"] /\ result' = [result EXCEPT ![p] = r]
      BY <2>6, Zenon DEF P!PopResult
    <3>2. "make_map" \notin {"start", "push_back", "pop"}
      OBVIOUS
    <3> QED
      BY <2>1, <3>1, <3>2, Zenon
  <2>7. ASSUME NEW at \in {"check_buffer", "insert", "rows", "count_down"}, pc' = [pc EXCEPT ![p] = at],
               result' = result
        PROVE  HandsEmpty'
    BY <2>2, <2>7, Zenon
  <2>8. CASE P!make_block_count_map(p)
    BY <2>7, <2>8, Zenon DEF P!make_block_count_map
  <2>9. CASE P!check_id_buffer(p)
    BY <2>7, <2>9, Zenon DEF P!check_id_buffer
  <2>10. CASE P!insert_buffer(p)
    BY <2>7, <2>10, Zenon DEF P!insert_buffer
  <2>11. CASE P!AddCounts(p)
    BY <2>7, <2>11, Zenon DEF P!AddCounts
  <2>12. CASE P!block_count_down(p)
    <3>1. PICK at \in {"pop", "release"} :
             /\ pc' = [pc EXCEPT ![p] = at]
             /\ result' = [result EXCEPT ![p] = IF pc'[p] = "pop" THEN Nothing ELSE @]
      BY <2>12, Zenon DEF P!block_count_down
    <3>2. pc'[p] = at
      BY <3>1 DEF HandsEmpty
    <3> QED
      BY <2>1, <3>1, <3>2, Zenon
  <2>13. CASE P!release_buffer(p)
    BY <1>1, <2>13, Zenon DEF P!release_buffer
  <2>14. CASE P!projectioning(p)
    BY <1>1, <2>14, Zenon DEF P!projectioning
  <2>15. CASE P!erase_count(p)
    BY <2>1, <2>15, Zenon DEF P!erase_count
  <2> QED
    BY <1>2, <2>4, <2>5, <2>6, <2>8, <2>9, <2>10, <2>11, <2>12, <2>13, <2>14, <2>15, Zenon
       DEF P!ProjectionStep
<1> QED
  BY <1>1, <1>2, Zenon
     DEF Next, vars, laterVars, projectionVars, enqueue_scan, Scan, Filter, Projection, Return,
         ReturnFailure

(* What the later proofs need to know of a state of the pipeline.          *)
PipelineInv == BlocksInv /\ ReturnQueues /\ HandsEmpty

(* A thread in the release loop is alone with its snippet in the whole     *)
(* pipeline when it is alone with it in the projection stage.              *)
LEMMA AloneInPipeline ==
    ASSUME RegularSnippets, PipelineInv, NEW p \in Projectors, NEW s, s = result[p].snippet,
           result[p] \in delivered, StillToCome(s) = {},
           \A r \in Elements(projection_queue_) : r.snippet # s,
           \A q \in Projectors \ {p} : AtWork(q) => result[q].snippet # s
    PROVE  /\ ~ ToBeScanned(s)
           /\ \A r \in Elements(filter_queue_) \cup Elements(projection_queue_) : r.snippet # s
           /\ \A t \in Filters : filter_in[t].snippet # s
           /\ \A q \in Projectors \ {p} : result[q] # Nothing => result[q].snippet # s
<1>1. s \in Snippets
  BY DEF PipelineInv, BlocksInv, BlocksApart
<1>2. BlocksInv
  BY Zenon DEF PipelineInv
<1>3. /\ ~ ToBeScanned(s) /\ \A r \in Elements(filter_queue_) : r.snippet # s
      /\ \A t \in Filters : filter_in[t].snippet # s
  BY <1>1, <1>2, AllHanded
<1>4. \A q \in Projectors \ {p} : result[q] # Nothing => result[q].snippet # s
  BY Zenon DEF PipelineInv, HandsEmpty
<1> QED
  BY <1>3, <1>4, Zenon

(* A snippet that is not in flight is not in the projection stage.         *)
LEMMA NotInStage ==
    ASSUME RegularSnippets, PipelineInv, \A p \in Projectors : AtWork(p) => result[p] \in ScanResults,
           NEW s \in Snippets, ~ InFlight(s)
    PROVE  /\ StillToCome(s) \in {{}, BlocksOf[s]}
           /\ \A r \in Elements(projection_queue_) : r.snippet # s
           /\ \A p \in Projectors : AtWork(p) => result[p].snippet # s
<1>1. StillToCome(s) \in {{}, BlocksOf[s]}
  BY AllOrNothing, Zenon DEF PipelineInv
<1>2. \A r \in ScanResults : r # Nothing
  BY PipelineAssumption, Zenon DEF ScanResults
<1> QED
  BY <1>1, <1>2, Zenon DEF InFlight
-----------------------------------------------------------------------------
(* The projection stage of the pipeline.  What SnippetMerge says of its    *)
(* return_queue_, to which results are only added, is said here of all the *)
(* results that have been put into the queue.                              *)
Stage == INSTANCE SnippetMerge WITH Results <- ScanResults, return_queue_ <- taken \o return_queue_

(* Every step of a projection thread is one of SnippetMerge's.             *)
LEMMA ProjectionMerges ==
    ASSUME ReturnQueues, NEW p \in Projectors, Projection(p)
    PROVE  Stage!Project(p)
<1>1. taken' = taken /\ delivered' = delivered /\ P!ProjectionStep(p)
  BY Zenon DEF Projection
<1>2. return_queue_' = return_queue_ => taken' \o return_queue_' = taken \o return_queue_
  BY <1>1, Zenon
<1>3. ASSUME NEW b, return_queue_' = Append(return_queue_, b)
      PROVE  /\ taken' \o return_queue_' = Append(taken \o return_queue_, b)
             /\ taken' \o return_queue_' # taken \o return_queue_ /\ return_queue_' # return_queue_
  <2>1. PICK h, q : h = taken /\ q = return_queue_
    BY Zenon
  <2>2. IsSeq(h) /\ IsSeq(q)
    BY <2>1, Zenon DEF ReturnQueues
  <2>3. h \o Append(q, b) = Append(h \o q, b) /\ h \o Append(q, b) # h \o q /\ Append(q, b) # q
    BY <2>2, PushAfter
  <2> QED
    BY <1>1, <1>3, <2>1, <2>3, Zenon
<1>4. taken' \o return_queue_' = taken \o return_queue_ <=> return_queue_' = return_queue_
  BY <1>1, <1>2, <1>3, ProjectionPushes, Zenon
<1>5. collided' = (collided \/ Stage!Collides(p))
  <2>1. collided' = (collided \/ P!Collides(p))
    BY <1>1, Zenon DEF P!ProjectionStep
  <2>2. P!Collides(p) <=> Stage!Collides(p)
    BY <1>4, Zenon DEF P!Collides, Stage!Collides, P!key, Stage!key, P!make_map_key, Stage!make_map_key
  <2> QED
    BY <2>1, <2>2, Zenon
<1>6. P!ReadMergeBufferList(p) => Stage!ReadMergeBufferList(p)
  BY <1>2, Zenon DEF P!ReadMergeBufferList, Stage!ReadMergeBufferList
<1>7. P!WriteMergeBufferList(p) => Stage!WriteMergeBufferList(p)
  BY <1>2, Zenon DEF P!WriteMergeBufferList, Stage!WriteMergeBufferList
<1>8. P!PopResult(p) => Stage!PopResult(p)
  BY <1>2, Zenon DEF P!PopResult, Stage!PopResult
<1>9. P!make_block_count_map(p) => Stage!make_block_count_map(p)
  BY <1>2, Zenon DEF P!make_block_count_map, Stage!make_block_count_map, P!MuFree, Stage!MuFree, P!key, Stage!key,
     P!make_map_key, Stage!make_map_key
<1>10. P!check_id_buffer(p) => Stage!check_id_buffer(p)
  BY <1>2, Zenon DEF P!check_id_buffer, Stage!check_id_buffer, P!key, Stage!key, P!make_map_key, Stage!make_map_key
<1>11. P!insert_buffer(p) => Stage!insert_buffer(p)
  BY <1>2, Zenon DEF P!insert_buffer, Stage!insert_buffer, P!key, Stage!key, P!make_map_key, Stage!make_map_key,
     P!NewResult, Stage!NewResult, P!CsdResult, Stage!CsdResult
<1>12. P!Buffer(p) = Stage!Buffer(p) /\ P!key(p) = Stage!key(p)
  BY Zenon DEF P!Buffer, Stage!Buffer, P!key, Stage!key, P!make_map_key, Stage!make_map_key,
     P!NewResult, Stage!NewResult, P!CsdResult, Stage!CsdResult
<1>13. P!projectioning(p) => Stage!projectioning(p)
  BY <1>2, <1>3, <1>12, Zenon DEF P!projectioning, Stage!projectioning, P!AddRow, Stage!AddRow, P!clear, Stage!clear,
     P!NewResult, Stage!NewResult, P!CsdResult, Stage!CsdResult
<1>14. P!AddCounts(p) => Stage!AddCounts(p)
  BY <1>2, <1>12, Zenon DEF P!AddCounts, Stage!AddCounts, P!WithCounts, Stage!WithCounts
<1>15. P!block_count_down(p) => Stage!block_count_down(p)
  BY <1>2, <1>12, Zenon DEF P!block_count_down, Stage!block_count_down, P!MuFree, Stage!MuFree
<1>16. P!release_buffer(p) => Stage!release_buffer(p)
  BY <1>2, <1>3, <1>12, Zenon DEF P!release_buffer, Stage!release_buffer
<1>17. P!erase_count(p) => Stage!erase_count(p)
  BY <1>2, <1>12, Zenon DEF P!erase_count, Stage!erase_count
<1> QED
  BY <1>1, <1>5, <1>6, <1>7, <1>8, <1>9, <1>10, <1>11, <1>13, <1>14, <1>15, <1>16, <1>17, Zenon
     DEF P!ProjectionStep, Stage!ProjectionStep, Stage!Project

(* The other steps hand over a result, or do not touch the projection      *)
(* stage.                                                                  *)
LEMMA StepMerges ==
    ASSUME RegularSnippets, BlocksInv, ReturnQueues, [Next]_vars
    PROVE  [Stage!Next]_(Stage!vars)
<1>1. ASSUME UNCHANGED <<projection_queue_, projectionVars, delivered>>,
             taken' \o return_queue_' = taken \o return_queue_
      PROVE  UNCHANGED Stage!vars
  BY <1>1, Zenon DEF Stage!vars, Stage!projectionVars, projectionVars
<1>2. ASSUME BlocksInv', HandsNew, UNCHANGED <<return_queue_, projectionVars, taken>>
      PROVE  [Stage!Next]_(Stage!vars)
  <2>1. taken' \o return_queue_' = taken \o return_queue_
    BY <1>2, Zenon
  <2>2. CASE delivered' = delivered /\ projection_queue_' = projection_queue_
    BY <1>1, <1>2, <2>1, <2>2, Zenon
  <2>3. ASSUME NEW r \in ScanResults, r.blocks \subseteq StillToCome(r.snippet),
               delivered' = delivered \cup {r}, projection_queue_' = Append(projection_queue_, r)
        PROVE  Stage!Next
    <3>1. Stage!Undelivered(r.snippet) = StillToCome(r.snippet)
      BY Zenon DEF Stage!Undelivered, Stage!BlocksIn, Stage!DeliveredFor, StillToCome
    <3>2. Stage!enqueue_projection(r)
      BY <1>2, <2>1, <2>3, <3>1, Zenon DEF Stage!enqueue_projection, Stage!projectionVars, projectionVars
    <3> QED
      BY <3>2, Zenon DEF Stage!Next
  <2> QED
    BY <1>2, <2>2, <2>3, HandsResult, Zenon
<1>3. ASSUME NEW s \in Snippets, enqueue_scan(s) PROVE UNCHANGED Stage!vars
  <2>1. UNCHANGED <<projection_queue_, projectionVars, delivered, taken, return_queue_>>
    BY <1>3, Zenon DEF enqueue_scan, SendTurn, laterVars
  <2> QED
    BY <1>1, <2>1, Zenon
<1>4. ASSUME NEW t \in Scanners, Scan(t) PROVE [Stage!Next]_(Stage!vars)
  <2>1. BlocksInv' /\ HandsNew
    BY <1>4, ScanKeeps, Zenon DEF Scan
  <2> QED
    BY <1>2, <1>4, <2>1, Zenon DEF Scan, laterVars
<1>5. ASSUME NEW t \in Filters, Filter(t) PROVE [Stage!Next]_(Stage!vars)
  <2>1. BlocksInv' /\ HandsNew
    BY <1>5, FilterKeeps, Zenon DEF Filter
  <2> QED
    BY <1>2, <1>5, <2>1, Zenon DEF Filter, laterVars
<1>6. ASSUME NEW p \in Projectors, Projection(p) PROVE Stage!Next
  BY <1>6, ProjectionMerges, Zenon DEF Stage!Next
<1>7. ASSUME NEW t \in Returners, Return(t) \/ ReturnFailure(t) PROVE UNCHANGED Stage!vars
  <2>1. taken' \o return_queue_' = taken \o return_queue_
    BY <1>7, ReturnPops
  <2> QED
    BY <1>1, <1>7, <2>1, Zenon DEF Return, ReturnFailure
<1>8. CASE UNCHANGED vars
  <2>1. UNCHANGED <<projection_queue_, projectionVars, delivered, taken, return_queue_>>
    BY <1>8, Zenon DEF vars, laterVars, scanFilterVars
  <2> QED
    BY <1>1, <2>1, Zenon
<1> QED
  BY <1>3, <1>4, <1>5, <1>6, <1>7, <1>8, Zenon DEF Next

(* The pipeline keeps the invariant that relates its queues, its histories *)
(* and the projection stage.                                               *)
LEMMA PipelineInvariant ==
    ASSUME RegularSnippets
    PROVE  Spec => []PipelineInv
<1>1. Init => PipelineInv
  <2> SUFFICES ASSUME Init PROVE PipelineInv
    OBVIOUS
  <2>1. return_queue_ = <<>> /\ taken = <<>> /\ P!ProjectionInit
    BY Zenon DEF Init
  <2>2. ReturnQueues
    BY <2>1 DEF ReturnQueues, IsSeq, Elements
  <2>3. HandsEmpty
    BY <2>1 DEF HandsEmpty, P!ProjectionInit
  <2> QED
    BY <2>2, <2>3, BlocksStart, Zenon DEF PipelineInv, Init
<1>2. PipelineInv /\ [Next]_vars => PipelineInv'
  BY BlocksStep, StepScans, ReturnQueuesStep, HandsEmptyStep, Zenon DEF PipelineInv
<1> QED
  BY <1>1, <1>2, PTL DEF Spec

(* The pipeline implements SnippetMerge: whatever the threads of the scan, *)
(* filter and return stages do, the projection stage sees an environment   *)
(* that delivers results of the snippets and no block twice.               *)
THEOREM PipelineMerges ==
    ASSUME RegularSnippets
    PROVE  Spec => Stage!Spec
<1>1. Init => Stage!Init
  <2> SUFFICES ASSUME Init PROVE Stage!Init
    OBVIOUS
  <2>1. /\ P!ProjectionInit /\ projection_queue_ = <<>> /\ delivered = {}
        /\ taken = <<>> /\ return_queue_ = <<>>
    BY Zenon DEF Init, ScanFilterInit
  <2>2. taken \o return_queue_ = <<>>
    BY <2>1
  <2> QED
    BY <2>1, <2>2, Zenon DEF Stage!Init, P!ProjectionInit, Stage!ProjectionInit, P!Keys, Stage!Keys,
       P!make_map_key, Stage!make_map_key
<1>2. PipelineInv /\ [Next]_vars => [Stage!Next]_(Stage!vars)
  BY StepMerges, Zenon DEF PipelineInv
<1> QED
  BY <1>1, <1>2, PipelineInvariant, PTL DEF Spec, Stage!Spec

(* The names SnippetMerge has for what is said of the stage above.         *)
LEMMA StageNames ==
    /\ \A s : Stage!Undelivered(s) = StillToCome(s)
    /\ Stage!Queued = Elements(projection_queue_)
    /\ \A p : Stage!Busy(p) <=> AtWork(p)
<1>1. \A s : Stage!Undelivered(s) = StillToCome(s)
  BY Zenon DEF Stage!Undelivered, Stage!BlocksIn, Stage!DeliveredFor, StillToCome
<1>2. Stage!Queued = Elements(projection_queue_) /\ \A p : Stage!Busy(p) <=> AtWork(p)
  BY Zenon DEF Stage!Queued, Elements, Stage!Busy, AtWork
<1> QED
  BY <1>1, <1>2, Zenon

(* What the invariant of SnippetMerge says that the pipeline needs.        *)
StageInv ==
    /\ \A p \in Projectors : AtWork(p) => result[p] \in ScanResults /\ result[p] \in delivered
    /\ Stage!RestIsEmpty

(* A snippet whose work is complete in the projection stage is complete in *)
(* the pipeline.                                                           *)
LEMMA CompleteInPipeline ==
    ASSUME RegularSnippets
    PROVE  PipelineInv /\ StageInv /\ Stage!ReleaseOnlyWhenComplete => ReleaseOnlyWhenComplete
<1> SUFFICES ASSUME PipelineInv, StageInv, Stage!ReleaseOnlyWhenComplete,
                    NEW p \in Projectors, pc[p] = "release", NEW s, s = result[p].snippet
             PROVE  /\ ~ ToBeScanned(s)
                    /\ \A r \in Elements(filter_queue_) \cup Elements(projection_queue_) : r.snippet # s
                    /\ \A t \in Filters : filter_in[t].snippet # s
                    /\ \A q \in Projectors \ {p} : result[q] # Nothing => result[q].snippet # s
  BY Zenon DEF ReleaseOnlyWhenComplete
<1>1. AtWork(p)
  BY DEF AtWork
<1>2. result[p] \in delivered
  BY <1>1, Zenon DEF StageInv
<1>3. /\ StillToCome(s) = {} /\ \A r \in Elements(projection_queue_) : r.snippet # s
      /\ \A q \in Projectors \ {p} : AtWork(q) => result[q].snippet # s
  BY StageNames, Zenon DEF Stage!ReleaseOnlyWhenComplete
<1> QED
  BY <1>2, <1>3, AloneInPipeline, Zenon

(* A snippet that is nowhere in the pipeline has neither a count nor a     *)
(* merge buffer if no unguarded accesses have collided.                    *)
LEMMA ReleasedInPipeline ==
    ASSUME RegularSnippets
    PROVE  PipelineInv /\ StageInv /\ ~ collided => CompleteIsReleased
<1> SUFFICES ASSUME PipelineInv, StageInv, ~ collided, NEW s \in Snippets, ~ InFlight(s)
             PROVE  /\ id_block_count_map_[make_map_key(s)] = Absent
                    /\ \A p \in Projectors : id_buffer_map[p][make_map_key(s)] = Absent
  BY Zenon DEF CompleteIsReleased
<1>1. \A p \in Projectors : AtWork(p) => result[p] \in ScanResults
  BY Zenon DEF StageInv
<1>2. /\ StillToCome(s) \in {{}, BlocksOf[s]}
      /\ \A r \in Elements(projection_queue_) : r.snippet # s
      /\ \A p \in Projectors : AtWork(p) => result[p].snippet # s
  BY <1>1, NotInStage
<1>3. Stage!Pending(s) = {}
  BY <1>2, StageNames, Zenon DEF Stage!Pending, Stage!InHand
<1>4. Stage!Undelivered(s) \in {{}, BlocksOf[s]}
  BY <1>2, StageNames, Zenon
<1>5. Stage!NothingLeft(s)
  BY <1>3, <1>4, Zenon DEF StageInv, Stage!RestIsEmpty
<1> QED
  BY <1>5, Zenon DEF Stage!NothingLeft, Stage!make_map_key, make_map_key

(* So what the stage promises, the pipeline does.                          *)
LEMMA FromStage ==
    ASSUME RegularSnippets
    PROVE  /\ (Stage!Spec => [](StageInv /\ Stage!ReleaseOnlyWhenComplete))
                  => (Spec => []ReleaseOnlyWhenComplete)
           /\ (Stage!Spec => [](StageInv /\ ~ collided)) => (Spec => []CompleteIsReleased)
BY PipelineMerges, PipelineInvariant, CompleteInPipeline, ReleasedInPipeline, PTL
=============================================================================
