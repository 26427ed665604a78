----------------------------- MODULE TmaxWorker ------------------------------
(***************************************************************************)
(* worker.cc: the threads that filter the blocks of a Tmax snippet, and    *)
(* the thread that returns the results.  The threads share the queues, the *)
(* list of working ids and the process's table of file descriptors: open   *)
(* and socket take the lowest free number.                                 *)
(*                                                                         *)
(* answers, delivered, failed, leaked and broken are history variables.    *)
(***************************************************************************)
EXTENDS ChunkList, FiniteSets, FiniteSetsExt

CONSTANTS Workers,      \* the tmax_working threads
          Snippets,     \* their ids
          File,         \* the blocks of a snippet's file, chunk by chunk
          BufferSize,   \* buffer_size of a snippet
          MaxFd,        \* bound on the descriptors
          MaxFailures,  \* bound on the opens and connections that fail
          MaxReadErrors \* bound on the blocks that cannot be read

ASSUME TmaxAssumption ==
    /\ MaxFd \in Nat /\ MaxFailures \in Nat /\ MaxReadErrors \in Nat
    /\ \A s \in Snippets : BufferSize[s] \in Nat

VARIABLES work_queue, return_queue,
          fds,               \* what each descriptor is: Closed, "socket" or a file
          worker,            \* the state of each tmax_working thread
          returner,          \* the state of the tmax_return thread
          T_Working_Id_List,
          T_Accumulate_Working_Block_Count,
          sent,              \* snippets the storage engine has sent
          failures,          \* opens and connections that have failed
          answers,           \* history: the results enqueued for each snippet
          delivered,         \* history: results the storage engine has got
          failed,            \* history: snippets hit by a failure
          leaked,            \* history: sockets left open when the peer closed
          broken             \* history: blocks that could not be read

vars == <<work_queue, return_queue, fds, worker, returner, T_Working_Id_List,
          T_Accumulate_Working_Block_Count, sent, failures, answers, delivered, failed, leaked, broken>>

Fds == 1 .. MaxFd
Closed == "closed"
NoSnippet == "none"

LowestFree == Min({n \in Fds : fds[n] = Closed})

NewResult(s) == [id |-> s, data |-> <<>>, length |-> 0, chunk_count |-> 0]

Idle == [pc |-> "idle", snippet |-> NoSnippet, fd |-> 0, i |-> 1, j |-> 1,
         list |-> create_chunk_list, chunk_idx |-> 1, result |-> NewResult(NoSnippet)]

Init ==
    /\ work_queue = <<>> /\ return_queue = <<>>
    /\ fds = [n \in Fds |-> Closed]
    /\ worker = [w \in Workers |-> Idle]
    /\ returner = [pc |-> "idle", fd |-> 0, result |-> NewResult(NoSnippet)]
    /\ T_Working_Id_List = <<>>
    /\ T_Accumulate_Working_Block_Count = 0
    /\ sent = {} /\ failures = 0
    /\ answers = [s \in Snippets |-> <<>>]
    /\ delivered = <<>>
    /\ failed = {} /\ leaked = 0 /\ broken = {}

returnVars == <<returner, delivered, leaked>>
monitorVars == <<T_Working_Id_List, T_Accumulate_Working_Block_Count>>

-----------------------------------------------------------------------------
(* The blocks of the chunk the worker is at; loop in the code.             *)

Chunks(w) == File[worker[w].snippet]
Blocks(w) == Chunks(w)[worker[w].i]
InChunk(w) == worker[w].pc = "block" /\ worker[w].i <= Len(Chunks(w))

enqueue_worker(s) ==
    /\ s \notin sent
    /\ sent' = sent \cup {s}
    /\ work_queue' = Append(work_queue, s)
    /\ UNCHANGED <<return_queue, fds, worker, failures, answers, failed, broken, returnVars, monitorVars>>

Pop(w) ==
    /\ worker[w].pc = "idle"
    /\ work_queue # <<>>
    /\ work_queue' = Tail(work_queue)
    /\ worker' = [worker EXCEPT ![w] = [Idle EXCEPT !.pc = "add_id", !.snippet = Head(work_queue),
                                                    !.result = NewResult(Head(work_queue))]]
    /\ UNCHANGED <<return_queue, fds, sent, failures, answers, failed, broken, returnVars, monitorVars>>

T_AddWorkingId(w) ==
    /\ worker[w].pc = "add_id"
    /\ T_Working_Id_List' = Append(T_Working_Id_List, worker[w].snippet)
    /\ worker' = [worker EXCEPT ![w].pc = "open"]
    /\ UNCHANGED <<work_queue, return_queue, fds, T_Accumulate_Working_Block_Count, sent, failures,
                   answers, failed, broken, returnVars>>

Open(w) ==
    /\ worker[w].pc = "open"
    /\ fds' = [fds EXCEPT ![LowestFree] = worker[w].snippet]
    /\ worker' = [worker EXCEPT ![w].pc = "block", ![w].fd = LowestFree]
    /\ UNCHANGED <<work_queue, return_queue, sent, failures, answers, failed, broken, returnVars, monitorVars>>

(* The snippet is given up; its id stays in the list.                      *)
OpenFails(w) ==
    /\ worker[w].pc = "open"
    /\ failures < MaxFailures
    /\ failures' = failures + 1
    /\ failed' = failed \cup {worker[w].snippet}
    /\ worker' = [worker EXCEPT ![w] = Idle]
    /\ UNCHANGED <<work_queue, return_queue, fds, sent, answers, broken, returnVars, monitorVars>>

(* lseek and read succeed: the descriptor is a file that has the block.    *)
Readable(w) ==
    LET name == fds[worker[w].fd]
    IN  /\ name \in Snippets
        /\ worker[w].i <= Len(File[name]) /\ worker[w].j <= Len(File[name][worker[w].i])

(* A block is read and filtered.                                           *)
ReadBlock(w) ==
    /\ InChunk(w) /\ worker[w].j <= Len(Blocks(w))
    /\ Readable(w)
    /\ LET blk == File[fds[worker[w].fd]][worker[w].i][worker[w].j]
       IN  worker' = IF blk.rowcnt = 0
                     THEN [worker EXCEPT ![w].result.chunk_count = @ + 1, ![w].j = @ + 1]
                     ELSE [worker EXCEPT ![w].pc = "write", ![w].list = blk.list, ![w].chunk_idx = 1]
    /\ UNCHANGED <<work_queue, return_queue, fds, sent, failures, answers, failed, broken, returnVars, monitorVars>>

(* lseek or read fails, because the block is bad or because the descriptor *)
(* is no such file any more: the descriptor is closed and the loop goes on *)
(* with it.                                                                *)
ReadFails(w) ==
    /\ InChunk(w) /\ worker[w].j <= Len(Blocks(w))
    /\ IF Readable(w)
       THEN /\ Cardinality(broken) < MaxReadErrors
            /\ broken' = broken \cup {<<worker[w].snippet, worker[w].i, worker[w].j>>}
       ELSE UNCHANGED broken
    /\ fds' = [fds EXCEPT ![worker[w].fd] = Closed]
    /\ worker' = [worker EXCEPT ![w].j = @ + 1]
    /\ UNCHANGED <<work_queue, return_queue, sent, failures, answers, failed, returnVars, monitorVars>>

(* Mutant: the three bytes of the chunk's header are forgotten.            *)
Fits_WithoutHeader(w) ==
    worker[w].result.length + cur_chunk(worker[w].list, worker[w].chunk_idx).used
        <= BufferSize[worker[w].snippet]

(* There is room for the chunk and its header.                             *)
Fits(w) ==
    worker[w].result.length + cur_chunk(worker[w].list, worker[w].chunk_idx).used + 3
        <= BufferSize[worker[w].snippet]

Writing(w) == worker[w].pc = "write" /\ worker[w].chunk_idx <= total_chunk_cnt(worker[w].list)

(* An iteration of write_chunk_list_to_buffer with room for the chunk.     *)
WriteChunk(w) ==
    /\ Writing(w) /\ Fits(w)
    /\ LET chunk == cur_chunk(worker[w].list, worker[w].chunk_idx)
       IN  worker' = [worker EXCEPT ![w].result.data = Append(@, chunk),
                                    ![w].result.length = @ + chunk.used + 3,
                                    ![w].chunk_idx = @ + 1]
    /\ UNCHANGED <<work_queue, return_queue, fds, sent, failures, answers, failed, broken, returnVars, monitorVars>>

enqueue_return(result) ==
    /\ return_queue' = Append(return_queue, result)
    /\ answers' = [answers EXCEPT ![result.id] = Append(@, result)]

(* Mutant: the chunk that did not fit is taken for written.                *)
HandOver_Skips(w) ==
    /\ Writing(w) /\ ~ Fits(w)
    /\ enqueue_return(worker[w].result)
    /\ worker' = [worker EXCEPT ![w].result = NewResult(@.id), ![w].chunk_idx = @ + 1]
    /\ UNCHANGED <<work_queue, fds, sent, failures, failed, broken, returnVars, monitorVars>>

(* Mutant: init_result leaves chunk_count alone.                           *)
HandOver_KeepsCount(w) ==
    /\ Writing(w) /\ ~ Fits(w)
    /\ enqueue_return(worker[w].result)
    /\ worker' = [worker EXCEPT ![w].result.data = <<>>, ![w].result.length = 0]
    /\ UNCHANGED <<work_queue, fds, sent, failures, failed, broken, returnVars, monitorVars>>

(* The buffer is full: the result is enqueued as it is, and cleared.       *)
HandOver(w) ==
    /\ Writing(w) /\ ~ Fits(w)
    /\ enqueue_return(worker[w].result)
    /\ worker' = [worker EXCEPT ![w].result = NewResult(@.id)]
    /\ UNCHANGED <<work_queue, fds, sent, failures, failed, broken, returnVars, monitorVars>>

ListWritten(w) ==
    /\ worker[w].pc = "write" /\ ~ Writing(w)
    /\ worker' = [worker EXCEPT ![w].pc = "block", ![w].j = @ + 1]
    /\ UNCHANGED <<work_queue, return_queue, fds, sent, failures, answers, failed, broken, returnVars, monitorVars>>

T_AddBlockCount(w) ==
    /\ T_Accumulate_Working_Block_Count' = T_Accumulate_Working_Block_Count + worker[w].result.chunk_count
    /\ UNCHANGED <<work_queue, return_queue, fds, T_Working_Id_List, sent, failures, answers, failed,
                   broken, returnVars>>

EndOfChunk(w) ==
    /\ InChunk(w) /\ worker[w].j > Len(Blocks(w))
    /\ T_AddBlockCount(w)
    /\ worker' = [worker EXCEPT ![w].result.chunk_count = @ + 1, ![w].i = @ + 1, ![w].j = 1]

(* Mutant: the file is left open.                                          *)
CloseFile_Forgets(w) ==
    /\ worker[w].pc = "block" /\ ~ InChunk(w)
    /\ worker' = [worker EXCEPT ![w].pc = "count"]
    /\ UNCHANGED <<work_queue, return_queue, fds, sent, failures, answers, failed, broken, returnVars, monitorVars>>

CloseFile(w) ==
    /\ worker[w].pc = "block" /\ ~ InChunk(w)
    /\ fds' = [fds EXCEPT ![worker[w].fd] = Closed]
    /\ worker' = [worker EXCEPT ![w].pc = "count"]
    /\ UNCHANGED <<work_queue, return_queue, sent, failures, answers, failed, broken, returnVars, monitorVars>>

AddCount(w) ==
    /\ worker[w].pc = "count"
    /\ T_AddBlockCount(w)
    /\ worker' = [worker EXCEPT ![w].pc = "remove_id"]

(* Mutant: the first id in the list is removed.                            *)
T_RemoveWorkingId_First(w) ==
    /\ worker[w].pc = "remove_id"
    /\ T_Working_Id_List' = Tail(T_Working_Id_List)
    /\ worker' = [worker EXCEPT ![w].pc = "finish"]
    /\ UNCHANGED <<work_queue, return_queue, fds, T_Accumulate_Working_Block_Count, sent, failures,
                   answers, failed, broken, returnVars>>

T_RemoveWorkingId(w) ==
    /\ worker[w].pc = "remove_id"
    /\ T_Working_Id_List' = SelectSeq(T_Working_Id_List, LAMBDA id : id # worker[w].snippet)
    /\ worker' = [worker EXCEPT ![w].pc = "finish"]
    /\ UNCHANGED <<work_queue, return_queue, fds, T_Accumulate_Working_Block_Count, sent, failures,
                   answers, failed, broken, returnVars>>

(* Mutant: a result without data is not returned.                          *)
Finish_OnlyWithData(w) ==
    /\ worker[w].pc = "finish"
    /\ IF worker[w].result.data = <<>> THEN UNCHANGED <<return_queue, answers>>
       ELSE enqueue_return(worker[w].result)
    /\ worker' = [worker EXCEPT ![w] = Idle]
    /\ UNCHANGED <<work_queue, fds, sent, failures, failed, broken, returnVars, monitorVars>>

Finish(w) ==
    /\ worker[w].pc = "finish"
    /\ enqueue_return(worker[w].result)
    /\ worker' = [worker EXCEPT ![w] = Idle]
    /\ UNCHANGED <<work_queue, fds, sent, failures, failed, broken, returnVars, monitorVars>>

tmax_working(w) ==
    \/ Pop(w) \/ T_AddWorkingId(w) \/ Open(w) \/ ReadBlock(w) \/ WriteChunk(w) \/ HandOver(w)
    \/ ListWritten(w) \/ EndOfChunk(w) \/ CloseFile(w) \/ AddCount(w) \/ T_RemoveWorkingId(w)
    \/ Finish(w) \/ OpenFails(w) \/ ReadFails(w)

-----------------------------------------------------------------------------
(* tmax_return: a connection for each result, as in return.cc.             *)

workVars == <<work_queue, worker, monitorVars, sent, answers, broken>>

PopResult ==
    /\ returner.pc = "idle"
    /\ return_queue # <<>>
    /\ return_queue' = Tail(return_queue)
    /\ fds' = [fds EXCEPT ![LowestFree] = "socket"]
    /\ returner' = [pc |-> "recv", fd |-> LowestFree, result |-> Head(return_queue)]
    /\ UNCHANGED <<workVars, failures, delivered, failed, leaked>>

ReturnerIdle == returner' = [pc |-> "idle", fd |-> 0, result |-> NewResult(NoSnippet)]

(* The reply has come: the data is sent and the socket closed.             *)
SendData ==
    /\ returner.pc = "recv"
    /\ fds[returner.fd] = "socket"
    /\ delivered' = Append(delivered, returner.result)
    /\ fds' = [fds EXCEPT ![returner.fd] = Closed]
    /\ ReturnerIdle
    /\ UNCHANGED <<return_queue, workVars, failures, failed, leaked>>

(* connect, recv or send fails, or a worker has closed the socket: what    *)
(* has the number is closed, and the result is gone.                       *)
ReturnFails ==
    /\ returner.pc = "recv"
    /\ IF fds[returner.fd] = "socket"
       THEN failures < MaxFailures /\ failures' = failures + 1
       ELSE UNCHANGED failures
    /\ failed' = failed \cup {returner.result.id}
    /\ fds' = [fds EXCEPT ![returner.fd] = Closed]
    /\ ReturnerIdle
    /\ UNCHANGED <<return_queue, workVars, delivered, leaked>>

(* The peer closes without a reply: the socket stays open.                 *)
PeerCloses ==
    /\ returner.pc = "recv"
    /\ fds[returner.fd] = "socket"
    /\ failures < MaxFailures
    /\ failures' = failures + 1
    /\ failed' = failed \cup {returner.result.id}
    /\ leaked' = leaked + 1
    /\ ReturnerIdle
    /\ UNCHANGED <<return_queue, fds, workVars, delivered>>

tmax_return == PopResult \/ SendData \/ ReturnFails \/ PeerCloses

Next ==
    \/ \E s \in Snippets : enqueue_worker(s)
    \/ \E w \in Workers : tmax_working(w)
    \/ tmax_return

Spec == Init /\ [][Next]_vars

(* The operating system runs every thread that can go on; whether a file,  *)
(* a block or a connection is good is left open.                           *)
FairSpec == Spec /\ (\A w \in Workers : WF_vars(tmax_working(w))) /\ WF_vars(tmax_return)

-----------------------------------------------------------------------------

TypeOK ==
    /\ work_queue \in Seq(Snippets)
    /\ \A n \in Fds : fds[n] \in Snippets \cup {Closed, "socket"}
    /\ \A w \in Workers : /\ worker[w].snippet \in Snippets \cup {NoSnippet}
                          /\ worker[w].fd \in Fds \cup {0}
    /\ returner.fd \in Fds \cup {0}
    /\ T_Working_Id_List \in Seq(Snippets)
    /\ T_Accumulate_Working_Block_Count \in Nat
    /\ sent \subseteq Snippets /\ failed \subseteq Snippets
    /\ failures \in 0 .. MaxFailures /\ leaked \in 0 .. MaxFailures

(* All the chunks a snippet's blocks are filtered into, in order.          *)
Expected(s) ==
    LET Lists(chunk) == FlattenSeq([j \in DOMAIN chunk |-> chunk[j].list.res_chunk \o chunk[j].list.chained_chunk])
    IN  FlattenSeq([i \in DOMAIN File[s] |-> Lists(File[s][i])])

InProgress(s) == {w \in Workers : worker[w].snippet = s}

(* What has been enqueued for a snippet and what is in the buffer of its   *)
(* worker.                                                                 *)
Written(s) ==
    FlattenSeq([n \in DOMAIN answers[s] |-> answers[s][n].data])
    \o (IF InProgress(s) = {} THEN <<>> ELSE worker[CHOOSE w \in InProgress(s) : TRUE].result.data)

Finished(s) == s \in sent /\ s \notin Range(work_queue) /\ InProgress(s) = {} /\ answers[s] # <<>>

(* A snippet's chunks are written in order, none lost and none twice, over *)
(* any number of full buffers, and all come from its own file: the resume  *)
(* of write_chunk_list_to_buffer is exact.  After a read error nothing is  *)
(* promised: the descriptor is closed and used on.                         *)
WrittenInOrder ==
    broken = {} => \A s \in Snippets : /\ IsPrefix(Written(s), Expected(s))
                                       /\ Finished(s) => Written(s) = Expected(s)

(* No chunk is copied past the end of a result's buffer, and the length    *)
(* announced is the length of its chunks and their headers.                *)
BigChunkHolds ==
    \A s \in Snippets :
        \A r \in Range(answers[s]) \cup {worker[w].result : w \in InProgress(s)} :
            /\ r.length <= BufferSize[s]
            /\ r.length = FoldLeft(LAMBDA sum, chunk : sum + chunk.used + 3, 0, r.data)

(* The results of a finished snippet count each of its chunks once, and    *)
(* each empty block once more, however often the buffer was handed over    *)
(* (every block could be read).                                            *)
ChunksCountedOnce ==
    \A s \in Snippets :
        (broken = {} /\ Finished(s)) =>
            FoldLeft(LAMBDA sum, r : sum + r.chunk_count, 0, answers[s])
                = FoldLeft(LAMBDA sum, chunk : sum + Len(SelectSeq(chunk, LAMBDA b : b.rowcnt = 0)),
                           Len(File[s]), File[s])

(* A snippet at work is listed, and a listed one is at work or its file    *)
(* could not be opened.                                                    *)
WorkingIdsAreCurrent ==
    /\ \A w \in Workers : worker[w].pc \notin {"idle", "add_id", "finish"} =>
                             worker[w].snippet \in Range(T_Working_Id_List)
    /\ \A s \in Range(T_Working_Id_List) : InProgress(s) # {} \/ (s \in failed /\ answers[s] = <<>>)

(* A descriptor is a file only while a worker reads it, and a socket only  *)
(* while a result is being returned, or when the peer closed first.        *)
NoDescriptorLeaks ==
    /\ \A n \in Fds : fds[n] \in Snippets =>
                        \E w \in InProgress(fds[n]) : worker[w].fd = n /\ worker[w].pc \in {"block", "write"}
    /\ broken = {} => Cardinality({n \in Fds : fds[n] = "socket"}) = leaked + (IF returner.pc = "recv" THEN 1 ELSE 0)

(* A snippet sent is answered: all its results reach the storage engine,   *)
(* unless opening its file or a connection fails.  At every moment there   *)
(* is a later one at which that is so of every snippet sent by then; as a  *)
(* snippet that is sent stays sent, it leads to an answer of each.         *)
SnippetIsAnswered ==
    []<>(\A s \in sent : \/ s \in failed
                         \/ Finished(s) /\ \A r \in Range(answers[s]) : r \in Range(delivered))
=============================================================================
