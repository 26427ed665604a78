----------------------------- MODULE InputStream -----------------------------
(***************************************************************************)
(* input.cc: the input thread accepts one connection after the other and   *)
(* reads the announced length and then the JSON text of a snippet, in      *)
(* pieces as TCP delivers them, before parse_snippet queues it.  Bytes are *)
(* counted: those of a connection come in order.                           *)
(***************************************************************************)
EXTENDS Integers, Sequences, Functions

CONSTANTS Clients,      \* connections, one snippet each
          Size,         \* bytes of each snippet's text
          Kind,         \* "tmax", "block" (with a block list) or "sst"
          HeaderBytes,  \* sizeof(size_t)
          BUFFER_SIZE,
          SizeMod,      \* size_t counts modulo SizeMod
          SplitHeader,  \* TCP may deliver the length in two pieces
          MaxFaults     \* bound on the connections closed or reset too early

ASSUME InputAssumption ==
    /\ HeaderBytes \in Nat \ {0} /\ BUFFER_SIZE \in Nat /\ BUFFER_SIZE > 1
    /\ SizeMod \in Nat \ {0} /\ MaxFaults \in Nat
    /\ Size \in [Clients -> 1 .. SizeMod - 1]
    /\ "none" \notin Clients

VARIABLES backlog,    \* connections to accept
          conn,       \* "none", "open", "closed" or "reset", as read finds it
          stream,     \* bytes that have arrived on each connection
          taken,      \* bytes read from each connection
          faults,     \* connections that ended too early
          pc, client_fd, length, json,
          header,     \* history: bytes of the header that went into length
          scan_queue, worker_queue   \* snippets queued, with their type

vars == <<backlog, conn, stream, taken, faults, pc, client_fd, length, json, header, scan_queue, worker_queue>>

NoClient == "none"

Total(c) == HeaderBytes + Size[c]
Available(c) == stream[c] - taken[c]

Init ==
    /\ backlog = <<>> /\ conn = [c \in Clients |-> "none"]
    /\ stream = [c \in Clients |-> 0] /\ taken = [c \in Clients |-> 0]
    /\ faults = 0
    /\ pc = "accept" /\ client_fd = NoClient /\ length = 0 /\ json = 0 /\ header = 0
    /\ scan_queue = <<>> /\ worker_queue = <<>>

serverVars == <<pc, client_fd, length, json, header, scan_queue, worker_queue>>
clientVars == <<conn, stream, faults>>

-----------------------------------------------------------------------------
(* The storage engine.                                                     *)

Connect(c) ==
    /\ conn[c] = "none"
    /\ conn' = [conn EXCEPT ![c] = "open"]
    /\ backlog' = Append(backlog, c)
    /\ UNCHANGED <<stream, taken, faults, serverVars>>

(* More of the length and the text arrives.                                *)
Arrive(c) ==
    /\ conn[c] = "open"
    /\ \E n \in 1 .. Total(c) - stream[c] :
           /\ stream[c] = 0 /\ ~ SplitHeader => n >= HeaderBytes
           /\ stream' = [stream EXCEPT ![c] = @ + n]
    /\ UNCHANGED <<backlog, conn, taken, faults, serverVars>>

(* The connection is closed, or breaks, before all has been sent.          *)
EndEarly(c) ==
    /\ conn[c] = "open" /\ stream[c] < Total(c)
    /\ faults < MaxFaults
    /\ faults' = faults + 1
    /\ \E end \in {"closed", "reset"} : conn' = [conn EXCEPT ![c] = end]
    /\ UNCHANGED <<backlog, stream, taken, serverVars>>

-----------------------------------------------------------------------------
(* The input thread.                                                       *)

accept ==
    /\ pc = "accept" /\ backlog # <<>>
    /\ client_fd' = Head(backlog)
    /\ backlog' = Tail(backlog)
    /\ pc' = "header"
    /\ UNCHANGED <<clientVars, taken, length, json, header, scan_queue, worker_queue>>

(* The length is read.  What a short or empty read leaves of it is not     *)
(* initialized.                                                            *)
ReadLength ==
    /\ pc = "header"
    /\ LET avail == Available(client_fd)
           n == IF avail < HeaderBytes THEN avail ELSE HeaderBytes
       IN  /\ n > 0 \/ conn[client_fd] = "closed"
           /\ IF n = HeaderBytes THEN length' = Size[client_fd] ELSE length' \in 0 .. SizeMod - 1
           /\ taken' = [taken EXCEPT ![client_fd] = @ + n]
           /\ header' = n
    /\ json' = 0
    /\ pc' = "body"
    /\ UNCHANGED <<backlog, clientVars, client_fd, scan_queue, worker_queue>>

(* Mutant: a full buffer is counted with its terminating zero.             *)
ReadBody_CountsZero ==
    /\ pc = "body" /\ Available(client_fd) > 0
    /\ LET avail == Available(client_fd)
           n == IF avail < BUFFER_SIZE - 1 THEN avail ELSE BUFFER_SIZE - 1
       IN  /\ length' = (length - (IF n = BUFFER_SIZE - 1 THEN BUFFER_SIZE ELSE n)) % SizeMod
           /\ json' = json + n
           /\ taken' = [taken EXCEPT ![client_fd] = @ + n]
    /\ pc' = IF length' = 0 THEN "parse" ELSE "body"
    /\ UNCHANGED <<backlog, clientVars, client_fd, header, scan_queue, worker_queue>>

(* A read of at most BUFFER_SIZE - 1 bytes of text.                        *)
ReadBody ==
    /\ pc = "body" /\ Available(client_fd) > 0
    /\ LET avail == Available(client_fd)
           n == IF avail < BUFFER_SIZE - 1 THEN avail ELSE BUFFER_SIZE - 1
       IN  /\ length' = (length - n) % SizeMod
           /\ json' = json + n
           /\ taken' = [taken EXCEPT ![client_fd] = @ + n]
    /\ pc' = IF length' = 0 THEN "parse" ELSE "body"
    /\ UNCHANGED <<backlog, clientVars, client_fd, header, scan_queue, worker_queue>>

(* The peer has closed: read gives 0, and unless nothing was announced the *)
(* loop reads again.                                                       *)
ReadEnd ==
    /\ pc = "body" /\ Available(client_fd) = 0 /\ conn[client_fd] = "closed"
    /\ pc' = IF length = 0 THEN "parse" ELSE "body"
    /\ UNCHANGED <<backlog, clientVars, taken, client_fd, length, json, header, scan_queue, worker_queue>>

(* The length cannot be read at all, which nothing tests.  The error of a   *)
(* reset connection is reported once: from then on read gives 0.           *)
ReadLengthError ==
    /\ pc = "header" /\ Available(client_fd) = 0 /\ conn[client_fd] = "reset"
    /\ conn' = [conn EXCEPT ![client_fd] = "closed"]
    /\ length' \in 0 .. SizeMod - 1
    /\ header' = 0 /\ json' = 0
    /\ pc' = "body"
    /\ UNCHANGED <<backlog, stream, taken, faults, client_fd, scan_queue, worker_queue>>

(* read gives -1 for the text: exit(1).                                    *)
ReadError ==
    /\ pc = "body" /\ Available(client_fd) = 0 /\ conn[client_fd] = "reset"
    /\ pc' = "exited"
    /\ UNCHANGED <<backlog, clientVars, taken, client_fd, length, json, header, scan_queue, worker_queue>>

Whole == header = HeaderBytes /\ json = Size[client_fd]

(* Mutant: a snippet without a block list keeps its type.                  *)
parse_snippet_KeepsType ==
    /\ pc = "parse" /\ Whole
    /\ pc' = "accept"
    /\ IF Kind[client_fd] = "tmax"
       THEN worker_queue' = Append(worker_queue, client_fd) /\ UNCHANGED scan_queue
       ELSE /\ scan_queue' = Append(scan_queue, [client |-> client_fd, type |-> "as sent"])
            /\ UNCHANGED worker_queue
    /\ client_fd' = NoClient
    /\ UNCHANGED <<backlog, clientVars, taken, length, json, header>>

(* parse_snippet: a Tmax snippet goes to the worker, any other to Scan,    *)
(* as an SST file scan if it comes without a block list.  Text that is no  *)
(* whole snippet ends the process.                                         *)
parse_snippet ==
    /\ pc = "parse"
    /\ IF ~ Whole
       THEN pc' = "exited" /\ UNCHANGED <<scan_queue, worker_queue>>
       ELSE /\ pc' = "accept"
            /\ IF Kind[client_fd] = "tmax"
               THEN worker_queue' = Append(worker_queue, client_fd) /\ UNCHANGED scan_queue
               ELSE /\ scan_queue' = Append(scan_queue, [client |-> client_fd,
                           type |-> IF Kind[client_fd] = "block" THEN "as sent" ELSE "SST_FILE_SCAN"])
                    /\ UNCHANGED worker_queue
    /\ client_fd' = NoClient
    /\ UNCHANGED <<backlog, clientVars, taken, length, json, header>>

input_worker ==
    accept \/ ReadLength \/ ReadLengthError \/ ReadBody \/ ReadEnd \/ ReadError \/ parse_snippet

Next == input_worker \/ \E c \in Clients : Connect(c) \/ Arrive(c) \/ EndEarly(c)

Spec == Init /\ [][Next]_vars

(* The input thread is scheduled, and what a client has begun to send      *)
(* arrives while its connection is open.                                   *)
FairSpec == Spec /\ WF_vars(input_worker) /\ \A c \in Clients : WF_vars(Arrive(c))

-----------------------------------------------------------------------------

TypeOK ==
    /\ backlog \in Seq(Clients)
    /\ conn \in [Clients -> {"none", "open", "closed", "reset"}]
    /\ stream \in [Clients -> Nat] /\ taken \in [Clients -> Nat]
    /\ \A c \in Clients : taken[c] <= stream[c] /\ stream[c] <= Total(c)
    /\ faults \in 0 .. MaxFaults
    /\ pc \in {"accept", "header", "body", "parse", "exited"}
    /\ client_fd \in Clients \cup {NoClient}
    /\ pc \in {"header", "body", "parse"} => client_fd \in Clients
    /\ length \in 0 .. SizeMod - 1 /\ json \in Nat /\ header \in 0 .. HeaderBytes
    /\ scan_queue \in Seq([client : Clients, type : {"as sent", "SST_FILE_SCAN"}])
    /\ worker_queue \in Seq(Clients)

(* While the text is read, the length left and the bytes read make up what *)
(* was announced, so that the unsigned length never wraps below zero, and  *)
(* nothing of another snippet is taken: the loop of input_worker ends with *)
(* the last byte.                                                          *)
LengthIsTheRest ==
    /\ pc \in {"body", "parse"} /\ header = HeaderBytes =>
           /\ length + json = Size[client_fd]
           /\ taken[client_fd] = HeaderBytes + json
    /\ pc = "body" /\ header = HeaderBytes => length > 0
    /\ pc = "parse" /\ header = HeaderBytes => length = 0

Queued(c) == c \in Range(worker_queue) \/ \E e \in Range(scan_queue) : e.client = c

(* Each connection is accepted once, and until then it has not been read   *)
(* from; the one being read has not been queued.                           *)
AcceptedOnce ==
    /\ IsInjective(backlog)
    /\ \A c \in Clients : conn[c] = "none" => c # client_fd /\ c \notin Range(backlog)
    /\ \A c \in Clients : conn[c] = "none" \/ c \in Range(backlog) => taken[c] = 0
    /\ client_fd \notin Range(backlog)
    /\ pc = "header" => taken[client_fd] = 0
    /\ pc \in {"header", "body", "parse"} => ~ Queued(client_fd)

(* A snippet is queued once, in the queue its type calls for, and only     *)
(* when its last byte has been read.                                       *)
QueuedWhole ==
    /\ \A c \in Clients : Queued(c) => taken[c] = Total(c)
    /\ IsInjective(worker_queue) /\ IsInjective(scan_queue)
    /\ \A c \in Range(worker_queue) : Kind[c] = "tmax"
    /\ \A e \in Range(scan_queue) :
           /\ Kind[e.client] # "tmax"
           /\ e.type = IF Kind[e.client] = "block" THEN "as sent" ELSE "SST_FILE_SCAN"

(* What keeps LengthIsTheRest and QueuedWhole true.                        *)
InputInv == TypeOK /\ LengthIsTheRest /\ AcceptedOnce /\ QueuedWhole

(* A snippet that is sent to the end is received and queued, though the    *)
(* thread serves one connection to its end before the next; unless a       *)
(* client breaks off, for then read gives 0 for ever and the thread spins. *)
SnippetIsReceived ==
    \A c \in Clients : stream[c] = Total(c) ~> (Queued(c) \/ faults > 0)
=============================================================================
