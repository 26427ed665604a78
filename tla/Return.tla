------------------------------- MODULE Return --------------------------------
(***************************************************************************)
(* return.cc: the return thread sends each merged result to the buffer     *)
(* manager of the storage engine over a connection of its own: header,     *)
(* wait for the reply, rows, close.  No step is retried; a result whose    *)
(* connection fails is gone, and when the peer closes instead of replying  *)
(* send_data returns without closing its socket.                           *)
(***************************************************************************)
EXTENDS CsdData

CONSTANTS Returners,      \* the threads that run return_worker
          MaxFailures     \* bound on the connections that fail

VARIABLES return_queue_,  \* merged results, a WorkQueue
          return_pc,      \* where each thread is in send_data
          sending,        \* the result each thread is sending
          open_sockets,   \* sockets opened by send_data and not closed
          received,       \* what the storage engine has received, in order
          failures        \* connections that have failed so far

returnVars == <<return_pc, sending, open_sockets, received, failures>>

ReturnInit ==
    /\ return_pc = [t \in Returners |-> "pop"]
    /\ sending = [t \in Returners |-> NewResult(NoSnippet)]
    /\ open_sockets = 0
    /\ received = <<>>
    /\ failures = 0

return_worker(t) ==
    /\ return_pc[t] = "pop"
    /\ return_queue_ # <<>>
    /\ sending' = [sending EXCEPT ![t] = Head(return_queue_)]
    /\ return_queue_' = Tail(return_queue_)
    /\ return_pc' = [return_pc EXCEPT ![t] = "send_data"]
    /\ UNCHANGED <<open_sockets, received, failures>>

(* send_data returns; its local result is gone.                            *)
Finished(t) ==
    /\ return_pc' = [return_pc EXCEPT ![t] = "pop"]
    /\ sending' = [sending EXCEPT ![t] = NewResult(NoSnippet)]

(* connect succeeds and the header is sent.                                *)
SendHeader(t) ==
    /\ return_pc[t] = "send_data"
    /\ open_sockets' = open_sockets + 1
    /\ return_pc' = [return_pc EXCEPT ![t] = "recv"]
    /\ UNCHANGED <<return_queue_, sending, received, failures>>

(* Mutant: the socket stays open after the rows are sent.                  *)
SendRows_NoClose(t) ==
    /\ return_pc[t] = "recv"
    /\ received' = Append(received, sending[t])
    /\ Finished(t)
    /\ UNCHANGED <<return_queue_, failures, open_sockets>>

(* The reply has come: the rows are sent and the socket is closed.         *)
SendRows(t) ==
    /\ return_pc[t] = "recv"
    /\ received' = Append(received, sending[t])
    /\ open_sockets' = open_sockets - 1
    /\ Finished(t)
    /\ UNCHANGED <<return_queue_, failures>>

(* connect fails, which is only logged: the sends and recv fail too, the   *)
(* latter with -1, and the socket is closed.  (httplib::Server, made in    *)
(* main, has SIGPIPE ignored.)                                             *)
ConnectFails(t) ==
    /\ return_pc[t] = "send_data"
    /\ failures < MaxFailures
    /\ failures' = failures + 1
    /\ Finished(t)
    /\ UNCHANGED <<return_queue_, open_sockets, received>>

(* The connection breaks while the reply is awaited, where recv gives -1,  *)
(* which is taken for a reply, or while the rows are sent, which nobody    *)
(* notices: the socket is closed all the same.                             *)
RecvFails(t) ==
    /\ return_pc[t] = "recv"
    /\ failures < MaxFailures
    /\ failures' = failures + 1
    /\ open_sockets' = open_sockets - 1
    /\ Finished(t)
    /\ UNCHANGED <<return_queue_, received>>

(* The peer closes without a reply: recv gives 0 and send_data returns     *)
(* before close(sockfd).                                                   *)
PeerCloses(t) ==
    /\ return_pc[t] = "recv"
    /\ failures < MaxFailures
    /\ failures' = failures + 1
    /\ Finished(t)
    /\ UNCHANGED <<return_queue_, open_sockets, received>>

ReturnStep(t) == return_worker(t) \/ SendHeader(t) \/ SendRows(t)

ReturnFailure(t) == ConnectFails(t) \/ RecvFails(t) \/ PeerCloses(t)
=============================================================================
