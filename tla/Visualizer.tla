----------------------------- MODULE Visualizer ------------------------------
(***************************************************************************)
(* CSD-Visualizer/main.py: a server thread that handles one request at a   *)
(* time, adds the reported rows to a counter and puts a signal in a queue, *)
(* and the GUI thread, which once a second takes one signal, if there is   *)
(* one, and draws both counters.  The handler sends no response to a       *)
(* report; drawing is abstracted to the numbers drawn.                     *)
(***************************************************************************)
EXTENDS Naturals, Sequences

CONSTANTS Kinds    \* the counters: "scan" and "filter"

VARIABLES requests,     \* requests at the port, in order
          count,        \* scan_count and filter_count
          signal,       \* the signals do_GET is about to put
          update_queue, \* signals for the GUI thread
          shown         \* the numbers in the graph

visualizerVars == <<count, signal, update_queue, shown>>

VisualizerInit ==
    /\ requests = <<>>
    /\ count = [k \in Kinds |-> 0]
    /\ signal = <<>>
    /\ update_queue = <<>>
    /\ shown = [k \in Kinds |-> 0]

(* Mutant: the handler puts no signal.                                     *)
do_GET_NoSignal ==
    /\ signal = <<>>
    /\ requests # <<>>
    /\ count' = [count EXCEPT ![Head(requests).kind] = @ + Head(requests).value]
    /\ requests' = Tail(requests)
    /\ UNCHANGED <<signal, update_queue, shown>>

(* Mutant: the counter is set to the reported number.                      *)
do_GET_Sets ==
    /\ signal = <<>>
    /\ requests # <<>>
    /\ count' = [count EXCEPT ![Head(requests).kind] = Head(requests).value]
    /\ requests' = Tail(requests)
    /\ signal' = <<Head(requests).kind>>
    /\ UNCHANGED <<update_queue, shown>>

(* The rows of the next request are added under the handler's mutex.       *)
do_GET ==
    /\ signal = <<>>
    /\ requests # <<>>
    /\ count' = [count EXCEPT ![Head(requests).kind] = @ + Head(requests).value]
    /\ requests' = Tail(requests)
    /\ signal' = <<Head(requests).kind>>
    /\ UNCHANGED <<update_queue, shown>>

(* update_queue.put, and the handler is done.                              *)
put_signal ==
    /\ signal # <<>>
    /\ update_queue' = update_queue \o signal
    /\ signal' = <<>>
    /\ UNCHANGED <<requests, count, shown>>

(* A tick of the GUI thread with a signal in the queue; update_graph reads *)
(* both counters under the mutex.                                          *)
update_periodically ==
    /\ update_queue # <<>>
    /\ update_queue' = Tail(update_queue)
    /\ shown' = count
    /\ UNCHANGED <<requests, count, signal>>

Serve == do_GET \/ put_signal
=============================================================================
