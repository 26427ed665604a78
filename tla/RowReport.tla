------------------------------ MODULE RowReport ------------------------------
(***************************************************************************)
(* The worker's row counters and the visualizer together: the stages add   *)
(* rows, the senders report them, the visualizer counts and draws them.    *)
(***************************************************************************)
EXTENDS Monitoring

VARIABLES count, signal, update_queue, shown

Display == INSTANCE Visualizer

vars == <<monitoringVars, requests, count, signal, update_queue, shown>>

Init == MonitoringInit /\ Display!VisualizerInit

DisplayIdle == UNCHANGED <<count, signal, update_queue, shown>>

WorkerStep ==
    /\ \/ \E s \in Stages : CallAddRow(s) \/ AddRow(s)
       \/ \E k \in Kinds : Sender(k) \/ ConnectFails(k)
    /\ DisplayIdle

DisplayStep ==
    /\ Display!Serve \/ Display!update_periodically
    /\ UNCHANGED monitoringVars

Next == WorkerStep \/ DisplayStep

Spec == Init /\ [][Next]_vars

(* A thread that can take a step takes it in the end.  cli.Get returns     *)
(* because httplib gives up after its own time limits.                     *)
Fairness ==
    /\ \A s \in Stages : WF_vars(AddRow(s) /\ DisplayIdle)
    /\ \A k \in Kinds : WF_vars(Sender(k) /\ DisplayIdle)
    /\ WF_vars(Display!Serve /\ UNCHANGED monitoringVars)
    /\ WF_vars(Display!update_periodically /\ UNCHANGED monitoringVars)

FairSpec == Spec /\ Fairness

-----------------------------------------------------------------------------

TypeOK ==
    /\ row_mutex \in Kinds \cup {Free}
    /\ Row_Count \in [Kinds -> Nat]
    /\ add_row \in [Stages -> 0 .. MaxRows]
    /\ calls \in [Stages -> 0 .. MaxCalls]
    /\ sender_pc \in [Kinds -> {"sleep", "Get", "wait"}]
    /\ url \in [Kinds -> Nat]
    /\ reports \in [Kinds -> 0 .. MaxReports]
    /\ failures \in 0 .. MaxFailures
    /\ requests \in Seq([kind : Kinds, value : Nat])
    /\ sent \in [Kinds -> Nat]
    /\ lost \in [Kinds -> Nat]
    /\ count \in [Kinds -> Nat]
    /\ signal \in Seq(Kinds)
    /\ update_queue \in Seq(Kinds)
    /\ shown \in [Kinds -> Nat]

(* The rows of kind k in a request, and in a sequence of them.             *)
RowsOf(request, k) == IF request.kind = k THEN request.value ELSE 0

RowsIn(q, k) ==
    LET sum[n \in 0 .. Len(q)] == IF n = 0 THEN 0 ELSE sum[n - 1] + RowsOf(q[n], k)
    IN  sum[Len(q)]

(* The rows of kind k in requests the visualizer has not read yet.         *)
InRequests(k) == RowsIn(requests, k)

(* The counter a sender has put in its url stays what it is until the      *)
(* sender resets it: no stage adds a row in between that the reset of      *)
(* sendScannedRowCount would wipe out.  Only the holder of row_mutex is    *)
(* past its lock.                                                          *)
ReportIsExact ==
    \A k \in Kinds : sender_pc[k] # "sleep" => /\ row_mutex = k
                                               /\ url[k] = Row_Count[k]

(* The invariant behind ReportIsExact and the tally.                       *)
RowInv == TypeOK /\ ReportIsExact

(* The rows that the senders have delivered are in the counters of the     *)
(* visualizer or in requests it has not read: do_GET adds each once.       *)
DeliveredOnce ==
    \A k \in Kinds : sent[k] = count[k] + InRequests(k)

(* The counters are a RowTally: a row is reported once or lost with its    *)
(* report, and never both or neither, although senders, stages and failing *)
(* requests interleave.                                                    *)
Tally == INSTANCE RowTally WITH waiting <- Waiting, reported <- sent, lost <- lost

ImplementsTally == Tally!TallySpec

(* What the visualizer has counted is drawn: the signal that do_GET puts   *)
(* after adding its rows is followed by an update_graph that sees them.    *)
GraphCatchesUp ==
    \A k \in Kinds : shown[k] < count[k] ~> shown[k] = count[k]

(* A stage gets past AddScannedRow or AddFilteredRow although a sender     *)
(* keeps the mutex during a request that nobody may answer.                *)
StagesGoOn ==
    \A s \in Stages : add_row[s] # 0 ~> add_row[s] = 0
=============================================================================
