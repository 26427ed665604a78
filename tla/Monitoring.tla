----------------------------- MODULE Monitoring ------------------------------
(***************************************************************************)
(* include/monitoring_manager.h: the row counters.  Scan and filter        *)
(* threads add to a counter; a sender thread per counter wakes up every    *)
(* two seconds and reports the counter to the visualizer in a GET request. *)
(* One mutex guards both counters, and a sender keeps it during the        *)
(* request.                                                                *)
(*                                                                         *)
(* sent and lost are not in the code: the rows in requests that reached    *)
(* the visualizer's port and in requests that did not.  No action reads    *)
(* them.                                                                   *)
(***************************************************************************)
EXTENDS Naturals, Sequences

CONSTANTS Kinds,       \* the counters and their senders
          Stages,      \* the scan and filter threads
          KindOf,      \* the counter each of them adds to
          MaxRows,     \* the most rows one call adds
          MaxCalls,    \* bound on the calls of each stage
          MaxReports,  \* bound on the reports of each sender
          MaxFailures, \* bound on the connections that fail
          Free         \* row_mutex when no thread holds it

ASSUME MonitoringAssumption ==
    /\ KindOf \in [Stages -> Kinds]
    /\ {MaxRows, MaxCalls, MaxReports, MaxFailures} \subseteq Nat
    /\ Free \notin Kinds

VARIABLES row_mutex,    \* the sender that holds it, or Free
          Row_Count,    \* Scanned_Row_Count and Filtered_Row_Count
          add_row,      \* the rows a stage is about to add, 0 outside the call
          calls,        \* calls of each stage so far
          sender_pc,    \* where each sender is
          url,          \* the value in the sender's request
          reports,      \* reports of each sender so far
          failures,     \* connections that have failed
          requests,     \* requests at the visualizer's port, in order
          sent,         \* history: rows in delivered requests
          lost          \* history: rows in requests that failed

monitoringVars == <<row_mutex, Row_Count, add_row, calls, sender_pc, url, reports, failures, sent, lost>>

MonitoringInit ==
    /\ row_mutex = Free
    /\ Row_Count = [k \in Kinds |-> 0]
    /\ add_row = [s \in Stages |-> 0]
    /\ calls = [s \in Stages |-> 0]
    /\ sender_pc = [k \in Kinds |-> "sleep"]
    /\ url = [k \in Kinds |-> 0]
    /\ reports = [k \in Kinds |-> 0]
    /\ failures = 0
    /\ sent = [k \in Kinds |-> 0]
    /\ lost = [k \in Kinds |-> 0]

(* A stage calls AddScannedRow or AddFilteredRow with its row count.       *)
CallAddRow(s) ==
    /\ add_row[s] = 0
    /\ calls[s] < MaxCalls
    /\ \E n \in 1 .. MaxRows : add_row' = [add_row EXCEPT ![s] = n]
    /\ calls' = [calls EXCEPT ![s] = @ + 1]
    /\ UNCHANGED <<row_mutex, Row_Count, sender_pc, url, reports, failures, requests, sent, lost>>

(* The critical section of the call.                                       *)
AddRow(s) ==
    /\ add_row[s] # 0
    /\ row_mutex = Free
    /\ Row_Count' = [Row_Count EXCEPT ![KindOf[s]] = @ + add_row[s]]
    /\ add_row' = [add_row EXCEPT ![s] = 0]
    /\ UNCHANGED <<row_mutex, calls, sender_pc, url, reports, failures, requests, sent, lost>>

(* Mutant: the lock ends before the request is made.                       *)
WakeUp_UnlocksEarly(k) ==
    /\ sender_pc[k] = "sleep"
    /\ reports[k] < MaxReports
    /\ row_mutex = Free
    /\ url' = [url EXCEPT ![k] = Row_Count[k]]
    /\ reports' = [reports EXCEPT ![k] = @ + 1]
    /\ sender_pc' = [sender_pc EXCEPT ![k] = "Get"]
    /\ UNCHANGED <<row_mutex, Row_Count, add_row, calls, failures, requests, sent, lost>>

(* The sender wakes up, takes the mutex and puts the counter in the url.   *)
WakeUp(k) ==
    /\ sender_pc[k] = "sleep"
    /\ reports[k] < MaxReports
    /\ row_mutex = Free
    /\ row_mutex' = k
    /\ url' = [url EXCEPT ![k] = Row_Count[k]]
    /\ reports' = [reports EXCEPT ![k] = @ + 1]
    /\ sender_pc' = [sender_pc EXCEPT ![k] = "Get"]
    /\ UNCHANGED <<Row_Count, add_row, calls, failures, requests, sent, lost>>

(* cli.Get connects and sends the request.                                 *)
SendRequest(k) ==
    /\ sender_pc[k] = "Get"
    /\ requests' = Append(requests, [kind |-> k, value |-> url[k]])
    /\ sent' = [sent EXCEPT ![k] = @ + url[k]]
    /\ sender_pc' = [sender_pc EXCEPT ![k] = "wait"]
    /\ UNCHANGED <<row_mutex, Row_Count, add_row, calls, url, reports, failures, lost>>

(* The connection cannot be made.                                          *)
ConnectFails(k) ==
    /\ sender_pc[k] = "Get"
    /\ failures < MaxFailures
    /\ failures' = failures + 1
    /\ lost' = [lost EXCEPT ![k] = @ + url[k]]
    /\ sender_pc' = [sender_pc EXCEPT ![k] = "wait"]
    /\ UNCHANGED <<row_mutex, Row_Count, add_row, calls, url, reports, requests, sent>>

(* Mutant: the counter is reset only after a request that came back        *)
(* well, which the visualizer, answering nothing, never lets happen.       *)
GetReturns_ResetsOnSuccess(k) ==
    /\ sender_pc[k] = "wait"
    /\ row_mutex' = Free
    /\ url' = [url EXCEPT ![k] = 0]
    /\ sender_pc' = [sender_pc EXCEPT ![k] = "sleep"]
    /\ UNCHANGED <<Row_Count, add_row, calls, reports, failures, requests, sent, lost>>

(* Mutant: the lock is kept.                                               *)
GetReturns_KeepsLock(k) ==
    /\ sender_pc[k] = "wait"
    /\ Row_Count' = [Row_Count EXCEPT ![k] = 0]
    /\ url' = [url EXCEPT ![k] = 0]
    /\ sender_pc' = [sender_pc EXCEPT ![k] = "sleep"]
    /\ UNCHANGED <<row_mutex, add_row, calls, reports, failures, requests, sent, lost>>

(* cli.Get returns, on a failure, on the end of the connection or on its   *)
(* own time limit, before or after the visualizer has read the request.    *)
(* Nobody looks at the result: the counter is reset and the mutex freed.   *)
GetReturns(k) ==
    /\ sender_pc[k] = "wait"
    /\ Row_Count' = [Row_Count EXCEPT ![k] = 0]
    /\ row_mutex' = Free
    /\ url' = [url EXCEPT ![k] = 0]
    /\ sender_pc' = [sender_pc EXCEPT ![k] = "sleep"]
    /\ UNCHANGED <<add_row, calls, reports, failures, requests, sent, lost>>

Sender(k) == WakeUp(k) \/ SendRequest(k) \/ GetReturns(k)

(* The rows of a kind that no request has taken along yet.                 *)
Waiting == [k \in Kinds |-> IF sender_pc[k] = "wait" THEN 0 ELSE Row_Count[k]]
=============================================================================
