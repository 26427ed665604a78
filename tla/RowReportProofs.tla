--------------------------- MODULE RowReportProofs ---------------------------
(***************************************************************************)
(* For any number of stages and counters and all bounds: the report of a   *)
(* sender is exact when it resets its counter, the counters are a RowTally *)
(* and the visualizer counts every row that is delivered once.             *)
(***************************************************************************)
EXTENDS RowReport, WellFoundedInduction, TLAPS

(* Sequences: appending, and taking the head off.                          *)
LEMMA HeadTail ==
  ASSUME NEW S, NEW q \in Seq(S), q # <<>>
  PROVE  Head(q) \in S /\ Tail(q) \in Seq(S) /\ <<Head(q)>> \in Seq(S)
  OBVIOUS

(* Two sequences one after the other.                                      *)
LEMMA Joined ==
  ASSUME NEW S, NEW q \in Seq(S), NEW r \in Seq(S)
  PROVE  q \o r \in Seq(S)
  OBVIOUS

(* A sequence with one element more.                                       *)
LEMMA Appended ==
  ASSUME NEW S, NEW q \in Seq(S), NEW e \in S
  PROVE  Append(q, e) \in Seq(S)
  OBVIOUS

(* A counter that goes up is a counter.                                    *)
LEMMA Increased ==
  ASSUME NEW S, NEW f \in [S -> Nat], NEW k \in S, NEW n \in Nat
  PROVE  [f EXCEPT ![k] = @ + n] \in [S -> Nat]
<1>1. f[k] \in Nat
  OBVIOUS
<1>2. f[k] + n \in Nat
  BY <1>1
<1> QED
  BY <1>2

(* The bounds are numbers.                                                 *)
LEMMA Bounds ==
  /\ MaxRows \in Nat /\ MaxCalls \in Nat /\ MaxReports \in Nat /\ MaxFailures \in Nat
  /\ \A s \in Stages : KindOf[s] \in Kinds
  BY MonitoringAssumption

(* The initial state.                                                      *)
LEMMA InitRowInv == Init => RowInv
  BY Bounds DEF Init, MonitoringInit, Display!VisualizerInit, RowInv, TypeOK, ReportIsExact

(* A step of a stage or of a sender keeps the types.                       *)
LEMMA WorkerKeepsTypes == ASSUME TypeOK, WorkerStep PROVE TypeOK'
<1> USE Bounds DEF DisplayIdle
<1>1. ASSUME NEW s \in Stages, CallAddRow(s), DisplayIdle PROVE TypeOK'
  <2>1. add_row' \in [Stages -> 0 .. MaxRows]
    BY <1>1 DEF TypeOK, CallAddRow
  <2>2. calls' \in [Stages -> 0 .. MaxCalls]
    <3>1. calls \in [Stages -> 0 .. MaxCalls] /\ MaxCalls \in Nat
      BY DEF TypeOK
    <3>2. calls[s] < MaxCalls /\ calls' = [calls EXCEPT ![s] = @ + 1]
      BY <1>1 DEF CallAddRow
    <3>3. calls[s] + 1 \in 0 .. MaxCalls
      BY <3>1, <3>2
    <3> QED
      BY <3>1, <3>2, <3>3
  <2> QED
    BY <1>1, <2>1, <2>2 DEF TypeOK, CallAddRow
<1>2. ASSUME NEW s \in Stages, AddRow(s), DisplayIdle PROVE TypeOK'
  <2>1. Row_Count' \in [Kinds -> Nat] /\ add_row' \in [Stages -> 0 .. MaxRows]
    <3>1. Row_Count[KindOf[s]] + add_row[s] \in Nat
      <4>1. KindOf[s] \in Kinds /\ add_row[s] \in 0 .. MaxRows
        BY DEF TypeOK
      <4>2. Row_Count[KindOf[s]] \in Nat
        BY <4>1 DEF TypeOK
      <4> QED
        BY <4>1, <4>2
    <3>2. Row_Count \in [Kinds -> Nat] /\ add_row \in [Stages -> 0 .. MaxRows]
      BY DEF TypeOK
    <3> QED
      BY <1>2, <3>1, <3>2 DEF AddRow
  <2> QED
    BY <1>2, <2>1 DEF TypeOK, AddRow
<1>3. ASSUME NEW k \in Kinds, WakeUp(k), DisplayIdle PROVE TypeOK'
  <2>1. reports' \in [Kinds -> 0 .. MaxReports]
    BY <1>3 DEF TypeOK, WakeUp
  <2> QED
    BY <1>3, <2>1 DEF TypeOK, WakeUp
<1>4. ASSUME NEW k \in Kinds, SendRequest(k), DisplayIdle PROVE TypeOK'
  <2>1. [kind |-> k, value |-> url[k]] \in [kind : Kinds, value : Nat]
    BY DEF TypeOK
  <2>2. requests' \in Seq([kind : Kinds, value : Nat])
    BY <1>4, <2>1, Appended DEF TypeOK, SendRequest
  <2>3. sent' \in [Kinds -> Nat]
    <3>1. sent \in [Kinds -> Nat] /\ url[k] \in Nat
      BY DEF TypeOK
    <3>2. sent' = [sent EXCEPT ![k] = @ + url[k]]
      BY <1>4 DEF SendRequest
    <3> QED
      BY <3>1, <3>2, Increased
  <2>4. sender_pc' \in [Kinds -> {"sleep", "Get", "wait"}]
    BY <1>4 DEF TypeOK, SendRequest
  <2> QED
    BY <1>4, <2>2, <2>3, <2>4 DEF TypeOK, SendRequest
<1>5. ASSUME NEW k \in Kinds, GetReturns(k), DisplayIdle PROVE TypeOK'
  BY <1>5 DEF TypeOK, GetReturns
<1>6. ASSUME NEW k \in Kinds, ConnectFails(k), DisplayIdle PROVE TypeOK'
  <2>1. lost' \in [Kinds -> Nat]
    <3>1. lost \in [Kinds -> Nat] /\ url[k] \in Nat
      BY DEF TypeOK
    <3>2. lost' = [lost EXCEPT ![k] = @ + url[k]]
      BY <1>6 DEF ConnectFails
    <3> QED
      BY <3>1, <3>2, Increased
  <2>2. failures' \in 0 .. MaxFailures
    BY <1>6 DEF TypeOK, ConnectFails
  <2> QED
    BY <1>6, <2>1, <2>2 DEF TypeOK, ConnectFails
<1> QED
  BY <1>1, <1>2, <1>3, <1>4, <1>5, <1>6 DEF WorkerStep, Sender

(* A step of the visualizer keeps the types.                               *)
LEMMA DisplayKeepsTypes == ASSUME TypeOK, DisplayStep PROVE TypeOK'
<1> USE DEF monitoringVars
<1>1. ASSUME Display!do_GET, UNCHANGED monitoringVars PROVE TypeOK'
  <2>1. /\ Head(requests) \in [kind : Kinds, value : Nat]
        /\ Tail(requests) \in Seq([kind : Kinds, value : Nat])
    BY <1>1, HeadTail DEF TypeOK, Display!do_GET
  <2>2. Head(requests).kind \in Kinds /\ Head(requests).value \in Nat
    BY <2>1
  <2>3. requests' \in Seq([kind : Kinds, value : Nat])
    BY <1>1, <2>1 DEF Display!do_GET
  <2>4. signal' \in Seq(Kinds)
    BY <1>1, <2>2 DEF Display!do_GET
  <2>5. count' \in [Kinds -> Nat]
    <3>1. count \in [Kinds -> Nat]
      BY DEF TypeOK
    <3>2. PICK k \in Kinds, n \in Nat : count' = [count EXCEPT ![k] = @ + n]
      BY <1>1, <2>2 DEF Display!do_GET
    <3> QED
      BY <3>1, <3>2, Increased
  <2> QED
    BY <1>1, <2>3, <2>4, <2>5 DEF TypeOK, Display!do_GET
<1>2. ASSUME Display!put_signal, UNCHANGED monitoringVars PROVE TypeOK'
  <2>1. update_queue' \in Seq(Kinds)
    <3>1. update_queue \in Seq(Kinds) /\ signal \in Seq(Kinds)
      BY DEF TypeOK
    <3> QED
      BY <1>2, <3>1, Joined DEF Display!put_signal
  <2>2. signal' \in Seq(Kinds) /\ UNCHANGED <<requests, count, shown>>
    BY <1>2 DEF Display!put_signal
  <2> QED
    BY <1>2, <2>1, <2>2 DEF TypeOK
<1>3. ASSUME Display!update_periodically, UNCHANGED monitoringVars PROVE TypeOK'
  <2>1. update_queue' \in Seq(Kinds)
    <3>1. update_queue \in Seq(Kinds)
      BY DEF TypeOK
    <3> QED
      BY <1>3, <3>1, HeadTail DEF Display!update_periodically
  <2> QED
    BY <1>3, <2>1 DEF TypeOK, Display!update_periodically
<1> QED
  BY <1>1, <1>2, <1>3 DEF DisplayStep, Display!Serve

(* While a sender is past its lock, no stage adds to its counter and the   *)
(* other sender sleeps.                                                    *)
LEMMA StepKeepsReports ==
  ASSUME TypeOK, ReportIsExact, Next PROVE ReportIsExact'
<1> USE Bounds DEF ReportIsExact
<1>1. CASE DisplayStep
  BY <1>1 DEF DisplayStep, monitoringVars
<1>2. ASSUME NEW s \in Stages, CallAddRow(s) PROVE ReportIsExact'
  BY <1>2 DEF CallAddRow
<1>3. ASSUME NEW s \in Stages, AddRow(s) PROVE ReportIsExact'
  BY <1>3, MonitoringAssumption DEF TypeOK, AddRow
<1>4. ASSUME NEW k \in Kinds, WakeUp(k) PROVE ReportIsExact'
  BY <1>4, MonitoringAssumption DEF TypeOK, WakeUp
<1>5. ASSUME NEW k \in Kinds, SendRequest(k) PROVE ReportIsExact'
  BY <1>5 DEF TypeOK, SendRequest
<1>6. ASSUME NEW k \in Kinds, GetReturns(k) PROVE ReportIsExact'
  BY <1>6 DEF TypeOK, GetReturns
<1>7. ASSUME NEW k \in Kinds, ConnectFails(k) PROVE ReportIsExact'
  BY <1>7 DEF TypeOK, ConnectFails
<1> HIDE DEF ReportIsExact
<1> QED
  BY <1>1, <1>2, <1>3, <1>4, <1>5, <1>6, <1>7 DEF Next, WorkerStep, Sender

(* A stuttering step changes nothing the invariant reads.                  *)
LEMMA StutterKeepsRowInv ==
  ASSUME RowInv, UNCHANGED vars PROVE RowInv'
  BY DEF RowInv, TypeOK, ReportIsExact, vars, monitoringVars

(* Types, and the exact report of every sender past its lock: the counters *)
(* of monitoring_manager.h in every reachable state.                       *)
THEOREM RowInvariant == Spec => []RowInv
<1>1. RowInv /\ Next => RowInv'
  BY WorkerKeepsTypes, DisplayKeepsTypes, StepKeepsReports DEF Next, RowInv
<1>2. RowInv /\ [Next]_vars => RowInv'
  BY <1>1, StutterKeepsRowInv
<1> QED
  BY InitRowInv, <1>2, PTL DEF Spec

(* The reset at the end of sendScannedRowCount and sendFilteredRowCount    *)
(* wipes out nothing that was not in the request.                          *)
THEOREM ReportsAreExact == Spec => []ReportIsExact
<1>1. RowInv => ReportIsExact
  BY DEF RowInv
<1> QED
  BY RowInvariant, <1>1, PTL

(* A step of the worker is a step of the tally or none: adding rows counts *)
(* them, a request that is sent reports them, one that fails loses them;   *)
(* the reset comes when nothing waits any more.                            *)
LEMMA WorkerTallies ==
  ASSUME RowInv, WorkerStep PROVE Tally!TallyNext \/ UNCHANGED <<Waiting, sent, lost>>
<1> USE Bounds
<1>1. ASSUME NEW s \in Stages, CallAddRow(s) PROVE UNCHANGED <<Waiting, sent, lost>>
  BY <1>1 DEF CallAddRow, Waiting
<1>2. ASSUME NEW s \in Stages, AddRow(s) PROVE Tally!Count(KindOf[s], add_row[s])
  <2>1. sender_pc[KindOf[s]] # "wait"
    BY <1>2, MonitoringAssumption DEF AddRow, RowInv, ReportIsExact
  <2>2. Waiting' = [Waiting EXCEPT ![KindOf[s]] = @ + add_row[s]]
    BY <1>2, <2>1 DEF AddRow, Waiting, RowInv, TypeOK
  <2> QED
    BY <1>2, <2>2 DEF AddRow, Tally!Count
<1>3. ASSUME NEW k \in Kinds, WakeUp(k) PROVE UNCHANGED <<Waiting, sent, lost>>
  BY <1>3 DEF WakeUp, Waiting, RowInv, TypeOK
<1>4. ASSUME NEW k \in Kinds, SendRequest(k) PROVE Tally!Report(k)
  <2>1. Waiting[k] = url[k]
    BY <1>4 DEF SendRequest, Waiting, RowInv, ReportIsExact
  <2>2. Waiting' = [Waiting EXCEPT ![k] = 0]
    BY <1>4 DEF SendRequest, Waiting, RowInv, TypeOK
  <2> QED
    BY <1>4, <2>1, <2>2 DEF SendRequest, Tally!Report
<1>5. ASSUME NEW k \in Kinds, GetReturns(k) PROVE UNCHANGED <<Waiting, sent, lost>>
  BY <1>5 DEF GetReturns, Waiting, RowInv, TypeOK
<1>6. ASSUME NEW k \in Kinds, ConnectFails(k) PROVE Tally!Lose(k)
  <2>1. Waiting[k] = url[k]
    BY <1>6 DEF ConnectFails, Waiting, RowInv, ReportIsExact
  <2>2. Waiting' = [Waiting EXCEPT ![k] = 0]
    BY <1>6 DEF ConnectFails, Waiting, RowInv, TypeOK
  <2> QED
    BY <1>6, <2>1, <2>2 DEF ConnectFails, Tally!Lose
<1>7. ASSUME NEW s \in Stages, AddRow(s) PROVE Tally!TallyNext
  <2>1. add_row[s] \in 1 .. MaxRows
    BY <1>7 DEF AddRow, RowInv, TypeOK
  <2> QED
    BY <1>2, <1>7, <2>1 DEF Tally!TallyNext
<1>8. ASSUME NEW k \in Kinds, SendRequest(k) \/ ConnectFails(k) PROVE Tally!TallyNext
  BY <1>4, <1>6, <1>8 DEF Tally!TallyNext
<1> QED
  BY <1>1, <1>3, <1>5, <1>7, <1>8 DEF WorkerStep, Sender

(* The counters and their senders implement the tally: a counted row is    *)
(* reported once, or lost with the request that carried it.                *)
THEOREM CountersAreATally == Spec => ImplementsTally
<1>1. Init => Tally!TallyInit
  BY DEF Init, MonitoringInit, Tally!TallyInit, Waiting
<1>2. RowInv /\ [Next]_vars => Tally!TallyNext \/ UNCHANGED <<Waiting, sent, lost>>
  <2>1. DisplayStep \/ UNCHANGED vars => UNCHANGED <<Waiting, sent, lost>>
    BY DEF DisplayStep, vars, monitoringVars, Waiting
  <2> QED
    BY <2>1, WorkerTallies DEF Next
<1>3. RowInv /\ [Next]_vars => [Tally!TallyNext]_(Tally!tallyVars)
  BY <1>2 DEF Tally!tallyVars
<1> QED
  BY <1>1, <1>3, RowInvariant, PTL DEF Spec, ImplementsTally, Tally!TallySpec
-----------------------------------------------------------------------------
(* A set of naturals has a least element.                                  *)
LEMMA Minimum ==
    ASSUME NEW T, T \subseteq Nat, T # {}
    PROVE  \E x \in T : \A y \in T : x <= y
<1>1. PICK x \in T : \A y \in T : ~ (<<y, x>> \in OpToRel(<, Nat))
  BY NatLessThanWellFounded, WFMin, Zenon
<1>2. \A y \in T : <<y, x>> \in Nat \X Nat
  BY <1>1, Zenon
<1>3. x \in T /\ \A y \in T : ~ (y < x)
  BY <1>1, <1>2, Zenon DEF OpToRel
<1> QED
  BY <1>3

(* Induction, for a set.                                                   *)
LEMMA Induction ==
    ASSUME NEW T, 0 \in T, \A n \in Nat : n \in T => n + 1 \in T
    PROVE  Nat \subseteq T
<1> SUFFICES ASSUME Nat \ T # {} PROVE FALSE
  OBVIOUS
<1>1. PICK x \in Nat \ T : \A y \in Nat \ T : x <= y
  BY Minimum, Zenon
<1>2. x # 0 /\ x - 1 \in Nat
  BY <1>1
<1>3. x - 1 \in T
  BY <1>1, <1>2
<1> QED
  BY <1>1, <1>2, <1>3

Requests == [kind : Kinds, value : Nat]

(* f gives the rows of kind k in every prefix of q.                        *)
IsSum(f, q, k) == f[0] = 0 /\ \A n \in 1 .. Len(q) : f[n] = f[n - 1] + RowsOf(q[n], k)

(* The recursion of RowsIn has a solution.                                 *)
LEMMA SumExists ==
    ASSUME NEW q \in Seq(Requests), NEW k
    PROVE  \E f : IsSum(f, q, k) /\ RowsIn(q, k) = f[Len(q)]
<1> DEFINE is(f, m) == f = [n \in 0 .. m |-> IF n = 0 THEN 0 ELSE f[n - 1] + RowsOf(q[n], k)]
<1>1. ASSUME NEW m \in Nat, NEW f, is(f, m) PROVE \E g : is(g, m + 1)
  <2> DEFINE g == [n \in 0 .. m + 1 |-> IF n = m + 1 THEN f[m] + RowsOf(q[m + 1], k) ELSE f[n]]
  <2>1. ASSUME NEW n \in 0 .. m + 1 PROVE g[n] = IF n = 0 THEN 0 ELSE g[n - 1] + RowsOf(q[n], k)
    <3>1. CASE n = m + 1
      BY <3>1
    <3>2. CASE n \in 0 .. m
      <4>1. g[n] = f[n] /\ (n # 0 => g[n - 1] = f[n - 1])
        BY <3>2
      <4>2. f[n] = IF n = 0 THEN 0 ELSE f[n - 1] + RowsOf(q[n], k)
        BY <1>1, <3>2
      <4> QED
        BY <4>1, <4>2
    <3> QED
      BY <3>1, <3>2
  <2>2. is(g, m + 1)
    BY <2>1
  <2> QED
    BY <2>2, Zenon
<1>2. ASSUME NEW m \in Nat PROVE \E f : is(f, m)
  <2> DEFINE T == {n \in Nat : \E f : is(f, n)}
  <2>1. 0 \in T
    <3>1. is([n \in 0 .. 0 |-> 0], 0)
      OBVIOUS
    <3> QED
      BY <3>1, Zenon
  <2>2. ASSUME NEW n \in Nat, n \in T PROVE n + 1 \in T
    <3>1. PICK f : is(f, n)
      BY <2>2
    <3>2. \E g : is(g, n + 1)
      BY <1>1, <3>1, Zenon
    <3>3. n + 1 \in Nat
      OBVIOUS
    <3> QED
      BY <3>2, <3>3, Zenon
  <2> HIDE DEF T
  <2>3. m \in T
    BY <2>1, <2>2, Induction
  <2> QED
    BY <2>3 DEF T
<1>3. PICK f : is(f, Len(q)) /\ RowsIn(q, k) = f[Len(q)]
  <2>1. RowsIn(q, k) = (CHOOSE f : is(f, Len(q)))[Len(q)]
    BY DEF RowsIn
  <2>2. Len(q) \in Nat
    OBVIOUS
  <2> QED
    BY <1>2, <2>1, <2>2, Zenon
<1>4. IsSum(f, q, k)
  <2>1. ASSUME NEW n \in 0 .. Len(q) PROVE f[n] = IF n = 0 THEN 0 ELSE f[n - 1] + RowsOf(q[n], k)
    BY <1>3, Zenon
  <2>2. 0 \in 0 .. Len(q) /\ \A n \in 1 .. Len(q) : n \in 0 .. Len(q) /\ n # 0
    OBVIOUS
  <2> QED
    BY <2>1, <2>2, Zenon DEF IsSum
<1> QED
  BY <1>3, <1>4, Zenon

(* The sums are numbers.                                                   *)
LEMMA SumIsNat ==
    ASSUME NEW q \in Seq(Requests), NEW k, NEW f, IsSum(f, q, k), NEW n \in 0 .. Len(q)
    PROVE  f[n] \in Nat
<1> DEFINE T == {m \in Nat : m <= Len(q) => f[m] \in Nat}
<1>1. 0 \in T
  BY DEF IsSum
<1>2. ASSUME NEW m \in Nat, m \in T PROVE m + 1 \in T
  <2> SUFFICES ASSUME m + 1 <= Len(q) PROVE f[m + 1] \in Nat
    OBVIOUS
  <2>1. f[m] \in Nat /\ m + 1 \in 1 .. Len(q) /\ m + 1 - 1 = m
    BY <1>2
  <2>2. RowsOf(q[m + 1], k) \in Nat
    <3>1. q[m + 1] \in Requests
      BY <2>1
    <3> QED
      BY <3>1 DEF RowsOf, Requests
  <2> QED
    BY <2>1, <2>2 DEF IsSum
<1> HIDE DEF T
<1>3. n \in T
  BY <1>1, <1>2, Induction
<1> QED
  BY <1>3 DEF T

(* A request at the end of the queue leaves the earlier sums alone.        *)
LEMMA SumsAgree ==
    ASSUME NEW q \in Seq(Requests), NEW e \in Requests, NEW k, NEW f, NEW g,
           IsSum(f, q, k), IsSum(g, Append(q, e), k)
    PROVE  f[Len(q)] = g[Len(q)]
<1> DEFINE T == {m \in Nat : m <= Len(q) => f[m] = g[m]}
<1>1. 0 \in T
  BY DEF IsSum
<1>2. ASSUME NEW m \in Nat, m \in T PROVE m + 1 \in T
  <2> SUFFICES ASSUME m + 1 <= Len(q) PROVE f[m + 1] = g[m + 1]
    OBVIOUS
  <2>1. /\ f[m] = g[m] /\ m + 1 \in 1 .. Len(q) /\ m + 1 \in 1 .. Len(Append(q, e)) /\ m + 1 - 1 = m
        /\ Append(q, e)[m + 1] = q[m + 1]
    BY <1>2
  <2>2. f[m + 1] = f[m] + RowsOf(q[m + 1], k) /\ g[m + 1] = g[m] + RowsOf(q[m + 1], k)
    BY <2>1 DEF IsSum
  <2> QED
    BY <2>1, <2>2
<1> HIDE DEF T
<1>3. Len(q) \in T
  <2>1. Len(q) \in Nat
    OBVIOUS
  <2> QED
    BY <1>1, <1>2, <2>1, Induction
<1> QED
  BY <1>3 DEF T

(* A request taken off the front is missing in every sum.                  *)
LEMMA SumsShift ==
    ASSUME NEW q \in Seq(Requests), q # <<>>, NEW k, NEW f, NEW g, IsSum(f, q, k), IsSum(g, Tail(q), k)
    PROVE  f[Len(q)] = RowsOf(Head(q), k) + g[Len(Tail(q))]
<1>0. /\ Tail(q) \in Seq(Requests) /\ Len(q) \in Nat /\ Len(Tail(q)) \in Nat /\ Len(Tail(q)) + 1 = Len(q)
      /\ Head(q) = q[1] /\ Head(q) \in Requests /\ 1 \in 1 .. Len(q)
  OBVIOUS
<1>00. RowsOf(Head(q), k) \in Nat
  BY <1>0 DEF RowsOf, Requests
<1> DEFINE T == {m \in Nat : m <= Len(Tail(q)) => f[m + 1] = RowsOf(Head(q), k) + g[m]}
<1>1. 0 \in T
  <2>1. f[1] = f[0] + RowsOf(q[1], k) /\ f[0] = 0 /\ g[0] = 0
    BY <1>0 DEF IsSum
  <2> QED
    BY <1>0, <1>00, <2>1
<1>2. ASSUME NEW m \in Nat, m \in T PROVE m + 1 \in T
  <2> SUFFICES ASSUME m + 1 <= Len(Tail(q)) PROVE f[(m + 1) + 1] = RowsOf(Head(q), k) + g[m + 1]
    OBVIOUS
  <2>1. /\ m + 1 \in 1 .. Len(Tail(q)) /\ (m + 1) + 1 \in 1 .. Len(q) /\ m + 1 - 1 = m
        /\ (m + 1) + 1 - 1 = m + 1 /\ Tail(q)[m + 1] = q[(m + 1) + 1]
        /\ m \in 0 .. Len(Tail(q))
    BY <1>0
  <2>2. f[m + 1] = RowsOf(Head(q), k) + g[m]
    BY <1>2, <2>1
  <2>3. /\ f[(m + 1) + 1] = f[m + 1] + RowsOf(q[(m + 1) + 1], k)
        /\ g[m + 1] = g[m] + RowsOf(q[(m + 1) + 1], k)
    BY <2>1 DEF IsSum
  <2>4. g[m] \in Nat
    BY <1>0, <2>1, SumIsNat, Zenon
  <2>5. RowsOf(q[(m + 1) + 1], k) \in Nat
    <3>1. q[(m + 1) + 1] \in Requests
      BY <2>1
    <3> QED
      BY <3>1 DEF RowsOf, Requests
  <2>6. ASSUME NEW a \in Nat, NEW b \in Nat, NEW c \in Nat PROVE (a + b) + c = a + (b + c)
    BY <2>6
  <2> QED
    BY <1>00, <2>2, <2>3, <2>4, <2>5, <2>6
<1> HIDE DEF T
<1>3. Len(Tail(q)) \in T
  BY <1>0, <1>1, <1>2, Induction
<1> QED
  BY <1>0, <1>3 DEF T

(* The rows in a queue to which a request is added.                        *)
LEMMA RowsAppended ==
    ASSUME NEW q \in Seq(Requests), NEW e \in Requests, NEW k
    PROVE  RowsIn(q, k) \in Nat /\ RowsIn(Append(q, e), k) = RowsIn(q, k) + RowsOf(e, k)
<1>1. PICK f : IsSum(f, q, k) /\ RowsIn(q, k) = f[Len(q)]
  BY SumExists
<1>2. Append(q, e) \in Seq(Requests)
  OBVIOUS
<1>3. PICK g : IsSum(g, Append(q, e), k) /\ RowsIn(Append(q, e), k) = g[Len(Append(q, e))]
  BY <1>2, SumExists, Zenon
<1>4. /\ Len(Append(q, e)) = Len(q) + 1 /\ Len(q) + 1 \in 1 .. Len(Append(q, e)) /\ Len(q) + 1 - 1 = Len(q)
      /\ Append(q, e)[Len(q) + 1] = e /\ Len(q) \in 0 .. Len(q)
  OBVIOUS
<1>5. g[Len(q) + 1] = g[Len(q)] + RowsOf(e, k)
  BY <1>3, <1>4 DEF IsSum
<1>6. f[Len(q)] = g[Len(q)]
  BY <1>1, <1>3, SumsAgree
<1>7. f[Len(q)] \in Nat
  BY <1>1, <1>4, SumIsNat
<1> QED
  BY <1>1, <1>3, <1>4, <1>5, <1>6, <1>7, Zenon

(* And in one from which the first is taken.                               *)
LEMMA RowsTaken ==
    ASSUME NEW q \in Seq(Requests), q # <<>>, NEW k
    PROVE  RowsIn(Tail(q), k) \in Nat /\ RowsIn(q, k) = RowsOf(Head(q), k) + RowsIn(Tail(q), k)
<1>1. PICK f : IsSum(f, q, k) /\ RowsIn(q, k) = f[Len(q)]
  BY SumExists
<1>2. Tail(q) \in Seq(Requests) /\ Len(Tail(q)) \in 0 .. Len(Tail(q))
  OBVIOUS
<1>3. PICK g : IsSum(g, Tail(q), k) /\ RowsIn(Tail(q), k) = g[Len(Tail(q))]
  BY <1>2, SumExists, Zenon
<1>4. f[Len(q)] = RowsOf(Head(q), k) + g[Len(Tail(q))]
  BY <1>1, <1>3, SumsShift
<1>5. g[Len(Tail(q))] \in Nat
  BY <1>2, <1>3, SumIsNat, Zenon
<1> QED
  BY <1>1, <1>3, <1>4, <1>5, Zenon

(* Every row that a sender has delivered is counted once by do_GET, or is  *)
(* in one request that waits for it, whatever the senders and the          *)
(* visualizer's threads do in between.                                     *)
THEOREM DeliversOnce == Spec => []DeliveredOnce
<1>1. Init => DeliveredOnce
  <2> SUFFICES ASSUME Init, NEW k \in Kinds PROVE sent[k] = count[k] + InRequests(k)
    BY Zenon DEF DeliveredOnce
  <2>1. sent[k] = 0 /\ count[k] = 0 /\ requests = <<>>
    BY DEF Init, MonitoringInit, Display!VisualizerInit
  <2>2. requests \in Seq(Requests) /\ Len(requests) = 0
    BY <2>1
  <2>3. PICK f : IsSum(f, requests, k) /\ RowsIn(requests, k) = f[Len(requests)]
    BY <2>2, SumExists, Zenon
  <2> QED
    BY <2>1, <2>2, <2>3 DEF InRequests, IsSum
<1>2. TypeOK /\ DeliveredOnce /\ [Next]_vars => DeliveredOnce'
  <2> SUFFICES ASSUME TypeOK, DeliveredOnce, [Next]_vars, NEW k \in Kinds
               PROVE  sent'[k] = count'[k] + RowsIn(requests', k)
    BY Zenon DEF DeliveredOnce, InRequests
  <2>1. /\ sent \in [Kinds -> Nat] /\ count \in [Kinds -> Nat] /\ requests \in Seq(Requests)
        /\ url \in [Kinds -> Nat] /\ sent[k] = count[k] + RowsIn(requests, k)
    BY Zenon DEF TypeOK, DeliveredOnce, InRequests, Requests
  <2>2. ASSUME NEW j \in Kinds, SendRequest(j), DisplayIdle PROVE sent'[k] = count'[k] + RowsIn(requests', k)
    <3>1. PICK e : e = [kind |-> j, value |-> url[j]]
      BY Zenon
    <3>2. e \in Requests /\ e.kind = j /\ e.value = url[j] /\ url[j] \in Nat
      BY <2>1, <3>1 DEF Requests
    <3>3. requests' = Append(requests, e) /\ sent' = [sent EXCEPT ![j] = @ + url[j]] /\ count' = count
      BY <2>2, <3>1 DEF SendRequest, DisplayIdle
    <3>4. RowsIn(requests, k) \in Nat /\ RowsIn(requests', k) = RowsIn(requests, k) + RowsOf(e, k)
      BY <2>1, <3>2, <3>3, RowsAppended
    <3>5. RowsOf(e, k) = IF j = k THEN url[j] ELSE 0
      BY <3>2, Zenon DEF RowsOf
    <3>6. sent'[k] = IF j = k THEN sent[k] + url[j] ELSE sent[k]
      BY <2>1, <3>3, Zenon
    <3>7. PICK s, c, n, u : s = sent[k] /\ c = count[k] /\ n = RowsIn(requests, k) /\ u = url[j]
      BY Zenon
    <3>8. s \in Nat /\ c \in Nat /\ n \in Nat /\ u \in Nat /\ s = c + n
      BY <2>1, <3>2, <3>4, <3>7, Zenon
    <3> QED
      BY <3>3, <3>4, <3>5, <3>6, <3>7, <3>8
  <2>3. ASSUME Display!do_GET, UNCHANGED monitoringVars PROVE sent'[k] = count'[k] + RowsIn(requests', k)
    <3>1. PICK e : e = Head(requests)
      BY Zenon
    <3>2. e \in Requests /\ requests # <<>>
      BY <2>1, <2>3, <3>1, HeadTail DEF Display!do_GET
    <3>3. requests' = Tail(requests) /\ count' = [count EXCEPT ![e.kind] = @ + e.value] /\ sent' = sent
      BY <2>3, <3>1, Zenon DEF Display!do_GET, monitoringVars
    <3>4. /\ RowsIn(Tail(requests), k) \in Nat
          /\ RowsIn(requests, k) = RowsOf(e, k) + RowsIn(Tail(requests), k)
      BY <2>1, <3>1, <3>2, RowsTaken
    <3>5. RowsOf(e, k) = IF e.kind = k THEN e.value ELSE 0
      BY Zenon DEF RowsOf
    <3>6. count'[k] = IF e.kind = k THEN count[k] + e.value ELSE count[k]
      BY <2>1, <3>3, Zenon
    <3>7. PICK s, c, n, u : s = sent[k] /\ c = count[k] /\ n = RowsIn(Tail(requests), k) /\ u = e.value
      BY Zenon
    <3>8. u \in Nat
      BY <3>2, <3>7 DEF Requests
    <3>9. s \in Nat /\ c \in Nat /\ n \in Nat /\ s = c + RowsIn(requests, k) /\ sent'[k] = s
      BY <2>1, <3>3, <3>4, <3>7, Zenon
    <3>10. RowsIn(requests, k) = RowsOf(e, k) + n /\ RowsIn(requests', k) = n
      BY <3>3, <3>4, <3>7, Zenon
    <3> QED
      BY <3>5, <3>6, <3>7, <3>8, <3>9, <3>10
  <2>4. CASE UNCHANGED <<sent, count, requests>>
    BY <2>1, <2>4
  <2>5. \/ \E j \in Kinds : SendRequest(j) /\ DisplayIdle
        \/ Display!do_GET /\ UNCHANGED monitoringVars
        \/ UNCHANGED <<sent, count, requests>>
    BY Zenon DEF Next, WorkerStep, DisplayStep, DisplayIdle, monitoringVars, vars, CallAddRow, AddRow, Sender,
       WakeUp, GetReturns, ConnectFails, Display!Serve, Display!put_signal, Display!update_periodically
  <2> QED
    BY <2>2, <2>3, <2>4, <2>5, Zenon
<1>3. RowInv => TypeOK
  BY DEF RowInv
<1> QED
  BY <1>1, <1>2, <1>3, RowInvariant, PTL DEF Spec
=============================================================================
