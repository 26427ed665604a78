--------------------------- MODULE MetricCollector ---------------------------
(***************************************************************************)
(* csd-metric-collector.cc: a thread measures the CSD every five seconds,  *)
(* computes a score and sends both to the storage metric collector, while  *)
(* HTTP handlers set the weights of the score.  Percentages and weights    *)
(* are whole numbers; the GET handler changes nothing and is left out.     *)
(***************************************************************************)
EXTENDS Integers

CONSTANTS Requests,     \* calls of handle_set_score_weight
          Weights,      \* the three weights each one asks for
          BadParam,     \* the first of its parameters that is no number, 4 for none
          StorageLevels,
          Situations,   \* what may come together: requests, jiffies that pass, of
                        \* "busy" and "idle", bytes received in a jiffy, levels of
                        \* utilization of the memory, in percent, and a bound on
                        \* the failed connections
          IntMod,       \* int counts modulo IntMod
          MaxTicks,     \* bound on the changes of the counters in a cycle
          InitTakesLong \* a jiffy has passed when init_metric is done

VARIABLES host,      \* the counters of /proc and /sys
          elapsed,   \* history: what they counted since they were last read
          due,       \* history: what they counted in the period measured last
          ticks,
          situation, \* one of Situations, chosen at the start
          pc, cpu_, stJiffies_, memory_, storage_, rxBytes, rxData, working_block_count_,
          csd_metric_score_,
          weights,   \* cpu_weight_, memory_weight_, storage_weight_
          weight_mutex_, handler,
          installed, \* history: the weights at the end of each handler
          sent, failures

readings == <<cpu_, stJiffies_, memory_, storage_, rxBytes, rxData, working_block_count_, csd_metric_score_>>
weightVars == <<weights, weight_mutex_, handler, installed>>
outside == <<sent, failures>>
vars == <<host, elapsed, due, ticks, pc, readings, weightVars, outside>>

NaN == -1
Free == "free"
NoReport == [cpu |-> 0, memory |-> 0, rx |-> 0, score |-> 0]

(* int, in two's complement                                                *)
Int32(k) == ((k + IntMod \div 2) % IntMod) - IntMod \div 2

Nothing == [busy |-> 0, idle |-> 0, rx |-> 0]

(* The constructor, through init_metric: the first values of the counters. *)
Init ==
    /\ host \in [busy : {0, IntMod \div 2 - 1}, idle : {0}, rx : {0}]
    /\ elapsed = IF InitTakesLong THEN [Nothing EXCEPT !.idle = 1] ELSE Nothing
    /\ due = [cpu |-> 0, rx |-> 0] /\ ticks = 0
    /\ pc = "cpu" /\ cpu_ = 0
    /\ stJiffies_ = [busy |-> Int32(host.busy), idle |-> Int32(host.idle - elapsed.idle)]
    /\ memory_ = 0 /\ storage_ = 0 /\ rxBytes = host.rx /\ rxData = 0
    /\ working_block_count_ = 0 /\ csd_metric_score_ = 0
    /\ weights = <<4, 3, 3>> /\ installed = {<<4, 3, 3>>}
    /\ weight_mutex_ = Free /\ handler = [r \in Requests |-> 0]
    /\ sent = NoReport /\ failures = 0
    /\ situation \in Situations

(* The CSD works on: a jiffy, idle or not, and perhaps a byte received.    *)
Tick ==
    /\ ticks < MaxTicks
    /\ ticks' = ticks + 1
    /\ \E counter \in situation.counters, n \in situation.bytes :
           /\ host' = [host EXCEPT ![counter] = (@ + 1) % IntMod, !.rx = (@ + n) % IntMod]
           /\ elapsed' = [elapsed EXCEPT ![counter] = @ + 1, !.rx = @ + n]
    /\ UNCHANGED <<due, pc, readings, weightVars, outside>>

-----------------------------------------------------------------------------
(* run_collect.                                                            *)

Percent(part, whole) == IF whole = 0 THEN NaN ELSE (100 * part) \div whole

(* user, nice and system are one counter here.                             *)
update_cpu ==
    /\ pc = "cpu"
    /\ LET cur == [busy |-> Int32(host.busy), idle |-> Int32(host.idle)]
           diff == [c \in {"busy", "idle"} |-> Int32(cur[c] - stJiffies_[c])]
       IN  /\ cpu_' = Percent(diff["busy"], Int32(diff["busy"] + diff["idle"]))
           /\ stJiffies_' = cur
    /\ due' = [due EXCEPT !.cpu = Percent(elapsed.busy, elapsed.busy + elapsed.idle)]
    /\ elapsed' = [elapsed EXCEPT !.busy = 0, !.idle = 0]
    /\ pc' = "memory"
    /\ UNCHANGED <<host, ticks, memory_, storage_, rxBytes, rxData, working_block_count_, csd_metric_score_, weightVars, outside>>

update_memory ==
    /\ pc = "memory"
    /\ memory_' \in situation.levels
    /\ pc' = "network"
    /\ UNCHANGED <<host, elapsed, due, ticks, cpu_, stJiffies_, storage_, rxBytes, rxData, working_block_count_, csd_metric_score_, weightVars, outside>>

(* Mutant: the bytes of the last reading are not kept.                     *)
update_network_Forgets ==
    /\ pc = "network"
    /\ rxData' = (host.rx - rxBytes) % IntMod
    /\ due' = [due EXCEPT !.rx = elapsed.rx]
    /\ elapsed' = [elapsed EXCEPT !.rx = 0]
    /\ pc' = "storage"
    /\ UNCHANGED <<host, ticks, cpu_, stJiffies_, memory_, storage_, rxBytes, working_block_count_, csd_metric_score_, weightVars, outside>>

(* Received bytes; the code does the same for those sent.                  *)
update_network ==
    /\ pc = "network"
    /\ rxData' = (host.rx - rxBytes) % IntMod
    /\ rxBytes' = host.rx
    /\ due' = [due EXCEPT !.rx = elapsed.rx]
    /\ elapsed' = [elapsed EXCEPT !.rx = 0]
    /\ pc' = "storage"
    /\ UNCHANGED <<host, ticks, cpu_, stJiffies_, memory_, storage_, working_block_count_, csd_metric_score_, weightVars, outside>>

(* The partition may be missing in df's output.                            *)
update_storage ==
    /\ pc = "storage"
    /\ storage_' \in StorageLevels \cup {storage_}
    /\ pc' = "blocks"
    /\ UNCHANGED <<host, elapsed, due, ticks, cpu_, stJiffies_, memory_, rxBytes, rxData, working_block_count_, csd_metric_score_, weightVars, outside>>

(* Without an answer of the worker module the last count stays.            *)
get_csd_working_block_count ==
    /\ pc = "blocks"
    /\ working_block_count_' \in {0, working_block_count_}
    /\ pc' = "score"
    /\ UNCHANGED <<host, elapsed, due, ticks, cpu_, stJiffies_, memory_, storage_, rxBytes, rxData, csd_metric_score_, weightVars, outside>>

(* The storage weight goes with the memory, as in the code.                *)
Score(w, cpu, memory) ==
    IF cpu = NaN THEN NaN ELSE w[1] * (100 - cpu) + w[2] * (100 - memory) + w[3] * (100 - memory)

(* Mutant: the weights are read without weight_mutex_.                     *)
calcul_csd_metric_score_Unlocked ==
    /\ pc = "score"
    /\ csd_metric_score_' = Score(weights, cpu_, memory_)
    /\ pc' = "send"
    /\ UNCHANGED <<host, elapsed, due, ticks, cpu_, stJiffies_, memory_, storage_, rxBytes, rxData, working_block_count_, weightVars, outside>>

(* Mutant: a score that there is already is kept.                          *)
calcul_csd_metric_score_Once ==
    /\ pc = "score" /\ weight_mutex_ = Free
    /\ csd_metric_score_' = IF csd_metric_score_ # 0 THEN csd_metric_score_ ELSE Score(weights, cpu_, memory_)
    /\ pc' = "send"
    /\ UNCHANGED <<host, elapsed, due, ticks, cpu_, stJiffies_, memory_, storage_, rxBytes, rxData, working_block_count_, weightVars, outside>>

calcul_csd_metric_score ==
    /\ pc = "score" /\ weight_mutex_ = Free
    /\ csd_metric_score_' = Score(weights, cpu_, memory_)
    /\ pc' = "send"
    /\ UNCHANGED <<host, elapsed, due, ticks, cpu_, stJiffies_, memory_, storage_, rxBytes, rxData, working_block_count_, weightVars, outside>>

(* A connection that fails drops the report.                               *)
send_metric ==
    /\ pc = "send"
    /\ \/ /\ sent' = [cpu |-> cpu_, memory |-> memory_, rx |-> rxData, score |-> csd_metric_score_]
          /\ UNCHANGED failures
       \/ /\ failures < situation.failures
          /\ failures' = failures + 1
          /\ UNCHANGED sent
    /\ ticks' = 0
    /\ pc' = "sleep"
    /\ UNCHANGED <<host, elapsed, due, readings, weightVars>>

(* In five seconds a jiffy passes.                                         *)
Wake ==
    /\ pc = "sleep" /\ elapsed.busy + elapsed.idle > 0
    /\ pc' = "cpu"
    /\ UNCHANGED <<host, elapsed, due, ticks, readings, weightVars, outside>>

run_collect ==
    \/ update_cpu \/ update_memory \/ update_network \/ update_storage
    \/ get_csd_working_block_count \/ calcul_csd_metric_score \/ send_metric \/ Wake

-----------------------------------------------------------------------------
(* handle_set_score_weight: handler[r] is 0 before the lock, i before the  *)
(* i-th weight, 4 before the unlock and 5 at the end.                      *)

Lock(r) ==
    /\ handler[r] = 0 /\ weight_mutex_ = Free
    /\ weight_mutex_' = r
    /\ handler' = [handler EXCEPT ![r] = 1]
    /\ UNCHANGED <<host, elapsed, due, ticks, pc, readings, weights, installed, outside>>

SetWeight(r) ==
    /\ handler[r] \in 1 .. 3 /\ handler[r] < BadParam[r]
    /\ weights' = [weights EXCEPT ![handler[r]] = Weights[r][handler[r]]]
    /\ handler' = [handler EXCEPT ![r] = @ + 1]
    /\ UNCHANGED <<host, elapsed, due, ticks, pc, readings, weight_mutex_, installed, outside>>

(* The handler ends, or the std::stof of a parameter throws: unique_lock   *)
(* unlocks in both cases, and what is set stays.                           *)
Unlock(r) ==
    /\ handler[r] = BadParam[r]
    /\ handler' = [handler EXCEPT ![r] = 5]
    /\ weight_mutex_' = Free
    /\ installed' = installed \cup {weights}
    /\ UNCHANGED <<host, elapsed, due, ticks, pc, readings, weights, outside>>

handle_set_score_weight(r) == Lock(r) \/ SetWeight(r) \/ Unlock(r)

Next ==
    /\ Tick \/ run_collect \/ \E r \in situation.requests : handle_set_score_weight(r)
    /\ UNCHANGED situation

Spec == Init /\ [][Next]_<<vars, situation>>

(* Time passes, and the collecting thread and the handlers are scheduled;  *)
(* there are finitely many requests to wait for.                           *)
FairSpec ==
    /\ Spec /\ WF_vars(Tick) /\ WF_vars(run_collect)
    /\ \A r \in Requests : WF_vars(r \in situation.requests /\ handle_set_score_weight(r))

-----------------------------------------------------------------------------

TypeOK ==
    /\ host \in [busy : 0 .. IntMod - 1, idle : 0 .. IntMod - 1, rx : 0 .. IntMod - 1]
    /\ elapsed \in [busy : 0 .. 2 * MaxTicks + 1, idle : 0 .. 2 * MaxTicks + 1, rx : 0 .. 2 * MaxTicks]
    /\ ticks \in 0 .. MaxTicks /\ failures \in 0 .. situation.failures
    /\ cpu_ \in -1 .. 100 /\ memory_ \in situation.levels \cup {0} /\ storage_ \in StorageLevels \cup {0}
    /\ stJiffies_ \in [busy : -(IntMod \div 2) .. IntMod \div 2 - 1, idle : -(IntMod \div 2) .. IntMod \div 2 - 1]
    /\ rxBytes \in 0 .. IntMod - 1 /\ rxData \in 0 .. IntMod - 1 /\ working_block_count_ = 0
    /\ weight_mutex_ \in Requests \cup {Free} /\ handler \in [Requests -> 0 .. 5]

(* The weights of a score are those at the end of a handler, never half of *)
(* what a request that is being handled sets, and the values sent are the  *)
(* ones the score sent was computed from.                                  *)
ScoreOfOneSet ==
    sent # NoReport => \E w \in installed : sent.score = Score(w, sent.cpu, sent.memory)

(* A report has the CPU time and the bytes of the period before it, each   *)
(* counted once, also when the jiffies outgrow an int.                     *)
ReportsThePeriod ==
    pc = "send" => cpu_ = due.cpu /\ rxData = due.rx

(* The last weights set are in the end those of every report.              *)
WeightsTakeEffect ==
    <>[](sent.score = Score(weights, sent.cpu, sent.memory))
=============================================================================
