-------------------------- MODULE MCMetricCollector --------------------------
(***************************************************************************)
(* Two requests for weights, of which one has a bad third parameter.       *)
(***************************************************************************)
EXTENDS MetricCollector, TLC

CONSTANTS r1, r2

WeightsOf == (r1 :> <<1, 2, 7>>) @@ (r2 :> <<6, 1, 3>>)
FirstBad == (r1 :> 4) @@ (r2 :> 3)

(* Weights are set while the CSD is idle; it works and receives while the  *)
(* weights stay; or it receives and a report is lost.                      *)
Each == {[requests |-> {r1, r2}, counters |-> {"idle"}, bytes |-> {0}, levels |-> {20, 70}, failures |-> 1],
         [requests |-> {}, counters |-> {"busy", "idle"}, bytes |-> {1}, levels |-> {20}, failures |-> 0],
         [requests |-> {}, counters |-> {"idle"}, bytes |-> {0, 1}, levels |-> {20}, failures |-> 1]}
=============================================================================
