------------------------------ MODULE RowTally -------------------------------
(***************************************************************************)
(* What the row counters of the worker promise: a row that a stage counts  *)
(* is waiting to be reported until it is reported or lost, all waiting     *)
(* rows of a kind at once, and it is never reported again.                 *)
(***************************************************************************)
EXTENDS Naturals

CONSTANTS Kinds,    \* the counters: rows scanned, rows filtered
          MaxRows   \* the most rows counted at once

VARIABLES waiting,    \* rows counted and not yet reported
          reported,   \* rows reported to the visualizer
          lost        \* rows whose report could not be delivered

tallyVars == <<waiting, reported, lost>>

TallyInit ==
    /\ waiting = [k \in Kinds |-> 0]
    /\ reported = [k \in Kinds |-> 0]
    /\ lost = [k \in Kinds |-> 0]

Count(k, n) ==
    /\ waiting' = [waiting EXCEPT ![k] = @ + n]
    /\ UNCHANGED <<reported, lost>>

Report(k) ==
    /\ reported' = [reported EXCEPT ![k] = @ + waiting[k]]
    /\ waiting' = [waiting EXCEPT ![k] = 0]
    /\ UNCHANGED lost

Lose(k) ==
    /\ lost' = [lost EXCEPT ![k] = @ + waiting[k]]
    /\ waiting' = [waiting EXCEPT ![k] = 0]
    /\ UNCHANGED reported

TallyNext == \E k \in Kinds : (\E n \in 1 .. MaxRows : Count(k, n)) \/ Report(k) \/ Lose(k)

TallySpec == TallyInit /\ [][TallyNext]_tallyVars
=============================================================================
