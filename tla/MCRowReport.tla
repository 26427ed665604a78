----------------------------- MODULE MCRowReport -----------------------------
(* Instances of RowReport: scan threads s1 and s2, a filter thread f1.     *)
EXTENDS RowReport, TLC

CONSTANTS s1, s2, f1

MCKinds == {"scan", "filter"}

MCKindOf == [s \in Stages |-> IF s = f1 THEN "filter" ELSE "scan"]
=============================================================================
