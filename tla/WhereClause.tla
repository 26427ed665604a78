----------------------------- MODULE WhereClause -----------------------------
(***************************************************************************)
(* filter.cc: the loop over the conditions of one row and the comparisons. *)
(* A value is a record with its type, its content (a number, or letters as *)
(* a sequence of numbers) and, for decimals, real_, the length of the      *)
(* fraction in units of Base.  Filtering[i].rv is a sequence of values.    *)
(***************************************************************************)
EXTENDS Integers, Sequences, SequencesExt, FiniteSetsExt

CONSTANTS Chains,   \* the conditions and connectives of snippets
          Base,     \* 100
          Percent   \* '%'

VARIABLES filtering, index, passed, running

vars == <<filtering, index, passed, running>>

Connectives == {"AND", "OR"}

-----------------------------------------------------------------------------
(* The comparisons: the set of results they may give, since the member of  *)
(* a kValue that its maker has not set is not initialized.                 *)

Member(value) == IF value.type = "DECIMAL" THEN "INT64" ELSE value.type

Before(s, t) ==
    \E i \in DOMAIN t : /\ i <= Len(s) + 1
                        /\ \A j \in 1 .. i - 1 : s[j] = t[j]
                        /\ i <= Len(s) => s[i] < t[i]

Less(type, a, b) == IF type = "STRING" THEN Before(a, b) ELSE a < b

Order(oper, type, a, b) ==
    CASE oper = "GE" -> ~ Less(type, a, b)
      [] oper = "LE" -> ~ Less(type, b, a)
      [] oper = "GT" -> Less(type, b, a)
      [] oper = "LT" -> Less(type, a, b)
      [] oper = "EQ" -> a = b
      [] oper = "NE" -> a # b

compare(oper, lv, rv) ==
    IF Member(lv) = Member(rv) THEN {Order(oper, lv.type, lv.val, rv.val)} ELSE BOOLEAN

split(input) ==
    LET added(acc) == IF acc.temp = <<>> THEN acc.parts ELSE Append(acc.parts, acc.temp)
        getline(acc, c) ==
            IF c = Percent THEN [parts |-> added(acc), temp |-> <<>>]
            ELSE [acc EXCEPT !.temp = Append(@, c)]
    IN  added(FoldLeft(getline, [parts |-> <<>>, temp |-> <<>>], input))

npos == -1

find(s, t, from) ==
    LET at == {i \in from .. Len(s) - Len(t) : SubSeq(s, i + 1, i + Len(t)) = t}
    IN  IF at = {} THEN npos ELSE Min(at)

(* Mutant: a pattern that does not begin with % is not held to the start.  *)
compare_like_Floats(lv, rv) ==
    LET parts == split(rv)
        seek(start_offset, target) ==
            LET offset == IF start_offset = npos THEN npos ELSE find(lv, target, start_offset)
            IN  IF offset = npos THEN npos ELSE start_offset + Len(target) + offset
    IN  /\ FoldLeft(seek, 0, parts) # npos
        /\ rv[Len(rv)] # Percent => find(lv, Last(parts), 0) = Len(lv) - Len(Last(parts))

compare_like(lv, rv) ==
    LET parts == split(rv)
        seek(start_offset, target) ==
            LET offset == IF start_offset = npos THEN npos ELSE find(lv, target, start_offset)
            IN  IF offset = npos THEN npos ELSE start_offset + Len(target) + offset
    IN  /\ FoldLeft(seek, 0, parts) # npos
        /\ rv[1] # Percent => find(lv, parts[1], 0) = 0
        /\ rv[Len(rv)] # Percent => find(lv, Last(parts), 0) = Len(lv) - Len(Last(parts))

compare_between(lv, min, max) ==
    IF lv.type = "STRING" \/ Member(min) # Member(lv) \/ Member(max) # Member(lv) THEN BOOLEAN
    ELSE {min.val <= lv.val /\ lv.val <= max.val}

compare_in(lv, values) ==
    {lv.type \in {"INT32", "STRING"} /\ \E i \in DOMAIN values : values[i].val = lv.val}

(* The results of condition c.  compare_not_in calls itself and returns    *)
(* none.                                                                   *)
Outcomes(c) ==
    CASE c.oper \in {"GE", "LE", "GT", "LT", "EQ", "NE"} -> compare(c.oper, c.lv, c.rv[1])
      [] c.oper = "LIKE"    -> {compare_like(c.lv.val, c.rv[1].val)}
      [] c.oper = "NOTLIKE" -> {~ compare_like(c.lv.val, c.rv[1].val)}
      [] c.oper = "BETWEEN" -> compare_between(c.lv, c.rv[1], c.rv[2])
      [] c.oper = "IN"      -> compare_in(c.lv, c.rv)
      [] c.oper = "NOTIN"   -> {}
      [] c.oper = "IS"      -> {FALSE}
      [] c.oper = "ISNOT"   -> {TRUE}

-----------------------------------------------------------------------------
(* The loop of filtering over the conditions of a row.                     *)

Init ==
    /\ filtering \in Chains
    /\ index = 1 /\ passed = TRUE /\ running = TRUE

Running == index <= Len(filtering) /\ running

Condition ==
    /\ Running /\ filtering[index].oper \notin Connectives
    /\ passed' \in Outcomes(filtering[index])
    /\ index' = index + 1
    /\ UNCHANGED <<filtering, running>>

Connective ==
    /\ Running /\ filtering[index].oper \in Connectives
    /\ running' = IF filtering[index].oper = "AND" THEN passed ELSE ~ passed
    /\ index' = index + 1
    /\ UNCHANGED <<filtering, passed>>

Next == Condition \/ Connective

Spec == Init /\ [][Next]_vars

-----------------------------------------------------------------------------
(* What the conditions mean in SQL.                                        *)

Matches(s, p) ==
    LET Rest[i \in 1 .. Len(s) + 1, j \in 1 .. Len(p) + 1] ==   \* s from i on and p from j on
            IF j > Len(p) THEN i > Len(s)
            ELSE \/ p[j] = Percent /\ (Rest[i, j + 1] \/ (i <= Len(s) /\ Rest[i + 1, j]))
                 \/ p[j] # Percent /\ i <= Len(s) /\ s[i] = p[j] /\ Rest[i + 1, j + 1]
    IN  Rest[1, 1]

(* A number brought to the fraction of the other one.                      *)
Scaled(a, b) == IF a.type = "STRING" THEN a.val ELSE a.val * Base ^ b.real

Sql(oper, a, b) == Order(oper, a.type, Scaled(a, b), Scaled(b, a))

Holds(c) ==
    CASE c.oper \in {"GE", "LE", "GT", "LT", "EQ", "NE"} -> Sql(c.oper, c.lv, c.rv[1])
      [] c.oper = "LIKE"    -> Matches(c.lv.val, c.rv[1].val)
      [] c.oper = "NOTLIKE" -> ~ Matches(c.lv.val, c.rv[1].val)
      [] c.oper = "BETWEEN" -> Sql("LE", c.rv[1], c.lv) /\ Sql("LE", c.lv, c.rv[2])
      [] c.oper = "IN"      -> \E i \in DOMAIN c.rv : Sql("EQ", c.lv, c.rv[i])
      [] c.oper = "NOTIN"   -> \A i \in DOMAIN c.rv : Sql("NE", c.lv, c.rv[i])

Where ==
    LET conditions == {i \in DOMAIN filtering : filtering[i].oper \notin Connectives}
    IN  IF \E i \in DOMAIN filtering : filtering[i].oper = "OR"
        THEN \E i \in conditions : Holds(filtering[i])
        ELSE \A i \in conditions : Holds(filtering[i])

(* The loop stops at the first condition that decides an AND or an OR, and *)
(* the row passes exactly when the WHERE clause holds for it.              *)
FiltersByWhere == ~ Running => passed = Where
=============================================================================
