------------------------------ MODULE RowValues ------------------------------
(***************************************************************************)
(* raw_data_handler.h: the value of an operand of a condition or of a      *)
(* projected column, for the integer and decimal types: postfix            *)
(* expressions, CASE and EXTRACT.  A token is a value, an operator or a    *)
(* word of CASE.  The members of a kValue that its maker has not set are   *)
(* not initialized: they read as junk, any number.                         *)
(***************************************************************************)
EXTENDS Integers, Sequences, SequencesExt

CONSTANTS Operands,  \* operands of snippets, each with what it stands for
          Base,      \* 100
          Junk       \* what an unset member may hold

VARIABLES operand, junk, pc,
          iter, index, sliced_operand, passed,  \* calcul_case_operation
          result

vars == <<operand, junk, pc, iter, index, sliced_operand, passed, result>>

kValue(type, val, real) == [type |-> type, val |-> val, real |-> real]

int_(v) == IF v.type = "INT32" THEN v.val ELSE junk
int64_(v) == IF v.type \in {"INT64", "DECIMAL"} THEN v.val ELSE junk
bool_(v) == IF v.type = "BOOLEAN" THEN v.val ELSE junk

(* Division in C goes to zero.                                             *)
Quotient(a, b) ==
    LET abs(k) == IF k < 0 THEN -k ELSE k
        q == abs(a) \div abs(b)
    IN  IF (a < 0) = (b < 0) THEN q ELSE -q

calcul_plus_operation(lv, rv) ==
    IF lv.type # "INT32" THEN kValue(lv.type, int64_(lv) + int64_(rv), 0)
    ELSE IF rv.type = "DECIMAL" THEN kValue("DECIMAL", lv.val * Base ^ rv.real + rv.val, rv.real)
    ELSE kValue("INT32", lv.val + int_(rv), 0)

calcul_minus_operation(lv, rv) ==
    IF lv.type # "INT32" THEN kValue(lv.type, int64_(lv) - int64_(rv), 0)
    ELSE IF rv.type = "DECIMAL" THEN kValue("DECIMAL", lv.val * Base ^ rv.real - rv.val, rv.real)
    ELSE kValue("INT32", lv.val - int_(rv), 0)

calcul_multiple_operation(lv, rv) ==
    CASE lv.type = "INT32" -> kValue("INT32", lv.val * int_(rv), 0)
      [] lv.type = "INT64" -> kValue("INT64", lv.val * int64_(rv), 0)
      [] lv.type = "DECIMAL" /\ rv.type = "INT32" -> kValue("DECIMAL", lv.val * rv.val, lv.real)
      [] OTHER -> kValue("DECIMAL", lv.val * int64_(rv), lv.real + rv.real)

calcul_divide_operation(lv, rv) ==
    kValue(lv.type, Quotient(lv.val, IF lv.type = "INT32" THEN int_(rv) ELSE int64_(rv)), 0)

calcul_equal_operation(lv, rv, not_flag) ==
    LET same == IF lv.type = "INT32" THEN lv.val = int_(rv) ELSE lv.val = int64_(rv)
    IN  kValue("BOOLEAN", IF same # not_flag THEN 1 ELSE 0, 0)

Calculate(oper, lv, rv) ==
    CASE oper = "+"  -> calcul_plus_operation(lv, rv)
      [] oper = "-"  -> calcul_minus_operation(lv, rv)
      [] oper = "*"  -> calcul_multiple_operation(lv, rv)
      [] oper = "/"  -> calcul_divide_operation(lv, rv)
      [] oper = "="  -> calcul_equal_operation(lv, rv, FALSE)
      [] oper = "<>" -> calcul_equal_operation(lv, rv, TRUE)

get_postfix_value(tokens) ==
    LET step(stack, token) ==
            IF token.word = "value" THEN Append(stack, token.v)
            ELSE LET n == Len(stack)
                 IN  Append(SubSeq(stack, 1, n - 2), Calculate(token.word, stack[n - 1], stack[n]))
    IN  Last(FoldLeft(step, <<>>, tokens))

-----------------------------------------------------------------------------
(* calcul_operand_value, of a value that is not in the row.                *)

None == kValue("NONE", 0, 0)

Init ==
    /\ operand \in Operands
    /\ junk \in Junk
    /\ pc = "start" /\ iter = 1 /\ index = 0 /\ sliced_operand = <<>> /\ passed = FALSE
    /\ result = None

caseVars == <<iter, index, sliced_operand, passed>>

Postfix ==
    /\ pc = "start" /\ operand.kind = "postfix"
    /\ result' = get_postfix_value(operand.tokens)
    /\ pc' = "done"
    /\ UNCHANGED <<operand, junk, caseVars>>

calcul_extract_operation ==
    /\ pc = "start" /\ operand.kind = "extract"
    /\ LET date == operand.date
       IN  result' = kValue("INT32", CASE operand.unit = "year"  -> date \div 512
                                       [] operand.unit = "month" -> (date % 512) \div 32
                                       [] operand.unit = "day"   -> (date % 512) % 32, 0)
    /\ pc' = "done"
    /\ UNCHANGED <<operand, junk, caseVars>>

(* calcul_case_operation: the places of WHEN and THEN, and a loop over     *)
(* them that collects a condition up to AND, OR or THEN.                   *)
Word(i) == operand.tokens[i].word
Places(word) == SelectSeq([i \in DOMAIN operand.tokens |-> i], LAMBDA i : Word(i) = word)

StartCase ==
    /\ pc = "start" /\ operand.kind = "case"
    /\ index' = Places("WHEN")[1] + 1
    /\ pc' = "when"
    /\ UNCHANGED <<operand, junk, iter, sliced_operand, passed, result>>

Collect ==
    /\ pc = "when" /\ Word(index) \notin {"AND", "OR", "THEN"}
    /\ sliced_operand' = Append(sliced_operand, operand.tokens[index])
    /\ index' = index + 1
    /\ UNCHANGED <<operand, junk, pc, iter, passed, result>>

(* Mutant: AND goes on after a condition that fails.                       *)
Decide_AndGoesOn ==
    /\ pc = "when" /\ Word(index) \in {"AND", "OR", "THEN"}
    /\ LET value == bool_(get_postfix_value(sliced_operand)) = 1
           stop == Word(index) = "THEN" \/ (Word(index) = "OR" /\ value)
       IN  /\ passed' = IF stop THEN value ELSE passed
           /\ pc' = IF stop THEN "test" ELSE "when"
           /\ sliced_operand' = IF stop THEN sliced_operand ELSE <<>>
    /\ index' = index + 1
    /\ UNCHANGED <<operand, junk, iter, result>>

(* AND stops at a condition that fails and OR at one that holds; what was  *)
(* collected is dropped only when the loop goes on.                        *)
Decide ==
    /\ pc = "when" /\ Word(index) \in {"AND", "OR", "THEN"}
    /\ LET value == bool_(get_postfix_value(sliced_operand)) = 1
           stop == Word(index) = "THEN" \/ (Word(index) = "OR" <=> value)
       IN  /\ passed' = IF stop THEN value ELSE passed
           /\ pc' = IF stop THEN "test" ELSE "when"
           /\ sliced_operand' = IF stop THEN sliced_operand ELSE <<>>
    /\ index' = index + 1
    /\ UNCHANGED <<operand, junk, iter, result>>

(* The tokens from i up to the next word of CASE.                          *)
UpTo(i, words) ==
    LET end == CHOOSE e \in i .. Len(operand.tokens) :
                   Word(e) \in words /\ \A j \in i .. e - 1 : Word(j) \notin words
    IN  SubSeq(operand.tokens, i, end - 1)

Passed ==
    /\ pc = "test" /\ passed
    /\ result' = get_postfix_value(UpTo(Places("THEN")[iter] + 1, {"WHEN", "ELSE", "END"}))
    /\ pc' = "done"
    /\ UNCHANGED <<operand, junk, caseVars>>

NextWhen ==
    /\ pc = "test" /\ ~ passed /\ iter < Len(Places("WHEN"))
    /\ iter' = iter + 1
    /\ index' = Places("WHEN")[iter + 1] + 1
    /\ pc' = "when"
    /\ UNCHANGED <<operand, junk, sliced_operand, passed, result>>

Else ==
    /\ pc = "test" /\ ~ passed /\ iter = Len(Places("WHEN"))
    /\ result' = get_postfix_value(UpTo(Places("ELSE")[1] + 1, {"END"}))
    /\ pc' = "done"
    /\ UNCHANGED <<operand, junk, caseVars>>

Next ==
    \/ Postfix \/ calcul_extract_operation
    \/ StartCase \/ Collect \/ Decide \/ Passed \/ NextWhen \/ Else

Spec == Init /\ [][Next]_vars

-----------------------------------------------------------------------------

(* A postfix expression has the value of the expression: operand.meaning   *)
(* is that number, with as many digits as operand.scale says.              *)
ExpressionIsExact ==
    pc = "done" /\ operand.kind = "postfix" =>
        result.val * Base ^ operand.scale = operand.meaning * Base ^ result.real

(* CASE gives the value of the first WHEN that holds and else that of      *)
(* ELSE, although conditions of an earlier WHEN are left in sliced_operand.*)
CaseTakesTheFirst ==
    pc = "done" /\ operand.kind = "case" => result = operand.meaning

(* EXTRACT gives back the year, the month and the day of a date.           *)
ExtractsThePart ==
    pc = "done" /\ operand.kind = "extract" => result.val = operand.meaning
=============================================================================
