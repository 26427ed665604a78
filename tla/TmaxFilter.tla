----------------------------- MODULE TmaxFilter ------------------------------
(***************************************************************************)
(* tmax-lib/ex.cc and data_blk.cc: csd_filter_and_eval_out, one step per   *)
(* row piece of a block.  The expression context lives through all rows of *)
(* the block: build_data writes the columns it needs and leaves the others *)
(* as the row before left them.                                            *)
(***************************************************************************)
EXTENDS ChunkList, FiniteSets

CONSTANTS Blocks,      \* sequences of row pieces to filter
          FilterInfos, \* filters
          Blank        \* the blank; other characters are numbers above it

VARIABLES blk,         \* the block
          filter_info, \* the filter
          rowno,       \* the next row piece
          column_vals, \* exp_ctx: the cell of each column
          chunk_list   \* what has been serialized

vars == <<blk, filter_info, rowno, column_vals, chunk_list>>

Columns == 1 .. filter_info.col_cnt

Init ==
    /\ blk \in Blocks
    /\ filter_info \in FilterInfos
    /\ rowno = 1
    /\ column_vals = [c \in Columns |-> Garbage]
    /\ chunk_list = create_chunk_list

-----------------------------------------------------------------------------

(* table_block_get_row_piece returns NULL.                                 *)
NoPiece(rp) == ~ rp.head \/ rp.deleted

(* build_data for the first col_cnt columns: stops behind usecol_cnt used  *)
(* ones; the cell pointer stays on the last cell of the row piece.         *)
build_data(vals, rp, col_cnt, usecol_cnt) ==
    LET use_cols == filter_info.use_cols
        Reached(c) == c = 1 \/ Cardinality({d \in 1 .. c - 1 : use_cols[d]}) < usecol_cnt
    IN  [c \in DOMAIN vals |->
            IF c <= col_cnt /\ use_cols[c] /\ Reached(c)
            THEN rp.cells[IF c < Len(rp.cells) THEN c ELSE Len(rp.cells)]
            ELSE vals[c]]

(* memcmp of n characters: the sign of the first difference.               *)
memcmp(l, r, n) ==
    LET diff == {i \in 1 .. n : l[i] # r[i]}
    IN  IF diff = {} THEN 0
        ELSE LET i == CHOOSE i \in diff : \A j \in diff : i <= j IN IF l[i] < r[i] THEN -1 ELSE 1

(* Mutant: a longer string is greater whatever its rest is.                *)
CompareCells_Unpadded(l, r, is_char_type) ==
    LET minsize == IF Len(l) <= Len(r) THEN Len(l) ELSE Len(r)
        prefix == memcmp(l, r, minsize)
    IN  IF prefix # 0 THEN prefix ELSE Len(l) - Len(r)

(* The sign exp_eval_condition compares with: character columns ignore     *)
(* blanks at the end.                                                      *)
CompareCells(l, r, is_char_type) ==
    LET minsize == IF Len(l) <= Len(r) THEN Len(l) ELSE Len(r)
        prefix == memcmp(l, r, minsize)
        Rest(s) == \E i \in minsize + 1 .. Len(s) : s[i] # Blank
    IN  IF prefix # 0 THEN prefix
        ELSE IF ~ is_char_type THEN Len(l) - Len(r)
        ELSE IF Rest(r) THEN -1 ELSE IF Rest(l) THEN 1 ELSE 0

Satisfies(cmp, op) ==
    CASE op = "EQUAL" -> cmp = 0
      [] op = "NE" -> cmp # 0
      [] op = "GT" -> cmp > 0
      [] op = "LT" -> cmp < 0
      [] op = "GE" -> cmp >= 0
      [] op = "LE" -> cmp <= 0
      [] OTHER -> FALSE

exp_eval_condition(l, r, op, is_char_type) ==
    /\ l # <<>> /\ r # <<>>
    /\ Satisfies(CompareCells(l, r, is_char_type), op)

(* All expressions hold.  An operand -1 is the next constant: const_idx    *)
(* counts the ones before it.                                              *)
exp_eval_and_check_true(vals) ==
    LET exps == filter_info.exps
        Consts(i) == Cardinality({j \in 1 .. i - 1 : exps[j].l = -1})
                     + Cardinality({j \in 1 .. i - 1 : exps[j].r = -1})
        L(i) == IF exps[i].l # -1 THEN vals[exps[i].l] ELSE filter_info.const_vals[Consts(i) + 1]
        R(i) == IF exps[i].r # -1 THEN vals[exps[i].r]
                ELSE filter_info.const_vals[Consts(i) + (IF exps[i].l = -1 THEN 2 ELSE 1)]
    IN  \A i \in DOMAIN exps : exp_eval_condition(L(i), R(i), exps[i].op, exps[i].is_char_type)

(* set_col_out: columns nobody asked for become NULL.                      *)
set_col_out(vals, col_cnt) ==
    [c \in DOMAIN vals |-> IF c <= col_cnt /\ ~ filter_info.use_cols[c] THEN <<>> ELSE vals[c]]

total_len(vals, col_cnt) ==
    FoldLeft(LAMBDA sum, cell : sum + rpcol_get_len(cell), 0, SubSeq(vals, 1, col_cnt))

(* The columns that are whole in a row piece.                              *)
normal_col_cnt(rp) == IF rp.lastcol_cont THEN Len(rp.cells) - 1 ELSE Len(rp.cells)

(* A piece of a row that spans blocks and lacks a column the query needs.  *)
Chained(rp) == ~ (rp.first /\ rp.last) /\ filter_info.all_max_colno > normal_col_cnt(rp)

(* It has the columns of the where clause.                                 *)
Decidable(rp) == filter_info.where_max_colno <= normal_col_cnt(rp)

SkipRow ==
    /\ rowno <= Len(blk)
    /\ NoPiece(blk[rowno])
    /\ rowno' = rowno + 1
    /\ UNCHANGED <<blk, filter_info, column_vals, chunk_list>>

(* process_chained_row: filtered only if the piece has the columns of the  *)
(* where clause; the rest of the work is the server's.                     *)
process_chained_row ==
    /\ rowno <= Len(blk)
    /\ ~ NoPiece(blk[rowno]) /\ Chained(blk[rowno])
    /\ LET rp == blk[rowno]
           cnt == Len(rp.cells)
           usecol_cnt == IF cnt > filter_info.use_col_cnt THEN filter_info.use_col_cnt ELSE cnt
           vals == build_data(column_vals, rp, cnt, usecol_cnt)
           out == set_col_out(vals, cnt)
       IN  IF filter_info.exps # <<>> /\ Decidable(rp) /\ ~ exp_eval_and_check_true(vals)
           THEN column_vals' = vals /\ UNCHANGED chunk_list
           ELSE /\ column_vals' = out
                /\ chunk_list' = serialize_rpcols_to_chained_chunk(chunk_list, SubSeq(out, 1, cnt),
                                                                   total_len(out, cnt))
    /\ rowno' = rowno + 1
    /\ UNCHANGED <<blk, filter_info>>

(* Any other row piece.                                                    *)
FilterRow ==
    /\ rowno <= Len(blk)
    /\ ~ NoPiece(blk[rowno]) /\ ~ Chained(blk[rowno])
    /\ LET cnt == filter_info.col_cnt
           vals == build_data(column_vals, blk[rowno], cnt, filter_info.use_col_cnt)
           out == set_col_out(vals, cnt)
       IN  IF ~ exp_eval_and_check_true(vals)
           THEN column_vals' = vals /\ UNCHANGED chunk_list
           ELSE /\ column_vals' = out
                /\ chunk_list' = serialize_rpcols_to_chunk(chunk_list, out, total_len(out, cnt))
    /\ rowno' = rowno + 1
    /\ UNCHANGED <<blk, filter_info>>

Next == SkipRow \/ process_chained_row \/ FilterRow

Spec == Init /\ [][Next]_vars

-----------------------------------------------------------------------------
(* What the filter should do, from the SQL meaning of the query.           *)

Precedes(l, r) ==
    \E k \in 1 .. Len(r) : /\ \A i \in 1 .. k - 1 : i <= Len(l) /\ l[i] = r[i]
                           /\ k > Len(l) \/ l[k] < r[k]

Padded(cell, n) == cell \o [i \in 1 .. n - Len(cell) |-> Blank]

(* NULL satisfies no comparison; character cells compare as if padded.     *)
Holds(l, r, op, is_char_type) ==
    LET n == IF Len(l) < Len(r) THEN Len(r) ELSE Len(l)
        a == IF is_char_type THEN Padded(l, n) ELSE l
        b == IF is_char_type THEN Padded(r, n) ELSE r
    IN  /\ l # <<>> /\ r # <<>>
        /\ CASE op = "EQUAL" -> a = b
             [] op = "NE" -> a # b
             [] op = "GT" -> Precedes(b, a)
             [] op = "LT" -> Precedes(a, b)
             [] op = "GE" -> a = b \/ Precedes(b, a)
             [] op = "LE" -> a = b \/ Precedes(a, b)

(* A column behind the last cell of a row is NULL.                         *)
Cell(rp, c) == IF c <= Len(rp.cells) THEN rp.cells[c] ELSE <<>>

(* An operand's own constant is lc or rc.                                  *)
Passes(rp) ==
    \A i \in DOMAIN filter_info.exps :
        LET e == filter_info.exps[i]
        IN  Holds(IF e.l = -1 THEN e.lc ELSE Cell(rp, e.l),
                  IF e.r = -1 THEN e.rc ELSE Cell(rp, e.r), e.op, e.is_char_type)

RowBytes(rp, cnt) ==
    FlattenSeq([c \in 1 .. cnt |-> CellBytes(IF filter_info.use_cols[c] THEN Cell(rp, c) ELSE <<>>)])

(* The row pieces read so far for which T holds, as bytes.                 *)
Serialized(T(_), Cnt(_)) ==
    FlattenSeq([i \in 1 .. rowno - 1 |->
        IF ~ NoPiece(blk[i]) /\ T(blk[i]) THEN RowBytes(blk[i], Cnt(blk[i])) ELSE <<>>])

InChunks(chunks) == FlattenSeq([i \in DOMAIN chunks |-> BytesOf(chunks[i])])

-----------------------------------------------------------------------------

TypeOK ==
    /\ blk \in Blocks /\ filter_info \in FilterInfos
    /\ rowno \in 1 .. Len(blk) + 1
    /\ DOMAIN column_vals = Columns
    /\ \A chunk \in Range(chunk_list.res_chunk) \cup Range(chunk_list.chained_chunk) :
          /\ DOMAIN chunk.buf = 1 .. RES_CHUNK_SIZE
          /\ chunk.used \in Nat

(* The result chunks hold the rows that satisfy the where clause, in the   *)
(* order of the block, each with the columns asked for, whatever the rows  *)
(* before them left in the expression context and whichever chunk was full *)
(* when they came.                                                         *)
FilteredExactly ==
    InChunks(chunk_list.res_chunk)
        = Serialized(LAMBDA rp : ~ Chained(rp) /\ Passes(rp), LAMBDA rp : filter_info.col_cnt)

(* No row is copied past the end of a chunk (add_chunk comes in time).     *)
ChunksHoldTheirBytes ==
    \A chunk \in Range(chunk_list.res_chunk) \cup Range(chunk_list.chained_chunk) :
        chunk.used <= RES_CHUNK_SIZE
=============================================================================
