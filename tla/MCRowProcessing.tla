--------------------------- MODULE MCRowProcessing ---------------------------
(***************************************************************************)
(* Inputs of the computations.  Bytes are below 6 and fractions are thirds;*)
(* letters are 1 and 2, and 0 is '%' in a pattern and a blank in a cell.   *)
(***************************************************************************)
EXTENDS RowProcessing, SequencesExt, FiniteSets, TLC

(* Keys of two columns, from -18 to 17.  Tables 5 and 6 differ in both     *)
(* bytes of their numbers.                                                 *)
Double == {<<-18, 17>>, <<-1, -1>>, <<-1, 0>>, <<0, -7>>, <<5, 6>>, <<6, 5>>}

-----------------------------------------------------------------------------
(* Tables of three columns with the key anywhere.                          *)

Column(type, length, primary) == [type |-> type, length |-> length, primary |-> primary]

Char == {Column("STRING", 2, p) : p \in BOOLEAN}
Decimal == {Column("NEWDECIMAL", 3, p) : p \in BOOLEAN}
Short == {Column("VARSTRING", 3, FALSE)}

MCValues(c) ==
    CASE c.type = "STRING" -> [1 .. 2 -> {1, 2}]
      [] c.type = "NEWDECIMAL" -> {<<n>> : n \in {-53, -1, 0, 35}}
      [] c.type = "VARSTRING" -> {<<>>, <<1>>, <<2, 1>>}

MCTables ==
    {list \in [1 .. 3 -> Char \cup Decimal \cup Short] : \E i \in DOMAIN list : list[i].primary}

-----------------------------------------------------------------------------
(* Operands together with their meaning, computed apart from the tokens.   *)

I(n) == [type |-> "INT32", val |-> n, real |-> 0]
L(n) == [type |-> "INT64", val |-> n, real |-> 0]
Dec(n) == [type |-> "DECIMAL", val |-> n, real |-> 1]
Val(v) == [word |-> "value", v |-> v]
Sym(w) == [word |-> w]

Apply(oper, a, b) == CASE oper = "+" -> a + b [] oper = "-" -> a - b [] oper = "*" -> a * b

Post(tokens, meaning, scale) == [kind |-> "postfix", tokens |-> tokens, meaning |-> meaning, scale |-> scale]

Ints == {Post(<<Val(P[1]), Val(P[2]), Sym(o)>>, Apply(o, P[1].val, P[2].val), 0) :
             P \in {<<I(a), I(b)>> : a, b \in -2 .. 2} \cup {<<L(a), L(b)>> : a, b \in -2 .. 2}, o \in {"+", "-", "*"}}
Divided == {Post(<<Val(I(a * b)), Val(I(b)), Sym("/")>>, a, 0) : a \in -2 .. 2, b \in {-2, 1, 3}}

(* price * (1 - discount) * (1 + tax)                                      *)
Charge == {Post(<<Val(Dec(p)), Val(I(1)), Val(Dec(d)), Sym("-"), Sym("*"), Val(I(1)), Val(Dec(t)), Sym("+"), Sym("*")>>,
                p * (Base - d) * (Base + t), 3) : p \in -3 .. 3, d \in 0 .. 2, t \in 0 .. 2}
(* price * quantity                                                        *)
Times == {Post(<<Val(Dec(p)), Val(I(q)), Sym("*")>>, p * q, 1) : p, q \in -2 .. 2}
Compared == {Post(<<Val(I(a)), Val(I(b)), Sym(o)>>, IF (a = b) = (o = "=") THEN 1 ELSE 0, 0) : a, b \in 0 .. 1, o \in {"=", "<>"}}

Dates == {[kind |-> "extract", unit |-> u, date |-> y * 512 + m * 32 + d, meaning |-> CASE u = "year" -> y [] u = "month" -> m [] u = "day" -> d] :
              u \in {"year", "month", "day"}, y \in {1992, 1998}, m \in {1, 12}, d \in {1, 31}}

(* CASE WHEN with one or two conditions, joined by AND or OR.              *)
Tests == {[a |-> a, b |-> 0, o |-> o] : a \in 0 .. 1, o \in {"=", "<>"}}
TestTokens(t) == <<Val(I(t.a)), Val(I(t.b)), Sym(t.o)>>
True(t) == (t.a = t.b) = (t.o = "=")
Whens == {[conn |-> "THEN", ts |-> <<t>>] : t \in Tests} \cup {[conn |-> c, ts |-> <<t, u>>] : c \in {"AND", "OR"}, t, u \in Tests}
WhenTokens(w, n) ==
    <<Sym("WHEN")>> \o TestTokens(w.ts[1])
    \o (IF Len(w.ts) = 2 THEN <<Sym(w.conn)>> \o TestTokens(w.ts[2]) ELSE <<>>)
    \o <<Sym("THEN"), Val(I(n))>>
Met(w) == IF w.conn = "OR" THEN \E i \in DOMAIN w.ts : True(w.ts[i]) ELSE \A i \in DOMAIN w.ts : True(w.ts[i])
Case(w, x) ==
    [kind |-> "case",
     tokens |-> <<Sym("CASE")>> \o WhenTokens(w, 7) \o WhenTokens(x, 8) \o <<Sym("ELSE"), Val(I(9)), Sym("END")>>,
     meaning |-> I(IF Met(w) THEN 7 ELSE IF Met(x) THEN 8 ELSE 9)]
Cases == {Case(w, x) : w, x \in Whens}

Supported == Ints \cup Divided \cup Charge \cup Times \cup Compared \cup Dates \cup Cases

-----------------------------------------------------------------------------
(* WHERE clauses.                                                          *)

Orders == {"GE", "LE", "GT", "LT", "EQ", "NE"}

Num(type, n) == [type |-> type, val |-> n, real |-> IF type = "DECIMAL" THEN 1 ELSE 0]
Str(s) == [type |-> "STRING", val |-> s, real |-> 0]
Cond(lv, oper, rv) == [lv |-> lv, oper |-> oper, rv |-> rv]
Conn(oper) == [lv |-> Num("INT32", 0), oper |-> oper, rv |-> <<>>]

Texts(Letters, n) == UNION {[1 .. k -> Letters] : k \in 0 .. n}
Patterns(n) == Texts({0, 1, 2}, n) \ {<<>>}
Figures == {Num(type, n) : type \in {"INT32", "INT64", "DECIMAL"}, n \in -1 .. 1}
Alike(v) == {w \in Figures : w.type = v.type}

(* Patterns with at most two parts that may go on after the last one, or a *)
(* word.                                                                   *)
Parts(p) == Cardinality({i \in DOMAIN p : p[i] # 0 /\ (i = 1 \/ p[i - 1] = 0)})
Simple(p) == Parts(p) <= 2 /\ (Last(p) = 0 \/ ~ \E i \in DOMAIN p : p[i] = 0)

Ordered == UNION {{Cond(v, oper, <<w>>) : oper \in Orders, w \in Alike(v)} : v \in Figures}
           \cup {Cond(Str(s), oper, <<Str(t)>>) : oper \in Orders, s, t \in Texts({1, 2}, 2)}
Likes == {Cond(Str(s), oper, <<Str(p)>>) : oper \in {"LIKE", "NOTLIKE"}, s \in Texts({1, 2}, 4), p \in {q \in Patterns(4) : Simple(q)}}
Between == UNION {{Cond(v, "BETWEEN", <<w, x>>) : w, x \in Alike(v)} : v \in Figures}
In == {Cond(Num("INT32", n), "IN", <<Num("INT32", m), Num("INT32", k)>>) : n, m, k \in 0 .. 1}
      \cup {Cond(Str(s), "IN", <<Str(t), Str(u)>>) : s, t, u \in Texts({1}, 2)}

(* Three conditions with one connective.                                   *)
Few == {Cond(Num("INT32", n), "GE", <<Num("INT32", 0)>>) : n \in -1 .. 0}
       \cup {Cond(Str(s), "LIKE", <<Str(<<1, 0>>)>>) : s \in Texts({1, 2}, 1)}
Chained == {<<a, c, b, c, d>> : a, b, d \in Few, c \in {Conn("AND"), Conn("OR")}}

Clauses == {<<c>> : c \in Ordered \cup Likes \cup Between \cup In} \cup Chained

-----------------------------------------------------------------------------
(* Tmax blocks of two row pieces of two columns, and filters with one or   *)
(* two expressions.                                                        *)

Cells == {<<>>, <<1>>, <<2>>, <<1, 0>>, <<1, 2>>}

Piece(cells, first, last, cont) ==
    [cells |-> cells, head |-> TRUE, deleted |-> FALSE, first |-> first, last |-> last,
     lastcol_cont |-> cont]

WholeRows == {Piece(<<a, b>>, TRUE, TRUE, FALSE) : a \in Cells, b \in Cells}

(* Rows that are gone or moved, and first pieces of rows that span blocks. *)
Odd == { [Piece(<<<<1>>, <<2>>>>, TRUE, TRUE, FALSE) EXCEPT !.deleted = TRUE],
         [Piece(<<<<1>>, <<2>>>>, TRUE, TRUE, FALSE) EXCEPT !.head = FALSE],
         Piece(<<<<1>>, <<2>>>>, TRUE, FALSE, FALSE) }

FirstPieces == {Piece(<<a>>, TRUE, FALSE, FALSE) : a \in Cells}
               \cup {Piece(<<a, b>>, TRUE, FALSE, TRUE) : a \in {<<1>>, <<2>>}, b \in {<<1>>, <<2>>}}

Exp(l, r, lc, rc, op, char) == [l |-> l, r |-> r, lc |-> lc, rc |-> rc, op |-> op, is_char_type |-> char]

Info(use, where, exps, consts) ==
    [col_cnt |-> 2, use_cols |-> use, use_col_cnt |-> Cardinality({c \in 1 .. 2 : use[c]}),
     all_max_colno |-> IF use[2] THEN 2 ELSE 1, where_max_colno |-> where,
     exps |-> exps, const_vals |-> consts]

FilterSet ==
    {Info(<<TRUE, TRUE>>, 1, <<>>, <<>>),
     Info(<<TRUE, FALSE>>, 1, <<Exp(1, -1, <<>>, <<1>>, "EQUAL", TRUE)>>, <<<<1>>>>),
     Info(<<TRUE, TRUE>>, 1, <<Exp(1, -1, <<>>, <<1>>, "EQUAL", TRUE)>>, <<<<1>>>>),
     Info(<<FALSE, TRUE>>, 2, <<Exp(-1, 2, <<1>>, <<>>, "LT", FALSE)>>, <<<<1>>>>),
     Info(<<TRUE, TRUE>>, 2,
          <<Exp(1, -1, <<>>, <<1>>, "GE", TRUE), Exp(-1, 2, <<1, 2>>, <<>>, "NE", TRUE)>>,
          <<<<1>>, <<1, 2>>>>),
     Info(<<TRUE, TRUE>>, 2,
          <<Exp(1, 2, <<>>, <<>>, "LE", TRUE), Exp(1, -1, <<>>, <<2>>, "NE", FALSE)>>, <<<<2>>>>),
     Info(<<TRUE, TRUE>>, 2, <<Exp(1, 2, <<>>, <<>>, "GT", FALSE)>>, <<>>)}

Pairs(P) == {<<>>} \cup {<<a, b>> : a \in P, b \in P}

(* Rows of full length, and pieces of rows among them, which leave the     *)
(* expression context half filled.                                         *)
MCBlocks == Pairs(WholeRows \cup Odd \cup FirstPieces)
=============================================================================
