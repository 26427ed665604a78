-------------------------- MODULE ScanFilterProofs --------------------------
(***************************************************************************)
(* Proofs about the scan and filter stages of the pipeline, for any number *)
(* of threads, snippets and blocks: until a block has been handed to the   *)
(* projection stage it is in one place, and no block is lost.              *)
(***************************************************************************)
EXTENDS ScanFilter, WellFoundedInduction, TLAPS

(* A set of naturals has a least element.                                  *)
LEMMA Minimum ==
    ASSUME NEW T, T \subseteq Nat, T # {}
    PROVE  \E x \in T : \A y \in T : x <= y
<1>1. PICK x \in T : \A y \in T : ~ (<<y, x>> \in OpToRel(<, Nat))
  BY NatLessThanWellFounded, WFMin, Zenon
<1>2. \A y \in T : <<y, x>> \in Nat \X Nat
  BY <1>1, Zenon
<1>3. x \in T /\ \A y \in T : ~ (y < x)
  BY <1>1, <1>2, Zenon DEF OpToRel
<1> QED
  BY <1>3

(* Induction, for a set.                                                   *)
LEMMA Induction ==
    ASSUME NEW T, 0 \in T, \A n \in Nat : n \in T => n + 1 \in T
    PROVE  Nat \subseteq T
<1> SUFFICES ASSUME Nat \ T # {} PROVE FALSE
  OBVIOUS
<1>1. PICK x \in Nat \ T : \A y \in Nat \ T : x <= y
  BY Minimum, Zenon
<1>2. x # 0 /\ x - 1 \in Nat
  BY <1>1
<1>3. x - 1 \in T
  BY <1>1, <1>2
<1> QED
  BY <1>1, <1>2, <1>3
-----------------------------------------------------------------------------
(* What a scan thread fills and a filter thread makes.                     *)
ResultsInHand == CsdResults(Snippets \cup {NoSnippet}, Rows)

SameBlocks(q, r) ==
    q.snippet = r.snippet /\ q.blocks = r.blocks /\ q.current_block_count = r.current_block_count

(* A row added by the scan changes neither snippet nor blocks.             *)
LEMMA AddScannedType ==
    ASSUME NEW r \in ResultsInHand, NEW row \in Rows
    PROVE  AddScanned(r, row) \in ResultsInHand /\ SameBlocks(AddScanned(r, row), r)
<1>1. /\ Append(r.rows, row) \in Seq(Rows)
      /\ r.data_length + RowLength[row] \in Nat /\ r.scanned_row_count + 1 \in Nat
  BY CsdDataAssumption DEF ResultsInHand, CsdResults
<1>2. ASSUME NEW rows \in Seq(Rows), NEW length \in Nat, NEW count \in Nat,
             NEW q, q = [[r EXCEPT !.rows = rows, !.data_length = length] EXCEPT !.scanned_row_count = count]
      PROVE  q \in ResultsInHand /\ SameBlocks(q, r)
  BY <1>2, Zenon DEF ResultsInHand, CsdResults, SameBlocks
<1>3. [r EXCEPT !.rows = Append(@, row), !.data_length = @ + RowLength[row]].scanned_row_count
         = r.scanned_row_count
  BY DEF ResultsInHand, CsdResults
<1> QED
  BY <1>1, <1>2, <1>3, Zenon DEF AddScanned, AddRow

(* It goes to the end of raw_data.                                         *)
LEMMA AddScannedLength ==
    ASSUME NEW r \in ResultsInHand, NEW row \in Rows
    PROVE  /\ AddScanned(r, row).data_length = r.data_length + RowLength[row]
           /\ AddScanned(r, row).rows = Append(r.rows, row)
<1>1. ASSUME NEW rows, NEW length, NEW count
      PROVE  [[r EXCEPT !.rows = rows, !.data_length = length] EXCEPT !.scanned_row_count = count].data_length
                = length
  BY DEF ResultsInHand, CsdResults
<1>2. ASSUME NEW rows, NEW length, NEW count
      PROVE  [[r EXCEPT !.rows = rows, !.data_length = length] EXCEPT !.scanned_row_count = count].rows = rows
  BY DEF ResultsInHand, CsdResults
<1>3. AddScanned(r, row).data_length = r.data_length + RowLength[row]
  BY <1>1 DEF AddScanned, AddRow
<1>4. AddScanned(r, row).rows = Append(r.rows, row)
  BY <1>2 DEF AddScanned, AddRow
<1> QED
  BY <1>3, <1>4

(* A row that the filter adds or drops changes neither.                    *)
LEMMA AddFilteredType ==
    ASSUME NEW r \in ResultsInHand, NEW row \in Rows
    PROVE  F!AddFiltered(r, row) \in ResultsInHand /\ SameBlocks(F!AddFiltered(r, row), r)
<1>1. /\ Append(r.rows, row) \in Seq(Rows)
      /\ r.data_length + RowLength[row] \in Nat /\ r.filtered_row_count + 1 \in Nat
  BY CsdDataAssumption DEF ResultsInHand, CsdResults
<1>2. ASSUME NEW rows \in Seq(Rows), NEW length \in Nat, NEW count \in Nat,
             NEW q, q = [[r EXCEPT !.rows = rows, !.data_length = length] EXCEPT !.filtered_row_count = count]
      PROVE  q \in ResultsInHand /\ SameBlocks(q, r)
  BY <1>2, Zenon DEF ResultsInHand, CsdResults, SameBlocks
<1>3. [r EXCEPT !.rows = Append(@, row), !.data_length = @ + RowLength[row]].filtered_row_count
         = r.filtered_row_count
  BY DEF ResultsInHand, CsdResults
<1>4. SameBlocks(r, r)
  BY DEF SameBlocks
<1> QED
  BY <1>1, <1>2, <1>3, <1>4, Zenon DEF F!AddFiltered, F!AddRow

(* And makes the result longer by no more than the row.                    *)
LEMMA AddFilteredLength ==
    ASSUME NEW r \in ResultsInHand, NEW row \in Rows
    PROVE  \/ F!AddFiltered(r, row).data_length = r.data_length + RowLength[row]
           \/ F!AddFiltered(r, row).data_length = r.data_length
<1>1. ASSUME NEW rows, NEW length, NEW count
      PROVE  [[r EXCEPT !.rows = rows, !.data_length = length] EXCEPT !.filtered_row_count = count].data_length
                = length
  BY DEF ResultsInHand, CsdResults
<1>2. CASE row \in Passing
  BY <1>1, <1>2 DEF F!AddFiltered, F!AddRow
<1>3. CASE row \notin Passing
  BY <1>3 DEF F!AddFiltered
<1> QED
  BY <1>2, <1>3

(* The loop of the scan over the rows of a block.                          *)
LEMMA ScannedSteps ==
    ASSUME NEW r \in ResultsInHand, NEW rows \in Seq(Rows)
    PROVE  \E f : /\ Fold(AddScanned, r, rows) = f[Len(rows)] /\ f[0] = r
                  /\ \A n \in 0 .. Len(rows) : f[n] \in ResultsInHand /\ SameBlocks(f[n], r)
                  /\ \A n \in Nat : n + 1 <= Len(rows) => f[n + 1] = AddScanned(f[n], rows[n + 1])
<1> DEFINE is(f, m) == f = [n \in 0 .. m |-> IF n = 0 THEN r ELSE AddScanned(f[n - 1], rows[n])]
<1>1. ASSUME NEW m \in Nat, NEW f, is(f, m) PROVE \E g : is(g, m + 1)
  <2> DEFINE g == [n \in 0 .. m + 1 |-> IF n = m + 1 THEN AddScanned(f[m], rows[m + 1]) ELSE f[n]]
  <2>1. ASSUME NEW n \in 0 .. m + 1 PROVE g[n] = IF n = 0 THEN r ELSE AddScanned(g[n - 1], rows[n])
    <3>1. CASE n = m + 1
      BY <3>1
    <3>2. CASE n \in 0 .. m
      <4>1. g[n] = f[n] /\ (n # 0 => g[n - 1] = f[n - 1])
        BY <3>2
      <4>2. f[n] = IF n = 0 THEN r ELSE AddScanned(f[n - 1], rows[n])
        BY <1>1, <3>2
      <4> QED
        BY <4>1, <4>2
    <3> QED
      BY <3>1, <3>2
  <2>2. is(g, m + 1)
    BY <2>1
  <2> QED
    BY <2>2, Zenon
<1>2. ASSUME NEW m \in Nat PROVE \E f : is(f, m)
  <2> DEFINE T == {n \in Nat : \E f : is(f, n)}
  <2>1. 0 \in T
    <3>1. is([n \in 0 .. 0 |-> r], 0)
      OBVIOUS
    <3> QED
      BY <3>1, Zenon
  <2>2. ASSUME NEW n \in Nat, n \in T PROVE n + 1 \in T
    <3>1. PICK f : is(f, n)
      BY <2>2
    <3>2. \E g : is(g, n + 1)
      BY <1>1, <3>1, Zenon
    <3>3. n + 1 \in Nat
      OBVIOUS
    <3> QED
      BY <3>2, <3>3, Zenon
  <2> HIDE DEF T
  <2>3. m \in T
    BY <2>1, <2>2, Induction
  <2> QED
    BY <2>3 DEF T
<1>3. PICK f : is(f, Len(rows)) /\ Fold(AddScanned, r, rows) = f[Len(rows)]
  <2>1. Fold(AddScanned, r, rows) = (CHOOSE f : is(f, Len(rows)))[Len(rows)]
    BY DEF Fold
  <2>2. Len(rows) \in Nat
    OBVIOUS
  <2> QED
    BY <1>2, <2>1, <2>2, Zenon
<1> DEFINE T == {n \in Nat : n <= Len(rows) => f[n] \in ResultsInHand /\ SameBlocks(f[n], r)}
<1>4. 0 \in T
  BY <1>3 DEF SameBlocks
<1>5. ASSUME NEW n \in Nat, n \in T PROVE n + 1 \in T
  <2> SUFFICES ASSUME n + 1 <= Len(rows) PROVE f[n + 1] \in ResultsInHand /\ SameBlocks(f[n + 1], r)
    OBVIOUS
  <2>1. f[n] \in ResultsInHand /\ SameBlocks(f[n], r)
    BY <1>5
  <2>2. f[n + 1] = AddScanned(f[n], rows[n + 1]) /\ rows[n + 1] \in Rows
    BY <1>3
  <2> QED
    BY <2>1, <2>2, AddScannedType DEF SameBlocks
<1> HIDE DEF T
<1>6. 0 .. Len(rows) \subseteq T
  BY <1>4, <1>5, Induction
<1>7. \A n \in 0 .. Len(rows) : f[n] \in ResultsInHand /\ SameBlocks(f[n], r)
  BY <1>6 DEF T
<1>8. f[0] = r /\ \A n \in Nat : n + 1 <= Len(rows) => f[n + 1] = AddScanned(f[n], rows[n + 1])
  BY <1>3
<1> QED
  BY <1>3, <1>7, <1>8, Zenon

(* All rows of a block added by the scan: neither snippet nor blocks       *)
(* change.                                                                 *)
LEMMA RowsScanned ==
    ASSUME NEW r \in ResultsInHand, NEW rows \in Seq(Rows)
    PROVE  /\ Fold(AddScanned, r, rows) \in ResultsInHand
           /\ SameBlocks(Fold(AddScanned, r, rows), r)
<1>1. Len(rows) \in 0 .. Len(rows)
  OBVIOUS
<1> QED
  BY <1>1, ScannedSteps, Zenon

(* The empty result that filtering starts from has the blocks of its       *)
(* input.                                                                  *)
LEMMA FilterStart ==
    ASSUME NEW in \in ResultsInHand
    PROVE  /\ F!CsdResult(in.snippet, in.scanned_row_count, 0, in.current_block_count, in.blocks)
                 \in ResultsInHand
           /\ SameBlocks(F!CsdResult(in.snippet, in.scanned_row_count, 0, in.current_block_count, in.blocks), in)
           /\ in.rows \in Seq(Rows)
BY SMTT(30) DEF F!CsdResult, ResultsInHand, CsdResults, SameBlocks

(* The loop of the filter over the rows of a result.                       *)
LEMMA FilteredSteps ==
    ASSUME NEW r \in ResultsInHand, NEW rows \in Seq(Rows)
    PROVE  \E f : /\ F!Fold(F!AddFiltered, r, rows) = f[Len(rows)] /\ f[0] = r
                  /\ \A n \in 0 .. Len(rows) : f[n] \in ResultsInHand /\ SameBlocks(f[n], r)
                  /\ \A n \in Nat : n + 1 <= Len(rows) => f[n + 1] = F!AddFiltered(f[n], rows[n + 1])
<1> DEFINE is(f, m) == f = [n \in 0 .. m |-> IF n = 0 THEN r ELSE F!AddFiltered(f[n - 1], rows[n])]
<1>1. ASSUME NEW m \in Nat, NEW f, is(f, m) PROVE \E g : is(g, m + 1)
  <2> DEFINE g == [n \in 0 .. m + 1 |-> IF n = m + 1 THEN F!AddFiltered(f[m], rows[m + 1]) ELSE f[n]]
  <2>1. ASSUME NEW n \in 0 .. m + 1 PROVE g[n] = IF n = 0 THEN r ELSE F!AddFiltered(g[n - 1], rows[n])
    <3>1. CASE n = m + 1
      BY <3>1
    <3>2. CASE n \in 0 .. m
      <4>1. g[n] = f[n] /\ (n # 0 => g[n - 1] = f[n - 1])
        BY <3>2
      <4>2. f[n] = IF n = 0 THEN r ELSE F!AddFiltered(f[n - 1], rows[n])
        BY <1>1, <3>2
      <4> QED
        BY <4>1, <4>2
    <3> QED
      BY <3>1, <3>2
  <2>2. is(g, m + 1)
    BY <2>1
  <2> QED
    BY <2>2, Zenon
<1>2. ASSUME NEW m \in Nat PROVE \E f : is(f, m)
  <2> DEFINE T == {n \in Nat : \E f : is(f, n)}
  <2>1. 0 \in T
    <3>1. is([n \in 0 .. 0 |-> r], 0)
      OBVIOUS
    <3> QED
      BY <3>1, Zenon
  <2>2. ASSUME NEW n \in Nat, n \in T PROVE n + 1 \in T
    <3>1. PICK f : is(f, n)
      BY <2>2
    <3>2. \E g : is(g, n + 1)
      BY <1>1, <3>1, Zenon
    <3>3. n + 1 \in Nat
      OBVIOUS
    <3> QED
      BY <3>2, <3>3, Zenon
  <2> HIDE DEF T
  <2>3. m \in T
    BY <2>1, <2>2, Induction
  <2> QED
    BY <2>3 DEF T
<1>3. PICK f : is(f, Len(rows)) /\ F!Fold(F!AddFiltered, r, rows) = f[Len(rows)]
  <2>1. F!Fold(F!AddFiltered, r, rows) = (CHOOSE f : is(f, Len(rows)))[Len(rows)]
    BY DEF F!Fold
  <2>2. Len(rows) \in Nat
    OBVIOUS
  <2> QED
    BY <1>2, <2>1, <2>2, Zenon
<1> DEFINE T == {n \in Nat : n <= Len(rows) => f[n] \in ResultsInHand /\ SameBlocks(f[n], r)}
<1>4. 0 \in T
  BY <1>3 DEF SameBlocks
<1>5. ASSUME NEW n \in Nat, n \in T PROVE n + 1 \in T
  <2> SUFFICES ASSUME n + 1 <= Len(rows) PROVE f[n + 1] \in ResultsInHand /\ SameBlocks(f[n + 1], r)
    OBVIOUS
  <2>1. f[n] \in ResultsInHand /\ SameBlocks(f[n], r)
    BY <1>5
  <2>2. f[n + 1] = F!AddFiltered(f[n], rows[n + 1]) /\ rows[n + 1] \in Rows
    BY <1>3
  <2> QED
    BY <2>1, <2>2, AddFilteredType DEF SameBlocks
<1> HIDE DEF T
<1>6. 0 .. Len(rows) \subseteq T
  BY <1>4, <1>5, Induction
<1>7. \A n \in 0 .. Len(rows) : f[n] \in ResultsInHand /\ SameBlocks(f[n], r)
  BY <1>6 DEF T
<1>8. f[0] = r /\ \A n \in Nat : n + 1 <= Len(rows) => f[n + 1] = F!AddFiltered(f[n], rows[n + 1])
  BY <1>3
<1> QED
  BY <1>3, <1>7, <1>8, Zenon

(* Filtering rows keeps the type of a result and its blocks.               *)
LEMMA RowsFiltered ==
    ASSUME NEW r \in ResultsInHand, NEW rows \in Seq(Rows)
    PROVE  /\ F!Fold(F!AddFiltered, r, rows) \in ResultsInHand
           /\ SameBlocks(F!Fold(F!AddFiltered, r, rows), r)
<1>1. Len(rows) \in 0 .. Len(rows)
  OBVIOUS
<1> QED
  BY <1>1, FilteredSteps, Zenon

-----------------------------------------------------------------------------
(* The partial sums of the row lengths.                                    *)
AreSums(f, rows) ==
    f[0] = 0 /\ \A n \in Nat : n + 1 <= Len(rows) => f[n + 1] = f[n] + RowLength[rows[n + 1]]

(* Bytes adds them up.                                                     *)
LEMMA BytesAreSums ==
    ASSUME NEW rows \in Seq(Rows)
    PROVE  \E f : AreSums(f, rows) /\ Bytes(rows) = f[Len(rows)]
<1> DEFINE is(f, m) == f = [n \in 0 .. m |-> IF n = 0 THEN 0 ELSE AddLength(f[n - 1], rows[n])]
<1>1. ASSUME NEW m \in Nat, NEW f, is(f, m) PROVE \E g : is(g, m + 1)
  <2> DEFINE g == [n \in 0 .. m + 1 |-> IF n = m + 1 THEN AddLength(f[m], rows[m + 1]) ELSE f[n]]
  <2>1. ASSUME NEW n \in 0 .. m + 1 PROVE g[n] = IF n = 0 THEN 0 ELSE AddLength(g[n - 1], rows[n])
    <3>1. CASE n = m + 1
      BY <3>1
    <3>2. CASE n \in 0 .. m
      <4>1. g[n] = f[n] /\ (n # 0 => g[n - 1] = f[n - 1])
        BY <3>2
      <4>2. f[n] = IF n = 0 THEN 0 ELSE AddLength(f[n - 1], rows[n])
        BY <1>1, <3>2
      <4> QED
        BY <4>1, <4>2
    <3> QED
      BY <3>1, <3>2
  <2>2. is(g, m + 1)
    BY <2>1
  <2> QED
    BY <2>2, Zenon
<1>2. ASSUME NEW m \in Nat PROVE \E f : is(f, m)
  <2> DEFINE T == {n \in Nat : \E f : is(f, n)}
  <2>1. 0 \in T
    <3>1. is([n \in 0 .. 0 |-> 0], 0)
      OBVIOUS
    <3> QED
      BY <3>1, Zenon
  <2>2. ASSUME NEW n \in Nat, n \in T PROVE n + 1 \in T
    <3>1. PICK f : is(f, n)
      BY <2>2
    <3>2. \E g : is(g, n + 1)
      BY <1>1, <3>1, Zenon
    <3>3. n + 1 \in Nat
      OBVIOUS
    <3> QED
      BY <3>2, <3>3, Zenon
  <2> HIDE DEF T
  <2>3. m \in T
    BY <2>1, <2>2, Induction
  <2> QED
    BY <2>3 DEF T
<1>3. PICK f : is(f, Len(rows)) /\ Bytes(rows) = f[Len(rows)]
  <2>1. Bytes(rows) = (CHOOSE f : is(f, Len(rows)))[Len(rows)]
    BY DEF Bytes, Fold
  <2>2. Len(rows) \in Nat
    OBVIOUS
  <2> QED
    BY <1>2, <2>1, <2>2, Zenon
<1>4. AreSums(f, rows)
  BY <1>3 DEF AreSums, AddLength
<1> QED
  BY <1>3, <1>4, Zenon

(* They are numbers.                                                       *)
LEMMA SumsAreNat ==
    ASSUME NEW rows \in Seq(Rows), NEW f, AreSums(f, rows), NEW n \in 0 .. Len(rows)
    PROVE  f[n] \in Nat
<1> DEFINE T == {m \in Nat : m <= Len(rows) => f[m] \in Nat}
<1>1. 0 \in T
  BY DEF AreSums
<1>2. ASSUME NEW m \in Nat, m \in T PROVE m + 1 \in T
  <2> SUFFICES ASSUME m + 1 <= Len(rows) PROVE f[m + 1] \in Nat
    OBVIOUS
  <2>1. f[m] \in Nat /\ f[m + 1] = f[m] + RowLength[rows[m + 1]]
    BY <1>2 DEF AreSums
  <2>2. RowLength[rows[m + 1]] \in Nat
    BY CsdDataAssumption
  <2> QED
    BY <2>1, <2>2
<1> HIDE DEF T
<1>3. n \in T
  BY <1>1, <1>2, Induction
<1> QED
  BY <1>3 DEF T

(* A row more.                                                             *)
LEMMA BytesAppend ==
    ASSUME NEW rows \in Seq(Rows), NEW row \in Rows
    PROVE  Bytes(rows) \in Nat /\ Bytes(Append(rows, row)) = Bytes(rows) + RowLength[row]
<1>1. PICK f : AreSums(f, rows) /\ Bytes(rows) = f[Len(rows)]
  BY BytesAreSums
<1>2. Append(rows, row) \in Seq(Rows)
  OBVIOUS
<1>3. PICK g : AreSums(g, Append(rows, row)) /\ Bytes(Append(rows, row)) = g[Len(Append(rows, row))]
  BY <1>2, BytesAreSums, Zenon
<1> DEFINE T == {m \in Nat : m <= Len(rows) => f[m] = g[m]}
<1>4. 0 \in T
  BY <1>1, <1>3 DEF AreSums
<1>5. ASSUME NEW m \in Nat, m \in T PROVE m + 1 \in T
  <2> SUFFICES ASSUME m + 1 <= Len(rows) PROVE f[m + 1] = g[m + 1]
    OBVIOUS
  <2>1. f[m] = g[m] /\ m + 1 <= Len(Append(rows, row)) /\ Append(rows, row)[m + 1] = rows[m + 1]
    BY <1>5
  <2>2. /\ f[m + 1] = f[m] + RowLength[rows[m + 1]]
        /\ g[m + 1] = g[m] + RowLength[Append(rows, row)[m + 1]]
    BY <1>1, <1>3, <2>1 DEF AreSums
  <2> QED
    BY <2>1, <2>2, Zenon
<1> HIDE DEF T
<1>6. Len(rows) \in Nat /\ Len(rows) \in T
  <2>1. Len(rows) \in Nat
    OBVIOUS
  <2> QED
    BY <1>4, <1>5, <2>1, Induction
<1>7. f[Len(rows)] = g[Len(rows)]
  BY <1>6 DEF T
<1>8. g[Len(rows) + 1] = g[Len(rows)] + RowLength[Append(rows, row)[Len(rows) + 1]]
  BY <1>3, <1>6 DEF AreSums
<1>9. Append(rows, row)[Len(rows) + 1] = row /\ Len(Append(rows, row)) = Len(rows) + 1
  OBVIOUS
<1>10. f[Len(rows)] \in Nat
  BY <1>1, <1>6, SumsAreNat
<1> QED
  BY <1>1, <1>3, <1>7, <1>8, <1>9, <1>10, Zenon

(* No rows.                                                                *)
LEMMA BytesOfNone == Bytes(<<>>) = 0
<1>1. PICK f : AreSums(f, <<>>) /\ Bytes(<<>>) = f[Len(<<>>)]
  <2>1. <<>> \in Seq(Rows)
    OBVIOUS
  <2> QED
    BY <2>1, BytesAreSums, Zenon
<1> QED
  BY <1>1 DEF AreSums

(* The rows of a block make a result longer by what they take.             *)
LEMMA ScannedBytes ==
    ASSUME NEW r \in ResultsInHand, NEW rows \in Seq(Rows), r.data_length = Bytes(r.rows),
           NEW q, q = Fold(AddScanned, r, rows)
    PROVE  /\ Bytes(rows) \in Nat /\ q.data_length = r.data_length + Bytes(rows)
           /\ q.data_length = Bytes(q.rows)
<1>1. PICK f : /\ Fold(AddScanned, r, rows) = f[Len(rows)] /\ f[0] = r
               /\ \A n \in 0 .. Len(rows) : f[n] \in ResultsInHand /\ SameBlocks(f[n], r)
               /\ \A n \in Nat : n + 1 <= Len(rows) => f[n + 1] = AddScanned(f[n], rows[n + 1])
  BY ScannedSteps, Zenon
<1>2. PICK g : AreSums(g, rows) /\ Bytes(rows) = g[Len(rows)]
  BY BytesAreSums
<1> DEFINE T == {m \in Nat : m <= Len(rows) => /\ f[m].data_length = r.data_length + g[m]
                                               /\ f[m].data_length = Bytes(f[m].rows)}
<1>3. r.data_length \in Nat
  BY DEF ResultsInHand, CsdResults
<1>4. 0 \in T
  BY <1>1, <1>2, <1>3 DEF AreSums
<1>5. ASSUME NEW m \in Nat, m \in T PROVE m + 1 \in T
  <2> SUFFICES ASSUME m + 1 <= Len(rows)
               PROVE  /\ f[m + 1].data_length = r.data_length + g[m + 1]
                      /\ f[m + 1].data_length = Bytes(f[m + 1].rows)
    OBVIOUS
  <2>1. PICK a, b, row : a = f[m] /\ b = f[m + 1] /\ row = rows[m + 1]
    BY Zenon
  <2>2. m \in 0 .. Len(rows) /\ row \in Rows /\ a \in ResultsInHand
    BY <1>1, <2>1
  <2>3. b = AddScanned(a, row)
    BY <1>1, <2>1, Zenon
  <2>4. b.data_length = a.data_length + RowLength[row] /\ b.rows = Append(a.rows, row)
    BY <2>2, <2>3, AddScannedLength, Zenon
  <2>5. a.data_length = r.data_length + g[m] /\ a.data_length = Bytes(a.rows)
    BY <1>5, <2>1, <2>2
  <2>6. a.rows \in Seq(Rows)
    BY <2>2 DEF ResultsInHand, CsdResults
  <2>7. Bytes(b.rows) = Bytes(a.rows) + RowLength[row]
    BY <2>2, <2>4, <2>6, BytesAppend, Zenon
  <2>8. g[m + 1] = g[m] + RowLength[row] /\ g[m] \in Nat /\ RowLength[row] \in Nat
    BY <1>2, <2>1, <2>2, SumsAreNat, CsdDataAssumption, Zenon DEF AreSums
  <2>10. b.data_length = r.data_length + g[m + 1]
    BY <1>3, <2>4, <2>5, <2>8
  <2>11. b.data_length = Bytes(b.rows)
    BY <2>4, <2>5, <2>7, Zenon
  <2> QED
    BY <2>1, <2>10, <2>11, Zenon
<1> HIDE DEF T
<1>6. Len(rows) \in Nat /\ Len(rows) \in T /\ g[Len(rows)] \in Nat
  <2>1. Len(rows) \in Nat /\ Len(rows) \in 0 .. Len(rows)
    OBVIOUS
  <2>2. Len(rows) \in T
    BY <1>4, <1>5, <2>1, Induction
  <2> QED
    BY <1>2, <2>1, <2>2, SumsAreNat, Zenon
<1>7. f[Len(rows)].data_length = r.data_length + g[Len(rows)] /\ f[Len(rows)].data_length = Bytes(f[Len(rows)].rows)
  BY <1>6 DEF T
<1> QED
  BY <1>1, <1>2, <1>6, <1>7, Zenon

(* The filter makes no result longer than the rows of its input.           *)
LEMMA FilteredBytes ==
    ASSUME NEW r \in ResultsInHand, NEW rows \in Seq(Rows), r.data_length = 0,
           NEW q, q = F!Fold(F!AddFiltered, r, rows)
    PROVE  q.data_length <= Bytes(rows)
<1>1. PICK f : /\ F!Fold(F!AddFiltered, r, rows) = f[Len(rows)] /\ f[0] = r
               /\ \A n \in 0 .. Len(rows) : f[n] \in ResultsInHand /\ SameBlocks(f[n], r)
               /\ \A n \in Nat : n + 1 <= Len(rows) => f[n + 1] = F!AddFiltered(f[n], rows[n + 1])
  BY FilteredSteps, Zenon
<1>2. PICK g : AreSums(g, rows) /\ Bytes(rows) = g[Len(rows)]
  BY BytesAreSums
<1> DEFINE T == {m \in Nat : m <= Len(rows) => f[m].data_length <= g[m]}
<1>3. 0 \in T
  BY <1>1, <1>2 DEF AreSums
<1>4. ASSUME NEW m \in Nat, m \in T PROVE m + 1 \in T
  <2> SUFFICES ASSUME m + 1 <= Len(rows) PROVE f[m + 1].data_length <= g[m + 1]
    OBVIOUS
  <2>1. PICK a, b, row : a = f[m] /\ b = f[m + 1] /\ row = rows[m + 1]
    BY Zenon
  <2>2. m \in 0 .. Len(rows) /\ row \in Rows /\ a \in ResultsInHand
    BY <1>1, <2>1
  <2>3. b = F!AddFiltered(a, row)
    BY <1>1, <2>1, Zenon
  <2>4. b.data_length = a.data_length + RowLength[row] \/ b.data_length = a.data_length
    BY <2>2, <2>3, AddFilteredLength, Zenon
  <2>5. a.data_length <= g[m] /\ a.data_length \in Nat
    BY <1>4, <2>1, <2>2 DEF ResultsInHand, CsdResults
  <2>6. g[m + 1] = g[m] + RowLength[row] /\ g[m] \in Nat /\ RowLength[row] \in Nat
    BY <1>2, <2>1, <2>2, SumsAreNat, CsdDataAssumption, Zenon DEF AreSums
  <2>7. b.data_length <= g[m + 1]
    BY <2>4, <2>5, <2>6
  <2> QED
    BY <2>1, <2>7, Zenon
<1> HIDE DEF T
<1>5. Len(rows) \in Nat /\ Len(rows) \in T
  <2>1. Len(rows) \in Nat
    OBVIOUS
  <2> QED
    BY <1>3, <1>4, <2>1, Induction
<1>6. f[Len(rows)].data_length <= g[Len(rows)]
  BY <1>5 DEF T
<1> QED
  BY <1>1, <1>2, <1>6, Zenon
-----------------------------------------------------------------------------
Joined(head, tail) == head \o tail

(* The rows of the files, one after the other, are rows.                   *)
LEMMA FilesConcat ==
    ASSUME NEW files \in Seq(Seq(Rows))
    PROVE  Concat(files) \in Seq(Rows)
<1> DEFINE is(f, m) == f = [n \in 0 .. m |-> IF n = 0 THEN <<>> ELSE Joined(f[n - 1], files[n])]
<1>1. ASSUME NEW m \in Nat, NEW f, is(f, m) PROVE \E g : is(g, m + 1)
  <2> DEFINE g == [n \in 0 .. m + 1 |-> IF n = m + 1 THEN Joined(f[m], files[m + 1]) ELSE f[n]]
  <2>1. ASSUME NEW n \in 0 .. m + 1 PROVE g[n] = IF n = 0 THEN <<>> ELSE Joined(g[n - 1], files[n])
    <3>1. CASE n = m + 1
      BY <3>1
    <3>2. CASE n \in 0 .. m
      <4>1. g[n] = f[n] /\ (n # 0 => g[n - 1] = f[n - 1])
        BY <3>2
      <4>2. f[n] = IF n = 0 THEN <<>> ELSE Joined(f[n - 1], files[n])
        BY <1>1, <3>2
      <4> QED
        BY <4>1, <4>2
    <3> QED
      BY <3>1, <3>2
  <2>2. is(g, m + 1)
    BY <2>1
  <2> QED
    BY <2>2, Zenon
<1>2. ASSUME NEW m \in Nat PROVE \E f : is(f, m)
  <2> DEFINE T == {n \in Nat : \E f : is(f, n)}
  <2>1. 0 \in T
    <3>1. is([n \in 0 .. 0 |-> <<>>], 0)
      OBVIOUS
    <3> QED
      BY <3>1, Zenon
  <2>2. ASSUME NEW n \in Nat, n \in T PROVE n + 1 \in T
    <3>1. PICK f : is(f, n)
      BY <2>2
    <3>2. \E g : is(g, n + 1)
      BY <1>1, <3>1, Zenon
    <3>3. n + 1 \in Nat
      OBVIOUS
    <3> QED
      BY <3>2, <3>3, Zenon
  <2> HIDE DEF T
  <2>3. m \in T
    BY <2>1, <2>2, Induction, Zenon
  <2> QED
    BY <2>3 DEF T
<1>3. PICK f : is(f, Len(files)) /\ Concat(files) = f[Len(files)]
  <2>1. Concat(files) = (CHOOSE f : is(f, Len(files)))[Len(files)]
    BY DEF Concat, Fold, Joined
  <2>2. Len(files) \in Nat
    OBVIOUS
  <2> QED
    BY <1>2, <2>1, <2>2, Zenon
<1> DEFINE T == {n \in Nat : n <= Len(files) => f[n] \in Seq(Rows)}
<1>4. 0 \in T
  BY <1>3
<1>5. ASSUME NEW n \in Nat, n \in T PROVE n + 1 \in T
  <2> SUFFICES ASSUME n + 1 <= Len(files) PROVE f[n + 1] \in Seq(Rows)
    OBVIOUS
  <2>1. f[n] \in Seq(Rows)
    BY <1>5
  <2>2. f[n + 1] = Joined(f[n], files[n + 1]) /\ files[n + 1] \in Seq(Rows)
    BY <1>3
  <2> QED
    BY <2>1, <2>2 DEF Joined
<1> HIDE DEF T
<1>6. Len(files) \in T
  <2>1. Len(files) \in Nat
    OBVIOUS
  <2> QED
    BY <1>4, <1>5, <2>1, Induction, Zenon
<1> QED
  BY <1>3, <1>6 DEF T

(* The account of an SST file scan, row by row.                            *)
LEMMA AccountStep ==
    ASSUME NEW s, s.sst_list \in Seq(Seq(Rows)), NEW rows, rows = Concat(s.sst_list)
    PROVE  /\ rows \in Seq(Rows) /\ FileAccount(s)[0] = [length |-> 0, left |-> s.csd_block_count]
           /\ \A i \in 1 .. Len(rows) : FileAccount(s)[i] = NextAccount(FileAccount(s)[i - 1], rows[i])
<1> DEFINE base == [length |-> 0, left |-> s.csd_block_count]
<1> DEFINE is(f, m) == f = [n \in 0 .. m |-> IF n = 0 THEN base ELSE NextAccount(f[n - 1], rows[n])]
<1> HIDE DEF base
<1>1. ASSUME NEW m \in Nat, NEW f, is(f, m) PROVE \E g : is(g, m + 1)
  <2> DEFINE g == [n \in 0 .. m + 1 |-> IF n = m + 1 THEN NextAccount(f[m], rows[m + 1]) ELSE f[n]]
  <2>1. ASSUME NEW n \in 0 .. m + 1 PROVE g[n] = IF n = 0 THEN base ELSE NextAccount(g[n - 1], rows[n])
    <3>1. CASE n = m + 1
      BY <3>1
    <3>2. CASE n \in 0 .. m
      <4>1. g[n] = f[n] /\ (n # 0 => g[n - 1] = f[n - 1])
        BY <3>2
      <4>2. f[n] = IF n = 0 THEN base ELSE NextAccount(f[n - 1], rows[n])
        BY <1>1, <3>2
      <4> QED
        BY <4>1, <4>2
    <3> QED
      BY <3>1, <3>2
  <2>2. is(g, m + 1)
    BY <2>1
  <2> QED
    BY <2>2, Zenon
<1>2. ASSUME NEW m \in Nat PROVE \E f : is(f, m)
  <2> DEFINE T == {n \in Nat : \E f : is(f, n)}
  <2>1. 0 \in T
    <3>1. is([n \in 0 .. 0 |-> base], 0)
      OBVIOUS
    <3> QED
      BY <3>1, Zenon
  <2>2. ASSUME NEW n \in Nat, n \in T PROVE n + 1 \in T
    <3>1. PICK f : is(f, n)
      BY <2>2, Zenon
    <3>2. \E g : is(g, n + 1)
      BY <1>1, <3>1, Zenon
    <3>3. n + 1 \in Nat
      OBVIOUS
    <3> QED
      BY <3>2, <3>3, Zenon
  <2> HIDE DEF T
  <2>3. m \in T
    BY <2>1, <2>2, Induction
  <2> QED
    BY <2>3, Zenon DEF T
<1>3. rows \in Seq(Rows)
  BY FilesConcat, Zenon
<1>4. PICK f : is(f, Len(rows)) /\ FileAccount(s) = f
  <2>1. FileAccount(s) = (CHOOSE f : is(f, Len(rows)))
    BY DEF FileAccount, base
  <2>2. Len(rows) \in Nat
    BY <1>3
  <2> QED
    BY <1>2, <2>1, <2>2, Zenon
<1>5. f[0] = base
  BY <1>3, <1>4
<1>6. \A i \in 1 .. Len(rows) : f[i] = NextAccount(f[i - 1], rows[i])
  <2>1. \A i \in 1 .. Len(rows) : i \in 0 .. Len(rows) /\ i # 0
    BY <1>3
  <2>2. \A i \in 0 .. Len(rows) : f[i] = IF i = 0 THEN base ELSE NextAccount(f[i - 1], rows[i])
    BY <1>4, Zenon
  <2> QED
    BY <2>1, <2>2, Zenon
<1> QED
  BY <1>3, <1>4, <1>5, <1>6, Zenon DEF base
-----------------------------------------------------------------------------
(* What a push and a pop make of the elements of a queue.                  *)
LEMMA QueuePush ==
    ASSUME NEW X, NEW q \in Seq(X), NEW x \in X
    PROVE  /\ Append(q, x) \in Seq(X)
           /\ Elements(Append(q, x)) = Elements(q) \cup {x}
           /\ Distinct(q) /\ x \notin Elements(q) => Distinct(Append(q, x))
           /\ Len(Append(q, x)) > Len(q) /\ Append(q, x)[Len(Append(q, x))] = x
<1>1. /\ Append(q, x) \in Seq(X) /\ Len(Append(q, x)) = Len(q) + 1 /\ Len(q) \in Nat
      /\ \A i \in 1 .. Len(q) + 1 : Append(q, x)[i] = IF i <= Len(q) THEN q[i] ELSE x
      /\ DOMAIN q = 1 .. Len(q) /\ DOMAIN Append(q, x) = 1 .. Len(q) + 1
  OBVIOUS
<1>2. Elements(Append(q, x)) = Elements(q) \cup {x}
  <2>1. \A y \in Elements(Append(q, x)) : y \in Elements(q) \cup {x}
    BY <1>1 DEF Elements
  <2>2. \A y \in Elements(q) : y \in Elements(Append(q, x))
    <3> SUFFICES ASSUME NEW i \in DOMAIN q PROVE q[i] \in Elements(Append(q, x))
      BY DEF Elements
    <3>1. i \in DOMAIN Append(q, x) /\ Append(q, x)[i] = q[i]
      BY <1>1
    <3> QED
      BY <3>1 DEF Elements
  <2>3. x \in Elements(Append(q, x))
    <3>1. Len(q) + 1 \in DOMAIN Append(q, x) /\ Append(q, x)[Len(q) + 1] = x
      BY <1>1
    <3> QED
      BY <3>1 DEF Elements
  <2> QED
    BY <2>1, <2>2, <2>3
<1>3. ASSUME Distinct(q), x \notin Elements(q) PROVE Distinct(Append(q, x))
  <2>1. \A i \in DOMAIN q : q[i] # x
    BY <1>3 DEF Elements
  <2> QED
    BY <1>1, <1>3, <2>1 DEF Distinct
<1> QED
  BY <1>1, <1>2, <1>3

(* wait_and_pop takes the head of a queue: the rest is what it held        *)
(* without the head.                                                       *)
LEMMA QueuePop ==
    ASSUME NEW X, NEW q \in Seq(X), q # <<>>
    PROVE  /\ Head(q) \in X /\ Tail(q) \in Seq(X)
           /\ Elements(q) = Elements(Tail(q)) \cup {Head(q)}
           /\ Distinct(q) => Distinct(Tail(q)) /\ Head(q) \notin Elements(Tail(q))
<1>1. /\ Tail(q) \in Seq(X) /\ Len(Tail(q)) = Len(q) - 1 /\ Len(q) \in Nat \ {0}
      /\ \A i \in 1 .. Len(q) - 1 : Tail(q)[i] = q[i + 1]
      /\ DOMAIN q = 1 .. Len(q) /\ DOMAIN Tail(q) = 1 .. Len(q) - 1
      /\ Head(q) = q[1] /\ Head(q) \in X
  OBVIOUS
<1>2. Elements(q) = Elements(Tail(q)) \cup {Head(q)}
  <2>1. ASSUME NEW i \in DOMAIN q PROVE q[i] \in Elements(Tail(q)) \cup {Head(q)}
    <3>1. CASE i = 1
      BY <1>1, <3>1
    <3>2. CASE i # 1
      <4>1. i - 1 \in DOMAIN Tail(q) /\ Tail(q)[i - 1] = q[i]
        BY <1>1, <3>2
      <4> QED
        BY <4>1 DEF Elements
    <3> QED
      BY <3>1, <3>2
  <2>2. ASSUME NEW i \in DOMAIN Tail(q) PROVE Tail(q)[i] \in Elements(q)
    <3>1. i + 1 \in DOMAIN q /\ Tail(q)[i] = q[i + 1]
      BY <1>1
    <3> QED
      BY <3>1 DEF Elements
  <2>3. Head(q) \in Elements(q)
    <3>1. 1 \in DOMAIN q /\ q[1] = Head(q)
      BY <1>1
    <3> QED
      BY <3>1 DEF Elements
  <2>4. Elements(q) \subseteq Elements(Tail(q)) \cup {Head(q)}
    BY <2>1 DEF Elements
  <2>5. Elements(Tail(q)) \subseteq Elements(q)
    BY <2>2 DEF Elements
  <2> QED
    BY <2>3, <2>4, <2>5
<1>3. ASSUME Distinct(q) PROVE Distinct(Tail(q)) /\ Head(q) \notin Elements(Tail(q))
  <2>1. \A i \in DOMAIN Tail(q) : i + 1 \in DOMAIN q /\ i + 1 # 1 /\ Tail(q)[i] = q[i + 1]
    BY <1>1
  <2>2. Head(q) \notin Elements(Tail(q))
    BY <1>1, <1>3, <2>1 DEF Distinct, Elements
  <2>3. Distinct(Tail(q))
    BY <1>1, <1>3, <2>1, SMTT(30) DEF Distinct
  <2> QED
    BY <2>2, <2>3
<1> QED
  BY <1>1, <1>2, <1>3
-----------------------------------------------------------------------------
(* Parts of a snippet are intervals of its blocks.                         *)
LEMMA InPart ==
    ASSUME NEW s, NEW i \in Int, NEW j \in Int, NEW b
    PROVE  b \in Part(s, i, j) <=> \E n \in Int : i <= n /\ n <= j /\ b = <<make_map_key(s), n>>
BY DEF Part

(* Consecutive blocks can be split in two parts without a common block.    *)
LEMMA PartSplits ==
    ASSUME NEW s, NEW i \in Int, NEW j \in Int, NEW k \in Int, i <= j + 1, j <= k
    PROVE  /\ Part(s, i, k) = Part(s, i, j) \cup Part(s, j + 1, k)
           /\ Part(s, i, j) \cap Part(s, j + 1, k) = {}
<1>1. \A n \in Int : (i <= n /\ n <= k) <=> ((i <= n /\ n <= j) \/ (j + 1 <= n /\ n <= k))
  OBVIOUS
<1>2. \A n \in Int : ~ (n <= j /\ j + 1 <= n)
  OBVIOUS
<1>3. \A m, n : <<make_map_key(s), m>> = <<make_map_key(s), n>> => m = n
  OBVIOUS
<1>4. ASSUME NEW b PROVE b \in Part(s, i, k) <=> b \in Part(s, i, j) \cup Part(s, j + 1, k)
  BY <1>1, InPart
<1>5. ASSUME NEW b, b \in Part(s, i, j), b \in Part(s, j + 1, k) PROVE FALSE
  <2>1. PICK m \in Int : i <= m /\ m <= j /\ b = <<make_map_key(s), m>>
    BY <1>5, InPart
  <2>2. PICK n \in Int : j + 1 <= n /\ n <= k /\ b = <<make_map_key(s), n>>
    BY <1>5, InPart
  <2> QED
    BY <2>1, <2>2, <1>2, <1>3
<1> QED
  BY <1>4, <1>5

(* Block j divides the blocks i to k.                                      *)
Divides(s, i, j, k) ==
    /\ Part(s, i, k) = Part(s, i, j) \cup Part(s, j + 1, k)
    /\ Part(s, i, j) \cap Part(s, j + 1, k) = {}

(* PartSplits, with a name for what it says.                               *)
LEMMA PartDivides ==
    ASSUME NEW s, NEW i \in Int, NEW j \in Int, NEW k \in Int, i <= j + 1, j <= k
    PROVE  Divides(s, i, j, k)
BY PartSplits, Zenon DEF Divides

(* There are no blocks from i to j when j is less than i.                  *)
LEMMA PartEmpty ==
    ASSUME NEW s, NEW i \in Int, NEW j \in Int
    PROVE  Part(s, i, j) = {} <=> j < i
<1>1. CASE j < i
  BY <1>1, InPart
<1>2. CASE ~ (j < i)
  <2>1. <<make_map_key(s), i>> \in Part(s, i, j)
    BY <1>2, InPart
  <2> QED
    BY <1>2, <2>1
<1> QED
  BY <1>1, <1>2

(* Two snippets have no block in common.                                   *)
LEMMA PartsOfTwo ==
    ASSUME RegularSnippets, NEW s \in Snippets, NEW t \in Snippets, s # t,
           NEW i \in Int, NEW j \in Int, NEW k \in Int, NEW l \in Int
    PROVE  Part(s, i, j) \cap Part(t, k, l) = {}
<1>1. make_map_key(s) # make_map_key(t)
  BY DEF RegularSnippets
<1> QED
  BY <1>1, InPart

(* A smaller range of blocks is part of a larger one.                      *)
LEMMA PartWithin ==
    ASSUME NEW s, NEW i \in Int, NEW j \in Int, NEW k \in Int, NEW l \in Int, k <= i, j <= l
    PROVE  Part(s, i, j) \subseteq Part(s, k, l)
<1> SUFFICES ASSUME NEW b \in Part(s, i, j) PROVE b \in Part(s, k, l)
  OBVIOUS
<1>1. PICK n \in Int : i <= n /\ n <= j /\ b = <<make_map_key(s), n>>
  BY InPart
<1>2. k <= n /\ n <= l
  BY <1>1
<1> QED
  BY <1>1, <1>2, InPart
-----------------------------------------------------------------------------
(* Thread t gives up the blocks B, and no other scan thread moves.         *)
GivesUp(t, B) ==
    /\ \A u \in Scanners \ {t} : /\ scan_pc'[u] = scan_pc[u] /\ scan_result'[u] = scan_result[u]
                                 /\ left_block_count'[u] = left_block_count[u]
    /\ B \subseteq Kept(t)
    /\ IF Scanning(t)' THEN scan_result'[t].snippet = scan_result[t].snippet /\ Kept(t)' = Kept(t) \ B
       ELSE Kept(t) = B

(* A result with the blocks B goes to the filter or the projection stage.  *)
Arrives(t, B) ==
    \E r : /\ IsPart(r) /\ r.blocks = B /\ r.snippet = scan_result[t].snippet
           /\ \/ /\ InFilter' = InFilter \cup {r}
                 /\ delivered' = delivered /\ projection_queue_' = projection_queue_
              \/ /\ InFilter' = InFilter
                 /\ delivered' = delivered \cup {r} /\ projection_queue_' = Append(projection_queue_, r)

(* No block goes anywhere.                                                 *)
NoneArrives(B) ==
    B = {} /\ InFilter' = InFilter /\ delivered' = delivered /\ projection_queue_' = projection_queue_

(* Nothing arrives while the queues stay as they are.                      *)
LEMMA NothingArrives ==
    ASSUME TypeOK, Delivers, UNCHANGED <<filter_queue_, projection_queue_>>,
           UNCHANGED <<filter_pc, filter_in>>
    PROVE  /\ NoneArrives({})
           /\ filter_queue_' \in Seq(CsdResults(Snippets, Rows))
           /\ projection_queue_' \in Seq(CsdResults(Snippets, Rows))
           /\ delivered' \in SUBSET CsdResults(Snippets, Rows)
<1>1. /\ projection_queue_ \in Seq(CsdResults(Snippets, Rows)) /\ filter_queue_ \in Seq(CsdResults(Snippets, Rows))
      /\ delivered \in SUBSET CsdResults(Snippets, Rows)
  BY Zenon DEF TypeOK
<1>2. ~ (Len(projection_queue_') > Len(projection_queue_))
  BY <1>1
<1>3. delivered' = delivered
  BY <1>2, Zenon DEF Delivers
<1>4. InFilter' = InFilter
  BY Zenon DEF InFilter, Elements
<1> QED
  BY <1>1, <1>3, <1>4, Zenon DEF NoneArrives

(* A result handed to the projection stage has only blocks that have not   *)
(* been handed to it before.                                               *)
HandsNew ==
    \/ delivered' = delivered /\ projection_queue_' = projection_queue_
    \/ \E r : /\ r.blocks \cap Handed = {}
              /\ delivered' = delivered \cup {r} /\ projection_queue_' = Append(projection_queue_, r)

(* What a sequence holds.                                                  *)
LEMMA Element ==
    ASSUME NEW X, NEW q \in Seq(X), NEW i \in Nat \ {0}, i <= Len(q)
    PROVE  i \in DOMAIN q /\ q[i] \in X
OBVIOUS

(* The result a scan function starts with, and the one it continues with   *)
(* after it has passed one on.                                             *)
LEMMA NewResultInHand ==
    ASSUME NEW s \in Snippets \cup {NoSnippet}
    PROVE  /\ NewResult(s) \in ResultsInHand /\ NewResult(s).snippet = s
           /\ NewResult(s).current_block_count = 0 /\ NewResult(s).blocks = {}
BY SMTT(30) DEF NewResult, CsdResult, ResultsInHand, CsdResults

(* What a scanning thread has in hand.                                     *)
LEMMA InHand ==
    ASSUME RegularSnippets, TypeOK, ScansRight, NEW t \in Scanners, Scanning(t)
    PROVE  /\ scan_result[t] \in ResultsInHand /\ ScanRight(t)
           /\ scan_result[t].snippet \in Snippets /\ scan_result[t].snippet.type = scan_pc[t]
           /\ scan_result[t].snippet.type \in ScanTypes
           /\ scan_result[t].snippet.csd_block_count \in Nat
           /\ left_block_count[t] \in Nat /\ scan_result[t].current_block_count \in Nat
           /\ FirstOf(scan_result[t], left_block_count[t]) \in Nat \ {0} /\ position[t] \in Nat \ {0}
           /\ left_block_count[t] + scan_result[t].current_block_count
                 <= scan_result[t].snippet.csd_block_count
<1>1. ScanRight(t) /\ scan_result[t] \in ResultsInHand
  BY Zenon DEF ScansRight, TypeOK, ResultsInHand
<1>2. /\ scan_result[t].snippet \in Snippets /\ scan_result[t].snippet.type = scan_pc[t]
      /\ left_block_count[t] >= 0 /\ scan_result[t].current_block_count >= 0
      /\ left_block_count[t] + scan_result[t].current_block_count <= scan_result[t].snippet.csd_block_count
  BY <1>1, Zenon DEF ScanRight, Agrees
<1>3. /\ left_block_count[t] \in Int /\ scan_result[t].current_block_count \in Int
      /\ position[t] \in Nat \ {0}
      /\ scan_pc[t] \in ScanTypes
  BY DEF TypeOK, CsdResults, Scanning, ScanTypes
<1>4. scan_result[t].snippet.csd_block_count \in Nat
  BY <1>2 DEF RegularSnippets
<1>5. FirstOf(scan_result[t], left_block_count[t]) \in Nat \ {0}
  BY <1>2, <1>3, <1>4, SMTT(30) DEF FirstOf
<1> QED
  BY <1>1, <1>2, <1>3, <1>4, <1>5, SMTT(30)

-----------------------------------------------------------------------------
(* One block more uses one share more.                                     *)
LEMMA SharesGrow ==
    ASSUME NEW share \in Nat, NUM_OF_BLOCKS * share <= BUFFER_SIZE, NEW count \in 0 .. NUM_OF_BLOCKS - 1,
           NEW length \in Nat, length <= count * share, NEW more \in Nat, more <= share
    PROVE  length + more <= (count + 1) * share /\ length + more <= BUFFER_SIZE
<1>1. NUM_OF_BLOCKS \in Nat /\ BUFFER_SIZE \in Nat
  BY ScanFilterAssumption, CsdDataAssumption
<1>2. PICK rest \in Nat : NUM_OF_BLOCKS = count + 1 + rest
  <2>1. NUM_OF_BLOCKS - (count + 1) \in Nat /\ NUM_OF_BLOCKS = count + 1 + (NUM_OF_BLOCKS - (count + 1))
    BY <1>1
  <2> QED
    BY <2>1
<1>3. (count + 1) * share = count * share + share /\ count * share \in Nat /\ rest * share \in Nat
  BY <1>2
<1>4. NUM_OF_BLOCKS * share = (count + 1) * share + rest * share
  BY <1>2
<1> QED
  BY <1>1, <1>3, <1>4

(* The elements of a queue, whatever is put into it.                       *)
LEMMA Pushed ==
    ASSUME NEW X, NEW q \in Seq(X), NEW x
    PROVE  Elements(Append(q, x)) = Elements(q) \cup {x}
<1>1. PICK Y : Y = X \cup {x}
  BY Zenon
<1>2. q \in Seq(Y) /\ x \in Y
  BY <1>1, SMTT(30)
<1> QED
  BY <1>2, QueuePush

(* The same, for the value of a queue after the step.                      *)
LEMMA QueueGrows ==
    ASSUME NEW X, NEW q \in Seq(X), NEW x, NEW p, p = Append(q, x)
    PROVE  Elements(p) = Elements(q) \cup {x}
BY Pushed, Zenon

(* And for a queue from which the head has been taken.                     *)
LEMMA QueueShrinks ==
    ASSUME NEW X, NEW q \in Seq(X), q # <<>>, NEW x, x = Head(q), NEW p, p = Tail(q)
    PROVE  Elements(q) = Elements(p) \cup {x}
BY QueuePop, Zenon

(* A result that is cleared or new is empty.                               *)
LEMMA EmptyMeasured == \A s : Measured(NewResult(s)) /\ NewResult(s).current_block_count = 0 /\ NewResult(s).data_length = 0
<1> SUFFICES ASSUME NEW s
             PROVE  Measured(NewResult(s)) /\ NewResult(s).current_block_count = 0 /\ NewResult(s).data_length = 0
  OBVIOUS
<1>1. NewResult(s).data_length = 0 /\ NewResult(s).rows = <<>> /\ NewResult(s).current_block_count = 0
  BY DEF NewResult, CsdResult
<1>2. 0 <= BUFFER_SIZE
  BY CsdDataAssumption
<1> QED
  BY <1>1, <1>2, BytesOfNone, Zenon DEF Measured

(* An empty result uses no share.                                          *)
LEMMA EmptyWithinShares ==
    ASSUME NEW share \in Nat, NEW r, r.current_block_count = 0, r.data_length = 0
    PROVE  WithinShares(r, share)
<1>1. 0 \in 0 .. NUM_OF_BLOCKS - 1 /\ 0 <= 0 * share
  BY ScanFilterAssumption
<1> QED
  BY <1>1, Zenon DEF WithinShares

(* enqueue_scan_result passes on what fits.                                *)
LEMMA EnqueueFits ==
    ASSUME TypeOK, QueuesFit, NEW r, "data_length" \in DOMAIN r, Measured(r), enqueue_scan_result(r)
    PROVE  QueuesFit'
<1>1. /\ filter_queue_ \in Seq(CsdResults(Snippets, Rows))
      /\ projection_queue_ \in Seq(CsdResults(Snippets, Rows))
  BY Zenon DEF TypeOK
<1>2. PICK q : q = [r EXCEPT !.filtered_row_count = r.scanned_row_count]
  BY Zenon
<1>3. q.data_length <= BUFFER_SIZE
  <2>1. q.data_length = r.data_length
    BY <1>2
  <2> QED
    BY <2>1, Zenon DEF Measured
<1>4. CASE projection_queue_' = Append(projection_queue_, q) /\ UNCHANGED filter_queue_
  <2>1. Elements(projection_queue_') = Elements(projection_queue_) \cup {q}
    BY <1>1, <1>4, QueueGrows, Zenon
  <2>2. Elements(filter_queue_') = Elements(filter_queue_)
    BY <1>4, Zenon DEF Elements
  <2> QED
    BY <1>3, <2>1, <2>2, Zenon DEF QueuesFit, Elements
<1>5. CASE filter_queue_' = Append(filter_queue_, r) /\ UNCHANGED projection_queue_
  <2>1. Elements(filter_queue_') = Elements(filter_queue_) \cup {r}
    BY <1>1, <1>5, QueueGrows, Zenon
  <2>2. Elements(projection_queue_') = Elements(projection_queue_)
    BY <1>5, Zenon DEF Elements
  <2> QED
    BY <2>1, <2>2, Zenon DEF QueuesFit, Elements
<1> QED
  BY <1>2, <1>4, <1>5, Zenon DEF enqueue_scan_result

(* A scan thread writes its result.                                        *)
LEMMA ScanFits ==
    ASSUME TypeOK, NEW share, ScansFit(share), NEW t \in Scanners, NEW at, NEW r,
           scan_pc' = [scan_pc EXCEPT ![t] = at], scan_result' = [scan_result EXCEPT ![t] = r], Measured(r),
           at \in {"FULL_SCAN", "INDEX_TABLE_SCAN"} => WithinShares(r, share)
    PROVE  ScansFit(share)'
<1>1. /\ scan_pc'[t] = at /\ scan_result'[t] = r
      /\ \A u \in Scanners \ {t} : scan_pc'[u] = scan_pc[u] /\ scan_result'[u] = scan_result[u]
  BY Zenon DEF TypeOK
<1> QED
  BY <1>1, Zenon DEF ScansFit

(* read_data_block and read_index_block: the rows of a block use one share *)
(* more, and a result with NUM_OF_BLOCKS blocks is passed on.              *)
LEMMA ReadFits ==
    ASSUME RegularSnippets, TypeOK, ScansRight, NEW share \in Nat, Share(share), ScansFit(share), QueuesFit,
           NEW t \in Scanners, scan_pc[t] \in {"FULL_SCAN", "INDEX_TABLE_SCAN"}, NEW count, ReadBlock(t, count)
    PROVE  ScansFit(share)' /\ QueuesFit'
<1>1. PICK r, s, at : r = scan_result[t] /\ s = r.snippet /\ at = scan_pc[t]
  BY Zenon
<1>2. r \in ResultsInHand /\ s \in Snippets /\ s.type = at /\ position[t] \in Nat \ {0}
  BY <1>1, InHand DEF Scanning
<1>3. s.block_list \in Seq([rows : Seq(Rows), foreign : BOOLEAN]) /\ position[t] <= Len(s.block_list)
  BY <1>1, <1>2, Zenon DEF RegularSnippets, ReadBlock, snippet
<1>4. PICK block : block = s.block_list[position[t]]
  BY Zenon
<1>5. block \in [rows : Seq(Rows), foreign : BOOLEAN] /\ position[t] \in DOMAIN s.block_list
  BY <1>2, <1>3, <1>4, Element, Zenon
<1>6. Bytes(block.rows) <= share /\ block.rows \in Seq(Rows)
  BY <1>1, <1>2, <1>4, <1>5, Zenon DEF Share
<1>7. Measured(r) /\ WithinShares(r, share)
  BY <1>1, Zenon DEF ScansFit
<1>8. PICK q : q = Fold(AddScanned, r, block.rows)
  BY Zenon
<1>9. q \in ResultsInHand /\ q.current_block_count = r.current_block_count /\ q.snippet = s
  BY <1>1, <1>2, <1>6, <1>8, RowsScanned, Zenon DEF SameBlocks
<1>10. /\ Bytes(block.rows) \in Nat /\ q.data_length = r.data_length + Bytes(block.rows)
       /\ q.data_length = Bytes(q.rows)
  BY <1>2, <1>6, <1>7, <1>8, ScannedBytes, Zenon DEF Measured
<1>11. /\ r.data_length \in Nat /\ r.current_block_count \in 0 .. NUM_OF_BLOCKS - 1
       /\ r.data_length <= r.current_block_count * share /\ NUM_OF_BLOCKS * share <= BUFFER_SIZE
  BY <1>2, <1>7, Zenon DEF WithinShares, Share, ResultsInHand, CsdResults
<1>12. q.data_length <= (r.current_block_count + 1) * share /\ q.data_length <= BUFFER_SIZE
  BY <1>6, <1>10, <1>11, SharesGrow, Zenon
<1>13. PICK after, now, blocks :
          /\ after = (IF block.foreign THEN 0 ELSE left_block_count[t] - 1)
          /\ now = (IF block.foreign THEN count ELSE q.current_block_count + 1)
          /\ blocks = q.blocks \cup Accounted(s, left_block_count[t], after)
  BY Zenon
<1>14. PICK read : read = [q EXCEPT !.current_block_count = now, !.blocks = blocks]
  BY Zenon
<1>15. /\ read.data_length = q.data_length /\ read.rows = q.rows /\ read.current_block_count = now
       /\ read.snippet = s /\ "data_length" \in DOMAIN read
  BY <1>9, <1>14 DEF ResultsInHand, CsdResults
<1>16. Measured(read)
  BY <1>10, <1>12, <1>15, Zenon DEF Measured
<1>17. /\ scan_pc' = scan_pc
       /\ IF block.foreign \/ BatchComplete(read.current_block_count, after)
          THEN /\ enqueue_scan_result(read)
               /\ scan_result' = [scan_result EXCEPT ![t] = clear(read)]
          ELSE /\ scan_result' = [scan_result EXCEPT ![t] = read]
               /\ UNCHANGED <<filter_queue_, projection_queue_>>
  BY <1>1, <1>4, <1>8, <1>13, <1>14, Zenon DEF ReadBlock, snippet
<1>18. scan_pc' = [scan_pc EXCEPT ![t] = at]
  BY <1>1, <1>17, Zenon DEF TypeOK
<1>19. CASE block.foreign \/ BatchComplete(read.current_block_count, after)
  <2>1. enqueue_scan_result(read) /\ scan_result' = [scan_result EXCEPT ![t] = NewResult(s)]
    BY <1>15, <1>17, <1>19, Zenon DEF clear
  <2>2. WithinShares(NewResult(s), share) /\ Measured(NewResult(s))
    BY EmptyMeasured, EmptyWithinShares, Zenon
  <2> QED
    BY <1>15, <1>16, <1>18, <2>1, <2>2, EnqueueFits, ScanFits, Zenon
<1>20. CASE ~ (block.foreign \/ BatchComplete(read.current_block_count, after))
  <2>1. now = r.current_block_count + 1 /\ now # NUM_OF_BLOCKS
    BY <1>9, <1>13, <1>15, <1>20, Zenon DEF BatchComplete
  <2>2. now \in 0 .. NUM_OF_BLOCKS - 1
    BY <1>11, <2>1, ScanFilterAssumption
  <2>3. WithinShares(read, share)
    BY <1>12, <1>15, <2>1, <2>2, Zenon DEF WithinShares
  <2>4. scan_result' = [scan_result EXCEPT ![t] = read] /\ UNCHANGED <<filter_queue_, projection_queue_>>
    BY <1>17, <1>20, Zenon
  <2>5. ScansFit(share)'
    BY <1>16, <1>18, <2>3, <2>4, ScanFits, Zenon
  <2>6. QueuesFit'
    BY <2>4, Zenon DEF QueuesFit, Elements
  <2> QED
    BY <2>5, <2>6
<1> QED
  BY <1>19, <1>20

(* sst_file_full_scan and the end of the files pass on the result as it    *)
(* is.                                                                     *)
LEMMA PassOnFits ==
    ASSUME TypeOK, NEW share, ScansFit(share), QueuesFit, NEW t \in Scanners, NEW count, PassOn(t, count)
    PROVE  QueuesFit'
<1>1. PICK r, now, blocks :
         /\ r = scan_result[t] /\ now = r.current_block_count + count
         /\ blocks = r.blocks \cup Accounted(snippet(t), left_block_count[t], left_block_count[t] - count)
  BY Zenon
<1>2. r \in ResultsInHand /\ Measured(r)
  BY <1>1, Zenon DEF TypeOK, ResultsInHand, ScansFit
<1>3. PICK q : q = [r EXCEPT !.current_block_count = now, !.blocks = blocks]
  BY Zenon
<1>4. q.data_length = r.data_length /\ q.rows = r.rows /\ "data_length" \in DOMAIN q
  BY <1>2, <1>3 DEF ResultsInHand, CsdResults
<1>5. Measured(q)
  BY <1>2, <1>4, Zenon DEF Measured
<1>6. enqueue_scan_result(q)
  BY <1>1, <1>3, Zenon DEF PassOn
<1> QED
  BY <1>4, <1>5, <1>6, EnqueueFits, Zenon

(* A row of a file goes into a buffer that has room for it.                *)
LEMMA SstFits ==
    ASSUME RegularSnippets, TypeOK, ScansRight, \A row \in Rows : RowLength[row] <= BUFFER_SIZE,
           NEW share, ScansFit(share), QueuesFit, NEW t \in Scanners, sst_file_full_scan(t)
    PROVE  ScansFit(share)' /\ QueuesFit'
<1>1. PICK r, s, row : r = scan_result[t] /\ s = r.snippet /\ row = FileRows(t)[position[t]]
  BY Zenon
<1>2. scan_pc[t] = "SST_FILE_SCAN" /\ position[t] <= Len(FileRows(t)) /\ scan_pc' = scan_pc
  BY Zenon DEF sst_file_full_scan
<1>3. r \in ResultsInHand /\ s \in Snippets /\ s.type = "SST_FILE_SCAN" /\ position[t] \in Nat \ {0}
  BY <1>1, <1>2, InHand DEF Scanning
<1>4. FileRows(t) \in Seq(Rows)
  BY <1>1, <1>3, FilesConcat, Zenon DEF RegularSnippets, FileRows, snippet
<1>5. row \in Rows
  BY <1>1, <1>2, <1>3, <1>4, Element, Zenon
<1>6. PICK from : from = IF r.data_length + RowLength[row] > BUFFER_SIZE THEN clear(r) ELSE r
  BY Zenon
<1>7. PICK q : q = AddScanned(from, row)
  BY Zenon
<1>8. /\ scan_result' = [scan_result EXCEPT ![t] = q]
      /\ IF r.data_length + RowLength[row] > BUFFER_SIZE
         THEN PassOn(t, NUM_OF_BLOCKS)
         ELSE UNCHANGED <<filter_queue_, projection_queue_>>
  BY <1>1, <1>6, <1>7, Zenon DEF sst_file_full_scan
<1>9. Measured(r) /\ r.data_length \in Nat /\ RowLength[row] \in Nat /\ RowLength[row] <= BUFFER_SIZE
  BY <1>1, <1>3, <1>5, CsdDataAssumption DEF ScansFit, ResultsInHand, CsdResults
<1>10. /\ from \in ResultsInHand /\ from.data_length = Bytes(from.rows)
       /\ from.data_length + RowLength[row] <= BUFFER_SIZE
  <2>1. CASE r.data_length + RowLength[row] > BUFFER_SIZE
    <3>1. from = NewResult(s)
      BY <1>1, <1>6, <2>1, Zenon DEF clear
    <3>2. from \in ResultsInHand /\ from.data_length = 0 /\ from.data_length = Bytes(from.rows)
      BY <1>3, <3>1, EmptyMeasured, NewResultInHand, Zenon DEF Measured
    <3> QED
      BY <1>9, <3>2, CsdDataAssumption
  <2>2. CASE ~ (r.data_length + RowLength[row] > BUFFER_SIZE)
    <3>1. from = r
      BY <1>6, <2>2, Zenon
    <3>2. r.data_length + RowLength[row] <= BUFFER_SIZE
      BY <1>9, <2>2, CsdDataAssumption
    <3> QED
      BY <1>3, <1>9, <3>1, <3>2, Zenon DEF Measured
  <2> QED
    BY <2>1, <2>2
<1>11. q.data_length = from.data_length + RowLength[row] /\ q.rows = Append(from.rows, row)
  BY <1>5, <1>7, <1>10, AddScannedLength, Zenon
<1>12. from.rows \in Seq(Rows)
  BY <1>10 DEF ResultsInHand, CsdResults
<1>13. Measured(q)
  BY <1>5, <1>10, <1>11, <1>12, BytesAppend, Zenon DEF Measured
<1>14. scan_pc' = [scan_pc EXCEPT ![t] = "SST_FILE_SCAN"]
  BY <1>2, Zenon DEF TypeOK
<1>15. ScansFit(share)'
  <2>1. "SST_FILE_SCAN" \notin {"FULL_SCAN", "INDEX_TABLE_SCAN"}
    OBVIOUS
  <2> QED
    BY <1>8, <1>13, <1>14, <2>1, ScanFits, Zenon
<1>16. QueuesFit'
  BY <1>8, PassOnFits, Zenon DEF QueuesFit, Elements
<1> QED
  BY <1>15, <1>16

(* Every step of a scan thread keeps the lengths.                          *)
LEMMA ScanTurnFits ==
    ASSUME RegularSnippets, TypeOK, ScansRight, \A row \in Rows : RowLength[row] <= BUFFER_SIZE,
           NEW share \in Nat, Share(share), ScansFit(share), QueuesFit, NEW t \in Scanners, ScanStep(t)
    PROVE  ScansFit(share)' /\ QueuesFit'
<1>1. CASE scan_worker(t)
  <2>1. PICK s : s = Head(scan_queue_)
    BY Zenon
  <2>2. UNCHANGED <<filter_queue_, projection_queue_>>
    BY <1>1, Zenon DEF scan_worker
  <2>3. CASE UNCHANGED <<scan_pc, scan_result>>
    BY <2>2, <2>3, Zenon DEF ScansFit, QueuesFit, Elements
  <2>4. CASE /\ scan_pc' = [scan_pc EXCEPT ![t] = s.type]
             /\ scan_result' = [scan_result EXCEPT ![t] = NewResult(s)]
    <3>1. Measured(NewResult(s)) /\ WithinShares(NewResult(s), share)
      BY EmptyMeasured, EmptyWithinShares, Zenon
    <3>2. ScansFit(share)'
      BY <2>4, <3>1, ScanFits, Zenon
    <3> QED
      BY <2>2, <3>2, Zenon DEF QueuesFit, Elements
  <2> QED
    BY <1>1, <2>1, <2>3, <2>4, Zenon DEF scan_worker
<1>2. ASSUME ScanReturns(t) PROVE ScansFit(share)'
  <2>1. Measured(NewResult(NoSnippet))
    BY EmptyMeasured, Zenon
  <2>2. "pop" \notin {"FULL_SCAN", "INDEX_TABLE_SCAN"}
    OBVIOUS
  <2>3. /\ scan_pc' = [scan_pc EXCEPT ![t] = "pop"]
        /\ scan_result' = [scan_result EXCEPT ![t] = NewResult(NoSnippet)]
    BY <1>2, Zenon DEF ScanReturns
  <2> QED
    BY <2>1, <2>2, <2>3, ScanFits, Zenon
<1>3. CASE read_data_block(t) \/ read_index_block(t)
  BY <1>3, ReadFits, Zenon DEF read_data_block, read_index_block
<1>4. CASE EndOfBlocks(t)
  BY <1>2, <1>4, Zenon DEF EndOfBlocks, QueuesFit, Elements
<1>5. CASE sst_file_full_scan(t)
  BY <1>5, SstFits, Zenon
<1>6. CASE EndOfFiles(t)
  BY <1>2, <1>6, PassOnFits, Zenon DEF EndOfFiles
<1> QED
  BY <1>1, <1>3, <1>4, <1>5, <1>6, Zenon DEF ScanStep

(* A filter thread takes a result that fits and passes on a shorter one.   *)
LEMMA FilterTurnFits ==
    ASSUME TypeOK, QueuesFit, FilterInputsFit, NEW t \in Filters, F!FilterStep(t)
    PROVE  QueuesFit' /\ FilterInputsFit'
<1>1. /\ filter_queue_ \in Seq(CsdResults(Snippets, Rows))
      /\ projection_queue_ \in Seq(CsdResults(Snippets, Rows))
  BY Zenon DEF TypeOK
<1>2. CASE F!filter_worker(t)
  <2>1. PICK r : r = Head(filter_queue_)
    BY Zenon
  <2>2. /\ filter_queue_ # <<>> /\ filter_in' = [filter_in EXCEPT ![t] = r]
        /\ filter_queue_' = Tail(filter_queue_) /\ projection_queue_' = projection_queue_
    BY <1>2, <2>1, Zenon DEF F!filter_worker
  <2>3. Elements(filter_queue_) = Elements(filter_queue_') \cup {r}
    BY <1>1, <2>1, <2>2, QueueShrinks, Zenon
  <2>4. Measured(r) /\ QueuesFit'
    BY <2>2, <2>3, Zenon DEF QueuesFit, Elements
  <2>5. \A u \in Filters : filter_in'[u] = r \/ filter_in'[u] = filter_in[u]
    BY <2>2, Zenon DEF TypeOK
  <2> QED
    BY <2>4, <2>5, Zenon DEF FilterInputsFit
<1>3. CASE F!filtering(t)
  <2>1. PICK in : in = filter_in[t]
    BY Zenon
  <2>2. PICK start : start = F!CsdResult(in.snippet, in.scanned_row_count, 0, in.current_block_count, in.blocks)
    BY Zenon
  <2>3. PICK q : q = F!Fold(F!AddFiltered, start, in.rows)
    BY Zenon
  <2>4. in \in ResultsInHand /\ Measured(in)
    BY <2>1, Zenon DEF TypeOK, ResultsInHand, FilterInputsFit
  <2>5. start \in ResultsInHand /\ in.rows \in Seq(Rows)
    BY <2>2, <2>4, FilterStart, Zenon
  <2>6. start.data_length = 0
    BY <2>2 DEF F!CsdResult
  <2>7. q.data_length <= Bytes(in.rows) /\ q \in ResultsInHand
    BY <2>3, <2>5, <2>6, FilteredBytes, RowsFiltered, Zenon
  <2>8. q.data_length \in Nat /\ in.data_length \in Nat /\ in.data_length = Bytes(in.rows)
        /\ in.data_length <= BUFFER_SIZE
    BY <2>4, <2>7, Zenon DEF ResultsInHand, CsdResults, Measured
  <2>9. q.data_length <= BUFFER_SIZE
    <3>1. ASSUME NEW a \in Nat, NEW b \in Nat, a <= b, b <= BUFFER_SIZE PROVE a <= BUFFER_SIZE
      BY <3>1, CsdDataAssumption
    <3> QED
      BY <2>7, <2>8, <3>1, Zenon
  <2>10. /\ projection_queue_' = Append(projection_queue_, q) /\ filter_queue_' = filter_queue_
         /\ filter_in' = [filter_in EXCEPT ![t] = NewResult(NoSnippet)]
    BY <1>3, <2>1, <2>2, <2>3, Zenon DEF F!filtering, NewResult, F!NewResult, CsdResult, F!CsdResult
  <2>11. Elements(projection_queue_') = Elements(projection_queue_) \cup {q}
    BY <1>1, <2>10, QueueGrows, Zenon
  <2>12. QueuesFit'
    BY <2>9, <2>10, <2>11, Zenon DEF QueuesFit, Elements
  <2>13. \A u \in Filters : filter_in'[u] = NewResult(NoSnippet) \/ filter_in'[u] = filter_in[u]
    BY <2>10, Zenon DEF TypeOK
  <2> QED
    BY <2>12, <2>13, EmptyMeasured, Zenon DEF FilterInputsFit
<1> QED
  BY <1>2, <1>3, Zenon DEF F!FilterStep

(* Every step of the two stages keeps the lengths within the buffers.      *)
LEMMA LengthStep ==
    ASSUME RegularSnippets, TypeOK, ScansRight, \A row \in Rows : RowLength[row] <= BUFFER_SIZE,
           NEW share \in Nat, Share(share), LengthInv(share), [ScanFilterNext]_scanFilterVars
    PROVE  LengthInv(share)'
<1>1. ScansFit(share) /\ QueuesFit /\ FilterInputsFit
  BY Zenon DEF LengthInv
<1>2. ASSUME UNCHANGED scanVars PROVE ScansFit(share)'
  BY <1>1, <1>2, Zenon DEF ScansFit, scanVars
<1>3. ASSUME UNCHANGED filterVars PROVE FilterInputsFit'
  BY <1>1, <1>3, Zenon DEF FilterInputsFit, filterVars
<1>4. ASSUME UNCHANGED <<filter_queue_, projection_queue_>> PROVE QueuesFit'
  BY <1>1, <1>4, Zenon DEF QueuesFit, Elements
<1>5. ASSUME NEW s \in Snippets, SendTurn(s) PROVE ScansFit(share)' /\ QueuesFit' /\ FilterInputsFit'
  BY <1>2, <1>3, <1>4, <1>5, Zenon DEF SendTurn
<1>6. ASSUME NEW t \in Scanners, ScanTurn(t) PROVE ScansFit(share)' /\ QueuesFit' /\ FilterInputsFit'
  BY <1>1, <1>3, <1>6, ScanTurnFits, Zenon DEF ScanTurn
<1>7. ASSUME NEW t \in Filters, FilterTurn(t) PROVE ScansFit(share)' /\ QueuesFit' /\ FilterInputsFit'
  BY <1>1, <1>2, <1>7, FilterTurnFits, Zenon DEF FilterTurn
<1>8. ASSUME TakeResult PROVE ScansFit(share)' /\ QueuesFit' /\ FilterInputsFit'
  <2>1. projection_queue_ # <<>> /\ projection_queue_' = Tail(projection_queue_)
        /\ filter_queue_' = filter_queue_ /\ UNCHANGED <<scanVars, filterVars>>
    BY <1>8, Zenon DEF TakeResult
  <2>2. projection_queue_ \in Seq(CsdResults(Snippets, Rows))
    BY Zenon DEF TypeOK
  <2>3. Elements(projection_queue_) = Elements(projection_queue_') \cup {Head(projection_queue_)}
    BY <2>1, <2>2, QueueShrinks, Zenon
  <2>4. QueuesFit'
    BY <1>1, <2>1, <2>3, Zenon DEF QueuesFit, Elements
  <2> QED
    BY <1>2, <1>3, <2>1, <2>4, Zenon
<1>9. CASE UNCHANGED scanFilterVars
  BY <1>2, <1>3, <1>4, <1>9, Zenon DEF scanFilterVars, LengthInv
<1> QED
  BY <1>5, <1>6, <1>7, <1>8, <1>9, Zenon DEF ScanFilterNext, LengthInv

(* At the start every result is empty.                                     *)
LEMMA LengthStart ==
    ASSUME ScanFilterInit, NEW share
    PROVE  LengthInv(share)
<1>1. /\ filter_queue_ = <<>> /\ projection_queue_ = <<>> /\ scan_pc = [t \in Scanners |-> "pop"]
      /\ scan_result = [t \in Scanners |-> NewResult(NoSnippet)]
      /\ filter_in = [t \in Filters |-> NewResult(NoSnippet)]
  BY Zenon DEF ScanFilterInit, ScanInit, F!FilterInit, NewResult, F!NewResult, CsdResult, F!CsdResult
<1>2. PICK none : none = NewResult(NoSnippet)
  BY Zenon
<1>3. Measured(none)
  BY <1>2, EmptyMeasured, Zenon
<1>4. /\ \A t \in Scanners : scan_result[t] = none /\ scan_pc[t] = "pop"
      /\ \A t \in Filters : filter_in[t] = none
  BY <1>1, <1>2, Zenon
<1>5. "pop" \notin {"FULL_SCAN", "INDEX_TABLE_SCAN"}
  OBVIOUS
<1>6. Elements(filter_queue_) = {} /\ Elements(projection_queue_) = {}
  BY <1>1 DEF Elements
<1> QED
  BY <1>3, <1>4, <1>5, <1>6, Zenon DEF LengthInv, ScansFit, QueuesFit, FilterInputsFit

-----------------------------------------------------------------------------
(* Two threads keep different blocks.                                      *)
LEMMA KeptApart ==
    ASSUME RegularSnippets, TypeOK, ScansRight, ScannedOnce,
           NEW t \in Scanners, NEW u \in Scanners, Scanning(t), Scanning(u), t # u
    PROVE  Kept(t) \cap Kept(u) = {}
<1>1. scan_result[t].snippet # scan_result[u].snippet
  BY DEF ScannedOnce
<1>2. /\ scan_result[t].snippet \in Snippets /\ scan_result[u].snippet \in Snippets
      /\ FirstOf(scan_result[t], left_block_count[t]) \in Int /\ FirstOf(scan_result[u], left_block_count[u]) \in Int
      /\ scan_result[t].snippet.csd_block_count \in Int /\ scan_result[u].snippet.csd_block_count \in Int
  BY InHand, SMTT(30)
<1> QED
  BY <1>1, <1>2, PartsOfTwo, Zenon DEF Kept

(* Blocks that a scan thread passes on stay in one place.                  *)
LEMMA BlocksMove ==
    ASSUME RegularSnippets, TypeOK, ScansRight, ScannedOnce, BlocksApart, NoBlockLost, ToScan' = ToScan,
           NEW t \in Scanners, Scanning(t), NEW B, GivesUp(t, B),
           Arrives(t, B) \/ NoneArrives(B)
    PROVE  BlocksApart' /\ NoBlockLost'
<1>1. ASSUME NEW u \in Scanners \ {t}
      PROVE  /\ Scanning(u)' <=> Scanning(u)
             /\ Kept(u)' = Kept(u) /\ scan_result'[u].snippet = scan_result[u].snippet
  BY Zenon DEF GivesUp, Scanning, Kept
<1>2. /\ B \subseteq Kept(t)
      /\ IF Scanning(t)' THEN scan_result'[t].snippet = scan_result[t].snippet /\ Kept(t)' = Kept(t) \ B
         ELSE Kept(t) = B
  BY Zenon DEF GivesUp
<1>3. scan_result[t].snippet \in Snippets \ ToScan /\ scan_result[t].snippet.type \in ScanTypes
  BY InHand, Zenon DEF ScannedOnce
<1>4. /\ Kept(t) \cap Handed = {}
      /\ \A r \in InFilter : Kept(t) \cap r.blocks = {}
      /\ \A u \in Scanners \ {t} : Scanning(u) => Kept(t) \cap Kept(u) = {}
  BY KeptApart, Zenon DEF BlocksApart
<1>5. ASSUME NEW u \in Scanners, Scanning(u)'
      PROVE  Scanning(u) /\ Kept(u)' \subseteq Kept(u) /\ Kept(u)' \cap B = {}
  BY <1>1, <1>2, <1>4, <1>5, SMTT(30)
<1>6. ASSUME NEW s \in Snippets \ ToScan, s.type \in ScanTypes, NEW b \in BlocksOf[s]
      PROVE  \/ b \in Handed \cup B
             \/ \E r \in InFilter : b \in r.blocks
             \/ \E u \in Scanners : Scanning(u)' /\ scan_result'[u].snippet = s /\ b \in Kept(u)'
  BY <1>1, <1>2, <1>6, SMTT(30) DEF NoBlockLost
<1>7. CASE NoneArrives(B)
  <2>1. B = {} /\ Handed' = Handed /\ InFilter' = InFilter /\ delivered' = delivered
    BY <1>7, Zenon DEF NoneArrives, Handed
  <2>2. NoBlockLost'
    BY <1>6, <2>1, Zenon DEF NoBlockLost
  <2>3. BlocksApart'
    BY <1>5, <2>1, Zenon DEF BlocksApart
  <2> QED
    BY <2>2, <2>3
<1>8. ASSUME NEW r, IsPart(r), r.blocks = B, r.snippet = scan_result[t].snippet,
             InFilter' = InFilter \cup {r}, delivered' = delivered
      PROVE  BlocksApart' /\ NoBlockLost'
  <2>1. Handed' = Handed
    BY <1>8 DEF Handed
  <2>2. NoBlockLost'
    BY <1>6, <1>8, <2>1, Zenon DEF NoBlockLost
  <2>3. BlocksApart'
    BY <1>2, <1>3, <1>4, <1>5, <1>8, <2>1, Zenon DEF BlocksApart
  <2> QED
    BY <2>2, <2>3
<1>9. ASSUME NEW r, IsPart(r), r.blocks = B, r.snippet = scan_result[t].snippet,
             InFilter' = InFilter, delivered' = delivered \cup {r}
      PROVE  BlocksApart' /\ NoBlockLost'
  <2>1. Handed' = Handed \cup B
    BY <1>9, Zenon DEF Handed
  <2>2. NoBlockLost'
    BY <1>6, <1>9, <2>1, Zenon DEF NoBlockLost
  <2>3. BlocksApart'
    BY <1>2, <1>3, <1>4, <1>5, <1>9, <2>1, Zenon DEF BlocksApart
  <2> QED
    BY <2>2, <2>3
<1> QED
  BY <1>7, <1>8, <1>9, Zenon DEF Arrives

(* A step of one scan thread that passes blocks on, or none, keeps the     *)
(* invariant when its own account and the places in the filter stage stay  *)
(* right.                                                                  *)
LEMMA ScanMoves ==
    ASSUME RegularSnippets, BlocksInv, UNCHANGED <<unsent, scan_queue_>>,
           NEW t \in Scanners, Scanning(t), NEW B, GivesUp(t, B),
           Arrives(t, B) \/ NoneArrives(B),
           \A u \in Scanners \ {t} : position'[u] = position[u],
           IF Scanning(t)' THEN ScanRight(t)' ELSE Idle(t)',
           TypeOK', FilteredOnce'
    PROVE  BlocksInv' /\ HandsNew
<1>1. TypeOK /\ ScansRight /\ ScannedOnce /\ FilteredOnce /\ BlocksApart /\ NoBlockLost
  BY Zenon DEF BlocksInv
<1>2. ToScan' = ToScan
  BY Zenon DEF ToScan
<1>3. BlocksApart' /\ NoBlockLost'
  BY <1>1, <1>2, BlocksMove, Zenon
<1>4. ScansRight'
  <2> SUFFICES ASSUME NEW u \in Scanners, u # t
               PROVE  IF Scanning(u)' THEN ScanRight(u)' ELSE Idle(u)'
    BY Zenon DEF ScansRight
  <2>1. /\ scan_pc'[u] = scan_pc[u] /\ scan_result'[u] = scan_result[u]
        /\ left_block_count'[u] = left_block_count[u] /\ position'[u] = position[u]
    BY Zenon DEF GivesUp
  <2>2. (Scanning(u)' <=> Scanning(u)) /\ (ScanRight(u)' <=> ScanRight(u)) /\ (Idle(u)' <=> Idle(u))
    BY <2>1, Zenon DEF Scanning, ScanRight, Idle
  <2>3. IF Scanning(u) THEN ScanRight(u) ELSE Idle(u)
    BY <1>1, Zenon DEF ScansRight
  <2> QED
    BY <2>1, <2>2, <2>3, Zenon
<1>5. ScannedOnce'
  <2>1. ASSUME NEW u \in Scanners, Scanning(u)'
        PROVE  Scanning(u) /\ scan_result'[u].snippet = scan_result[u].snippet
    <3>1. CASE u = t
      BY <2>1, <3>1, Zenon DEF GivesUp
    <3>2. CASE u # t
      BY <2>1, <3>2, Zenon DEF GivesUp, Scanning
    <3> QED
      BY <3>1, <3>2, Zenon
  <2> QED
    BY <1>1, <1>2, <2>1, Zenon DEF ScannedOnce
<1>6. HandsNew
  <2>1. B \cap Handed = {}
    BY <1>1, Zenon DEF GivesUp, BlocksApart
  <2> QED
    BY <2>1, Zenon DEF HandsNew, Arrives, NoneArrives
<1> QED
  BY <1>3, <1>4, <1>5, <1>6, Zenon DEF BlocksInv

(* enqueue_scan_result puts the result in one place.                       *)
LEMMA HandsOn ==
    ASSUME RegularSnippets, BlocksInv, NEW t \in Scanners, Scanning(t),
           NEW r \in CsdResults(Snippets, Rows), IsPart(r), r.snippet = scan_result[t].snippet,
           r.blocks \subseteq Kept(t), enqueue_scan_result(r), Delivers,
           UNCHANGED <<filter_pc, filter_in>>
    PROVE  /\ Arrives(t, r.blocks) /\ FilteredOnce'
           /\ filter_queue_' \in Seq(CsdResults(Snippets, Rows))
           /\ projection_queue_' \in Seq(CsdResults(Snippets, Rows))
           /\ delivered' \in SUBSET CsdResults(Snippets, Rows)
<1>1. /\ filter_queue_ \in Seq(CsdResults(Snippets, Rows))
      /\ projection_queue_ \in Seq(CsdResults(Snippets, Rows))
      /\ delivered \in SUBSET CsdResults(Snippets, Rows)
      /\ FilteredOnce /\ BlocksApart
  BY Zenon DEF BlocksInv, TypeOK
<1>2. PICK q : q = [r EXCEPT !.filtered_row_count = r.scanned_row_count]
  BY Zenon
<1>3. /\ q \in CsdResults(Snippets, Rows) /\ q.snippet = r.snippet /\ q.blocks = r.blocks
      /\ q.current_block_count = r.current_block_count
  BY <1>2 DEF CsdResults
<1>4. IsPart(q)
  BY <1>3, Zenon DEF IsPart
<1>5. CASE projection_queue_' = Append(projection_queue_, q) /\ UNCHANGED filter_queue_
  <2>1. projection_queue_' \in Seq(CsdResults(Snippets, Rows)) /\ delivered' = delivered \cup {q}
    BY <1>1, <1>3, <1>5, QueuePush, SMTT(30) DEF Delivers
  <2>2. InFilter' = InFilter
    BY <1>5 DEF InFilter, Elements
  <2>3. FilteredOnce'
    BY <1>1, <1>5, Zenon DEF FilteredOnce, Elements, Distinct
  <2>4. Arrives(t, r.blocks)
    BY <1>3, <1>4, <1>5, <2>1, <2>2, Zenon DEF Arrives
  <2> QED
    BY <1>1, <1>3, <1>5, <2>1, <2>3, <2>4, Zenon
<1>6. CASE filter_queue_' = Append(filter_queue_, r) /\ UNCHANGED projection_queue_
  <2>1. r \notin InFilter
    <3>1. PICK i \in 1 .. r.snippet.csd_block_count, j \in 1 .. r.snippet.csd_block_count :
             i <= j /\ r.blocks = Part(r.snippet, i, j)
      BY DEF IsPart
    <3>2. r.blocks # {}
      BY <3>1, PartEmpty
    <3> QED
      BY <1>1, <3>2, Zenon DEF BlocksApart
  <2>2. r \notin Elements(filter_queue_) /\ \A u \in Filters : filter_pc[u] = "filtering" => filter_in[u] # r
    BY <2>1 DEF InFilter
  <2>3. /\ filter_queue_' \in Seq(CsdResults(Snippets, Rows)) /\ Distinct(filter_queue_')
        /\ Elements(filter_queue_)' = Elements(filter_queue_) \cup {r}
    <3>1. Distinct(filter_queue_)
      BY <1>1 DEF FilteredOnce
    <3>2. Elements(filter_queue_') = Elements(filter_queue_) \cup {r}
      BY <1>1, <1>6, QueuePush
    <3> QED
      BY <1>1, <1>6, <2>2, <3>1, <3>2, QueuePush, Zenon DEF Elements
  <2>4. InFilter' = InFilter \cup {r}
    BY <2>3 DEF InFilter
  <2>5. delivered' = delivered
    BY <1>1, <1>6 DEF Delivers
  <2>6. FilteredOnce'
    BY <1>1, <2>2, <2>3, Zenon DEF FilteredOnce
  <2>7. Arrives(t, r.blocks)
    BY <1>6, <2>4, <2>5, Zenon DEF Arrives
  <2> QED
    BY <1>1, <1>6, <2>3, <2>5, <2>6, <2>7, Zenon
<1> QED
  BY <1>2, <1>5, <1>6 DEF enqueue_scan_result
-----------------------------------------------------------------------------
(* The blocks accounted for when left_block_count goes down.               *)
LEMMA AccountedPart ==
    ASSUME NEW s, NEW before, NEW after
    PROVE  Accounted(s, before, after) = Part(s, s.csd_block_count - before + 1, s.csd_block_count - after)
BY DEF Accounted, Part, make_map_key

(* read_data_block and read_index_block read the next block into the       *)
(* result: it accounts for one block more.                                 *)
LEMMA BlockRead ==
    ASSUME RegularSnippets, TypeOK, ScansRight, NEW t \in Scanners, Scanning(t),
           scan_pc[t] # "SST_FILE_SCAN", NEW count, ReadBlock(t, count),
           scan_pc[t] = "FULL_SCAN" => count = scan_result[t].current_block_count + left_block_count[t]
    PROVE  \E read \in CsdResults(Snippets, Rows) :
               /\ read.snippet = scan_result[t].snippet
               /\ read.current_block_count = scan_result[t].current_block_count + 1
               /\ read.blocks = Part(read.snippet, FirstOf(scan_result[t], left_block_count[t]),
                                     read.snippet.csd_block_count - left_block_count[t] + 1)
               /\ left_block_count[t] > 0
               /\ left_block_count' = [left_block_count EXCEPT ![t] = left_block_count[t] - 1]
               /\ \/ /\ enqueue_scan_result(read)
                     /\ scan_result' = [scan_result EXCEPT ![t] = NewResult(read.snippet)]
                  \/ /\ scan_result' = [scan_result EXCEPT ![t] = read]
                     /\ left_block_count[t] - 1 # 0
                     /\ UNCHANGED <<filter_queue_, projection_queue_>>
<1>1. PICK r, left, s, n : /\ r = scan_result[t] /\ left = left_block_count[t] /\ s = r.snippet
                           /\ n = s.csd_block_count
  BY Zenon
<1>2. /\ r \in ResultsInHand /\ s \in Snippets /\ n \in Nat /\ left \in Nat /\ r.current_block_count \in Nat
      /\ left + r.current_block_count <= n /\ s.type \in ScanTypes /\ s.type = scan_pc[t]
      /\ FirstOf(r, left) = n - left - r.current_block_count + 1 /\ position[t] \in Nat \ {0}
  BY <1>1, InHand, Zenon DEF FirstOf
<1>3. r.blocks = Part(s, FirstOf(r, left), n - left) /\ left = Len(s.block_list) + 1 - position[t]
  BY <1>1, InHand, Zenon DEF ScanRight, Agrees
<1>4. /\ s.block_list \in Seq([rows : Seq(Rows), foreign : BOOLEAN]) /\ Len(s.block_list) = n
      /\ \A i \in DOMAIN s.block_list : s.block_list[i].foreign => s.type = "FULL_SCAN" /\ i = Len(s.block_list)
  BY <1>1, <1>2, Zenon DEF RegularSnippets, ScanTypes
<1>5. position[t] <= Len(s.block_list)
  BY <1>1, Zenon DEF ReadBlock, snippet
<1>6. PICK block : block = s.block_list[position[t]]
  BY Zenon
<1>7. /\ block.rows \in Seq(Rows) /\ block.foreign \in BOOLEAN /\ left > 0
      /\ block.foreign => s.type = "FULL_SCAN" /\ left = 1
  <2>1. position[t] \in DOMAIN s.block_list /\ block \in [rows : Seq(Rows), foreign : BOOLEAN]
    BY <1>2, <1>4, <1>5, <1>6, Element, Zenon
  <2>2. left > 0 /\ (position[t] = Len(s.block_list) => left = 1)
    <3>1. Len(s.block_list) = n /\ left = n + 1 - position[t] /\ position[t] <= n
      BY <1>3, <1>4, <1>5, Zenon
    <3> QED
      BY <1>2, <3>1, SMTT(30)
  <2>3. block.foreign => s.type = "FULL_SCAN" /\ position[t] = Len(s.block_list)
    BY <1>4, <1>6, <2>1, Zenon
  <2>4. block.rows \in Seq(Rows) /\ block.foreign \in BOOLEAN
    BY <2>1
  <2> QED
    BY <2>2, <2>3, <2>4, Zenon
<1>8. PICK rows : rows = Fold(AddScanned, r, block.rows)
  BY Zenon
<1>9. rows \in ResultsInHand /\ SameBlocks(rows, r)
  BY <1>2, <1>7, <1>8, RowsScanned, Zenon
<1>10. PICK after : after = IF block.foreign THEN 0 ELSE left - 1
  BY Zenon
<1>11. after = left - 1
  BY <1>7, <1>10
<1>12. PICK read : read = [rows EXCEPT
                        !.current_block_count = IF block.foreign THEN count ELSE @ + 1,
                        !.blocks = @ \cup Accounted(s, left, after)]
  BY Zenon
<1>13. /\ read.snippet = s /\ read.current_block_count = r.current_block_count + 1
       /\ read.blocks = r.blocks \cup Part(s, n - left + 1, n - left + 1)
       /\ read.rows = rows.rows /\ read.data_length = rows.data_length
       /\ read.scanned_row_count = rows.scanned_row_count /\ read.filtered_row_count = rows.filtered_row_count
  <2>1. Accounted(s, left, after) = Part(s, n - left + 1, n - left + 1)
    <3>1. n - after = n - left + 1
      BY <1>2, <1>11
    <3> QED
      BY <1>1, <3>1, AccountedPart, Zenon
  <2>2. (IF block.foreign THEN count ELSE rows.current_block_count + 1) = r.current_block_count + 1
    BY <1>1, <1>2, <1>7, <1>9 DEF SameBlocks
  <2> QED
    BY <1>1, <1>2, <1>9, <1>12, <2>1, <2>2 DEF SameBlocks, ResultsInHand, CsdResults
<1>14. read.blocks = Part(s, FirstOf(r, left), n - left + 1)
  <2>1. /\ FirstOf(r, left) \in Int /\ n - left \in Int /\ n - left + 1 \in Int
        /\ FirstOf(r, left) <= n - left + 1 /\ n - left <= n - left + 1
    BY <1>2
  <2>2. Part(s, FirstOf(r, left), n - left + 1)
           = Part(s, FirstOf(r, left), n - left) \cup Part(s, n - left + 1, n - left + 1)
    BY <2>1, PartSplits, SMTT(30)
  <2> QED
    BY <1>3, <1>13, <2>2, Zenon
<1>15. read \in CsdResults(Snippets, Rows)
  <2>1. read.blocks \subseteq Blocks
    <3>1. Part(s, FirstOf(r, left), n - left + 1) \subseteq Part(s, 1, n)
      <4>1. FirstOf(r, left) \in Int /\ n - left + 1 \in Int /\ 1 <= FirstOf(r, left) /\ n - left + 1 <= n
        BY <1>2, <1>7
      <4> QED
        BY <1>2, <4>1, PartWithin, SMTT(30)
    <3>2. Part(s, 1, n) \subseteq Blocks
      BY <1>1, <1>2, Zenon DEF RegularSnippets, BlocksOf
    <3> QED
      BY <1>14, <3>1, <3>2, Zenon
  <2>2. read = [snippet |-> s, rows |-> rows.rows, data_length |-> rows.data_length,
                current_block_count |-> r.current_block_count + 1,
                scanned_row_count |-> rows.scanned_row_count,
                filtered_row_count |-> rows.filtered_row_count, blocks |-> read.blocks]
    BY <1>9, <1>12, <1>13, Zenon DEF ResultsInHand, CsdResults
  <2>3. r.current_block_count + 1 \in Int
    BY <1>2, SMTT(30)
  <2>4. /\ rows.rows \in Seq(Rows) /\ rows.data_length \in Nat
        /\ rows.scanned_row_count \in Nat /\ rows.filtered_row_count \in Nat
    BY <1>9 DEF ResultsInHand, CsdResults
  <2> QED
    BY <1>2, <2>1, <2>2, <2>3, <2>4, SMTT(30) DEF CsdResults
<1>16. /\ left_block_count' = [left_block_count EXCEPT ![t] = after]
       /\ IF block.foreign \/ BatchComplete(read.current_block_count, after)
          THEN enqueue_scan_result(read) /\ scan_result' = [scan_result EXCEPT ![t] = clear(read)]
          ELSE /\ scan_result' = [scan_result EXCEPT ![t] = read]
               /\ UNCHANGED <<filter_queue_, projection_queue_>>
  BY <1>1, <1>6, <1>8, <1>10, <1>12, Zenon DEF ReadBlock, snippet
<1>17. clear(read) = NewResult(s)
  BY <1>13, Zenon DEF clear, NewResult, CsdResult
<1> QED
  BY <1>1, <1>7, <1>11, <1>13, <1>14, <1>15, <1>16, <1>17, Zenon DEF BatchComplete

(* The locals of scan thread t after a step.                               *)
ScanWrites(t, at, r, left, next) ==
    /\ scan_pc' = [scan_pc EXCEPT ![t] = at] /\ scan_result' = [scan_result EXCEPT ![t] = r]
    /\ left_block_count' = [left_block_count EXCEPT ![t] = left]
    /\ position' = [position EXCEPT ![t] = next]

(* What then holds of the scan threads.                                    *)
ScanNow(t, at, r, left, next) ==
    /\ scan_pc' \in [Scanners -> {"pop"} \cup ScanTypes] /\ scan_result' \in [Scanners -> ResultsInHand]
    /\ left_block_count' \in [Scanners -> Int] /\ position' \in [Scanners -> Nat \ {0}]
    /\ scan_pc'[t] = at /\ scan_result'[t] = r /\ left_block_count'[t] = left /\ position'[t] = next
    /\ \A u \in Scanners \ {t} :
          /\ scan_pc'[u] = scan_pc[u] /\ scan_result'[u] = scan_result[u]
          /\ left_block_count'[u] = left_block_count[u] /\ position'[u] = position[u]

(* What the locals of a scan thread are after a step that writes them.     *)
LEMMA ScanWritten ==
    ASSUME TypeOK, NEW t \in Scanners, NEW at \in {"pop"} \cup ScanTypes, NEW r \in ResultsInHand,
           NEW left \in Int, NEW next \in Nat \ {0}, ScanWrites(t, at, r, left, next)
    PROVE  ScanNow(t, at, r, left, next)
<1>1. /\ scan_pc \in [Scanners -> {"pop"} \cup ScanTypes] /\ scan_result \in [Scanners -> ResultsInHand]
      /\ left_block_count \in [Scanners -> Int] /\ position \in [Scanners -> Nat \ {0}]
  BY Zenon DEF TypeOK, ScanTypes, ResultsInHand
<1>2. /\ scan_pc' \in [Scanners -> {"pop"} \cup ScanTypes] /\ scan_result' \in [Scanners -> ResultsInHand]
      /\ left_block_count' \in [Scanners -> Int] /\ position' \in [Scanners -> Nat \ {0}]
  BY <1>1, Zenon DEF ScanWrites
<1>3. scan_pc'[t] = at /\ scan_result'[t] = r /\ left_block_count'[t] = left /\ position'[t] = next
  BY <1>1, Zenon DEF ScanWrites
<1>4. \A u \in Scanners \ {t} :
         /\ scan_pc'[u] = scan_pc[u] /\ scan_result'[u] = scan_result[u]
         /\ left_block_count'[u] = left_block_count[u] /\ position'[u] = position[u]
  BY <1>1, Zenon DEF ScanWrites
<1> QED
  BY <1>2, <1>3, <1>4, Zenon DEF ScanNow

(* The type invariant after a step of scan thread t.                       *)
LEMMA ScanTypeStep ==
    ASSUME TypeOK, UNCHANGED <<unsent, filter_pc, filter_in>>,
           scan_queue_' \in Seq(Snippets),
           filter_queue_' \in Seq(CsdResults(Snippets, Rows)),
           projection_queue_' \in Seq(CsdResults(Snippets, Rows)),
           delivered' \in SUBSET CsdResults(Snippets, Rows),
           scan_pc' \in [Scanners -> {"pop"} \cup ScanTypes], scan_result' \in [Scanners -> ResultsInHand],
           left_block_count' \in [Scanners -> Int], position' \in [Scanners -> Nat \ {0}]
    PROVE  TypeOK'
BY Zenon DEF TypeOK, ScanTypes, ResultsInHand

(* What a thread keeps, from its locals.                                   *)
LEMMA KeptAfter ==
    ASSUME NEW t, NEW at, NEW r, NEW left, NEW next, ScanNow(t, at, r, left, next)
    PROVE  Kept(t)' = Part(r.snippet, FirstOf(r, left), r.snippet.csd_block_count)
BY Zenon DEF ScanNow, Kept

(* A thread whose new locals agree is right after the step.                *)
LEMMA RightAfter ==
    ASSUME NEW t, NEW left, NEW r, NEW next, scan_result'[t] = r, left_block_count'[t] = left,
           position'[t] = next, scan_pc'[t] = r.snippet.type, Agrees(r, left, next)
    PROVE  ScanRight(t)'
BY DEF ScanRight

(* left_block_count goes down by one.                                      *)
LEMMA OneLess ==
    ASSUME NEW n \in Nat, NEW left \in Nat, left > 0, NEW c \in Nat, left + c <= n
    PROVE  \E less \in Nat, first \in 1 .. n, j \in 1 .. n :
              /\ less = left - 1 /\ less + (c + 1) <= n /\ less + 0 <= n
              /\ first = n - left - c + 1 /\ first = n - less - (c + 1) + 1
              /\ j = n - less /\ j = n - left + 1 /\ n - less - 0 + 1 = j + 1
              /\ first <= j /\ j - first + 1 = c + 1 /\ first \in Int /\ j \in Int /\ j <= n
              /\ c + 1 \in Nat /\ first <= j + 1 /\ less \in Int
<1>1. /\ left - 1 \in Nat /\ n - left - c + 1 \in 1 .. n /\ n - left + 1 \in 1 .. n
      /\ n - left - c + 1 = n - (left - 1) - (c + 1) + 1 /\ n - left + 1 = n - (left - 1)
      /\ n - (left - 1) - 0 + 1 = (n - left + 1) + 1 /\ n - left - c + 1 <= n - left + 1
      /\ (n - left + 1) - (n - left - c + 1) + 1 = c + 1
      /\ (left - 1) + (c + 1) <= n /\ (left - 1) + 0 <= n /\ c + 1 \in Nat
  OBVIOUS
<1>2. PICK less, first, j : less = left - 1 /\ first = n - left - c + 1 /\ j = n - left + 1
  BY Zenon
<1>3. less \in Nat /\ first \in 1 .. n /\ j \in 1 .. n /\ first <= j
  BY <1>1, <1>2, Zenon
<1>4. first \in Int /\ j \in Int /\ j <= n /\ first <= j + 1 /\ less \in Int
  BY <1>3
<1> QED
  BY <1>1, <1>2, <1>3, <1>4, Zenon

(* Reading a block keeps the invariant: the result goes on when it has     *)
(* NUM_OF_BLOCKS blocks or the last one, with all the blocks it counts.    *)
LEMMA ReadStep ==
    ASSUME RegularSnippets, BlocksInv, NEW t \in Scanners, ScanTurn(t),
           scan_pc[t] \in {"FULL_SCAN", "INDEX_TABLE_SCAN"}, NEW count, ReadBlock(t, count),
           scan_pc[t] = "FULL_SCAN" => count = scan_result[t].current_block_count + left_block_count[t]
    PROVE  BlocksInv' /\ HandsNew
<1>1. TypeOK /\ ScansRight /\ Scanning(t)
  BY DEF BlocksInv, Scanning
<1>2. PICK r, s, n, left, c, at, next :
         /\ r = scan_result[t] /\ s = r.snippet /\ n = s.csd_block_count /\ left = left_block_count[t]
         /\ c = r.current_block_count /\ at = scan_pc[t] /\ next = position[t]
  BY Zenon
<1>3. PICK read \in CsdResults(Snippets, Rows) :
         /\ read.snippet = s /\ read.current_block_count = c + 1
         /\ read.blocks = Part(s, FirstOf(r, left), n - left + 1)
         /\ left > 0 /\ left_block_count' = [left_block_count EXCEPT ![t] = left - 1]
         /\ \/ /\ enqueue_scan_result(read)
               /\ scan_result' = [scan_result EXCEPT ![t] = NewResult(s)]
            \/ /\ scan_result' = [scan_result EXCEPT ![t] = read]
               /\ left - 1 # 0
               /\ UNCHANGED <<filter_queue_, projection_queue_>>
  <2>1. scan_pc[t] # "SST_FILE_SCAN"
    OBVIOUS
  <2>2. PICK read \in CsdResults(Snippets, Rows) :
               /\ read.snippet = scan_result[t].snippet
               /\ read.current_block_count = scan_result[t].current_block_count + 1
               /\ read.blocks = Part(read.snippet, FirstOf(scan_result[t], left_block_count[t]),
                                     read.snippet.csd_block_count - left_block_count[t] + 1)
               /\ left_block_count[t] > 0
               /\ left_block_count' = [left_block_count EXCEPT ![t] = left_block_count[t] - 1]
               /\ \/ /\ enqueue_scan_result(read)
                     /\ scan_result' = [scan_result EXCEPT ![t] = NewResult(read.snippet)]
                  \/ /\ scan_result' = [scan_result EXCEPT ![t] = read]
                     /\ left_block_count[t] - 1 # 0
                     /\ UNCHANGED <<filter_queue_, projection_queue_>>
    BY <1>1, <2>1, BlockRead, Zenon
  <2> QED
    BY <1>2, <2>2, Zenon
<1>4. /\ n \in Nat /\ left \in Nat /\ c \in Nat /\ left + c <= n
      /\ FirstOf(r, left) = n - left - c + 1
      /\ s \in Snippets /\ s.type = at /\ at \in ScanTypes /\ next \in Nat \ {0}
  BY <1>1, <1>2, InHand, Zenon DEF FirstOf
<1>5. PICK less \in Nat, first \in 1 .. n, j \in 1 .. n :
         /\ less = left - 1 /\ less + (c + 1) <= n /\ less + 0 <= n
         /\ first = n - left - c + 1 /\ first = n - less - (c + 1) + 1
         /\ j = n - less /\ j = n - left + 1 /\ n - less - 0 + 1 = j + 1
         /\ first <= j /\ j - first + 1 = c + 1 /\ first \in Int /\ j \in Int /\ j <= n
         /\ c + 1 \in Nat /\ first <= j + 1 /\ less \in Int
  <2>1. n \in Nat /\ left \in Nat /\ left > 0 /\ c \in Nat /\ left + c <= n
    BY <1>3, <1>4, Zenon
  <2> QED
    BY <2>1, OneLess, SMTT(30)
<1>6. read.blocks = Part(s, first, j) /\ FirstOf(r, left) = first /\ Kept(t) = Part(s, first, n)
  <2>1. FirstOf(r, left) = first
    BY <1>4, <1>5, Zenon
  <2>2. Kept(t) = Part(s, FirstOf(r, left), n)
    BY <1>2, Zenon DEF Kept
  <2>3. read.blocks = Part(s, FirstOf(r, left), j)
    BY <1>3, <1>5, Zenon
  <2> QED
    BY <2>1, <2>2, <2>3, Zenon
<1>7. at # "SST_FILE_SCAN" /\ Len(s.block_list) = n /\ less = Len(s.block_list) + 1 - (next + 1)
  <2>1. at # "SST_FILE_SCAN" /\ at \in {"FULL_SCAN", "INDEX_TABLE_SCAN"}
    BY <1>2, Zenon
  <2>2. left = Len(s.block_list) + 1 - next
    BY <1>1, <1>2, <1>4, <2>1, InHand, Zenon DEF ScanRight, Agrees
  <2>3. Len(s.block_list) = n
    BY <1>2, <1>4, <2>1, Zenon DEF RegularSnippets
  <2>4. left = n + 1 - next
    BY <2>2, <2>3, Zenon
  <2>5. less = n + 1 - (next + 1)
    BY <1>4, <1>5, <2>4, SMTT(30)
  <2> QED
    BY <2>1, <2>3, <2>5, Zenon
<1>8. /\ UNCHANGED <<unsent, scan_queue_, filter_pc, filter_in>> /\ Delivers
      /\ scan_pc' = scan_pc /\ position' = [position EXCEPT ![t] = position[t] + 1]
  BY Zenon DEF ScanTurn, filterVars, ReadBlock
<1>9. /\ scan_pc' = [scan_pc EXCEPT ![t] = at]
      /\ position' = [position EXCEPT ![t] = next + 1]
      /\ left_block_count' = [left_block_count EXCEPT ![t] = less]
  BY <1>1, <1>2, <1>3, <1>5, <1>8, Zenon DEF TypeOK
<1>10. at \in {"pop"} \cup ScanTypes /\ next + 1 \in Nat \ {0} /\ at # "pop"
  BY <1>4 DEF ScanTypes
<1>11. scan_queue_' \in Seq(Snippets)
  BY <1>1, <1>8 DEF TypeOK
<1>12. CASE enqueue_scan_result(read) /\ scan_result' = [scan_result EXCEPT ![t] = NewResult(s)]
  <2>1. IsPart(read)
    <3>1. /\ first \in 1 .. read.snippet.csd_block_count /\ j \in 1 .. read.snippet.csd_block_count
          /\ first <= j /\ read.blocks = Part(read.snippet, first, j)
          /\ read.current_block_count = j - first + 1
      BY <1>2, <1>3, <1>5, <1>6, Zenon
    <3> QED
      BY <3>1, Zenon DEF IsPart
  <2>2. /\ Part(s, first, n) = Part(s, first, j) \cup Part(s, j + 1, n)
        /\ Part(s, first, j) \cap Part(s, j + 1, n) = {}
    BY <1>4, <1>5, PartSplits, SMTT(30)
  <2>3. /\ Arrives(t, read.blocks) /\ FilteredOnce'
        /\ filter_queue_' \in Seq(CsdResults(Snippets, Rows))
        /\ projection_queue_' \in Seq(CsdResults(Snippets, Rows))
        /\ delivered' \in SUBSET CsdResults(Snippets, Rows)
    <3>1. read.blocks \subseteq Kept(t) /\ read.snippet = scan_result[t].snippet
      <4>1. read.blocks = Part(s, first, j) /\ Kept(t) = Part(s, first, n)
        BY <1>6, Zenon
      <4>2. Part(s, first, j) \subseteq Part(s, first, n)
        BY <2>2, Zenon
      <4>3. read.snippet = scan_result[t].snippet
        BY <1>2, <1>3, Zenon
      <4> QED
        BY <4>1, <4>2, <4>3, Zenon
    <3>2. UNCHANGED <<filter_pc, filter_in>>
      BY <1>8, Zenon
    <3> QED
      BY <1>1, <1>8, <1>12, <2>1, <3>1, <3>2, HandsOn, Zenon
  <2>4. /\ NewResult(s) \in ResultsInHand /\ NewResult(s).snippet = s
        /\ NewResult(s).current_block_count = 0 /\ NewResult(s).blocks = {}
    BY <1>4, NewResultInHand, Zenon
  <2>5. ScanWrites(t, at, NewResult(s), less, next + 1)
    BY <1>9, <1>12, Zenon DEF ScanWrites
  <2>5a. ScanNow(t, at, NewResult(s), less, next + 1)
    BY <1>1, <1>5, <1>10, <2>4, <2>5, ScanWritten
  <2>6. /\ scan_pc' \in [Scanners -> {"pop"} \cup ScanTypes] /\ scan_result' \in [Scanners -> ResultsInHand]
        /\ left_block_count' \in [Scanners -> Int] /\ position' \in [Scanners -> Nat \ {0}]
        /\ scan_pc'[t] = at /\ scan_result'[t] = NewResult(s) /\ left_block_count'[t] = less
        /\ position'[t] = next + 1
        /\ \A u \in Scanners \ {t} :
              /\ scan_pc'[u] = scan_pc[u] /\ scan_result'[u] = scan_result[u]
              /\ left_block_count'[u] = left_block_count[u] /\ position'[u] = position[u]
    BY <2>5a, Zenon DEF ScanNow
  <2>7. TypeOK'
    <3>1. UNCHANGED <<unsent, filter_pc, filter_in>>
      BY <1>8, Zenon
    <3> QED
      BY <1>1, <1>11, <2>3, <2>6, <3>1, ScanTypeStep, Zenon
  <2>8. Kept(t)' = Part(s, j + 1, n)
    <3>1. FirstOf(NewResult(s), less) = j + 1
      BY <1>2, <1>5, <2>4, Zenon DEF FirstOf
    <3>2. Kept(t)' = Part(NewResult(s).snippet, FirstOf(NewResult(s), less),
                           NewResult(s).snippet.csd_block_count)
      BY <2>5a, KeptAfter, Zenon
    <3> QED
      BY <1>2, <2>4, <3>1, <3>2, Zenon
  <2>9. Scanning(t)' /\ GivesUp(t, read.blocks)
    <3>1. Kept(t)' = Kept(t) \ read.blocks /\ read.blocks \subseteq Kept(t)
      BY <1>6, <2>2, <2>8, SMTT(30)
    <3> QED
      BY <1>2, <1>10, <2>4, <2>6, <3>1, Zenon DEF GivesUp, Scanning
  <2>10. ScanRight(t)'
    <3>1. Part(s, j + 1, j) = {}
      BY <1>5, PartEmpty
    <3>2. FirstOf(NewResult(s), less) = j + 1
      BY <1>2, <1>5, <2>4, Zenon DEF FirstOf
    <3>3. less >= 0 /\ 0 >= 0 /\ less + 0 <= n
      BY <1>5
    <3>4. Agrees(NewResult(s), less, next + 1)
      BY <1>2, <1>4, <1>5, <1>7, <2>4, <3>1, <3>2, <3>3, Zenon DEF Agrees
    <3> QED
      BY <1>4, <2>4, <2>6, <3>4, RightAfter, Zenon
  <2>11. /\ UNCHANGED <<unsent, scan_queue_>>
         /\ \A u \in Scanners \ {t} : position'[u] = position[u]
    BY <1>8, <2>6, Zenon
  <2> QED
    BY <1>1, <2>3, <2>7, <2>9, <2>10, <2>11, ScanMoves, Zenon
<1>13. CASE /\ scan_result' = [scan_result EXCEPT ![t] = read] /\ left - 1 # 0
            /\ UNCHANGED <<filter_queue_, projection_queue_>>
  <2>1. /\ NoneArrives({})
        /\ filter_queue_' \in Seq(CsdResults(Snippets, Rows))
        /\ projection_queue_' \in Seq(CsdResults(Snippets, Rows))
        /\ delivered' \in SUBSET CsdResults(Snippets, Rows)
    <3>1. UNCHANGED <<filter_queue_, projection_queue_>> /\ UNCHANGED <<filter_pc, filter_in>>
      BY <1>8, <1>13, Zenon
    <3> QED
      BY <1>1, <1>8, <3>1, NothingArrives, Zenon
  <2>2. read \in ResultsInHand
    BY Zenon DEF ResultsInHand, CsdResults
  <2>3. ScanWrites(t, at, read, less, next + 1)
    BY <1>9, <1>13, Zenon DEF ScanWrites
  <2>3a. ScanNow(t, at, read, less, next + 1)
    BY <1>1, <1>5, <1>10, <2>2, <2>3, ScanWritten, SMTT(30)
  <2>4. /\ scan_pc' \in [Scanners -> {"pop"} \cup ScanTypes] /\ scan_result' \in [Scanners -> ResultsInHand]
        /\ left_block_count' \in [Scanners -> Int] /\ position' \in [Scanners -> Nat \ {0}]
        /\ scan_pc'[t] = at /\ scan_result'[t] = read /\ left_block_count'[t] = less
        /\ position'[t] = next + 1
        /\ \A u \in Scanners \ {t} :
              /\ scan_pc'[u] = scan_pc[u] /\ scan_result'[u] = scan_result[u]
              /\ left_block_count'[u] = left_block_count[u] /\ position'[u] = position[u]
    BY <2>3a, Zenon DEF ScanNow
  <2>5. TypeOK'
    <3>1. UNCHANGED <<unsent, filter_pc, filter_in>>
      BY <1>8, Zenon
    <3> QED
      BY <1>1, <1>11, <2>1, <2>4, <3>1, ScanTypeStep, Zenon
  <2>6. Kept(t)' = Kept(t)
    <3>1. FirstOf(read, less) = first
      BY <1>2, <1>3, <1>5, Zenon DEF FirstOf
    <3>2. Kept(t)' = Part(read.snippet, FirstOf(read, less), read.snippet.csd_block_count)
      BY <2>3a, KeptAfter, Zenon
    <3> QED
      BY <1>2, <1>3, <1>6, <3>1, <3>2, Zenon
  <2>7. Scanning(t)' /\ GivesUp(t, {})
    <3>1. Kept(t)' = Kept(t) \ {} /\ {} \subseteq Kept(t)
      BY <2>6, Zenon
    <3> QED
      BY <1>2, <1>3, <1>10, <2>4, <3>1, Zenon DEF GivesUp, Scanning
  <2>8. ScanRight(t)'
    <3>1. FirstOf(read, less) = first
      BY <1>2, <1>3, <1>5, Zenon DEF FirstOf
    <3>2. less >= 0 /\ c + 1 >= 0 /\ less # 0
      BY <1>5, <1>13, SMTT(30)
    <3>3. Agrees(read, less, next + 1)
      BY <1>2, <1>3, <1>4, <1>5, <1>6, <1>7, <3>1, <3>2, Zenon DEF Agrees
    <3> QED
      BY <1>3, <1>4, <2>4, <3>3, RightAfter, Zenon
  <2>9. FilteredOnce'
    BY <1>8, <1>13, Zenon DEF BlocksInv, FilteredOnce, Elements, Distinct
  <2>10. /\ UNCHANGED <<unsent, scan_queue_>>
         /\ \A u \in Scanners \ {t} : position'[u] = position[u]
    BY <1>8, <2>4, Zenon
  <2> QED
    BY <1>1, <2>1, <2>5, <2>7, <2>8, <2>9, <2>10, ScanMoves, Zenon
<1> QED
  BY <1>3, <1>12, <1>13, Zenon

(* A scan function that returns gives up the blocks it still keeps.        *)
LEMMA ReturnStep ==
    ASSUME RegularSnippets, BlocksInv, NEW t \in Scanners, Scanning(t), ScanTurn(t), ScanReturns(t),
           UNCHANGED scan_queue_, FilteredOnce',
           filter_queue_' \in Seq(CsdResults(Snippets, Rows)),
           projection_queue_' \in Seq(CsdResults(Snippets, Rows)),
           delivered' \in SUBSET CsdResults(Snippets, Rows),
           NEW left \in Int, left_block_count' = [left_block_count EXCEPT ![t] = left],
           NEW B, B = Kept(t),
           Arrives(t, B) \/ NoneArrives(B)
    PROVE  BlocksInv' /\ HandsNew
<1>1. TypeOK /\ UNCHANGED <<unsent, scan_queue_>> /\ UNCHANGED <<unsent, filter_pc, filter_in>>
  BY DEF BlocksInv, ScanTurn, filterVars
<1>2. scan_queue_' \in Seq(Snippets)
  BY <1>1 DEF TypeOK
<1>3. PICK r : r = NewResult(NoSnippet)
  BY Zenon
<1>4. r \in ResultsInHand
  BY <1>3, NewResultInHand, Zenon
<1>5. NewResult(NoSnippet) = r
  BY <1>3, Zenon DEF NewResult, CsdResult
<1>6. ScanWrites(t, "pop", r, left, 1)
  BY <1>5, Zenon DEF ScanReturns, ScanWrites
<1>6a. ScanNow(t, "pop", r, left, 1)
  <2>1. "pop" \in {"pop"} \cup ScanTypes /\ 1 \in Nat \ {0}
    OBVIOUS
  <2> QED
    BY <1>1, <1>4, <1>6, <2>1, ScanWritten, Zenon
<1>7. /\ scan_pc' \in [Scanners -> {"pop"} \cup ScanTypes] /\ scan_result' \in [Scanners -> ResultsInHand]
      /\ left_block_count' \in [Scanners -> Int] /\ position' \in [Scanners -> Nat \ {0}]
      /\ scan_pc'[t] = "pop" /\ scan_result'[t] = r /\ position'[t] = 1
      /\ \A u \in Scanners \ {t} :
            /\ scan_pc'[u] = scan_pc[u] /\ scan_result'[u] = scan_result[u]
            /\ left_block_count'[u] = left_block_count[u] /\ position'[u] = position[u]
  BY <1>6a, Zenon DEF ScanNow
<1>8. TypeOK'
  BY <1>1, <1>2, <1>7, ScanTypeStep, Zenon
<1>9. ~ Scanning(t)' /\ GivesUp(t, B) /\ Idle(t)'
  BY <1>3, <1>7, Zenon DEF Scanning, GivesUp, Idle
<1> QED
  BY <1>1, <1>3, <1>7, <1>8, <1>9, ScanMoves, Zenon

(* data_block_full_scan and index_block_scan return with no block left.    *)
LEMMA EndOfBlocksStep ==
    ASSUME RegularSnippets, BlocksInv, NEW t \in Scanners, ScanTurn(t), EndOfBlocks(t)
    PROVE  BlocksInv' /\ HandsNew
<1>1. /\ scan_pc[t] \in {"FULL_SCAN", "INDEX_TABLE_SCAN"} /\ ScanReturns(t)
      /\ position[t] > Len(scan_result[t].snippet.block_list)
      /\ left_block_count' = [left_block_count EXCEPT ![t] = 0]
      /\ UNCHANGED <<scan_queue_, filter_queue_, projection_queue_>>
  BY Zenon DEF EndOfBlocks, snippet
<1>2. TypeOK /\ ScansRight /\ Scanning(t) /\ scan_pc[t] # "SST_FILE_SCAN"
  BY <1>1 DEF BlocksInv, Scanning
<1>3. PICK r, s, n, left, next :
         /\ r = scan_result[t] /\ s = r.snippet /\ n = s.csd_block_count /\ left = left_block_count[t]
         /\ next = position[t]
  BY Zenon
<1>4. /\ n \in Nat /\ left \in Nat /\ next \in Nat
      /\ s \in Snippets /\ s.type \in {"FULL_SCAN", "INDEX_TABLE_SCAN"}
  BY <1>1, <1>2, <1>3, InHand, Zenon
<1>5. left = Len(s.block_list) + 1 - next /\ (left = 0 => r.current_block_count = 0)
  BY <1>2, <1>3, InHand, Zenon DEF ScanRight, Agrees
<1>6. Len(s.block_list) = n
  BY <1>3, <1>4, Zenon DEF RegularSnippets
<1>7. left = n + 1 - next /\ next > n
  BY <1>1, <1>3, <1>5, <1>6, Zenon
<1>8. left = 0
  BY <1>4, <1>7
<1>9. FirstOf(r, left) = n - 0 - 0 + 1
  BY <1>3, <1>5, <1>8, Zenon DEF FirstOf
<1>10. Kept(t) = {}
  <2>1. n - 0 - 0 + 1 = n + 1 /\ n < n + 1 /\ n \in Int /\ n + 1 \in Int
    BY <1>4
  <2>2. Part(s, n + 1, n) = {}
    BY <2>1, PartEmpty
  <2> QED
    BY <1>3, <1>9, <2>1, <2>2, Zenon DEF Kept
<1>11. NoneArrives({}) /\ FilteredOnce' /\ delivered' = delivered
  BY <1>1, SMTT(30) DEF ScanTurn, Delivers, InFilter, FilteredOnce, filterVars, BlocksInv, NoneArrives
<1>12. /\ filter_queue_' \in Seq(CsdResults(Snippets, Rows))
       /\ projection_queue_' \in Seq(CsdResults(Snippets, Rows))
       /\ delivered' \in SUBSET CsdResults(Snippets, Rows)
  BY <1>1, <1>2, <1>11 DEF TypeOK
<1>13. 0 \in Int /\ UNCHANGED scan_queue_
  BY <1>1
<1> QED
  BY <1>1, <1>2, <1>10, <1>11, <1>12, <1>13, ReturnStep, Zenon
-----------------------------------------------------------------------------
(* A result, field by field.                                               *)
LEMMA ResultType ==
    ASSUME NEW s \in Snippets, NEW rows \in Seq(Rows), NEW length \in Nat, NEW count \in Int,
           NEW scanned \in Nat, NEW filtered \in Nat, NEW blocks \in SUBSET Blocks
    PROVE  [snippet |-> s, rows |-> rows, data_length |-> length, current_block_count |-> count,
            scanned_row_count |-> scanned, filtered_row_count |-> filtered, blocks |-> blocks]
              \in CsdResults(Snippets, Rows)
BY Zenon DEF CsdResults

(* The next k blocks B of thread t's snippet, and what becomes of them     *)
(* when the thread passes its result on.                                   *)
NextBlocks(t, k, r, s, n, left, B) ==
    /\ r = scan_result[t] /\ s = r.snippet /\ n = s.csd_block_count
    /\ left = left_block_count[t] /\ B = Part(s, n - left + 1, n - left + k)

GoOn(t, k, s, n, left, B) ==
    /\ Arrives(t, B) /\ FilteredOnce'
    /\ filter_queue_' \in Seq(CsdResults(Snippets, Rows))
    /\ projection_queue_' \in Seq(CsdResults(Snippets, Rows))
    /\ delivered' \in SUBSET CsdResults(Snippets, Rows)
    /\ left_block_count' = [left_block_count EXCEPT ![t] = left - k]
    /\ Kept(t) = Part(s, n - left + 1, n) /\ B \subseteq Kept(t)
    /\ Kept(t) \ B = Part(s, n - left + k + 1, n)

(* An SST file scan passes its result on as the next k blocks.             *)
LEMMA PassedOn ==
    ASSUME RegularSnippets, BlocksInv, NEW t \in Scanners, scan_pc[t] = "SST_FILE_SCAN",
           NEW k \in Nat \ {0}, k <= left_block_count[t], PassOn(t, k), Delivers,
           UNCHANGED <<filter_pc, filter_in>>,
           NEW r, NEW s, NEW n, NEW left, NEW B, NextBlocks(t, k, r, s, n, left, B)
    PROVE  GoOn(t, k, s, n, left, B)
<1> SUFFICES ASSUME r = scan_result[t], s = r.snippet, n = s.csd_block_count, left = left_block_count[t],
                    B = Part(s, n - left + 1, n - left + k)
             PROVE  /\ Arrives(t, B) /\ FilteredOnce'
                    /\ filter_queue_' \in Seq(CsdResults(Snippets, Rows))
                    /\ projection_queue_' \in Seq(CsdResults(Snippets, Rows))
                    /\ delivered' \in SUBSET CsdResults(Snippets, Rows)
                    /\ left_block_count' = [left_block_count EXCEPT ![t] = left - k]
                    /\ Kept(t) = Part(s, n - left + 1, n) /\ B \subseteq Kept(t)
                    /\ Kept(t) \ B = Part(s, n - left + k + 1, n)
  BY Zenon DEF NextBlocks, GoOn
<1>1. TypeOK /\ ScansRight /\ Scanning(t)
  BY Zenon DEF BlocksInv, Scanning
<1>2. /\ r \in ResultsInHand /\ s \in Snippets /\ n \in Nat /\ left \in Nat /\ left + r.current_block_count <= n
      /\ s.type = "SST_FILE_SCAN"
  BY <1>1, InHand, Zenon
<1>3. r.current_block_count = 0 /\ r.blocks = Part(s, FirstOf(r, left), n - left)
  BY <1>1, <1>2, InHand, Zenon DEF ScanRight, Agrees
<1>4. /\ n - left - 0 + 1 = n - left + 1 /\ n - (left - k) = n - left + k /\ 0 + k = k
      /\ n - left + 1 \in 1 .. n /\ n - left + k \in 1 .. n /\ n - left + 1 <= n - left + k
      /\ k = (n - left + k) - (n - left + 1) + 1
      /\ n - left + 1 \in Int /\ n - left + k \in Int /\ n - left + 1 <= (n - left + k) + 1
      /\ n - left < n - left + 1 /\ n - left \in Int /\ n - left + k <= n /\ k \in Int
      /\ 1 <= n - left + 1 /\ n \in Int
  <2>1. left <= n /\ k <= left
    BY <1>2, <1>3
  <2> QED
    BY <1>2, <2>1, SMTT(30)
<1>5. FirstOf(r, left) = n - left + 1
  BY <1>3, <1>4, Zenon DEF FirstOf
<1>6. r.blocks = {} /\ Kept(t) = Part(s, n - left + 1, n)
  <2>1. Part(s, n - left + 1, n - left) = {}
    BY <1>4, PartEmpty, Zenon
  <2> QED
    BY <1>3, <1>5, <2>1, Zenon DEF Kept
<1>7. /\ Part(s, n - left + 1, n) = B \cup Part(s, n - left + k + 1, n)
      /\ B \cap Part(s, n - left + k + 1, n) = {}
  <2>1. PICK i, j : i = n - left + 1 /\ j = n - left + k
    BY Zenon
  <2>2. i \in Int /\ j \in Int /\ n \in Int /\ i <= j + 1 /\ j <= n
    BY <1>4, <2>1, Zenon
  <2>3. Divides(s, i, j, n)
    BY <2>2, PartDivides, Zenon
  <2> QED
    BY <2>1, <2>3, Zenon DEF Divides
<1>8. B \subseteq Kept(t) /\ Kept(t) \ B = Part(s, n - left + k + 1, n)
  <2>1. PICK K, C : K = Kept(t) /\ C = Part(s, n - left + k + 1, n)
    BY Zenon
  <2>2. K = B \cup C /\ B \cap C = {}
    BY <1>6, <1>7, <2>1, Zenon
  <2>3. B \subseteq K /\ K \ B = C
    BY <2>2, Zenon
  <2> QED
    BY <2>1, <2>3, Zenon
<1>9. PICK q : q = [r EXCEPT !.current_block_count = @ + k, !.blocks = @ \cup B]
  BY Zenon
<1>10. /\ q.snippet = s /\ q.current_block_count = 0 + k /\ q.blocks = {} \cup B
       /\ q = [snippet |-> s, rows |-> r.rows, data_length |-> r.data_length,
               current_block_count |-> q.current_block_count, scanned_row_count |-> r.scanned_row_count,
               filtered_row_count |-> r.filtered_row_count, blocks |-> q.blocks]
  BY <1>2, <1>3, <1>6, <1>9, Zenon DEF ResultsInHand, CsdResults
<1>11. q.current_block_count = k /\ q.blocks = B
  BY <1>4, <1>10, Zenon
<1>12. q \in CsdResults(Snippets, Rows)
  <2>1. B \subseteq Blocks
    <3>1. B \subseteq Part(s, 1, n)
      <4>1. PICK i, j : i = n - left + 1 /\ j = n - left + k
        BY Zenon
      <4>2. i \in Int /\ j \in Int /\ 1 \in Int /\ n \in Int /\ 1 <= i /\ j <= n
        BY <1>4, <4>1
      <4>3. Part(s, i, j) \subseteq Part(s, 1, n)
        BY <4>2, PartWithin
      <4> QED
        BY <4>1, <4>3, Zenon
    <3>2. Part(s, 1, n) \subseteq Blocks
      BY <1>2, Zenon DEF RegularSnippets, BlocksOf
    <3> QED
      BY <3>1, <3>2, Zenon
  <2>2. /\ r.rows \in Seq(Rows) /\ r.data_length \in Nat
        /\ r.scanned_row_count \in Nat /\ r.filtered_row_count \in Nat
    BY <1>2, Zenon DEF ResultsInHand, CsdResults
  <2> QED
    <3>1. q = [snippet |-> s, rows |-> r.rows, data_length |-> r.data_length, current_block_count |-> k,
               scanned_row_count |-> r.scanned_row_count, filtered_row_count |-> r.filtered_row_count,
               blocks |-> B]
      BY <1>10, <1>11, Zenon
    <3> QED
      BY <1>2, <1>4, <2>1, <2>2, <3>1, Zenon DEF CsdResults
<1>13. IsPart(q)
  <2>1. /\ n - left + 1 \in 1 .. q.snippet.csd_block_count /\ n - left + k \in 1 .. q.snippet.csd_block_count
        /\ q.blocks = Part(q.snippet, n - left + 1, n - left + k)
        /\ q.current_block_count = (n - left + k) - (n - left + 1) + 1
    BY <1>4, <1>10, <1>11, Zenon
  <2> QED
    BY <1>4, <2>1, Zenon DEF IsPart
<1>14. enqueue_scan_result(q) /\ left_block_count' = [left_block_count EXCEPT ![t] = left - k]
  <2>1. Accounted(s, left, left - k) = B
    BY <1>4, AccountedPart, Zenon
  <2> QED
    BY <1>9, <2>1, Zenon DEF PassOn, snippet
<1>15. /\ Arrives(t, q.blocks) /\ FilteredOnce'
       /\ filter_queue_' \in Seq(CsdResults(Snippets, Rows))
       /\ projection_queue_' \in Seq(CsdResults(Snippets, Rows))
       /\ delivered' \in SUBSET CsdResults(Snippets, Rows)
  BY <1>1, <1>8, <1>10, <1>11, <1>12, <1>13, <1>14, HandsOn, Zenon
<1> QED
  BY <1>6, <1>8, <1>11, <1>14, <1>15, Zenon

(* Whenever the thread of an SST file scan looks, a block is left.         *)
LEMMA BlocksRemain ==
    ASSUME RegularSnippets, TypeOK, ScansRight, NEW t \in Scanners, scan_pc[t] = "SST_FILE_SCAN"
    PROVE  left_block_count[t] > 0
<1>1. Scanning(t)
  BY DEF Scanning
<1>2. PICK r, s, left, next :
         r = scan_result[t] /\ s = r.snippet /\ left = left_block_count[t] /\ next = position[t]
  BY Zenon
<1>3. s \in Snippets /\ s.type = "SST_FILE_SCAN" /\ next \in Nat \ {0}
  BY <1>1, <1>2, InHand, Zenon
<1>4. FilesAgree(s, r.data_length, left, next)
  BY <1>1, <1>2, <1>3, InHand, Zenon DEF ScanRight, Agrees
<1>5. PICK rows, length : rows = Concat(s.sst_list) /\ length = r.data_length
  BY Zenon
<1>6. /\ s.sst_list \in Seq(Seq(Rows))
      /\ \A i \in 0 .. Len(rows) : FileAccount(s)[i].left > 0
  BY <1>3, <1>5, Zenon DEF RegularSnippets
<1>7. next - 1 \in 0 .. Len(rows) /\ FileAccount(s)[next - 1] = [length |-> length, left |-> left]
  BY <1>3, <1>4, <1>5, <1>6, AccountStep, SMTT(30) DEF FilesAgree
<1>8. FileAccount(s)[next - 1].left > 0
  BY <1>6, <1>7, Zenon
<1> QED
  BY <1>2, <1>7, <1>8, SMTT(30)

(* A row more: the account of the files goes on.                           *)
LEMMA FilesGoOn ==
    ASSUME RegularSnippets, NEW s \in Snippets, s.type = "SST_FILE_SCAN", NEW length, NEW left,
           NEW next \in Nat \ {0}, FilesAgree(s, length, left, next), next <= Len(Concat(s.sst_list)),
           NEW row, row = Concat(s.sst_list)[next], NEW length2, NEW left2,
           NextAccount([length |-> length, left |-> left], row) = [length |-> length2, left |-> left2]
    PROVE  FilesAgree(s, length2, left2, next + 1) /\ left2 > 0
<1>1. PICK rows : rows = Concat(s.sst_list)
  BY Zenon
<1>2. /\ s.sst_list \in Seq(Seq(Rows))
      /\ \A i \in 0 .. Len(rows) : FileAccount(s)[i].left > 0
  BY <1>1, Zenon DEF RegularSnippets
<1>3. /\ rows \in Seq(Rows)
      /\ \A i \in 1 .. Len(rows) : FileAccount(s)[i] = NextAccount(FileAccount(s)[i - 1], rows[i])
  <2>1. /\ rows \in Seq(Rows) /\ FileAccount(s)[0] = [length |-> 0, left |-> s.csd_block_count]
        /\ \A i \in 1 .. Len(rows) : FileAccount(s)[i] = NextAccount(FileAccount(s)[i - 1], rows[i])
    BY <1>1, <1>2, AccountStep
  <2> QED
    BY <2>1, Zenon
<1>4. next \in 1 .. Len(rows) /\ next \in 0 .. Len(rows) /\ next + 1 <= Len(rows) + 1 /\ next + 1 - 1 = next
  BY <1>1, <1>3, SMTT(30)
<1>5. FileAccount(s)[next - 1] = [length |-> length, left |-> left]
  BY Zenon DEF FilesAgree
<1>6. FileAccount(s)[next] = [length |-> length2, left |-> left2]
  BY <1>1, <1>3, <1>4, <1>5, Zenon
<1>7. FilesAgree(s, length2, left2, next + 1)
  <2>1. next + 1 <= Len(Concat(s.sst_list)) + 1
    BY <1>1, <1>4, Zenon
  <2>2. FileAccount(s)[next + 1 - 1] = [length |-> length2, left |-> left2]
    BY <1>4, <1>6
  <2> QED
    BY <2>1, <2>2 DEF FilesAgree
<1>8. FileAccount(s)[next].left > 0
  BY <1>2, <1>4, Zenon
<1> QED
  BY <1>6, <1>7, <1>8, SMTT(30)

(* sst_file_full_scan returns with all its blocks passed on.               *)
LEMMA EndOfFilesStep ==
    ASSUME RegularSnippets, BlocksInv, NEW t \in Scanners, ScanTurn(t), EndOfFiles(t)
    PROVE  BlocksInv' /\ HandsNew
<1>1. /\ scan_pc[t] = "SST_FILE_SCAN" /\ PassOn(t, left_block_count[t]) /\ ScanReturns(t)
      /\ UNCHANGED scan_queue_
  BY Zenon DEF EndOfFiles
<1>2. Delivers /\ UNCHANGED <<filter_pc, filter_in>>
  BY DEF ScanTurn, filterVars
<1>3. TypeOK /\ ScansRight /\ Scanning(t)
  BY <1>1, Zenon DEF BlocksInv, Scanning
<1>0. PICK k : k = left_block_count[t]
  BY Zenon
<1>4. PICK r, s, n, left, B :
         /\ r = scan_result[t] /\ s = r.snippet /\ n = s.csd_block_count /\ left = left_block_count[t]
         /\ B = Part(s, n - left + 1, n - left + k)
  BY Zenon
<1>5. k \in Nat \ {0} /\ k <= left_block_count[t] /\ n \in Nat /\ PassOn(t, k)
  <2>1. left > 0
    BY <1>1, <1>3, <1>4, BlocksRemain, Zenon
  <2> QED
    BY <1>0, <1>1, <1>3, <1>4, <2>1, InHand, SMTT(30)
<1>6. /\ Arrives(t, B) /\ FilteredOnce'
      /\ filter_queue_' \in Seq(CsdResults(Snippets, Rows))
      /\ projection_queue_' \in Seq(CsdResults(Snippets, Rows))
      /\ delivered' \in SUBSET CsdResults(Snippets, Rows)
      /\ left_block_count' = [left_block_count EXCEPT ![t] = left - k]
      /\ Kept(t) = Part(s, n - left + 1, n) /\ B \subseteq Kept(t)
      /\ Kept(t) \ B = Part(s, n - left + k + 1, n)
  <2>1. scan_pc[t] = "SST_FILE_SCAN"
    BY <1>1, Zenon
  <2>2. NextBlocks(t, k, r, s, n, left, B)
    BY <1>4, Zenon DEF NextBlocks
  <2>3. GoOn(t, k, s, n, left, B)
    BY <1>2, <1>5, <2>1, <2>2, PassedOn, Zenon
  <2> QED
    BY <2>3, Zenon DEF GoOn
<1>7. B = Kept(t) /\ left - k \in Int
  <2>1. n - left + k = n /\ left - k \in Int
    BY <1>0, <1>4, <1>5
  <2> QED
    BY <1>4, <1>6, <2>1, Zenon
<1> QED
  BY <1>1, <1>3, <1>6, <1>7, ReturnStep, Zenon

(* A row of an SST file keeps the invariant, also when the buffer is full  *)
(* and goes on as NUM_OF_BLOCKS blocks.                                    *)
LEMMA SstStep ==
    ASSUME RegularSnippets, BlocksInv, NEW t \in Scanners, ScanTurn(t), sst_file_full_scan(t)
    PROVE  BlocksInv' /\ HandsNew
<1>1. /\ scan_pc[t] = "SST_FILE_SCAN" /\ position[t] <= Len(FileRows(t))
      /\ UNCHANGED <<scan_queue_, scan_pc>> /\ position' = [position EXCEPT ![t] = position[t] + 1]
  BY Zenon DEF sst_file_full_scan
<1>2. Delivers /\ UNCHANGED <<filter_pc, filter_in>> /\ UNCHANGED unsent
  BY DEF ScanTurn, filterVars
<1>3. TypeOK /\ ScansRight /\ Scanning(t)
  BY <1>1 DEF BlocksInv, Scanning
<1>4. PICK r, s, n, left, next, row :
         /\ r = scan_result[t] /\ s = r.snippet /\ n = s.csd_block_count /\ left = left_block_count[t]
         /\ next = position[t] /\ row = FileRows(t)[next]
  BY Zenon
<1>5. /\ r \in ResultsInHand /\ s \in Snippets /\ s.type = "SST_FILE_SCAN" /\ n \in Nat /\ left \in Nat
      /\ next \in Nat \ {0} /\ left + r.current_block_count <= n
  BY <1>1, <1>3, <1>4, InHand, Zenon
<1>6. /\ r.current_block_count = 0 /\ r.blocks = Part(s, FirstOf(r, left), n - left)
      /\ FirstOf(r, left) = n - left - 0 + 1 /\ left + 0 <= n
  BY <1>3, <1>4, <1>5, InHand, Zenon DEF ScanRight, Agrees, FirstOf
<1>7. row \in Rows
  <2>1. FileRows(t) \in Seq(Rows)
    <3>1. s.sst_list \in Seq(Seq(Rows))
      BY <1>5, Zenon DEF RegularSnippets
    <3> QED
      BY <1>4, <3>1, FilesConcat, Zenon DEF FileRows, snippet
  <2> QED
    BY <1>1, <1>4, <1>5, <2>1, Element, Zenon
<1>71. /\ FilesAgree(s, r.data_length, left, next) /\ next <= Len(Concat(s.sst_list))
       /\ row = Concat(s.sst_list)[next]
  <2>1. FileRows(t) = Concat(s.sst_list)
    BY <1>4, Zenon DEF FileRows, snippet
  <2> QED
    BY <1>1, <1>3, <1>4, <1>5, <2>1, InHand, Zenon DEF ScanRight, Agrees
<1>8. scan_queue_' \in Seq(Snippets) /\ next + 1 \in Nat \ {0}
  BY <1>1, <1>3, <1>5 DEF TypeOK
<1>9. /\ scan_pc' = [scan_pc EXCEPT ![t] = "SST_FILE_SCAN"]
      /\ position' = [position EXCEPT ![t] = next + 1]
      /\ "SST_FILE_SCAN" \in {"pop"} \cup ScanTypes
  BY <1>1, <1>3, <1>4 DEF TypeOK, ScanTypes
<1>10. UNCHANGED <<unsent, scan_queue_>> /\ UNCHANGED <<unsent, filter_pc, filter_in>>
  BY <1>1, <1>2
<1>11. CASE /\ ~ (r.data_length + RowLength[row] > BUFFER_SIZE)
            /\ scan_result' = [scan_result EXCEPT ![t] = AddScanned(r, row)]
            /\ UNCHANGED <<filter_queue_, projection_queue_, left_block_count>>
  <2>1. PICK q : q = AddScanned(r, row)
    BY Zenon
  <2>2. q \in ResultsInHand /\ SameBlocks(q, r)
    BY <1>5, <1>7, <2>1, AddScannedType
  <2>3. /\ NoneArrives({})
        /\ filter_queue_' \in Seq(CsdResults(Snippets, Rows))
        /\ projection_queue_' \in Seq(CsdResults(Snippets, Rows))
        /\ delivered' \in SUBSET CsdResults(Snippets, Rows)
    <3>1. UNCHANGED <<filter_queue_, projection_queue_>>
      BY <1>11, Zenon
    <3> QED
      BY <1>2, <1>3, <3>1, NothingArrives, Zenon
  <2>4. ScanWrites(t, "SST_FILE_SCAN", q, left, next + 1)
    BY <1>3, <1>4, <1>9, <1>11, <2>1, Zenon DEF ScanWrites, TypeOK
  <2>4a. ScanNow(t, "SST_FILE_SCAN", q, left, next + 1)
    <3>1. left \in Int
      BY <1>5
    <3> QED
      BY <1>3, <1>8, <1>9, <2>2, <2>4, <3>1, ScanWritten, Zenon
  <2>5. /\ scan_pc' \in [Scanners -> {"pop"} \cup ScanTypes] /\ scan_result' \in [Scanners -> ResultsInHand]
        /\ left_block_count' \in [Scanners -> Int] /\ position' \in [Scanners -> Nat \ {0}]
        /\ scan_pc'[t] = "SST_FILE_SCAN" /\ scan_result'[t] = q /\ left_block_count'[t] = left
        /\ position'[t] = next + 1
        /\ \A u \in Scanners \ {t} :
              /\ scan_pc'[u] = scan_pc[u] /\ scan_result'[u] = scan_result[u]
              /\ left_block_count'[u] = left_block_count[u] /\ position'[u] = position[u]
    BY <2>4a, Zenon DEF ScanNow
  <2>6. TypeOK'
    BY <1>3, <1>8, <1>10, <2>3, <2>5, ScanTypeStep, Zenon
  <2>7. FirstOf(q, left) = FirstOf(r, left) /\ q.snippet = s /\ q.blocks = r.blocks
        /\ q.current_block_count = r.current_block_count
    BY <1>4, <2>2, Zenon DEF FirstOf, SameBlocks
  <2>8. Kept(t)' = Kept(t)
    <3>1. Kept(t) = Part(s, FirstOf(r, left), n)
      BY <1>4, Zenon DEF Kept
    <3>2. Kept(t)' = Part(q.snippet, FirstOf(q, left), q.snippet.csd_block_count)
      BY <2>4a, KeptAfter, Zenon
    <3> QED
      BY <1>4, <2>7, <3>1, <3>2, Zenon
  <2>9. Scanning(t)' /\ GivesUp(t, {})
    <3>1. Kept(t)' = Kept(t) \ {} /\ {} \subseteq Kept(t)
      BY <2>8
    <3>2. "SST_FILE_SCAN" # "pop"
      OBVIOUS
    <3> QED
      BY <1>4, <2>5, <2>7, <3>1, <3>2, Zenon DEF GivesUp, Scanning
  <2>10. ScanRight(t)'
    <3>1. left >= 0 /\ 0 >= 0
      BY <1>5
    <3>2. FilesAgree(s, q.data_length, left, next + 1)
      <4>1. PICK length, length2 : length = r.data_length /\ length2 = q.data_length
        BY Zenon
      <4>2. length2 = length + RowLength[row]
        BY <1>5, <1>7, <2>1, <4>1, AddScannedLength
      <4>3. NextAccount([length |-> length, left |-> left], row) = [length |-> length2, left |-> left]
        BY <1>11, <4>1, <4>2, Zenon DEF NextAccount
      <4> QED
        BY <1>5, <1>71, <4>1, <4>3, FilesGoOn, Zenon
    <3>3. Agrees(q, left, next + 1)
      BY <1>4, <1>5, <1>6, <2>7, <3>1, <3>2, Zenon DEF Agrees
    <3> QED
      BY <1>5, <2>5, <2>7, <3>3, RightAfter, Zenon
  <2>11. FilteredOnce'
    BY <1>2, <1>11, Zenon DEF BlocksInv, FilteredOnce, Elements, Distinct
  <2>12. \A u \in Scanners \ {t} : position'[u] = position[u]
    BY <2>5, Zenon
  <2> QED
    BY <1>3, <1>10, <2>3, <2>6, <2>9, <2>10, <2>11, <2>12, ScanMoves, Zenon
<1>12. CASE /\ r.data_length + RowLength[row] > BUFFER_SIZE
            /\ scan_result' = [scan_result EXCEPT ![t] = AddScanned(clear(r), row)]
            /\ PassOn(t, NUM_OF_BLOCKS)
  <2>1. PICK k, B, less : k = NUM_OF_BLOCKS /\ B = Part(s, n - left + 1, n - left + k) /\ less = left - k
    BY Zenon
  <2>2. k \in Nat \ {0}
    BY <2>1, ScanFilterAssumption
  <2>3. FilesAgree(s, 0 + RowLength[row], less, next + 1) /\ less > 0
    <3>1. PICK length, length2 : length = r.data_length /\ length2 = 0 + RowLength[row]
      BY Zenon
    <3>2. NextAccount([length |-> length, left |-> left], row) = [length |-> length2, left |-> less]
      BY <1>12, <2>1, <3>1 DEF NextAccount
    <3> QED
      BY <1>5, <1>71, <3>1, <3>2, FilesGoOn, Zenon
  <2>4. /\ less \in Nat /\ less \in Int /\ k <= left /\ less + 0 <= n /\ less >= 0 /\ 0 >= 0
        /\ n - less - 0 + 1 = n - left + k + 1 /\ less # 0
        /\ n - left + k + 1 \in Int /\ n - less \in Int /\ n - less < n - left + k + 1
    BY <1>5, <1>6, <2>1, <2>2, <2>3
  <2>5. /\ Arrives(t, B) /\ FilteredOnce'
        /\ filter_queue_' \in Seq(CsdResults(Snippets, Rows))
        /\ projection_queue_' \in Seq(CsdResults(Snippets, Rows))
        /\ delivered' \in SUBSET CsdResults(Snippets, Rows)
        /\ left_block_count' = [left_block_count EXCEPT ![t] = left - k]
        /\ Kept(t) = Part(s, n - left + 1, n) /\ B \subseteq Kept(t)
        /\ Kept(t) \ B = Part(s, n - left + k + 1, n)
    <3>1. PassOn(t, k) /\ k <= left_block_count[t] /\ UNCHANGED <<filter_pc, filter_in>>
      BY <1>2, <1>4, <1>12, <2>1, <2>4, Zenon
    <3>2. Delivers /\ scan_pc[t] = "SST_FILE_SCAN"
      BY <1>1, <1>2, Zenon
    <3>3. NextBlocks(t, k, r, s, n, left, B)
      BY <1>4, <2>1, Zenon DEF NextBlocks
    <3>4. GoOn(t, k, s, n, left, B)
      BY <2>2, <3>1, <3>2, <3>3, PassedOn, Zenon
    <3> QED
      BY <3>4, Zenon DEF GoOn
  <2>6. PICK q : q = AddScanned(clear(r), row)
    BY Zenon
  <2>7. /\ q \in ResultsInHand /\ q.snippet = s /\ q.current_block_count = 0 /\ q.blocks = {}
        /\ q.data_length = 0 + RowLength[row]
    <3>1. clear(r) = NewResult(s)
      BY <1>4, Zenon DEF clear, NewResult, CsdResult
    <3>2. /\ NewResult(s) \in ResultsInHand /\ NewResult(s).snippet = s
          /\ NewResult(s).current_block_count = 0 /\ NewResult(s).blocks = {}
      BY <1>5, NewResultInHand, Zenon
    <3>3. NewResult(s).data_length = 0
      BY DEF NewResult, CsdResult
    <3>4. q.data_length = 0 + RowLength[row]
      BY <1>7, <2>6, <3>1, <3>2, <3>3, AddScannedLength, Zenon
    <3>5. q \in ResultsInHand /\ SameBlocks(q, NewResult(s))
      BY <1>7, <2>6, <3>1, <3>2, AddScannedType, Zenon
    <3> QED
      BY <3>2, <3>4, <3>5, Zenon DEF SameBlocks
  <2>8. ScanWrites(t, "SST_FILE_SCAN", q, less, next + 1)
    BY <1>9, <1>12, <2>1, <2>5, <2>6, Zenon DEF ScanWrites
  <2>8a. ScanNow(t, "SST_FILE_SCAN", q, less, next + 1)
    BY <1>3, <1>8, <1>9, <2>4, <2>7, <2>8, ScanWritten, Zenon
  <2>9. /\ scan_pc' \in [Scanners -> {"pop"} \cup ScanTypes] /\ scan_result' \in [Scanners -> ResultsInHand]
        /\ left_block_count' \in [Scanners -> Int] /\ position' \in [Scanners -> Nat \ {0}]
        /\ scan_pc'[t] = "SST_FILE_SCAN" /\ scan_result'[t] = q /\ left_block_count'[t] = less
        /\ position'[t] = next + 1
        /\ \A u \in Scanners \ {t} :
              /\ scan_pc'[u] = scan_pc[u] /\ scan_result'[u] = scan_result[u]
              /\ left_block_count'[u] = left_block_count[u] /\ position'[u] = position[u]
    BY <2>8a, Zenon DEF ScanNow
  <2>10. TypeOK'
    BY <1>3, <1>8, <1>10, <2>5, <2>9, ScanTypeStep, Zenon
  <2>11. FirstOf(q, less) = n - left + k + 1
    BY <1>4, <2>4, <2>7, Zenon DEF FirstOf
  <2>12. Scanning(t)' /\ GivesUp(t, B)
    <3>1. Kept(t)' = Part(s, n - left + k + 1, n)
      <4>1. Kept(t)' = Part(q.snippet, FirstOf(q, less), q.snippet.csd_block_count)
        BY <2>8a, KeptAfter, Zenon
      <4> QED
        BY <1>4, <2>7, <2>11, <4>1, Zenon
    <3>2. "SST_FILE_SCAN" # "pop"
      OBVIOUS
    <3> QED
      BY <1>4, <2>5, <2>7, <2>9, <3>1, <3>2, Zenon DEF GivesUp, Scanning
  <2>13. ScanRight(t)'
    <3>1. Part(s, n - left + k + 1, n - less) = {}
      BY <2>4, PartEmpty
    <3>2. Agrees(q, less, next + 1)
      BY <1>4, <1>5, <2>3, <2>4, <2>7, <2>11, <3>1, Zenon DEF Agrees
    <3> QED
      BY <1>5, <2>7, <2>9, <3>2, RightAfter, Zenon
  <2>14. \A u \in Scanners \ {t} : position'[u] = position[u]
    BY <2>9, SMTT(30)
  <2> QED
    BY <1>3, <1>10, <2>5, <2>10, <2>12, <2>13, <2>14, ScanMoves, Zenon
<1> QED
  BY <1>4, <1>11, <1>12, Zenon DEF sst_file_full_scan
-----------------------------------------------------------------------------
(* scan_worker takes a snippet off the queue: the thread keeps all of its  *)
(* blocks, or drops a snippet of a type that is not scanned.               *)
LEMMA PopStep ==
    ASSUME RegularSnippets, BlocksInv, NEW t \in Scanners, ScanTurn(t), scan_worker(t)
    PROVE  BlocksInv' /\ HandsNew
<1>1. TypeOK /\ ScansRight /\ ScannedOnce /\ FilteredOnce /\ BlocksApart /\ NoBlockLost
  BY DEF BlocksInv
<1>2. PICK s, n : s = Head(scan_queue_) /\ n = s.csd_block_count
  BY Zenon
<1>3. /\ scan_pc[t] = "pop" /\ scan_queue_ # <<>> /\ scan_queue_' = Tail(scan_queue_)
      /\ UNCHANGED <<filter_queue_, projection_queue_, position, unsent, filter_pc, filter_in>> /\ Delivers
  BY DEF scan_worker, ScanTurn, filterVars
<1>4. /\ s \in Snippets /\ scan_queue_' \in Seq(Snippets)
      /\ Elements(scan_queue_) = Elements(scan_queue_') \cup {s}
      /\ Distinct(scan_queue_') /\ s \notin Elements(scan_queue_')
  <2>1. scan_queue_ \in Seq(Snippets) /\ Distinct(scan_queue_)
    BY <1>1 DEF TypeOK, ScannedOnce
  <2> QED
    BY <1>2, <1>3, <2>1, QueuePop
<1>5. ToScan' = ToScan \ {s} /\ s \in ToScan /\ Elements(scan_queue_)' = Elements(scan_queue_')
  <2>1. s \notin unsent
    BY <1>1, <1>4 DEF ScannedOnce
  <2>2. Elements(scan_queue_)' = Elements(scan_queue_')
    BY Zenon DEF Elements
  <2> QED
    BY <1>3, <1>4, <2>1, <2>2 DEF ToScan
<1>6. delivered' = delivered /\ InFilter' = InFilter /\ FilteredOnce' /\ Handed' = Handed /\ HandsNew
  <2>1. delivered' = delivered /\ HandsNew
    BY <1>1, <1>3, SMTT(30) DEF Delivers, TypeOK, HandsNew
  <2> QED
    BY <1>1, <1>3, <2>1, Zenon DEF InFilter, FilteredOnce, Handed, Elements, Distinct
<1>7. /\ filter_queue_' \in Seq(CsdResults(Snippets, Rows))
      /\ projection_queue_' \in Seq(CsdResults(Snippets, Rows))
      /\ delivered' \in SUBSET CsdResults(Snippets, Rows) /\ UNCHANGED <<unsent, filter_pc, filter_in>>
  BY <1>1, <1>3, <1>6 DEF TypeOK
<1>8. unsent' \cap Elements(scan_queue_)' = {} /\ Distinct(scan_queue_)'
  BY <1>1, <1>3, <1>4, <1>5, Zenon DEF ScannedOnce, Distinct
<1>9. CASE s.type \notin ScanTypes
  <2>1. UNCHANGED <<scan_pc, scan_result, left_block_count>>
    BY <1>2, <1>9 DEF scan_worker, ScanTypes
  <2>2. TypeOK'
    BY <1>1, <1>3, <1>4, <1>7, <2>1, Zenon DEF TypeOK
  <2>3. /\ ScansRight' /\ \A u \in Scanners : /\ Kept(u)' = Kept(u) /\ (Scanning(u)' <=> Scanning(u))
                                              /\ scan_result'[u] = scan_result[u]
    BY <1>1, <1>3, <2>1, Zenon DEF ScansRight, ScanRight, Idle, Scanning, Kept
  <2>4. ScannedOnce'
    BY <1>1, <1>5, <1>8, <2>3, Zenon DEF ScannedOnce
  <2>5. BlocksApart'
    BY <1>1, <1>5, <1>6, <2>3, Zenon DEF BlocksApart
  <2>6. NoBlockLost'
    BY <1>1, <1>5, <1>6, <1>9, <2>3, SMTT(30) DEF NoBlockLost
  <2> QED
    BY <1>6, <2>2, <2>3, <2>4, <2>5, <2>6, Zenon DEF BlocksInv
<1>10. CASE s.type \in ScanTypes
  <2>1. PICK r : r = NewResult(s)
    BY Zenon
  <2>2. r \in ResultsInHand /\ r.snippet = s /\ r.current_block_count = 0 /\ r.blocks = {}
    BY <1>4, <2>1, NewResultInHand, Zenon
  <2>3. n \in Nat /\ n \in Int
    BY <1>2, <1>4, SMTT(30) DEF RegularSnippets
  <2>4. position[t] = 1 /\ position \in [Scanners -> Nat \ {0}]
    BY <1>1, <1>3 DEF ScansRight, Idle, Scanning, TypeOK
  <2>5. position' = [position EXCEPT ![t] = 1]
    BY <1>3, <2>4
  <2>6. NewResult(s) = r
    BY <2>1, Zenon DEF NewResult, CsdResult
  <2>7. ScanWrites(t, s.type, r, n, 1)
    BY <1>2, <1>10, <2>5, <2>6, Zenon DEF scan_worker, ScanWrites, ScanTypes
  <2>7a. ScanNow(t, s.type, r, n, 1)
    <3>1. s.type \in {"pop"} \cup ScanTypes /\ 1 \in Nat \ {0}
      BY <1>10
    <3> QED
      BY <1>1, <2>2, <2>3, <2>7, <3>1, ScanWritten, Zenon
  <2>8. /\ scan_pc' \in [Scanners -> {"pop"} \cup ScanTypes] /\ scan_result' \in [Scanners -> ResultsInHand]
        /\ left_block_count' \in [Scanners -> Int] /\ position' \in [Scanners -> Nat \ {0}]
        /\ scan_pc'[t] = s.type /\ scan_result'[t] = r /\ left_block_count'[t] = n /\ position'[t] = 1
        /\ \A u \in Scanners \ {t} :
              /\ scan_pc'[u] = scan_pc[u] /\ scan_result'[u] = scan_result[u]
              /\ left_block_count'[u] = left_block_count[u] /\ position'[u] = position[u]
    BY <2>7a, Zenon DEF ScanNow
  <2>9. TypeOK'
    BY <1>1, <1>4, <1>7, <2>8, ScanTypeStep, Zenon
  <2>10. ASSUME NEW u \in Scanners \ {t}
         PROVE  /\ Scanning(u)' <=> Scanning(u)
                /\ ScanRight(u)' <=> ScanRight(u)
                /\ Idle(u)' <=> Idle(u)
                /\ Kept(u)' = Kept(u) /\ scan_result'[u].snippet = scan_result[u].snippet
    BY <2>8, Zenon DEF Scanning, ScanRight, Idle, Kept
  <2>11. FirstOf(r, n) = n - n - 0 + 1
    BY <1>2, <2>2, Zenon DEF FirstOf
  <2>12. n - n - 0 + 1 = 1 /\ n >= 0 /\ 0 >= 0 /\ n + 0 <= n /\ n - n = 0
    BY <2>3
  <2>13. Scanning(t)' /\ Kept(t)' = Part(s, 1, n)
    <3>1. Kept(t)' = Part(s, FirstOf(r, n), n)
      BY <1>2, <2>2, <2>7a, KeptAfter, Zenon
    <3>2. s.type # "pop"
      BY <1>10 DEF ScanTypes
    <3> QED
      BY <2>8, <2>11, <2>12, <3>1, <3>2, Zenon DEF Scanning
  <2>14. ScanRight(t)'
    <3>1. Part(s, 1, 0) = {}
      BY PartEmpty
    <3>2. s.type # "SST_FILE_SCAN" => n = Len(s.block_list) + 1 - 1
      <4>1. s.type # "SST_FILE_SCAN" => Len(s.block_list) = n
        BY <1>2, <1>4, <1>10, Zenon DEF RegularSnippets, ScanTypes
      <4> QED
        BY <2>3, <4>1
    <3>3. s.type = "SST_FILE_SCAN" => FilesAgree(s, r.data_length, n, 1)
      <4> SUFFICES ASSUME s.type = "SST_FILE_SCAN" PROVE FilesAgree(s, r.data_length, n, 1)
        OBVIOUS
      <4>1. PICK rows, length : rows = Concat(s.sst_list) /\ length = r.data_length
        BY Zenon
      <4>2. length = 0
        BY <2>1, <4>1 DEF NewResult, CsdResult
      <4>3. s.sst_list \in Seq(Seq(Rows))
        BY <1>4, Zenon DEF RegularSnippets
      <4>4. rows \in Seq(Rows) /\ FileAccount(s)[0] = [length |-> 0, left |-> n]
        BY <1>2, <4>1, <4>3, AccountStep, Zenon
      <4>5. 1 <= Len(rows) + 1 /\ 1 - 1 = 0
        BY <4>4
      <4> QED
        BY <4>1, <4>2, <4>4, <4>5, Zenon DEF FilesAgree
    <3>4. Agrees(r, n, 1)
      BY <1>2, <1>4, <2>2, <2>11, <2>12, <3>1, <3>2, <3>3, Zenon DEF Agrees
    <3> QED
      BY <2>2, <2>8, <3>4, RightAfter, Zenon
  <2>15. ScansRight'
    BY <1>1, <2>10, <2>13, <2>14, Zenon DEF ScansRight
  <2>16. ScannedOnce'
    <3>1. ASSUME NEW u \in Scanners \ {t}, Scanning(u)' PROVE scan_result'[u].snippet \notin ToScan
      BY <1>1, <2>10, <3>1, Zenon DEF ScannedOnce
    <3>2. \A u, v \in Scanners \ {t} :
             (Scanning(u)' /\ Scanning(v)' /\ scan_result'[u].snippet = scan_result'[v].snippet) => u = v
      BY <1>1, <2>10, Zenon DEF ScannedOnce
    <3>3. scan_result'[t].snippet = s
      BY <2>2, <2>8, Zenon
    <3> QED
      BY <1>5, <1>8, <3>1, <3>2, <3>3 DEF ScannedOnce
  <2>17. ASSUME NEW r2 \in InFilter \cup delivered PROVE Part(s, 1, n) \cap r2.blocks = {}
    <3>1. IsPart(r2) /\ r2.snippet \in Snippets /\ r2.snippet # s
      BY <1>1, <1>5, <2>17, Zenon DEF BlocksApart
    <3>2. PICK i \in 1 .. r2.snippet.csd_block_count, j \in 1 .. r2.snippet.csd_block_count :
             r2.blocks = Part(r2.snippet, i, j)
      BY <3>1 DEF IsPart
    <3>3. i \in Int /\ j \in Int /\ 1 \in Int
      OBVIOUS
    <3> QED
      BY <1>4, <2>3, <3>1, <3>2, <3>3, PartsOfTwo, Zenon
  <2>18. Part(s, 1, n) \cap Handed = {}
    BY <2>17 DEF Handed
  <2>19. BlocksApart'
    BY <1>1, <1>5, <1>6, <2>10, <2>13, <2>17, <2>18, Zenon DEF BlocksApart
  <2>20. NoBlockLost'
    <3>1. BlocksOf[s] = Part(s, 1, n)
      BY <1>2, <1>4 DEF BlocksOf
    <3>2. scan_result'[t].snippet = s
      BY <2>2, <2>8
    <3>3. ~ Scanning(t)
      BY <1>3 DEF Scanning
    <3> QED
      <4>1. ASSUME NEW u \in Snippets \ ToScan', u.type \in ScanTypes, NEW b \in BlocksOf[u]
            PROVE  \/ b \in Handed' \/ \E q \in InFilter' : b \in q.blocks
                   \/ \E v \in Scanners : Scanning(v)' /\ scan_result'[v].snippet = u /\ b \in Kept(v)'
        <5>1. CASE u = s
          BY <2>13, <3>1, <3>2, <4>1, <5>1, Zenon
        <5>2. CASE u # s
          <6>1. u \in Snippets \ ToScan
            BY <1>5, <5>2, Zenon
          <6> QED
            <7>1. \/ b \in Handed \/ \E q \in InFilter : b \in q.blocks
                  \/ \E v \in Scanners : Scanning(v) /\ scan_result[v].snippet = u /\ b \in Kept(v)
              BY <1>1, <4>1, <6>1, Zenon DEF NoBlockLost
            <7>2. ASSUME NEW v \in Scanners, Scanning(v), scan_result[v].snippet = u, b \in Kept(v)
                  PROVE  Scanning(v)' /\ scan_result'[v].snippet = u /\ b \in Kept(v)'
              BY <2>10, <3>3, <7>2, Zenon
            <7> QED
              BY <1>6, <7>1, <7>2, Zenon
        <5> QED
          BY <5>1, <5>2, Zenon
      <4> QED
        BY <4>1, Zenon DEF NoBlockLost
  <2> QED
    BY <1>6, <2>9, <2>15, <2>16, <2>19, <2>20 DEF BlocksInv
<1> QED
  BY <1>9, <1>10

(* The scan stage at rest.                                                 *)
ScanAtRest == UNCHANGED <<unsent, scan_queue_, scan_pc, scan_result, left_block_count, position>>

(* Then the scan stage keeps what it has.                                  *)
LEMMA AtRest ==
    ASSUME ScansRight, ScannedOnce, ScanAtRest
    PROVE  /\ ScansRight' /\ ScannedOnce' /\ ToScan' = ToScan
           /\ \A u \in Scanners : /\ Kept(u)' = Kept(u) /\ (Scanning(u)' <=> Scanning(u))
                                  /\ scan_result'[u] = scan_result[u]
<1>1. /\ Elements(scan_queue_)' = Elements(scan_queue_) /\ ToScan' = ToScan
      /\ Distinct(scan_queue_)' <=> Distinct(scan_queue_)
  BY Zenon DEF ScanAtRest, ToScan, Elements, Distinct
<1>2. \A u \in Scanners : /\ Kept(u)' = Kept(u) /\ (Scanning(u)' <=> Scanning(u))
                          /\ scan_result'[u] = scan_result[u]
  BY Zenon DEF ScanAtRest, Kept, Scanning
<1>3. ScansRight'
  <2>1. \A u \in Scanners : (ScanRight(u)' <=> ScanRight(u)) /\ (Idle(u)' <=> Idle(u))
    BY Zenon DEF ScanAtRest, ScanRight, Idle
  <2> QED
    BY <1>2, <2>1, Zenon DEF ScansRight
<1>4. ScannedOnce'
  BY <1>1, <1>2, Zenon DEF ScannedOnce, ScanAtRest
<1> QED
  BY <1>1, <1>2, <1>3, <1>4, Zenon

(* When no block moves, no block comes to be in two places or in none.     *)
LEMMA BlocksStay ==
    ASSUME BlocksApart, NoBlockLost, ToScan' = ToScan, InFilter' = InFilter, delivered' = delivered,
           Handed' = Handed,
           \A u \in Scanners : /\ Kept(u)' = Kept(u) /\ (Scanning(u)' <=> Scanning(u))
                               /\ scan_result'[u] = scan_result[u]
    PROVE  BlocksApart' /\ NoBlockLost'
<1>1. BlocksApart'
  BY Zenon DEF BlocksApart
<1>2. ASSUME NEW s \in Snippets \ ToScan', s.type \in ScanTypes, NEW b \in BlocksOf[s]
      PROVE  \/ b \in Handed' \/ \E r \in InFilter' : b \in r.blocks
             \/ \E t \in Scanners : Scanning(t)' /\ scan_result'[t].snippet = s /\ b \in Kept(t)'
  <2>1. \/ b \in Handed \/ \E r \in InFilter : b \in r.blocks
        \/ \E t \in Scanners : Scanning(t) /\ scan_result[t].snippet = s /\ b \in Kept(t)
    BY <1>2, Zenon DEF NoBlockLost
  <2> QED
    BY <2>1, Zenon
<1>3. NoBlockLost'
  BY <1>2, Zenon DEF NoBlockLost
<1> QED
  BY <1>1, <1>3, Zenon

(* enqueue_scan moves a snippet from the client to the queue.              *)
LEMMA SendStep ==
    ASSUME BlocksInv, NEW s \in Snippets, SendTurn(s)
    PROVE  BlocksInv'
<1>1. TypeOK /\ ScansRight /\ ScannedOnce /\ FilteredOnce /\ BlocksApart /\ NoBlockLost
  BY DEF BlocksInv
<1>2. /\ s \in unsent /\ unsent' = unsent \ {s} /\ scan_queue_' = Append(scan_queue_, s)
      /\ UNCHANGED <<filter_queue_, projection_queue_, scan_pc, scan_result, left_block_count, position,
                     filter_pc, filter_in, delivered>>
  BY DEF SendTurn, scanVars, filterVars
<1>3. /\ scan_queue_' \in Seq(Snippets) /\ Elements(scan_queue_') = Elements(scan_queue_) \cup {s}
      /\ Distinct(scan_queue_')
  <2>1. scan_queue_ \in Seq(Snippets) /\ Distinct(scan_queue_) /\ s \notin Elements(scan_queue_)
    BY <1>1, <1>2 DEF TypeOK, ScannedOnce
  <2> QED
    <3>1. PICK q : q = scan_queue_
      BY Zenon
    <3>2. /\ Append(q, s) \in Seq(Snippets) /\ Elements(Append(q, s)) = Elements(q) \cup {s}
          /\ Distinct(Append(q, s))
      BY <2>1, <3>1, QueuePush
    <3> QED
      BY <1>2, <3>1, <3>2, Zenon
<1>4. TypeOK'
  BY <1>1, <1>2, <1>3, Zenon DEF TypeOK
<1>5. Elements(scan_queue_)' = Elements(scan_queue_') /\ (Distinct(scan_queue_)' <=> Distinct(scan_queue_'))
  BY DEF Elements, Distinct
<1>6. ToScan' = ToScan
  BY <1>2, <1>3, <1>5 DEF ToScan
<1>7. /\ ScansRight' /\ FilteredOnce' /\ InFilter' = InFilter /\ Handed' = Handed
      /\ \A u \in Scanners : /\ Kept(u)' = Kept(u) /\ (Scanning(u)' <=> Scanning(u))
                             /\ scan_result'[u] = scan_result[u]
  <2>1. \A u \in Scanners : /\ Kept(u)' = Kept(u) /\ (Scanning(u)' <=> Scanning(u))
                            /\ scan_result'[u] = scan_result[u]
    BY <1>2, Zenon DEF Kept, Scanning
  <2>2. \A u \in Scanners : (ScanRight(u)' <=> ScanRight(u)) /\ (Idle(u)' <=> Idle(u))
    BY <1>2, Zenon DEF ScanRight, Idle
  <2>3. ScansRight'
    BY <1>1, <2>1, <2>2, Zenon DEF ScansRight
  <2>4. FilteredOnce' /\ InFilter' = InFilter /\ Handed' = Handed
    BY <1>1, <1>2, Zenon DEF FilteredOnce, InFilter, Handed, Elements, Distinct
  <2> QED
    BY <2>1, <2>3, <2>4, Zenon
<1>8. ScannedOnce'
  BY <1>1, <1>2, <1>3, <1>5, <1>6, <1>7, Zenon DEF ScannedOnce
<1>9. BlocksApart' /\ NoBlockLost'
  BY <1>1, <1>2, <1>6, <1>7, BlocksStay, Zenon
<1> QED
  BY <1>4, <1>7, <1>8, <1>9, Zenon DEF BlocksInv

(* filter_worker takes a result off the queue: it stays in the stage.      *)
LEMMA FilterPopStep ==
    ASSUME BlocksInv, NEW t \in Filters, FilterTurn(t), F!filter_worker(t)
    PROVE  BlocksInv' /\ HandsNew
<1>1. TypeOK /\ ScansRight /\ ScannedOnce /\ FilteredOnce /\ BlocksApart /\ NoBlockLost
  BY DEF BlocksInv
<1>2. PICK r : r = Head(filter_queue_)
  BY Zenon
<1>3. /\ filter_pc[t] = "pop" /\ filter_queue_ # <<>> /\ filter_queue_' = Tail(filter_queue_)
      /\ filter_in' = [filter_in EXCEPT ![t] = r]
      /\ filter_pc' = [filter_pc EXCEPT ![t] = "filtering"]
      /\ UNCHANGED projection_queue_ /\ Delivers /\ ScanAtRest
  BY <1>2 DEF F!filter_worker, FilterTurn, ScanAtRest, scanVars
<1>4. /\ r \in CsdResults(Snippets, Rows) /\ filter_queue_' \in Seq(CsdResults(Snippets, Rows))
      /\ Elements(filter_queue_) = Elements(filter_queue_') \cup {r}
      /\ Distinct(filter_queue_') /\ r \notin Elements(filter_queue_')
  <2>1. filter_queue_ \in Seq(CsdResults(Snippets, Rows)) /\ Distinct(filter_queue_)
    BY <1>1 DEF TypeOK, FilteredOnce
  <2> QED
    BY <1>2, <1>3, <2>1, QueuePop
<1>5. delivered' = delivered /\ HandsNew
  BY <1>1, <1>3, SMTT(30) DEF Delivers, TypeOK, HandsNew
<1>6. /\ filter_pc'[t] = "filtering" /\ filter_in'[t] = r
      /\ \A u \in Filters \ {t} : filter_pc'[u] = filter_pc[u] /\ filter_in'[u] = filter_in[u]
  BY <1>1, <1>3 DEF TypeOK
<1>7. TypeOK'
  <2>1. r \in CsdResults(Snippets \cup {NoSnippet}, Rows)
    BY <1>4, Zenon DEF CsdResults
  <2>2. /\ filter_pc' \in [Filters -> {"pop", "filtering"}]
        /\ filter_in' \in [Filters -> CsdResults(Snippets \cup {NoSnippet}, Rows)]
    BY <1>1, <1>3, <2>1, Zenon DEF TypeOK
  <2> QED
    BY <1>1, <1>3, <1>4, <1>5, <2>2, Zenon DEF TypeOK, ScanAtRest
<1>8. Elements(filter_queue_)' = Elements(filter_queue_') /\ (Distinct(filter_queue_)' <=> Distinct(filter_queue_'))
  BY DEF Elements, Distinct
<1>9. InFilter' = InFilter
  BY <1>3, <1>4, <1>6, <1>8, Zenon DEF InFilter
<1>10. FilteredOnce'
  BY <1>1, <1>4, <1>6, <1>8, Zenon DEF FilteredOnce
<1>11. Handed' = Handed
  BY <1>5 DEF Handed
<1>12. BlocksApart' /\ NoBlockLost'
  <2>1. /\ ToScan' = ToScan
        /\ \A u \in Scanners : /\ Kept(u)' = Kept(u) /\ (Scanning(u)' <=> Scanning(u))
                               /\ scan_result'[u] = scan_result[u]
    BY <1>1, <1>3, AtRest, Zenon
  <2> QED
    BY <1>1, <1>5, <1>9, <1>11, <2>1, BlocksStay, Zenon
<1> QED
  BY <1>1, <1>3, <1>5, <1>7, <1>10, <1>12, AtRest, Zenon DEF BlocksInv

(* filtering hands a result on with the blocks it came with.               *)
LEMMA FilteringStep ==
    ASSUME BlocksInv, NEW t \in Filters, FilterTurn(t), F!filtering(t)
    PROVE  BlocksInv' /\ HandsNew
<1>1. TypeOK /\ ScansRight /\ ScannedOnce /\ FilteredOnce /\ BlocksApart /\ NoBlockLost
  BY DEF BlocksInv
<1>2. PICK in, start, r :
         /\ in = filter_in[t]
         /\ start = F!CsdResult(in.snippet, in.scanned_row_count, 0, in.current_block_count, in.blocks)
         /\ r = F!Fold(F!AddFiltered, start, in.rows)
  BY Zenon
<1>3. /\ filter_pc[t] = "filtering" /\ projection_queue_' = Append(projection_queue_, r)
      /\ filter_pc' = [filter_pc EXCEPT ![t] = "pop"]
      /\ filter_in' = [filter_in EXCEPT ![t] = F!NewResult(NoSnippet)]
      /\ UNCHANGED filter_queue_ /\ Delivers /\ ScanAtRest
  BY <1>2, Zenon DEF F!filtering, FilterTurn, ScanAtRest, scanVars
<1>4. in \in InFilter /\ in \in ResultsInHand
  BY <1>1, <1>2, <1>3, Zenon DEF InFilter, TypeOK, ResultsInHand
<1>5. /\ in.snippet \in Snippets \ ToScan /\ IsPart(in) /\ in.snippet.type \in ScanTypes
      /\ in.blocks \cap Handed = {}
      /\ \A q \in InFilter : q # in => q.blocks \cap in.blocks = {}
  BY <1>1, <1>4, Zenon DEF BlocksApart
<1>6. r \in CsdResults(Snippets, Rows) /\ SameBlocks(r, in)
  <2>1. start \in ResultsInHand /\ SameBlocks(start, in) /\ in.rows \in Seq(Rows)
    BY <1>2, <1>4, FilterStart, Zenon
  <2>2. r \in ResultsInHand /\ SameBlocks(r, start)
    BY <1>2, <2>1, RowsFiltered, Zenon
  <2>3. SameBlocks(r, in)
    BY <2>1, <2>2, Zenon DEF SameBlocks
  <2> QED
    BY <1>5, <2>2, <2>3, Zenon DEF SameBlocks, ResultsInHand, CsdResults
<1>7. IsPart(r) /\ r.snippet = in.snippet /\ r.blocks = in.blocks
  BY <1>5, <1>6, Zenon DEF SameBlocks, IsPart
<1>8. projection_queue_' \in Seq(CsdResults(Snippets, Rows)) /\ delivered' = delivered \cup {r}
  <2>1. projection_queue_ \in Seq(CsdResults(Snippets, Rows))
    BY <1>1 DEF TypeOK
  <2> QED
    <3>1. PICK q : q = projection_queue_
      BY Zenon
    <3>2. /\ Append(q, r) \in Seq(CsdResults(Snippets, Rows))
          /\ Len(Append(q, r)) > Len(q) /\ Append(q, r)[Len(Append(q, r))] = r
      BY <1>6, <2>1, <3>1, QueuePush
    <3> QED
      BY <1>3, <3>1, <3>2, Zenon DEF Delivers
<1>9. PICK none : none = NewResult(NoSnippet)
  BY Zenon
<1>10. F!NewResult(NoSnippet) = none /\ none \in ResultsInHand
  BY <1>9, NewResultInHand, Zenon DEF NewResult, CsdResult, F!NewResult, F!CsdResult
<1>11. /\ filter_pc'[t] = "pop" /\ filter_in'[t] = none
       /\ \A u \in Filters \ {t} : filter_pc'[u] = filter_pc[u] /\ filter_in'[u] = filter_in[u]
  BY <1>1, <1>3, <1>10, Zenon DEF TypeOK
<1>12. TypeOK'
  <2>1. none \in CsdResults(Snippets \cup {NoSnippet}, Rows)
    BY <1>10 DEF ResultsInHand
  <2>2. /\ filter_pc' \in [Filters -> {"pop", "filtering"}]
        /\ filter_in' \in [Filters -> CsdResults(Snippets \cup {NoSnippet}, Rows)]
    BY <1>1, <1>3, <1>10, <2>1, Zenon DEF TypeOK
  <2>3. delivered' \in SUBSET CsdResults(Snippets, Rows)
    BY <1>1, <1>6, <1>8 DEF TypeOK
  <2> QED
    BY <1>1, <1>3, <1>8, <2>2, <2>3, Zenon DEF TypeOK, ScanAtRest
<1>13. /\ in \notin Elements(filter_queue_)
       /\ \A u \in Filters \ {t} : filter_pc[u] = "filtering" => filter_in[u] # in
  BY <1>1, <1>2, <1>3, Zenon DEF FilteredOnce
<1>14. InFilter' = InFilter \ {in}
  <2>1. Elements(filter_queue_)' = Elements(filter_queue_)
    BY <1>3, Zenon DEF Elements
  <2> QED
    BY <1>2, <1>3, <1>11, <1>13, <2>1 DEF InFilter
<1>15. FilteredOnce'
  <2>1. Elements(filter_queue_)' = Elements(filter_queue_) /\ Distinct(filter_queue_)' = Distinct(filter_queue_)
    BY <1>3, Zenon DEF Elements, Distinct
  <2> QED
    BY <1>1, <1>9, <1>11, <2>1, Zenon DEF FilteredOnce
<1>16. Handed' = Handed \cup in.blocks
  BY <1>7, <1>8, Zenon DEF Handed
<1>17. /\ ToScan' = ToScan /\ ScansRight' /\ ScannedOnce'
       /\ \A u \in Scanners : /\ Kept(u)' = Kept(u) /\ (Scanning(u)' <=> Scanning(u))
                              /\ scan_result'[u] = scan_result[u]
  BY <1>1, <1>3, AtRest, Zenon
<1>18. BlocksApart'
  <2>1. \A q \in (InFilter \cup delivered)' :
           IsPart(q) /\ q.snippet \in Snippets \ ToScan /\ q.snippet.type \in ScanTypes
    BY <1>1, <1>5, <1>7, <1>8, <1>14, Zenon DEF BlocksApart
  <2>2. \A u \in Scanners : Scanning(u) => Kept(u) \cap in.blocks = {}
    BY <1>1, <1>4 DEF BlocksApart
  <2> QED
    BY <1>1, <1>5, <1>14, <1>16, <1>17, <2>1, <2>2, Zenon DEF BlocksApart
<1>19. NoBlockLost'
  <2>1. ASSUME NEW b, NEW p \in InFilter, b \in p.blocks
        PROVE  b \in Handed' \/ \E q \in InFilter' : b \in q.blocks
    <3>1. CASE p = in
      BY <1>16, <2>1, <3>1, Zenon
    <3>2. CASE p # in
      BY <1>14, <2>1, <3>2, Zenon
    <3> QED
      BY <3>1, <3>2
  <2>2. ASSUME NEW b \in Handed PROVE b \in Handed'
    BY <1>16, <2>2, Zenon
  <2>3. ASSUME NEW s \in Snippets \ ToScan', s.type \in ScanTypes, NEW b \in BlocksOf[s]
        PROVE  \/ b \in Handed'
               \/ \E q \in InFilter' : b \in q.blocks
               \/ \E u \in Scanners : Scanning(u)' /\ scan_result'[u].snippet = s /\ b \in Kept(u)'
    <3>1. s \in Snippets \ ToScan
      BY <1>17, <2>3, Zenon
    <3>2. CASE b \in Handed
      BY <2>2, <3>2, Zenon
    <3>3. CASE \E q \in InFilter : b \in q.blocks
      BY <2>1, <3>3, Zenon
    <3>4. CASE \E u \in Scanners : Scanning(u) /\ scan_result[u].snippet = s /\ b \in Kept(u)
      BY <1>17, <3>4, Zenon
    <3> QED
      BY <1>1, <2>3, <3>1, <3>2, <3>3, <3>4, Zenon DEF NoBlockLost
  <2> QED
    BY <2>3, Zenon DEF NoBlockLost
<1>20. HandsNew
  BY <1>3, <1>5, <1>7, <1>8, Zenon DEF HandsNew
<1> QED
  BY <1>12, <1>15, <1>17, <1>18, <1>19, <1>20, Zenon DEF BlocksInv

(* Projection takes results off its queue and leaves the earlier stages    *)
(* alone; Return touches none of them.                                     *)
LEMMA LaterStagesStep ==
    ASSUME BlocksInv, ScanAtRest, UNCHANGED <<filter_queue_, filter_pc, filter_in, delivered>>,
           projection_queue_' \in Seq(CsdResults(Snippets, Rows))
    PROVE  BlocksInv'
<1>1. TypeOK /\ ScansRight /\ ScannedOnce /\ FilteredOnce /\ BlocksApart /\ NoBlockLost
  BY DEF BlocksInv
<1>2. TypeOK'
  BY <1>1, Zenon DEF TypeOK, ScanAtRest
<1>3. FilteredOnce' /\ InFilter' = InFilter /\ Handed' = Handed
  BY <1>1, Zenon DEF FilteredOnce, InFilter, Handed, Elements, Distinct
<1>4. BlocksApart' /\ NoBlockLost'
  BY <1>1, <1>3, AtRest, BlocksStay, Zenon
<1> QED
  BY <1>1, <1>2, <1>3, <1>4, AtRest, Zenon DEF BlocksInv

(* Every step of a scan or filter thread keeps the invariant.              *)
LEMMA ScanKeeps ==
    ASSUME RegularSnippets, BlocksInv, NEW t \in Scanners, ScanTurn(t)
    PROVE  BlocksInv' /\ HandsNew
<1>1. CASE scan_worker(t)
  BY <1>1, PopStep
<1>2. CASE read_data_block(t)
  <2>1. /\ scan_pc[t] = "FULL_SCAN"
        /\ ReadBlock(t, scan_result[t].current_block_count + left_block_count[t])
    BY <1>2 DEF read_data_block
  <2> QED
    BY <2>1, ReadStep
<1>3. CASE read_index_block(t)
  <2>1. scan_pc[t] = "INDEX_TABLE_SCAN" /\ ReadBlock(t, left_block_count[t])
    BY <1>3 DEF read_index_block
  <2> QED
    BY <2>1, ReadStep
<1>4. CASE EndOfBlocks(t)
  BY <1>4, EndOfBlocksStep
<1>5. CASE sst_file_full_scan(t)
  BY <1>5, SstStep
<1>6. CASE EndOfFiles(t)
  BY <1>6, EndOfFilesStep
<1> QED
  BY <1>1, <1>2, <1>3, <1>4, <1>5, <1>6, Zenon DEF ScanTurn, ScanStep

(* Every step of a filter thread keeps the invariant and hands on only new *)
(* blocks.                                                                 *)
LEMMA FilterKeeps ==
    ASSUME BlocksInv, NEW t \in Filters, FilterTurn(t)
    PROVE  BlocksInv' /\ HandsNew
BY FilterPopStep, FilteringStep, Zenon DEF FilterTurn, F!FilterStep

(* Every step of the two stages keeps the invariant.                       *)
LEMMA BlocksStep ==
    ASSUME RegularSnippets, BlocksInv, [ScanFilterNext]_scanFilterVars
    PROVE  BlocksInv'
<1>1. ASSUME NEW s \in Snippets, SendTurn(s) PROVE BlocksInv'
  BY <1>1, SendStep
<1>2. ASSUME NEW t \in Scanners, ScanTurn(t) PROVE BlocksInv'
  BY <1>2, ScanKeeps
<1>3. ASSUME NEW t \in Filters, FilterTurn(t) PROVE BlocksInv'
  BY <1>3, FilterKeeps
<1>4. ASSUME ScanAtRest, UNCHANGED <<filter_queue_, filter_pc, filter_in, delivered>>,
             projection_queue_' \in Seq(CsdResults(Snippets, Rows))
      PROVE  BlocksInv'
  BY <1>4, LaterStagesStep, Zenon
<1>5. projection_queue_ \in Seq(CsdResults(Snippets, Rows))
  BY Zenon DEF BlocksInv, TypeOK
<1>6. ASSUME TakeResult PROVE BlocksInv'
  <2>1. projection_queue_ # <<>> /\ projection_queue_' = Tail(projection_queue_)
    BY <1>6, Zenon DEF TakeResult
  <2>2. projection_queue_' \in Seq(CsdResults(Snippets, Rows))
    BY <1>5, <2>1, QueuePop
  <2> QED
    BY <1>4, <1>6, <2>2, Zenon DEF TakeResult, ScanAtRest, scanVars, filterVars
<1>7. CASE UNCHANGED scanFilterVars
  BY <1>4, <1>5, <1>7, Zenon DEF scanFilterVars, ScanAtRest, scanVars, filterVars
<1> QED
  BY <1>1, <1>2, <1>3, <1>6, <1>7, Zenon DEF ScanFilterNext

(* Nothing has been sent: no block is anywhere.                            *)
LEMMA BlocksStart ==
    ASSUME ScanFilterInit
    PROVE  BlocksInv
<1>1. /\ unsent = Snippets /\ scan_queue_ = <<>> /\ filter_queue_ = <<>> /\ projection_queue_ = <<>>
      /\ delivered = {} /\ scan_pc = [t \in Scanners |-> "pop"]
      /\ scan_result = [t \in Scanners |-> NewResult(NoSnippet)]
      /\ left_block_count = [t \in Scanners |-> 0] /\ position = [t \in Scanners |-> 1]
      /\ filter_pc = [t \in Filters |-> "pop"] /\ filter_in = [t \in Filters |-> NewResult(NoSnippet)]
  BY Zenon DEF ScanFilterInit, ScanInit, F!FilterInit, NewResult, F!NewResult, CsdResult, F!CsdResult
<1>2. NewResult(NoSnippet) \in CsdResults(Snippets \cup {NoSnippet}, Rows)
  BY NewResultInHand, Zenon DEF ResultsInHand
<1>3. TypeOK
  <2>1. <<>> \in Seq(Snippets) /\ <<>> \in Seq(CsdResults(Snippets, Rows)) /\ 0 \in Int /\ 1 \in Nat \ {0}
    OBVIOUS
  <2>2. PICK none : none = NewResult(NoSnippet)
    BY Zenon
  <2>3. /\ scan_pc \in [Scanners -> {"pop", "FULL_SCAN", "INDEX_TABLE_SCAN", "SST_FILE_SCAN"}]
        /\ scan_result \in [Scanners -> CsdResults(Snippets \cup {NoSnippet}, Rows)]
        /\ left_block_count \in [Scanners -> Int] /\ position \in [Scanners -> Nat \ {0}]
        /\ filter_pc \in [Filters -> {"pop", "filtering"}]
        /\ filter_in \in [Filters -> CsdResults(Snippets \cup {NoSnippet}, Rows)]
    BY <1>1, <1>2, <2>1, <2>2, Zenon
  <2> QED
    BY <1>1, <2>1, <2>3, Zenon DEF TypeOK
<1>4. /\ Elements(scan_queue_) = {} /\ Elements(filter_queue_) = {}
      /\ Distinct(scan_queue_) /\ Distinct(filter_queue_)
  BY <1>1 DEF Elements, Distinct
<1>5. /\ InFilter = {} /\ ToScan = Snippets /\ \A t \in Scanners : ~ Scanning(t) /\ Idle(t)
      /\ \A t \in Filters : filter_pc[t] # "filtering" /\ filter_in[t] = NewResult(NoSnippet)
  BY <1>1, <1>4 DEF InFilter, ToScan, Scanning, Idle
<1>6. ScansRight /\ ScannedOnce /\ FilteredOnce
  BY <1>4, <1>5, Zenon DEF ScansRight, ScannedOnce, FilteredOnce
<1>7. BlocksApart /\ NoBlockLost
  BY <1>1, <1>5, Zenon DEF BlocksApart, NoBlockLost
<1> QED
  BY <1>3, <1>6, <1>7 DEF BlocksInv

(* In the scan and filter stages every block of a scanned snippet is in    *)
(* one place until it is handed to the projection stage, and it is handed  *)
(* to it at most once: for any number of threads, snippets and blocks      *)
(* (read_data_block, read_index_block, sst_file_full_scan, filtering).     *)
THEOREM BlocksInvariant ==
    ASSUME RegularSnippets
    PROVE  ScanFilterSpec => []BlocksInv
<1>1. ScanFilterInit => BlocksInv
  BY BlocksStart
<1>2. BlocksInv /\ [ScanFilterNext]_scanFilterVars => BlocksInv'
  BY BlocksStep
<1> QED
  BY <1>1, <1>2, PTL DEF ScanFilterSpec

(* No result of the scan and filter stages outgrows raw_data, although     *)
(* read_data_block and read_index_block copy rows without a test: a result *)
(* is passed on before it holds more than NUM_OF_BLOCKS blocks, whatever   *)
(* the threads do, when each block keeps to its share of the buffer.       *)
THEOREM BuffersHoldScans ==
    ASSUME RegularSnippets, RowsFit
    PROVE  ScanFilterSpec => []ScanBufferNeverOverflows
<1>1. PICK share \in 0 .. BUFFER_SIZE : Share(share)
  BY DEF RowsFit
<1>2. share \in Nat /\ \A row \in Rows : RowLength[row] <= BUFFER_SIZE
  BY CsdDataAssumption DEF RowsFit
<1>3. ScanFilterSpec => []BlocksInv
  BY BlocksInvariant
<1>4. ScanFilterInit => LengthInv(share)
  BY LengthStart
<1>5. BlocksInv /\ LengthInv(share) /\ [ScanFilterNext]_scanFilterVars => LengthInv(share)'
  BY <1>1, <1>2, LengthStep, Zenon DEF BlocksInv
<1>6. LengthInv(share) => ScanBufferNeverOverflows
  BY Zenon DEF LengthInv, ScansFit, QueuesFit, Measured, ScanBufferNeverOverflows
<1> QED
  BY <1>3, <1>4, <1>5, <1>6, PTL DEF ScanFilterSpec
=============================================================================
