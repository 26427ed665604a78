----------------------------- MODULE ScanFilter -------------------------------
(***************************************************************************)
(* The first half of the worker module's query pipeline: Input enqueues    *)
(* snippets, Scan cuts them into results, Filter drops rows.  All that the *)
(* later stages do here is to take results off projection_queue_.          *)
(***************************************************************************)
EXTENDS Scan

CONSTANTS Filters, Passing,
          Workloads   \* the sets of snippets that may be sent in one behaviour

ASSUME ScanFilterAssumption ==
    /\ NUM_OF_BLOCKS \in Nat \ {0}
    /\ UNION Workloads = Snippets

VARIABLES unsent,    \* the snippets the storage engine has not sent yet
          Filtered_Row_Count, filter_pc, filter_in,
          delivered  \* history: the results handed to the projection stage

F == INSTANCE Filter

filterVars == <<Filtered_Row_Count, filter_pc, filter_in>>

scanFilterVars ==
    <<unsent, scan_queue_, filter_queue_, projection_queue_, scanVars, filterVars, delivered>>

ScanFilterInit ==
    /\ unsent = Snippets
    /\ scan_queue_ = <<>>
    /\ filter_queue_ = <<>>
    /\ projection_queue_ = <<>>
    /\ ScanInit
    /\ F!FilterInit
    /\ delivered = {}

(* input.cc, parse_snippet: scan_layer_->enqueue_scan(parsed_snippet)      *)
SendTurn(s) ==
    /\ s \in unsent
    /\ \E W \in Workloads : Snippets \ (unsent \ {s}) \subseteq W
    /\ unsent' = unsent \ {s}
    /\ scan_queue_' = Append(scan_queue_, s)
    /\ UNCHANGED <<filter_queue_, projection_queue_, scanVars, filterVars, delivered>>

(* What this step has appended to projection_queue_ is delivered.          *)
Delivers ==
    delivered' = IF Len(projection_queue_') > Len(projection_queue_)
                 THEN delivered \cup {projection_queue_'[Len(projection_queue_')]} ELSE delivered

ScanTurn(t) ==
    /\ ScanStep(t)
    /\ Delivers
    /\ UNCHANGED <<unsent, filterVars>>

FilterTurn(t) ==
    /\ F!FilterStep(t)
    /\ Delivers
    /\ UNCHANGED <<unsent, scan_queue_, scanVars>>

(* A projection thread's wait_and_pop.                                     *)
TakeResult ==
    /\ projection_queue_ # <<>>
    /\ projection_queue_' = Tail(projection_queue_)
    /\ UNCHANGED <<unsent, scan_queue_, filter_queue_, scanVars, filterVars, delivered>>

ScanFilterNext ==
    \/ \E s \in Snippets : SendTurn(s)
    \/ \E t \in Scanners : ScanTurn(t)
    \/ \E t \in Filters : FilterTurn(t)
    \/ TakeResult

ScanFilterSpec == ScanFilterInit /\ [][ScanFilterNext]_scanFilterVars
-----------------------------------------------------------------------------
Elements(seq) == {seq[i] : i \in DOMAIN seq}

(* Types of the threads' states and of the results they hold.              *)
TypeOK ==
    /\ unsent \in SUBSET Snippets
    /\ scan_queue_ \in Seq(Snippets)
    /\ filter_queue_ \in Seq(CsdResults(Snippets, Rows))
    /\ projection_queue_ \in Seq(CsdResults(Snippets, Rows))
    /\ scan_pc \in [Scanners -> {"pop", "FULL_SCAN", "INDEX_TABLE_SCAN", "SST_FILE_SCAN"}]
    /\ scan_result \in [Scanners -> CsdResults(Snippets \cup {NoSnippet}, Rows)]
    /\ left_block_count \in [Scanners -> Int]
    /\ position \in [Scanners -> Nat \ {0}]
    /\ filter_pc \in [Filters -> {"pop", "filtering"}]
    /\ filter_in \in [Filters -> CsdResults(Snippets \cup {NoSnippet}, Rows)]
    /\ delivered \in SUBSET CsdResults(Snippets, Rows)

(* The invariant of the proofs: until a block has been handed to the       *)
(* projection stage it is in one place of the scan and filter stages.      *)

(* The blocks i to j of a snippet.                                         *)
Part(s, i, j) == {<<make_map_key(s), n>> : n \in i .. j}

BlocksOf == [s \in Snippets |-> Part(s, 1, s.csd_block_count)]

ScanTypes == {"FULL_SCAN", "INDEX_TABLE_SCAN", "SST_FILE_SCAN"}

(* A result has one block at least, and counts its blocks.                 *)
IsPart(r) ==
    \E i, j \in 1 .. r.snippet.csd_block_count :
        /\ i <= j
        /\ r.blocks = Part(r.snippet, i, j)
        /\ r.current_block_count = j - i + 1

InFilter ==
    Elements(filter_queue_) \cup {filter_in[t] : t \in {u \in Filters : filter_pc[u] = "filtering"}}

Handed == UNION {r.blocks : r \in delivered}

ToScan == unsent \cup Elements(scan_queue_)

Scanning(t) == scan_pc[t] # "pop"

(* The blocks thread t has not passed on: those in its result and those    *)
(* not read yet.                                                           *)
FirstOf(r, left) == r.snippet.csd_block_count - left - r.current_block_count + 1

Kept(t) ==
    Part(scan_result[t].snippet, FirstOf(scan_result[t], left_block_count[t]),
         scan_result[t].snippet.csd_block_count)

(* The length in the buffer and the blocks left after each row of an SST   *)
(* file scan, from the files alone.                                        *)
NextAccount(a, row) ==
    IF a.length + RowLength[row] > BUFFER_SIZE
    THEN [length |-> 0 + RowLength[row], left |-> a.left - NUM_OF_BLOCKS]
    ELSE [length |-> a.length + RowLength[row], left |-> a.left]

FileAccount(s) ==
    LET rows == Concat(s.sst_list)
        after[i \in 0 .. Len(rows)] == IF i = 0 THEN [length |-> 0, left |-> s.csd_block_count]
                                       ELSE NextAccount(after[i - 1], rows[i])
    IN  after

FilesAgree(s, length, left, next) ==
    /\ next <= Len(Concat(s.sst_list)) + 1
    /\ FileAccount(s)[next - 1] = [length |-> length, left |-> left]

(* What a result and left_block_count account for agrees with what has     *)
(* been read.                                                              *)
Agrees(r, left, next) ==
    LET s == r.snippet
    IN  /\ s \in Snippets
        /\ left >= 0 /\ r.current_block_count >= 0
        /\ left + r.current_block_count <= s.csd_block_count
        /\ r.blocks = Part(s, FirstOf(r, left), s.csd_block_count - left)
        /\ left = 0 => r.current_block_count = 0
        /\ IF s.type = "SST_FILE_SCAN"
           THEN r.current_block_count = 0 /\ FilesAgree(s, r.data_length, left, next)
           ELSE left = Len(s.block_list) + 1 - next

ScanRight(t) ==
    /\ scan_result[t].snippet.type = scan_pc[t]
    /\ Agrees(scan_result[t], left_block_count[t], position[t])

Idle(t) == scan_result[t] = NewResult(NoSnippet) /\ position[t] = 1

ScansRight == \A t \in Scanners : IF Scanning(t) THEN ScanRight(t) ELSE Idle(t)

Distinct(seq) == \A i, j \in DOMAIN seq : seq[i] = seq[j] => i = j

(* A snippet is scanned by one thread, once.                               *)
ScannedOnce ==
    /\ Distinct(scan_queue_)
    /\ unsent \cap Elements(scan_queue_) = {}
    /\ \A t \in Scanners : Scanning(t) => scan_result[t].snippet \notin ToScan
    /\ \A t, u \in Scanners :
          (Scanning(t) /\ Scanning(u) /\ scan_result[t].snippet = scan_result[u].snippet) => t = u

(* A result in the filter stage is in one place of it.                     *)
FilteredOnce ==
    /\ Distinct(filter_queue_)
    /\ \A t \in Filters :
          IF filter_pc[t] = "filtering" THEN filter_in[t] \notin Elements(filter_queue_)
          ELSE filter_in[t] = NewResult(NoSnippet)
    /\ \A t, u \in Filters :
          (filter_pc[t] = "filtering" /\ filter_pc[u] = "filtering" /\ filter_in[t] = filter_in[u]) => t = u

(* No block is in two places.                                              *)
BlocksApart ==
    /\ \A r \in InFilter \cup delivered :
          IsPart(r) /\ r.snippet \in Snippets \ ToScan /\ r.snippet.type \in ScanTypes
    /\ \A q, r \in InFilter : q # r => q.blocks \cap r.blocks = {}
    /\ \A r \in InFilter : r.blocks \cap Handed = {}
    /\ \A t \in Scanners : Scanning(t) => /\ Kept(t) \cap Handed = {}
                                          /\ \A r \in InFilter : Kept(t) \cap r.blocks = {}

(* No block of a snippet that is scanned at all is lost.                   *)
NoBlockLost ==
    \A s \in Snippets \ ToScan : s.type \in ScanTypes =>
        \A b \in BlocksOf[s] :
            \/ b \in Handed
            \/ \E r \in InFilter : b \in r.blocks
            \/ \E t \in Scanners : Scanning(t) /\ scan_result[t].snippet = s /\ b \in Kept(t)

BlocksInv == TypeOK /\ ScansRight /\ ScannedOnce /\ FilteredOnce /\ BlocksApart /\ NoBlockLost

(* The proofs are about snippets whose scan_info lists csd_block_count     *)
(* blocks, of which a full scan may share the last with the next table,    *)
(* and SST file scans whose full buffers leave a block for the end.        *)
(* (PipelineIndexTable.cfg and PipelineSstUsedUp.cfg show what becomes of  *)
(* other snippets.)                                                        *)
RegularSnippets ==
    /\ \A s, t \in Snippets : make_map_key(s) = make_map_key(t) => s = t
    /\ \A s \in Snippets :
          /\ s.csd_block_count \in Nat /\ BlocksOf[s] \subseteq Blocks
          /\ s.type \in {"FULL_SCAN", "INDEX_TABLE_SCAN"} =>
                /\ s.block_list \in Seq([rows : Seq(Rows), foreign : BOOLEAN])
                /\ Len(s.block_list) = s.csd_block_count
                /\ \A i \in DOMAIN s.block_list :
                      s.block_list[i].foreign => s.type = "FULL_SCAN" /\ i = Len(s.block_list)
          /\ s.type = "SST_FILE_SCAN" =>
                /\ s.sst_list \in Seq(Seq(Rows))
                /\ \A i \in 0 .. Len(Concat(s.sst_list)) : FileAccount(s)[i].left > 0
    /\ \A row \in ProjectedRows : ProjectedLength[row] <= BUFFER_SIZE
-----------------------------------------------------------------------------
(* The bytes that rows take in raw_data.                                   *)
AddLength(bytes, row) == bytes + RowLength[row]

Bytes(rows) == Fold(AddLength, 0, rows)

(* What raw_data is dimensioned for: a row fits, and NUM_OF_BLOCKS blocks  *)
(* do, when the rows of each take no more than its share.                  *)
Share(share) ==
    /\ NUM_OF_BLOCKS * share <= BUFFER_SIZE
    /\ \A s \in Snippets :
          s.type \in {"FULL_SCAN", "INDEX_TABLE_SCAN"} =>
              \A i \in DOMAIN s.block_list : Bytes(s.block_list[i].rows) <= share

RowsFit ==
    /\ \A row \in Rows : RowLength[row] <= BUFFER_SIZE
    /\ \E share \in 0 .. BUFFER_SIZE : Share(share)

(* When every block's rows fit in its share of the buffer, the unchecked   *)
(* copies of read_data_block stay within raw_data.                         *)
ScanBufferNeverOverflows ==
    \A r \in {scan_result[t] : t \in Scanners} \cup Elements(filter_queue_) \cup Elements(projection_queue_) :
        r.data_length <= BUFFER_SIZE

(* The invariant behind ScanBufferNeverOverflows, for a share: the length  *)
(* of a result is that of its rows until it has been filtered, and a       *)
(* result that is being filled from blocks has used no more than their     *)
(* shares.                                                                 *)
Measured(r) == r.data_length = Bytes(r.rows) /\ r.data_length <= BUFFER_SIZE

WithinShares(r, share) ==
    r.current_block_count \in 0 .. NUM_OF_BLOCKS - 1 /\ r.data_length <= r.current_block_count * share

ScansFit(share) ==
    \A t \in Scanners :
        /\ Measured(scan_result[t])
        /\ scan_pc[t] \in {"FULL_SCAN", "INDEX_TABLE_SCAN"} => WithinShares(scan_result[t], share)

QueuesFit ==
    /\ \A r \in Elements(filter_queue_) : Measured(r)
    /\ \A r \in Elements(projection_queue_) : r.data_length <= BUFFER_SIZE

FilterInputsFit == \A t \in Filters : Measured(filter_in[t])

LengthInv(share) == ScansFit(share) /\ QueuesFit /\ FilterInputsFit
=============================================================================
