------------------------------ MODULE ChunkList ------------------------------
(***************************************************************************)
(* tmax-lib/ex.cc: the list of chunks a block is filtered into.  Rows that *)
(* lie in the block go to result chunks, pieces of rows to chained chunks. *)
(* A cell (rpcol) is a sequence of characters, empty for NULL; in a buffer *)
(* its length comes first.                                                 *)
(***************************************************************************)
EXTENDS Integers, Sequences, SequencesExt

CONSTANTS RES_CHUNK_SIZE,  \* bytes of a chunk
          Garbage          \* a byte, cell or chunk nobody has written

rpcol_get_len(cell) == Len(cell) + 1

CellBytes(cell) == <<Len(cell)>> \o cell

create_chunk == [buf |-> [n \in 1 .. RES_CHUNK_SIZE |-> Garbage], used |-> 0]

create_chunk_list == [res_chunk |-> <<>>, chained_chunk |-> <<>>]

(* memcpy of bytes to the offset `at' of a buffer.                         *)
memcpy(buf, at, bytes) ==
    [n \in DOMAIN buf |-> IF n - at \in DOMAIN bytes THEN bytes[n - at] ELSE buf[n]]

(* The chunks of one kind, with a new one behind if total_len bytes do not *)
(* fit in the last.                                                        *)
WithRoom(chunks, total_len) ==
    IF chunks = <<>> \/ Last(chunks).used + total_len > RES_CHUNK_SIZE
    THEN Append(chunks, create_chunk) ELSE chunks

(* Each cell is copied behind the bytes in use.                            *)
serialize_rpcols_to_chunk(chunk_list, cells, total_len) ==
    LET Copy(chunk, cell) == [buf  |-> memcpy(chunk.buf, chunk.used, CellBytes(cell)),
                              used |-> chunk.used + rpcol_get_len(cell)]
        chunks == WithRoom(chunk_list.res_chunk, total_len)
    IN  [chunk_list EXCEPT !.res_chunk = [chunks EXCEPT ![Len(chunks)] = FoldLeft(Copy, @, cells)]]

(* Each cell is copied to the start of the buffer.                         *)
serialize_rpcols_to_chained_chunk(chunk_list, cells, total_len) ==
    LET Copy(chunk, cell) == [buf  |-> memcpy(chunk.buf, 0, CellBytes(cell)),
                              used |-> chunk.used + rpcol_get_len(cell)]
        chunks == WithRoom(chunk_list.chained_chunk, total_len)
    IN  [chunk_list EXCEPT !.chained_chunk = [chunks EXCEPT ![Len(chunks)] = FoldLeft(Copy, @, cells)]]

total_chunk_cnt(chunk_list) == Len(chunk_list.res_chunk) + Len(chunk_list.chained_chunk)

(* The chunk write_chunk_list_to_buffer takes at index i, from 1: behind   *)
(* the result chunks it indexes the chained ones with the same i.          *)
cur_chunk(chunk_list, i) ==
    IF i <= Len(chunk_list.res_chunk) THEN chunk_list.res_chunk[i]
    ELSE IF i <= Len(chunk_list.chained_chunk) THEN chunk_list.chained_chunk[i]
    ELSE Garbage

(* The bytes a reader of a chunk finds.                                    *)
BytesOf(chunk) == SubSeq(chunk.buf, 1, chunk.used)
=============================================================================
