---------------------------- MODULE MCTmaxWorker -----------------------------
(***************************************************************************)
(* Two snippets.  The first fills its buffer in the middle of a block and  *)
(* has a block with no rows; the second has a block whose rows all fail.   *)
(***************************************************************************)
EXTENDS TmaxWorker, TLC

CONSTANTS s1, s2

Chunk(s, n, size) == [used |-> size, id |-> <<s, n>>]

Block(res, chained) == [rowcnt |-> 1, list |-> [res_chunk |-> res, chained_chunk |-> chained]]
NoRows == [rowcnt |-> 0, list |-> create_chunk_list]

Files ==
    (s1 :> << <<NoRows, Block(<<Chunk(s1, 1, 2), Chunk(s1, 2, 1), Chunk(s1, 3, 2)>>, <<>>)>>,
              <<Block(<<Chunk(s1, 4, 1)>>, <<>>)>> >>)
    @@ (s2 :> << <<Block(<<>>, <<>>)>>, <<Block(<<Chunk(s2, 1, 2)>>, <<>>)>> >>)

Buffers == (s1 :> 8) @@ (s2 :> 5)

(* What lies behind the end of an array of chunks.                         *)
WildChunk == [used |-> 0, id |-> "wild"]
=============================================================================
