---------------------------- MODULE MCInputStream ----------------------------
(***************************************************************************)
(* Three snippets, shorter and longer than a buffer, one of each kind.     *)
(***************************************************************************)
EXTENDS InputStream, TLC

CONSTANTS c1, c2, c3

Sizes == (c1 :> 1) @@ (c2 :> 4) @@ (c3 :> 5)
Kinds == (c1 :> "tmax") @@ (c2 :> "block") @@ (c3 :> "sst")
=============================================================================
