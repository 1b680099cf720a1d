--------------------------- MODULE MCBlockTransfer ---------------------------
(* BlockTransfer on every prompt, cache hit and block layout within bounds. *)
EXTENDS BlockTransfer

=============================================================================
