--------------------------- MODULE MCPipedStream ---------------------------
(* Pipes with the writers w and v and the readers r and q.                 *)
EXTENDS PipedStream
CONSTANTS w, v, r, q
=============================================================================
