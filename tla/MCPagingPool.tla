---------------------------- MODULE MCPagingPool ----------------------------
(* The paging-area pool with a refiller r, its page faults h and thread a. *)
EXTENDS PagingPool
CONSTANTS r, h, a
=============================================================================
