--------------------------- MODULE MCNetworkDevice ---------------------------
(* Two senders, three slots in the queues and two packet buffers.           *)
EXTENDS NetworkDevice, TLC
Exchange == Permutations(Senders) \cup Permutations(OutBuffers)
=============================================================================
