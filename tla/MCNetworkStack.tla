-------------------------- MODULE MCNetworkStack ---------------------------
EXTENDS NetworkStack, TLC

CONSTANTS a, b, s, t

\* Each thread has its own socket.
OwnSockets == a :> s @@ b :> t
=============================================================================
