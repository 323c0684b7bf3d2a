---------------------------- MODULE FrameOwners ----------------------------
(***************************************************************************)
(* What the page frame allocator promises: a frame belongs to nobody or to *)
(* one thread, which gives it back before another one gets it.             *)
(***************************************************************************)
CONSTANTS Threads, Frames, Initial   \* Initial[t]: what t owns after the boot

VARIABLE owned

Init == owned = Initial

Take(t, f) ==
  /\ \A u \in Threads : f \notin owned[u]
  /\ owned' = [owned EXCEPT ![t] = @ \cup {f}]

Give(t, F) == F \subseteq owned[t] /\ owned' = [owned EXCEPT ![t] = @ \ F]

Next == \E t \in Threads : \/ \E f \in Frames : Take(t, f)
                           \/ \E F \in SUBSET Frames : Give(t, F)

Spec == Init /\ [][Next]_owned
=============================================================================
