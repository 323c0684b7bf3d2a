---- MODULE MCPreemption ----
EXTENDS Preemption, TLC
(* The threads but the first are interchangeable. *)
Others == Permutations(Threads \ {First})
====
