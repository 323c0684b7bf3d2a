------------------------------ MODULE Channel ------------------------------
(***************************************************************************)
(* What a pipe promises: the bytes come out in the order in which they     *)
(* went in, each one once, and at most Capacity of them are on their way.  *)
(***************************************************************************)
EXTENDS Naturals, Sequences

CONSTANT Capacity

VARIABLES
  sent,       \* every byte that was accepted, in order
  received    \* every byte that was taken out, in order

Init == sent = <<>> /\ received = <<>>

Send ==
  /\ \E n \in 1..Capacity :
       /\ Len(sent') = Len(sent) + n
       /\ Len(sent') - Len(received) <= Capacity
       /\ SubSeq(sent', 1, Len(sent)) = sent
  /\ UNCHANGED received

Receive ==
  /\ \E n \in 1..Capacity :
       /\ Len(received) + n <= Len(sent)
       /\ received' = SubSeq(sent, 1, Len(received) + n)
  /\ UNCHANGED sent

Next == Send \/ Receive

Spec == Init /\ [][Next]_<<sent, received>>
=============================================================================
