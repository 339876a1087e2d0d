----------------------------- MODULE BoundedFifo -----------------------------
(* What a bounded queue promises: a sequence that grows at its end and     *)
(* shrinks at its head, one element at a time, within its capacity.        *)
EXTENDS Naturals, Sequences

CONSTANTS Elements, Capacity

VARIABLE q

Init == q = <<>>

Put(e) == Len(q) < Capacity /\ q' = Append(q, e)

Get == q # <<>> /\ q' = Tail(q)

Next == (\E e \in Elements : Put(e)) \/ Get

Spec == Init /\ [][Next]_q
=============================================================================
