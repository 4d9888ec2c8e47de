---------------------------- MODULE BoundedFifo ----------------------------
(***************************************************************************)
(* What the bounded queues promise.  A producer reserves a place at the    *)
(* tail and publishes it there and then or later; the consumer takes       *)
(* published elements from the head only; a push is refused only when the  *)
(* queue is full, and nothing is lost, duplicated or reordered.            *)
(***************************************************************************)
EXTENDS Naturals, Sequences

CONSTANTS Producers, Values, Capacity

VARIABLES
    entries,    \* the reserved places, oldest first
    taken,      \* every value the consumer took, in order
    refused     \* pushes each producer had refused

vars == <<entries, taken, refused>>

Init == entries = <<>> /\ taken = <<>> /\ refused = [p \in Producers |-> 0]

\* Reserve places for the values vs, all of them published or none.
Reserve(vs, published) ==
    /\ vs # <<>> /\ Len(entries) + Len(vs) <= Capacity
    /\ entries' = entries \o [i \in DOMAIN vs |-> [value |-> vs[i], published |-> published]]
    /\ UNCHANGED <<taken, refused>>

Publish(i) ==
    /\ ~entries[i].published
    /\ entries' = [entries EXCEPT ![i].published = TRUE]
    /\ UNCHANGED <<taken, refused>>

Take(n) ==
    /\ \A i \in 1..n : entries[i].published
    /\ entries' = SubSeq(entries, n + 1, Len(entries))
    /\ taken' = taken \o [i \in 1..n |-> entries[i].value]
    /\ UNCHANGED refused

Refuse(p) ==
    /\ Len(entries) = Capacity
    /\ refused' = [refused EXCEPT ![p] = @ + 1]
    /\ UNCHANGED <<entries, taken>>

Next ==
    \/ \E n \in 1..Capacity - Len(entries) :
          /\ Len(entries') = Len(entries) + n
          /\ \E vs \in [1..n -> Values], published \in BOOLEAN : Reserve(vs, published)
    \/ \E i \in DOMAIN entries : Publish(i)
    \/ \E n \in 1..Len(entries) : Take(n)
    \/ \E p \in Producers : Refuse(p)

Spec == Init /\ [][Next]_vars
=============================================================================
