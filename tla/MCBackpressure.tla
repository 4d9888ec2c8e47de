--------------------------- MODULE MCBackpressure ---------------------------
(* Backpressure for model checking: the applications, by who posts to whom.  *)
EXTENDS Backpressure

Mutual == [e \in Executors |-> Executors]

\* Executors that post to each other, under Reject.
MutualReject == {[policy |-> "Reject", reach |-> Mutual, modes |-> {"Auto"}]}
=============================================================================
