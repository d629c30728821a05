------------------------------- MODULE MCLoop -------------------------------
(* Three loops that compete for two ways.  The one that is watched has the *)
(* tag of the ways that were never taken, so that it is met by a table     *)
(* that never saw it, one that forgot it, and one that holds it twice.     *)
EXTENDS LoopHistory

MCOneLoop == {1}
MCLoops == {0, 1, 2}
MCWatched == {0}

\* The trace goes on for ever and contains branches for ever; a predictor call
\* is synchronous, so a branch that was predicted is resolved.
FairHistSpec ==
  /\ HistSpec
  /\ WF_pending(pending = <<>> /\ \E b \in Ips \X BOOLEAN : pending' = b)
  /\ WF_pending(pending # <<>> /\ pending' = <<>>)

\* src/README.md: the loop predictor's "task is to identify regular loops with
\* constant number of iterations".  A loop that from some point on is always
\* taken the same number of times is in the end predicted with confidence.
Regular(ip, n) == (pending # <<>> /\ pending[1] = ip) => pending[2] = (run[ip] < n)
IdentifiesRegularLoops ==
  \A ip \in Watched : \A n \in 1..ITER_MAX : <>[]Regular(ip, n) => <>[]Confident(ip)
=============================================================================
