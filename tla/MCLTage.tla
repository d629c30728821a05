------------------------------- MODULE MCLTage -------------------------------
(***************************************************************************)
(* L-TAGE on endless traces of one loop branch.                            *)
(***************************************************************************)
EXTENDS LTage

VARIABLE run       \* taken outcomes of the loop since it last fell through

MCTagWidths == <<2>>
MCHistLens == <<1>>
MCIndexBits == <<1>>
MCLoop == {2}

RunCap == ITER_MAX + 1

LoopInit == LTageInit /\ run = 0

LoopNext ==
  \/ /\ \E ip \in Ips, taken \in BOOLEAN : LTagePredictBranch(ip, taken)
     /\ UNCHANGED run
  \/ /\ \E ip \in Ips : LTagePredictOther(ip)
     /\ UNCHANGED run
  \/ \E skip \in tage_predictor!Skips :
       /\ LTageResolve(skip)
       /\ run' = IF ~pending[2] THEN 0 ELSE IF run < RunCap THEN run + 1 ELSE RunCap

\* The trace goes on for ever and contains branches for ever; a predictor call
\* is synchronous, so a branch that was predicted is resolved.
LoopSpec ==
  /\ LoopInit /\ [][LoopNext]_<<ltageVars, run>>
  /\ WF_pending(pending = <<>> /\ \E b \in Ips \X BOOLEAN : pending' = b)
  /\ WF_pending(pending # <<>> /\ pending' = <<>>)

\* The loop is taken exactly n times between exits.
Regular(n) == pending # <<>> => pending[2] = (run < n)
Correct == pending # <<>> => prediction = pending[2]

\* A loop that is regular from its first execution on, with a trip count the
\* counters can hold, is in the end predicted without a miss, exits included,
\* whatever TAGE and its allocations make of it.
LearnsRegularLoops == \A n \in 0..ITER_MAX : []Regular(n) => <>[]Correct
=============================================================================
