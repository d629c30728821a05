------------------------------- MODULE MCTage -------------------------------
(***************************************************************************)
(* Tage on endless traces of one branch: what the predictor must learn.    *)
(***************************************************************************)
EXTENDS Tage

VARIABLE draw     \* the components skipped by the last misprediction, or NONE

MCTagWidths == <<2, 2>>
MCHistLens == <<1, 2>>
MCIndexBits == <<1, 1>>
MCIps == {{0}}

LearnInit == TageInit /\ draw = NONE

LearnNext ==
  \/ /\ \E ip \in Ips, taken \in BOOLEAN : PredictBranch(ip, taken)
     /\ UNCHANGED draw
  \/ /\ \E ip \in Ips : PredictOther(ip)
     /\ UNCHANGED draw
  \/ \E skip \in Skips :
       /\ Resolve(skip)
       /\ draw' = IF branch_info.ultimate # pending[2] THEN skip ELSE NONE

\* The trace goes on for ever and contains branches for ever; a predictor call
\* is synchronous, so a branch that was predicted is resolved.
LearnSpec ==
  /\ LearnInit /\ [][LearnNext]_<<tageVars, draw>>
  /\ WF_pending(pending = <<>> /\ \E b \in Ips \X BOOLEAN : pending' = b)
  /\ WF_pending(pending # <<>> /\ pending' = <<>>)

\* rand() does not avoid mispredictions: if there are infinitely many, its low
\* bit is 0 at infinitely many of them.
FairRand == ([]<>(draw # NONE)) => ([]<>(draw = 0))

\* The prediction made for the pending branch is the outcome the trace gives.
Correct == pending # <<>> => branch_info.ultimate = pending[2]

\* Whatever it has been taught before, the predictor learns a branch that
\* from some point on always goes the same way.
Constant(taken) == pending # <<>> => pending[2] = taken
LearnsConstant == \A taken \in BOOLEAN : (<>[]Constant(taken)) => (<>[]Correct)

\* ... and a branch that alternates, which no counter alone can predict: it
\* takes an allocation in a component that sees the previous outcome.
Alternating == pending # <<>> => pending[2] # (0 \in ghist)
LearnsAlternation == FairRand /\ (<>[]Alternating) => (<>[]Correct)

\* Whatever the predictor was taught, it settles on a branch that settles.
LearnsSettled == LearnsConstant /\ LearnsAlternation
=============================================================================
