---------------------------- MODULE LoopPredictor ----------------------------
(***************************************************************************)
(* The loop predictor of L-TAGE (branch/LTage/loop_predictor.h): a set-    *)
(* associative table of loops that learns how many times a loop branch is  *)
(* taken before it falls through, and predicts the exit once it is         *)
(* confident.  As in Tage, a prediction is made for every instruction and  *)
(* an outcome is reported, before the next one, for the branches only.     *)
(***************************************************************************)
EXTENDS FwCounter, FiniteSets

CONSTANTS
  NUM_SETS, NUM_WAYS,
  TAG_VALUES,    \* 2^TAG_WIDTH
  ITER_MAX,      \* 2^ITER_WIDTH - 1, where the iteration counters saturate
  INIT_AGE,      \* initial age, and the maximum of the 8-bit age counter
  Ips

CONF_MAX == 3    \* the 2-bit confidence counter saturates at "valid"

ASSUME LoopAssumption ==
  /\ NUM_SETS \in Nat \ {0} /\ NUM_WAYS \in Nat \ {0} /\ TAG_VALUES \in Nat \ {0}
  /\ ITER_MAX \in Nat \ {0} /\ INIT_AGE \in Nat \ {0}
  /\ Ips \subseteq Nat

Sets == 0..(NUM_SETS - 1)
Ways == 0..(NUM_WAYS - 1)
loop_entry == [past_iter_cnt : 0..ITER_MAX, curr_iter_cnt : 0..ITER_MAX,
               tag : 0..(TAG_VALUES - 1), confidence : 0..CONF_MAX, age : 0..INIT_AGE]

index(ip) == ip % NUM_SETS
tag(ip) == (ip \div NUM_SETS) % TAG_VALUES

VARIABLES
  loop_component,      \* [set][way] |-> loop_entry
  loop_branch_info,    \* what predict_branch leaves for last_branch_result
  pending              \* the branch predicted whose outcome is not yet reported

vars == <<loop_component, loop_branch_info, pending>>

\* On a miss only `hit` and `is_valid_loop_prediction` are written and only
\* `hit` is read, so the other fields carry nothing.
Miss == [hit |-> FALSE, index |-> 0, way |-> 0, prediction |-> FALSE, valid |-> FALSE]

\* An entry that knows nothing but the iterations of the current execution.
NewEntry(t, curr, age) == [past_iter_cnt |-> 0, curr_iter_cnt |-> curr, tag |-> t,
                           confidence |-> 0, age |-> age]

----------------------------------------------------------------------------
(* predict_branch *)

MatchingWays(ip) == {w \in Ways : loop_component[index(ip)][w].tag = tag(ip)}
First(S) == CHOOSE w \in S : \A v \in S : w <= v

Lookup(ip) ==
  IF MatchingWays(ip) = {} THEN Miss
  ELSE LET w == First(MatchingWays(ip))
           e == loop_component[index(ip)][w]
       IN  [hit |-> TRUE, index |-> index(ip), way |-> w,
            prediction |-> e.curr_iter_cnt # e.past_iter_cnt,
            valid |-> e.confidence = CONF_MAX]

----------------------------------------------------------------------------
(* last_branch_result *)

\* The loop did not behave: forget its counts but keep its tag, and let any
\* other branch take the way over.
Forget(e, curr) == NewEntry(e.tag, curr, 0)

CountIteration(e) == [e EXCEPT !.curr_iter_cnt = Add(@, 1, ITER_MAX)]
\* Mutant of Complete: the iteration counter is not cleared at the exit.
Complete_NoReset(e) == [e EXCEPT !.past_iter_cnt = e.curr_iter_cnt,
                                 !.confidence = Add(@, 1, CONF_MAX)]

Complete(e) == [past_iter_cnt |-> e.curr_iter_cnt, curr_iter_cnt |-> 0, tag |-> e.tag,
                confidence |-> Add(e.confidence, 1, CONF_MAX), age |-> e.age]
Older(e) == [e EXCEPT !.age = Add(@, 1, INIT_AGE)]

TrainValid(e, prediction, taken) ==
  IF prediction = taken
  THEN Older(IF taken THEN CountIteration(e) ELSE Complete(e))
  ELSE Forget(e, IF taken THEN 1 ELSE 0)

TrainTaken(e) ==
  IF e.past_iter_cnt # 0 /\ e.curr_iter_cnt + 1 > e.past_iter_cnt
  THEN Forget(e, 1)
  ELSE CountIteration(e)

\* Mutant of TrainNotTaken: an exit counts whatever the learnt trip count is.
TrainNotTaken_AnyCount(e) == Complete(e)

TrainNotTaken(e) ==
  IF e.past_iter_cnt = 0 \/ e.past_iter_cnt = e.curr_iter_cnt
  THEN Complete(e)
  ELSE Forget(e, 0)

TrainEntry(e, taken) ==
  IF loop_branch_info.valid THEN TrainValid(e, loop_branch_info.prediction, taken)
  ELSE IF taken THEN TrainTaken(e) ELSE TrainNotTaken(e)

\* A taken branch that missed gets the first way of age zero, or makes every
\* way of the set a little older.
AllocateWay(set, ip) ==
  LET free == {w \in Ways : set[w].age = 0}
  IN  IF free # {}
      THEN [set EXCEPT ![First(free)] = NewEntry(tag(ip), 1, INIT_AGE)]
      ELSE [w \in Ways |-> [set[w] EXCEPT !.age = Sub(@, 1, INIT_AGE)]]

\* Mutant of SetAfter: a taken branch is given a way whether it hit or missed.
SetAfter_AlwaysAllocate(set, ip, taken) ==
  IF loop_branch_info.hit /\ ~taken
  THEN [set EXCEPT ![loop_branch_info.way] = TrainEntry(@, taken)]
  ELSE IF taken THEN AllocateWay(set, ip) ELSE set

SetAfter(set, ip, taken) ==
  IF loop_branch_info.hit
  THEN [set EXCEPT ![loop_branch_info.way] = TrainEntry(@, taken)]
  ELSE IF taken THEN AllocateWay(set, ip) ELSE set

----------------------------------------------------------------------------
(* Actions *)

Init ==
  /\ loop_component = [s \in Sets |-> [w \in Ways |-> NewEntry(0, 0, 0)]]
  /\ loop_branch_info = Miss
  /\ pending = <<>>

predict_branch(ip) ==
  /\ loop_branch_info' = Lookup(ip)
  /\ UNCHANGED loop_component

last_branch_result(ip, taken) ==
  /\ LET s == IF loop_branch_info.hit THEN loop_branch_info.index ELSE index(ip)
     IN  loop_component' = [loop_component EXCEPT ![s] = SetAfter(@, ip, taken)]
  /\ UNCHANGED loop_branch_info

PredictBranch(ip, taken) ==
  /\ pending = <<>>
  /\ predict_branch(ip)
  /\ pending' = <<ip, taken>>

PredictOther(ip) ==
  /\ pending = <<>>
  /\ predict_branch(ip)
  /\ UNCHANGED pending

Resolve ==
  /\ pending # <<>>
  /\ last_branch_result(pending[1], pending[2])
  /\ pending' = <<>>

Next ==
  \/ \E ip \in Ips, taken \in BOOLEAN : PredictBranch(ip, taken)
  \/ \E ip \in Ips : PredictOther(ip)
  \/ Resolve

Spec == Init /\ [][Next]_vars

----------------------------------------------------------------------------
(* Properties *)

LoopBranchInfo == [hit : BOOLEAN, index : Sets, way : Ways,
                   prediction : BOOLEAN, valid : BOOLEAN]

TypeOK ==
  /\ loop_component \in [Sets -> [Ways -> loop_entry]]
  /\ loop_branch_info \in LoopBranchInfo
  /\ pending \in {<<>>} \cup (Ips \X BOOLEAN)

\* A loop never owns two ways: predict_branch stops at the first match, so a
\* second entry with the same tag would shadow what the first one learns.
\* Tag 0 is excepted: the code has no valid bit and starts with all tags 0.
TagsUnique ==
  \A s \in Sets : \A v, w \in Ways :
    (loop_component[s][v].tag = loop_component[s][w].tag /\ v # w)
      => loop_component[s][v].tag = 0

\* An entry that knows a trip count has not counted past it, and so has a
\* confident one: if it had, `curr == past` could never come true again and
\* the exit of the loop would never be predicted.
WithinTripCount(e) ==
  (e.past_iter_cnt # 0 \/ e.confidence = CONF_MAX) => e.curr_iter_cnt <= e.past_iter_cnt
NeverPastTheTripCount ==
  \A s \in Sets, w \in Ways : WithinTripCount(loop_component[s][w])
=============================================================================
