--------------------------- MODULE PredictorProofs ---------------------------
(***************************************************************************)
(* The loop predictor and the BTB keep what they promise for every         *)
(* geometry of their tables and every width of their counters, the loop    *)
(* predictor also with the history of the loops beside it.                 *)
(***************************************************************************)
EXTENDS LoopHistory, BasicBtb, CommonFacts, FiniteSetTheorems

----------------------------------------------------------------------------
(* The loop predictor. *)

\* The first way of a non-empty set of ways is one of them.
LEMMA FirstIn ==
  ASSUME NEW S \in SUBSET Ways, S # {}
  PROVE  First(S) \in S
<1>1. Ways \subseteq Nat
  BY LoopAssumption DEF Ways
<1> QED BY <1>1, LeastExists DEF First

\* The saturating arithmetic stays within the width of the counter.
LEMMA CounterRange ==
  ASSUME NEW max \in Nat, NEW v \in 0..max
  PROVE  /\ Add(v, 1, max) \in 0..max
         /\ Sub(v, 1, max) \in 0..max
BY DEF Add, Sub, Clamp

LEMMA Geometry ==
  ASSUME NEW ip \in Ips
  PROVE  index(ip) \in Sets /\ tag(ip) \in 0..(TAG_VALUES - 1)
<1>1. ip \in Nat /\ NUM_SETS \in Nat \ {0} /\ TAG_VALUES \in Nat \ {0}
  BY LoopAssumption
<1>2. ip % NUM_SETS \in 0..(NUM_SETS - 1)
  BY <1>1
<1>3. ip \div NUM_SETS \in Nat
  BY <1>1
<1>4. (ip \div NUM_SETS) % TAG_VALUES \in 0..(TAG_VALUES - 1)
  BY <1>1, <1>3
<1> QED BY <1>2, <1>4 DEF index, tag, Sets

\* What a lookup returns, and that a hit names a way that holds the tag.
LEMMA LookupFacts ==
  ASSUME TypeOK, NEW ip \in Ips
  PROVE  /\ Lookup(ip) \in LoopBranchInfo
         /\ Lookup(ip).hit =>
              LET e == loop_component[Lookup(ip).index][Lookup(ip).way]
              IN  /\ Lookup(ip).index = index(ip)
                  /\ e.tag = tag(ip)
                  /\ Lookup(ip).valid = (e.confidence = CONF_MAX)
                  /\ Lookup(ip).prediction = (e.curr_iter_cnt # e.past_iter_cnt)
         /\ ~Lookup(ip).hit => MatchingWays(ip) = {}
<1>0. index(ip) \in Sets
  BY Geometry
<1>1. CASE MatchingWays(ip) = {}
  <2>1. Lookup(ip) = Miss
    BY <1>1 DEF Lookup
  <2>2. 0 \in Sets /\ 0 \in Ways
    BY LoopAssumption DEF Sets, Ways
  <2> QED BY <1>1, <2>1, <2>2 DEF Miss, LoopBranchInfo
<1>2. CASE MatchingWays(ip) # {}
  <2> DEFINE w == First(MatchingWays(ip))
             e == loop_component[index(ip)][w]
  <2>1. w \in MatchingWays(ip)
    BY <1>2, FirstIn DEF MatchingWays
  <2>2. w \in Ways /\ e.tag = tag(ip)
    BY <2>1 DEF MatchingWays
  <2>3. Lookup(ip) = [hit |-> TRUE, index |-> index(ip), way |-> w,
                      prediction |-> e.curr_iter_cnt # e.past_iter_cnt,
                      valid |-> e.confidence = CONF_MAX]
    BY <1>2 DEF Lookup
  <2> HIDE DEF w
  <2> QED BY <1>0, <2>2, <2>3 DEF LoopBranchInfo
<1> QED BY <1>1, <1>2

\* Training an entry that the prediction was read from.
LEMMA TrainingFacts ==
  ASSUME NEW e \in loop_entry, WithinTripCount(e), NEW taken \in BOOLEAN,
         loop_branch_info \in LoopBranchInfo,
         loop_branch_info.valid = (e.confidence = CONF_MAX),
         loop_branch_info.prediction = (e.curr_iter_cnt # e.past_iter_cnt)
  PROVE  /\ TrainEntry(e, taken) \in loop_entry
         /\ TrainEntry(e, taken).tag = e.tag
         /\ WithinTripCount(TrainEntry(e, taken))
<1> USE LoopAssumption DEF CONF_MAX
<1>0. /\ Add(e.curr_iter_cnt, 1, ITER_MAX) \in 0..ITER_MAX
      /\ Add(e.curr_iter_cnt, 1, ITER_MAX) <= e.curr_iter_cnt + 1
      /\ Add(e.confidence, 1, 3) \in 0..3
  BY DEF loop_entry, Add, Clamp
<1>1. ASSUME NEW n \in {0, 1}
      PROVE  /\ Forget(e, n) \in loop_entry
             /\ Forget(e, n).tag = e.tag
             /\ WithinTripCount(Forget(e, n))
  <2>1. Forget(e, n) = [past_iter_cnt |-> 0, curr_iter_cnt |-> n, tag |-> e.tag,
                        confidence |-> 0, age |-> 0]
    BY DEF Forget, NewEntry
  <2>2. n \in 0..ITER_MAX /\ 0 \in 0..ITER_MAX /\ 0 \in 0..3 /\ 0 \in 0..INIT_AGE
    OBVIOUS
  <2> QED BY <2>1, <2>2 DEF loop_entry, WithinTripCount
<1>2. /\ Complete(e) \in loop_entry
      /\ Complete(e).tag = e.tag
      /\ WithinTripCount(Complete(e))
  <2>1. Complete(e) = [past_iter_cnt |-> e.curr_iter_cnt, curr_iter_cnt |-> 0,
                       tag |-> e.tag, confidence |-> Add(e.confidence, 1, 3),
                       age |-> e.age]
    BY DEF Complete
  <2> QED BY <1>0, <2>1 DEF loop_entry, WithinTripCount
<1>3. /\ CountIteration(e) \in loop_entry
      /\ CountIteration(e).tag = e.tag
      /\ (e.past_iter_cnt = 0 /\ e.confidence # 3) \/ e.curr_iter_cnt < e.past_iter_cnt
           => WithinTripCount(CountIteration(e))
  <2>1. CountIteration(e) = [past_iter_cnt |-> e.past_iter_cnt,
                             curr_iter_cnt |-> Add(e.curr_iter_cnt, 1, ITER_MAX),
                             tag |-> e.tag, confidence |-> e.confidence, age |-> e.age]
    BY DEF CountIteration, loop_entry
  <2> QED BY <1>0, <2>1 DEF loop_entry, WithinTripCount
<1>4. ASSUME NEW f \in loop_entry, WithinTripCount(f)
      PROVE  /\ Older(f) \in loop_entry
             /\ Older(f).tag = f.tag
             /\ WithinTripCount(Older(f))
  <2>1. Older(f) = [past_iter_cnt |-> f.past_iter_cnt, curr_iter_cnt |-> f.curr_iter_cnt,
                    tag |-> f.tag, confidence |-> f.confidence,
                    age |-> Add(f.age, 1, INIT_AGE)]
    BY DEF Older, loop_entry
  <2>2. Add(f.age, 1, INIT_AGE) \in 0..INIT_AGE
    BY DEF loop_entry, Add, Clamp
  <2> QED BY <1>4, <2>1, <2>2 DEF loop_entry, WithinTripCount
<1>5. CASE loop_branch_info.valid
  <2>1. e.confidence = 3 /\ e.curr_iter_cnt <= e.past_iter_cnt
    BY <1>5 DEF WithinTripCount
  <2>2. CASE loop_branch_info.prediction = taken
    <3>1. CASE taken
      <4>1. e.curr_iter_cnt # e.past_iter_cnt
        BY <2>2, <3>1, Zenon
      <4>2. e.curr_iter_cnt < e.past_iter_cnt
        BY <2>1, <4>1 DEF loop_entry
      <4> QED BY <1>3, <1>4, <1>5, <2>2, <3>1, <4>2 DEF TrainEntry, TrainValid
    <3>2. CASE ~taken
      BY <1>2, <1>4, <1>5, <2>2, <3>2 DEF TrainEntry, TrainValid
    <3> QED BY <3>1, <3>2
  <2>3. CASE loop_branch_info.prediction # taken
    BY <1>1, <1>5, <2>3 DEF TrainEntry, TrainValid
  <2> QED BY <2>2, <2>3
<1>6. CASE ~loop_branch_info.valid
  <2>1. e.confidence # 3
    BY <1>6
  <2>2. CASE taken
    <3>1. CASE e.past_iter_cnt # 0 /\ e.curr_iter_cnt + 1 > e.past_iter_cnt
      BY <1>1, <1>6, <2>2, <3>1 DEF TrainEntry, TrainTaken
    <3>2. CASE ~(e.past_iter_cnt # 0 /\ e.curr_iter_cnt + 1 > e.past_iter_cnt)
      <4>1. (e.past_iter_cnt = 0 /\ e.confidence # 3) \/ e.curr_iter_cnt < e.past_iter_cnt
        BY <2>1, <3>2 DEF loop_entry
      <4> QED BY <1>3, <1>6, <2>2, <3>2, <4>1 DEF TrainEntry, TrainTaken
    <3> QED BY <3>1, <3>2
  <2>3. CASE ~taken
    BY <1>1, <1>2, <1>6, <2>3 DEF TrainEntry, TrainNotTaken
  <2> QED BY <2>2, <2>3
<1> QED BY <1>5, <1>6

\* The parts of the invariants that concern one set of the table.
SetOK(set) ==
  /\ set \in [Ways -> loop_entry]
  /\ \A w \in Ways : WithinTripCount(set[w])
  /\ \A v, w \in Ways : (set[v].tag = set[w].tag /\ v # w) => set[v].tag = 0

\* Giving a way to a branch that has none keeps the set in order.
LEMMA AllocationFacts ==
  ASSUME NEW set, SetOK(set), NEW ip \in Ips, \A w \in Ways : set[w].tag # tag(ip)
  PROVE  SetOK(AllocateWay(set, ip))
<1> DEFINE free == {w \in Ways : set[w].age = 0}
           new == [past_iter_cnt |-> 0, curr_iter_cnt |-> 1, tag |-> tag(ip),
                   confidence |-> 0, age |-> INIT_AGE]
<1>1. CASE free # {}
  <2> DEFINE f == First(free)
  <2>1. f \in Ways
    BY <1>1, FirstIn
  <2>2. AllocateWay(set, ip) = [set EXCEPT ![f] = new]
    BY <1>1, Zenon DEF AllocateWay, NewEntry
  <2>3. new \in loop_entry /\ WithinTripCount(new) /\ new.tag = tag(ip)
    BY Geometry, LoopAssumption DEF loop_entry, WithinTripCount, CONF_MAX
  <2> HIDE DEF f, new
  <2> QED BY <2>1, <2>2, <2>3 DEF SetOK
<1>2. CASE free = {}
  <2> DEFINE old(w) == [set[w] EXCEPT !.age = Sub(@, 1, INIT_AGE)]
  <2>1. AllocateWay(set, ip) = [w \in Ways |-> old(w)]
    BY <1>2 DEF AllocateWay
  <2>2. ASSUME NEW w \in Ways
        PROVE  /\ old(w) \in loop_entry
               /\ old(w).tag = set[w].tag
               /\ WithinTripCount(old(w))
    <3>1. set[w] \in loop_entry /\ WithinTripCount(set[w])
      BY DEF SetOK
    <3>2. Sub(set[w].age, 1, INIT_AGE) \in 0..INIT_AGE
      BY <3>1, LoopAssumption DEF loop_entry, Sub, Clamp
    <3> QED BY <3>1, <3>2 DEF loop_entry, WithinTripCount
  <2> HIDE DEF old
  <2> QED BY <2>1, <2>2 DEF SetOK
<1> QED BY <1>1, <1>2

\* What predict_branch left behind is still what the table says when the outcome
\* is reported.
PredictionCurrent == pending # <<>> => loop_branch_info = Lookup(pending[1])

\* The inductive invariant: the properties need each other, and need to know
\* that the update sees the table the prediction was made from.
LoopInv == TypeOK /\ TagsUnique /\ NeverPastTheTripCount /\ PredictionCurrent

LEMMA SetsOK == LoopInv => \A s \in Sets : SetOK(loop_component[s])
BY DEF LoopInv, TypeOK, TagsUnique, NeverPastTheTripCount, SetOK

LEMMA LoopStarts == Init => LoopInv
<1> SUFFICES ASSUME Init PROVE LoopInv
  OBVIOUS
<1> USE LoopAssumption DEF Init
<1>1. /\ NewEntry(0, 0, 0) \in loop_entry
      /\ WithinTripCount(NewEntry(0, 0, 0)) /\ NewEntry(0, 0, 0).tag = 0
  BY DEF NewEntry, loop_entry, WithinTripCount, CONF_MAX
<1>2. Miss \in LoopBranchInfo
  BY DEF Miss, LoopBranchInfo, Sets, Ways
<1> QED BY <1>1, <1>2 DEF LoopInv, TypeOK, TagsUnique,
                                NeverPastTheTripCount, PredictionCurrent

\* A prediction changes what is remembered of it and nothing else.
LEMMA PredictKeepsInv ==
  ASSUME LoopInv, NEW ip \in Ips, predict_branch(ip),
         pending' = pending \/ \E taken \in BOOLEAN : pending' = <<ip, taken>>,
         pending = <<>>
  PROVE  LoopInv'
<1>1. loop_component' = loop_component /\ loop_branch_info' = Lookup(ip)
  BY DEF predict_branch
<1>2. Lookup(ip) \in LoopBranchInfo
  BY LookupFacts DEF LoopInv
<1>3. TypeOK'
  BY <1>1, <1>2 DEF LoopInv, TypeOK
<1>4. TagsUnique' /\ NeverPastTheTripCount'
  BY <1>1 DEF LoopInv, TagsUnique, NeverPastTheTripCount
<1>5. PredictionCurrent'
  <2>1. CASE pending' = pending
    BY <2>1 DEF PredictionCurrent
  <2>2. CASE \E taken \in BOOLEAN : pending' = <<ip, taken>>
    <3>1. pending'[1] = ip
      BY <2>2
    <3>2. Lookup(pending[1])' = Lookup(ip)
      BY <1>1, <3>1 DEF Lookup, MatchingWays
    <3> QED BY <1>1, <3>2 DEF PredictionCurrent
  <2> QED BY <2>1, <2>2
<1> QED BY <1>3, <1>4, <1>5 DEF LoopInv

LEMMA ResolveKeepsInv == ASSUME LoopInv, Resolve PROVE LoopInv'
<1> USE DEF Resolve
<1>1. PICK ip \in Ips, taken \in BOOLEAN : pending = <<ip, taken>>
  BY DEF LoopInv, TypeOK
<1>2. /\ loop_branch_info = Lookup(ip)
      /\ loop_branch_info \in LoopBranchInfo
  BY <1>1 DEF LoopInv, PredictionCurrent, TypeOK
<1> DEFINE s == index(ip)
           set == loop_component[s]
<1>3. s \in Sets
  BY Geometry
<1>4. SetOK(set)
  BY <1>3, SetsOK
<1>5. /\ loop_component' = [loop_component EXCEPT ![s] = SetAfter(set, ip, taken)]
      /\ loop_branch_info' = loop_branch_info
      /\ pending' = <<>>
  BY <1>1, <1>2, LookupFacts DEF last_branch_result, LoopInv
<1>6. SetOK(SetAfter(set, ip, taken))
  <2>1. CASE loop_branch_info.hit
    <3> DEFINE w == loop_branch_info.way
               e == set[w]
    <3>1. /\ e.tag = tag(ip)
          /\ loop_branch_info.valid = (e.confidence = CONF_MAX)
          /\ loop_branch_info.prediction = (e.curr_iter_cnt # e.past_iter_cnt)
          /\ w \in Ways
      BY <1>2, <2>1, LookupFacts DEF LoopInv, LoopBranchInfo
    <3>2. e \in loop_entry /\ WithinTripCount(e)
      BY <1>4, <3>1 DEF SetOK
    <3>3. /\ TrainEntry(e, taken) \in loop_entry
          /\ TrainEntry(e, taken).tag = e.tag
          /\ WithinTripCount(TrainEntry(e, taken))
      BY <1>2, <3>1, <3>2, TrainingFacts
    <3>4. SetAfter(set, ip, taken) = [set EXCEPT ![w] = TrainEntry(e, taken)]
      BY <2>1, <3>1, <1>4 DEF SetAfter, SetOK
    <3> QED BY <1>4, <3>1, <3>3, <3>4 DEF SetOK
  <2>2. CASE ~loop_branch_info.hit
    <3>1. \A w \in Ways : set[w].tag # tag(ip)
      BY <1>2, <2>2, LookupFacts DEF LoopInv, MatchingWays
    <3> QED BY <1>4, <2>2, <3>1, AllocationFacts DEF SetAfter
  <2> QED BY <2>1, <2>2
<1> HIDE DEF s
<1>7. \A t \in Sets : SetOK(loop_component'[t])
  BY <1>3, <1>5, <1>6, SetsOK DEF LoopInv, TypeOK
<1>8. TypeOK'
  BY <1>2, <1>5, <1>7 DEF TypeOK, SetOK, LoopInv
<1>9. TagsUnique' /\ NeverPastTheTripCount'
  BY <1>7 DEF TagsUnique, NeverPastTheTripCount, SetOK
<1>10. PredictionCurrent'
  BY <1>5 DEF PredictionCurrent
<1> QED BY <1>8, <1>9, <1>10 DEF LoopInv

LEMMA LoopSteps == LoopInv /\ [Next]_vars => LoopInv'
<1> SUFFICES ASSUME LoopInv, [Next]_vars PROVE LoopInv'
  OBVIOUS
<1>1. ASSUME NEW ip \in Ips, NEW taken \in BOOLEAN, PredictBranch(ip, taken) PROVE LoopInv'
  BY <1>1, PredictKeepsInv DEF PredictBranch
<1>2. ASSUME NEW ip \in Ips, PredictOther(ip) PROVE LoopInv'
  BY <1>2, PredictKeepsInv DEF PredictOther
<1>3. CASE Resolve
  BY <1>3, ResolveKeepsInv
<1>4. CASE UNCHANGED vars
  BY <1>4 DEF vars, LoopInv, TypeOK, TagsUnique,
              NeverPastTheTripCount, PredictionCurrent,
              Lookup, MatchingWays
<1> QED BY <1>1, <1>2, <1>3, <1>4 DEF Next

\* For every table geometry and counter width, the table is well typed, a loop
\* owns at most one way and a known trip count is never overrun.
THEOREM LoopInvariants == Spec => [](TypeOK /\ TagsUnique /\ NeverPastTheTripCount)
<1>1. LoopInv => TypeOK /\ TagsUnique /\ NeverPastTheTripCount
  BY DEF LoopInv
<1> QED BY LoopStarts, LoopSteps, <1>1, PTL DEF Spec

----------------------------------------------------------------------------
(* The loop predictor and the history of the loops. *)

Saturated(n) == IF n > ITER_MAX THEN ITER_MAX ELSE n

\* What an entry says of a loop that was taken r times since its last exit, and
\* whose trips are ts.  One exit is enough for the count, a second one for the
\* trip count, which the third one confirms; a count that is compared has not saturated.
InStep(e, r, ts) ==
  e.confidence # 0 =>
    /\ ts # <<>>
    /\ e.curr_iter_cnt = Saturated(r)
    /\ e.confidence > 1 => e.past_iter_cnt = Saturated(ts[1])
    /\ e.confidence > 2 =>
         Len(ts) > 1 /\ (ts[2] = 0 \/ e.past_iter_cnt = Saturated(ts[2]))
    /\ e.past_iter_cnt # 0 \/ e.confidence = CONF_MAX => e.curr_iter_cnt = r

\* An exit adds the run to the trips.
Exited(r, ts, r2, ts2) ==
  /\ r2 = 0 /\ ts2 # <<>> /\ ts2[1] = r
  /\ ts # <<>> => Len(ts2) > 1 /\ ts2[2] = ts[1]

HistoryTypeOK ==
  /\ run \in [Watched -> 0..HistCap]
  /\ trips \in [Watched -> Seq(0..HistCap)]

\* Of the entries with one tag only the first, which is looked up, has learnt.
OnlyFirstLearns ==
  \A s \in Sets : \A v, w \in Ways :
    v < w /\ loop_component[s][v].tag = loop_component[s][w].tag
      => loop_component[s][w].confidence = 0

EntriesInStep ==
  \A ip \in Watched : \A w \in MatchingWays(ip) :
    InStep(loop_component[index(ip)][w], run[ip], trips[ip])

\* The inductive invariant of the history.
HistoryInv == LoopInv /\ HistoryTypeOK /\ OnlyFirstLearns /\ EntriesInStep

LEMMA OlderCounts ==
  ASSUME NEW f \in loop_entry
  PROVE  /\ Older(f).confidence = f.confidence
         /\ Older(f).curr_iter_cnt = f.curr_iter_cnt
         /\ Older(f).past_iter_cnt = f.past_iter_cnt
BY DEF Older, loop_entry

\* An update keeps in step with the outcome it is given.
LEMMA TrainingInStep ==
  ASSUME NEW e \in loop_entry, WithinTripCount(e), NEW taken \in BOOLEAN,
         loop_branch_info \in LoopBranchInfo,
         loop_branch_info.valid = (e.confidence = CONF_MAX),
         loop_branch_info.prediction = (e.curr_iter_cnt # e.past_iter_cnt),
         NEW r \in 0..HistCap, NEW ts, InStep(e, r, ts), NEW r2, NEW ts2,
         taken => r2 = Cap(r + 1) /\ ts2 = ts,
         ~taken => Exited(r, ts, r2, ts2)
  PROVE  InStep(TrainEntry(e, taken), r2, ts2)
<1> USE HistoryAssumption
<1> USE LoopAssumption DEF LoopAssumption, HistoryAssumption, CONF_MAX
<1>1. ASSUME NEW n \in {0, 1} PROVE InStep(Forget(e, n), r2, ts2)
  BY DEF InStep, Forget, NewEntry
<1>2. ASSUME NEW f \in loop_entry, InStep(f, r2, ts2) PROVE InStep(Older(f), r2, ts2)
  <2>1. /\ Older(f).confidence = f.confidence
        /\ Older(f).curr_iter_cnt = f.curr_iter_cnt
        /\ Older(f).past_iter_cnt = f.past_iter_cnt
    BY OlderCounts
  <2> QED BY <1>2, <2>1 DEF InStep
<1>3. Complete(e) \in loop_entry /\ CountIteration(e) \in loop_entry
  <2>1. /\ Add(e.curr_iter_cnt, 1, ITER_MAX) \in 0..ITER_MAX
        /\ Add(e.confidence, 1, 3) \in 0..3
    BY DEF loop_entry, Add, Clamp
  <2> QED BY <2>1, SMTT(30) DEF Complete, CountIteration, loop_entry
<1>4. ASSUME ~taken, e.past_iter_cnt = 0 \/ e.past_iter_cnt = e.curr_iter_cnt
      PROVE  InStep(Complete(e), r2, ts2)
  <2>1. Complete(e) = [past_iter_cnt |-> e.curr_iter_cnt, curr_iter_cnt |-> 0,
                            tag |-> e.tag, confidence |-> Add(e.confidence, 1, 3),
                            age |-> e.age]
    BY DEF Complete
  <2>2. /\ Add(e.confidence, 1, 3) > 1 => e.confidence # 0
        /\ Add(e.confidence, 1, 3) > 2 => e.confidence > 1 /\ e.confidence # 0
    BY DEF Add, Clamp, loop_entry
  <2>3. Exited(r, ts, r2, ts2)
    BY <1>4
  <2>4. ASSUME e.confidence > 1, e.confidence # 0
        PROVE  Len(ts2) > 1 /\ (ts2[2] = 0 \/ e.curr_iter_cnt = Saturated(ts2[2]))
    <3>1. Len(ts2) > 1 /\ ts2[2] = ts[1] /\ e.past_iter_cnt = Saturated(ts[1])
      BY <2>3, <2>4 DEF InStep, Exited
    <3>2. e.past_iter_cnt = 0 => ts[1] = 0
      BY <3>1 DEF Saturated
    <3> QED BY <1>4, <3>1, <3>2
  <2> DEFINE c == Complete(e)
  <2>5. /\ c.confidence = Add(e.confidence, 1, 3) /\ c.past_iter_cnt = e.curr_iter_cnt
        /\ c.curr_iter_cnt = 0
    BY <2>1
  <2> HIDE DEF c
  <2>6. c.confidence # 0 =>
          /\ ts2 # <<>> /\ c.curr_iter_cnt = Saturated(r2) /\ c.curr_iter_cnt = r2
    BY <2>3, <2>5 DEF Exited, Saturated
  <2>7. c.confidence > 1 => c.past_iter_cnt = Saturated(ts2[1])
    BY <2>2, <2>3, <2>5 DEF Exited, InStep
  <2>8. c.confidence > 2 =>
          Len(ts2) > 1 /\ (ts2[2] = 0 \/ c.past_iter_cnt = Saturated(ts2[2]))
    BY <2>2, <2>4, <2>5
  <2> QED BY <2>6, <2>7, <2>8 DEF InStep, c
<1>5. ASSUME taken, (e.past_iter_cnt = 0 /\ e.confidence # 3) \/ e.curr_iter_cnt < e.past_iter_cnt
      PROVE  InStep(CountIteration(e), r2, ts2)
  <2>1. CountIteration(e) = [past_iter_cnt |-> e.past_iter_cnt,
                                  curr_iter_cnt |-> Add(e.curr_iter_cnt, 1, ITER_MAX),
                                  tag |-> e.tag, confidence |-> e.confidence, age |-> e.age]
    BY DEF CountIteration, loop_entry
  <2>2. ASSUME e.confidence # 0
        PROVE  Add(e.curr_iter_cnt, 1, ITER_MAX) = Saturated(r2)
    BY <1>5, <2>2 DEF InStep, Saturated, Add, Clamp, Cap, loop_entry
  <2>3. ASSUME e.confidence # 0, e.past_iter_cnt # 0 \/ e.confidence = 3
        PROVE  Add(e.curr_iter_cnt, 1, ITER_MAX) = r2
    BY <1>5, <2>3 DEF InStep, Add, Clamp, Cap, loop_entry
  <2> QED BY <1>5, <2>1, <2>2, <2>3 DEF InStep
<1>6. CASE loop_branch_info.valid
  <2>1. e.confidence = 3 /\ e.curr_iter_cnt <= e.past_iter_cnt
    BY <1>6 DEF WithinTripCount
  <2>2. CASE loop_branch_info.prediction # taken
    BY <1>1, <1>6, <2>2 DEF TrainEntry, TrainValid
  <2>3. CASE loop_branch_info.prediction = taken /\ taken
    <3>1. e.curr_iter_cnt # e.past_iter_cnt
      BY <2>3, Zenon
    <3>2. e.curr_iter_cnt < e.past_iter_cnt
      BY <2>1, <3>1 DEF loop_entry
    <3> QED BY <1>2, <1>3, <1>5, <1>6, <2>3, <3>2 DEF TrainEntry, TrainValid
  <2>4. CASE loop_branch_info.prediction = taken /\ ~taken
    <3>1. e.curr_iter_cnt = e.past_iter_cnt
      BY <2>4, Zenon
    <3> QED BY <1>2, <1>3, <1>4, <1>6, <2>4, <3>1 DEF TrainEntry, TrainValid
  <2> QED BY <2>2, <2>3, <2>4
<1>7. CASE ~loop_branch_info.valid
  <2>1. e.confidence # 3
    BY <1>7
  <2>2. CASE taken
    <3>1. CASE e.past_iter_cnt # 0 /\ e.curr_iter_cnt + 1 > e.past_iter_cnt
      BY <1>1, <1>7, <2>2, <3>1 DEF TrainEntry, TrainTaken
    <3>2. CASE ~(e.past_iter_cnt # 0 /\ e.curr_iter_cnt + 1 > e.past_iter_cnt)
      <4>1. (e.past_iter_cnt = 0 /\ e.confidence # 3) \/ e.curr_iter_cnt < e.past_iter_cnt
        BY <2>1, <3>2 DEF loop_entry
      <4> QED BY <1>5, <1>7, <2>2, <3>2, <4>1 DEF TrainEntry, TrainTaken
    <3> QED BY <3>1, <3>2
  <2>3. CASE ~taken
    BY <1>1, <1>4, <1>7, <2>3 DEF TrainEntry, TrainNotTaken
  <2> QED BY <2>2, <2>3
<1> QED BY <1>6, <1>7

\* What is recorded when the outcome of a branch is known.
LEMMA Recorded ==
  ASSUME HistoryTypeOK, NEW ip \in Watched, NEW taken \in BOOLEAN,
         RecordOutcome(ip, taken)
  PROVE  /\ HistoryTypeOK'
         /\ \A other \in Watched \ {ip} : run'[other] = run[other] /\ trips'[other] = trips[other]
         /\ taken => run'[ip] = Cap(run[ip] + 1) /\ trips'[ip] = trips[ip]
         /\ ~taken => Exited(run[ip], trips[ip], run'[ip], trips'[ip])
<1> USE HistoryAssumption
<1> USE DEF HistoryTypeOK
<1>1. HistCap \in Nat /\ TripsKept \in Nat /\ TripsKept > 1
  BY LoopAssumption DEF HistoryAssumption, LoopAssumption
<1>2. CASE taken
  <2>1. run' = [run EXCEPT ![ip] = Cap(run[ip] + 1)] /\ trips' = trips
    BY <1>2 DEF RecordOutcome
  <2>2. Cap(run[ip] + 1) \in 0..HistCap
    BY <1>1 DEF Cap
  <2> QED BY <1>2, <2>1, <2>2
<1>3. CASE ~taken
  <2> DEFINE kept == IF Len(trips[ip]) < TripsKept THEN trips[ip]
                     ELSE SubSeq(trips[ip], 1, TripsKept - 1)
             first == <<run[ip]>>
  <2>1. run' = [run EXCEPT ![ip] = 0] /\ trips' = [trips EXCEPT ![ip] = first \o kept]
    BY <1>3 DEF RecordOutcome
  <2>2. first \in Seq(0..HistCap) /\ Len(first) = 1 /\ first[1] = run[ip]
    BY <1>1
  <2>3. kept \in Seq(0..HistCap)
    <3>1. trips[ip] \in Seq(0..HistCap)
      OBVIOUS
    <3>2. CASE Len(trips[ip]) >= TripsKept
      <4>1. \A k \in 1..(TripsKept - 1) : trips[ip][k] \in 0..HistCap
        BY <1>1, <3>1, <3>2, ElementOfSeq
      <4>2. SubSeq(trips[ip], 1, TripsKept - 1) \in Seq(0..HistCap)
        BY ONLY <1>1, <4>1, SubSeqProperties
      <4>3. kept = SubSeq(trips[ip], 1, TripsKept - 1)
        BY <1>1, <3>1, <3>2
      <4> QED BY <4>2, <4>3
    <3>3. Len(trips[ip]) \in Nat
      BY <3>1, LenProperties
    <3> QED BY <1>1, <3>1, <3>2, <3>3
  <2> HIDE DEF kept, first
  <2>4. /\ first \o kept \in Seq(0..HistCap) /\ Len(first \o kept) = 1 + Len(kept)
        /\ (first \o kept)[1] = run[ip] /\ Len(kept) \in Nat
    <3>1. Len(kept) \in Nat
      BY ONLY <2>3, LenProperties
    <3>2. /\ first \o kept \in Seq(0..HistCap) /\ Len(first \o kept) = Len(first) + Len(kept)
          /\ \A k \in 1..(Len(first) + Len(kept)) :
               (first \o kept)[k] = IF k <= Len(first) THEN first[k] ELSE kept[k - Len(first)]
      BY ONLY <2>2, <2>3, ConcatProperties
    <3> QED BY <2>2, <3>1, <3>2
  <2>5. first \o kept # <<>>
    BY <2>4
  <2>6. HistoryTypeOK' /\ run'[ip] = 0 /\ trips'[ip] = first \o kept
    BY <1>1, <2>1, <2>4
  <2>7. \A other \in Watched \ {ip} : run'[other] = run[other] /\ trips'[other] = trips[other]
    BY <2>1
  <2>8. ASSUME trips[ip] # <<>>
        PROVE  Len(first \o kept) > 1 /\ (first \o kept)[2] = trips[ip][1]
    <3>1. trips[ip] \in Seq(0..HistCap)
      OBVIOUS
    <3>2. Len(trips[ip]) \in Nat /\ Len(trips[ip]) # 0
      BY <2>8, <3>1, EmptySeq, LenProperties
    <3>3. Len(kept) > 0 /\ kept[1] = trips[ip][1]
      <4>1. CASE Len(trips[ip]) < TripsKept
        BY <3>2, <4>1 DEF kept
      <4>2. CASE Len(trips[ip]) >= TripsKept
        <5> DEFINE all == trips[ip]
                   part == SubSeq(all, 1, TripsKept - 1)
        <5>1. kept = part
          BY <1>1, <3>2, <4>2 DEF kept
        <5>2. \A k \in 1..(TripsKept - 1) : all[k] \in 0..HistCap
          BY <1>1, <3>1, <4>2, ElementOfSeq
        <5> HIDE DEF all
        <5>3. Len(part) = TripsKept - 1 /\ part[1] = all[1]
          BY ONLY <1>1, <5>2, SubSeqProperties
        <5> QED BY <1>1, <5>1, <5>3 DEF all
      <4> QED BY <1>1, <3>2, <4>1, <4>2
    <3>4. \A k \in 1..(Len(first) + Len(kept)) :
            (first \o kept)[k] = IF k <= Len(first) THEN first[k] ELSE kept[k - Len(first)]
      BY ONLY <2>2, <2>3, ConcatProperties
    <3> QED BY <2>2, <2>4, <3>3, <3>4
  <2>9. Exited(run[ip], trips[ip], run'[ip], trips'[ip])
    BY <2>4, <2>5, <2>6, <2>8 DEF Exited
  <2> QED BY <1>3, <2>6, <2>7, <2>9
<1> QED BY <1>2, <1>3

LEMMA HistoryInitInv == ASSUME HistInit PROVE HistoryInv
<1> USE HistoryAssumption
<1> USE LoopAssumption DEF HistInit, HistoryAssumption, LoopAssumption
<1>1. LoopInv
  BY LoopStarts
<1>2. HistoryTypeOK
  BY DEF HistoryTypeOK
<1>3. \A s \in Sets, w \in Ways : loop_component[s][w].confidence = 0
  BY DEF Init, NewEntry
<1>4. OnlyFirstLearns
  BY <1>3 DEF OnlyFirstLearns
<1>5. EntriesInStep
  <2>1. \A ip \in Watched : index(ip) \in Sets
    BY Geometry
  <2> QED BY <1>3, <2>1 DEF EntriesInStep, InStep, MatchingWays
<1> QED BY <1>1, <1>2, <1>4, <1>5 DEF HistoryInv

\* A set after the update of a branch, and what its entries then say.
LEMMA SetInStep ==
  ASSUME HistoryInv, NEW ip \in Ips, NEW taken \in BOOLEAN,
         loop_branch_info = Lookup(ip), loop_branch_info \in LoopBranchInfo,
         ip \in Watched => /\ taken => run'[ip] = Cap(run[ip] + 1) /\ trips'[ip] = trips[ip]
                           /\ ~taken => Exited(run[ip], trips[ip], run'[ip], trips'[ip]),
         NEW set, set = loop_component[index(ip)],
         NEW set2, set2 = SetAfter(set, ip, taken)
  PROVE  /\ \A v, w \in Ways : v < w /\ set2[v].tag = set2[w].tag => set2[w].confidence = 0
         /\ \A w \in Ways :
              \/ /\ set2[w].tag = tag(ip)
                 /\ ip \in Watched => InStep(set2[w], run'[ip], trips'[ip])
              \/ /\ set2[w].tag = set[w].tag /\ set2[w].tag # tag(ip)
                 /\ \A r, ts : InStep(set[w], r, ts) => InStep(set2[w], r, ts)
<1> USE HistoryAssumption
<1>1. index(ip) \in Sets
  BY Geometry
<1>2. /\ SetOK(set) /\ MatchingWays(ip) = {w \in Ways : set[w].tag = tag(ip)}
      /\ \A v, w \in Ways : v < w /\ set[v].tag = set[w].tag => set[w].confidence = 0
  BY <1>1, SetsOK DEF HistoryInv, OnlyFirstLearns, MatchingWays
<1>3. \A w \in Ways : ip \in Watched /\ set[w].tag = tag(ip) =>
        InStep(set[w], run[ip], trips[ip])
  BY <1>2 DEF HistoryInv, EntriesInStep
<1>4. Ways \subseteq Nat
  BY LoopAssumption DEF Ways, LoopAssumption
<1>5. CASE loop_branch_info.hit
  <2> DEFINE f == loop_branch_info.way
             e == set[f]
             e2 == TrainEntry(e, taken)
  <2>1. /\ f \in Ways /\ e.tag = tag(ip)
        /\ loop_branch_info.valid = (e.confidence = CONF_MAX)
        /\ loop_branch_info.prediction = (e.curr_iter_cnt # e.past_iter_cnt)
    BY <1>5, LookupFacts DEF HistoryInv, LoopInv, LoopBranchInfo
  <2>2. e \in loop_entry /\ WithinTripCount(e)
    BY <1>2, <2>1 DEF SetOK
  <2>3. e2.tag = e.tag
    BY <2>1, <2>2, TrainingFacts
  <2>4. \A w \in Ways : set[w].tag = tag(ip) => f <= w
    <3>1. f = First(MatchingWays(ip)) /\ MatchingWays(ip) # {}
      BY <1>5 DEF Lookup, Miss
    <3>2. \E v \in MatchingWays(ip) : \A w \in MatchingWays(ip) : v <= w
      BY <1>2, <1>4, <3>1, LeastExists
    <3>3. \A w \in MatchingWays(ip) : f <= w
      BY <3>1, <3>2 DEF First
    <3> QED BY <1>2, <3>3
  <2>5. \A w \in Ways : set2[w] = IF w = f THEN e2 ELSE set[w]
    BY <1>2, <1>5, <2>1 DEF SetAfter, SetOK
  <2>6. ip \in Watched => InStep(e2, run'[ip], trips'[ip])
    <3> SUFFICES ASSUME ip \in Watched PROVE InStep(e2, run'[ip], trips'[ip])
      OBVIOUS
    <3>1. run[ip] \in 0..HistCap
      BY DEF HistoryInv, HistoryTypeOK
    <3>2. InStep(e, run[ip], trips[ip])
      BY <1>3, <2>1
    <3> HIDE DEF e
    <3> QED BY <2>1, <2>2, <3>1, <3>2, TrainingInStep
  <2> HIDE DEF f, e2
  <2>7. ASSUME NEW w \in Ways, w # f, set[w].tag = tag(ip) PROVE set[w].confidence = 0
    BY <1>2, <1>4, <2>1, <2>4, <2>7
  <2>8. ASSUME NEW v \in Ways, NEW w \in Ways, v < w, set2[v].tag = set2[w].tag
        PROVE  set2[w].confidence = 0
    <3>1. set[v].tag = set[w].tag /\ set[w].confidence = 0
      BY <1>2, <2>1, <2>3, <2>5, <2>8
    <3>2. w # f
      <4>1. SUFFICES ASSUME w = f PROVE FALSE
        OBVIOUS
      <4>2. f <= v
        BY <2>1, <2>4, <3>1, <4>1
      <4> QED BY <1>4, <2>8, <4>1, <4>2
    <3> QED BY <2>5, <3>1, <3>2
  <2>9. ASSUME NEW w \in Ways, set2[w].tag = tag(ip), ip \in Watched
        PROVE  InStep(set2[w], run'[ip], trips'[ip])
    <3>1. CASE w = f
      BY <2>5, <2>6, <2>9, <3>1
    <3>2. CASE w # f
      BY <2>5, <2>7, <2>9, <3>2 DEF InStep
    <3> QED BY <3>1, <3>2
  <2>10. \A w \in Ways : set2[w].tag # tag(ip) => set2[w] = set[w]
    BY <2>1, <2>3, <2>5
  <2> QED BY <2>8, <2>9, <2>10
<1>6. CASE ~loop_branch_info.hit
  <2>1. \A w \in Ways : set[w].tag # tag(ip)
    BY <1>2, <1>6, LookupFacts DEF HistoryInv, LoopInv
  <2>2. CASE ~taken
    BY <1>2, <1>6, <2>1, <2>2 DEF SetAfter
  <2>3. CASE taken
    <3> DEFINE free == {w \in Ways : set[w].age = 0}
               new == NewEntry(tag(ip), 1, INIT_AGE)
    <3>1. set2 = AllocateWay(set, ip)
      BY <1>6, <2>3 DEF SetAfter
    <3>2. CASE free # {}
      <4> DEFINE f == First(free)
      <4>1. f \in Ways
        BY <3>2, FirstIn
      <4>2. set2 = [set EXCEPT ![f] = new]
        BY <3>1, <3>2, Zenon DEF AllocateWay
      <4> HIDE DEF f
      <4>3. \A w \in Ways : set2[w] = IF w = f THEN new ELSE set[w]
        BY <1>2, <4>1, <4>2 DEF SetOK
      <4>4. new.tag = tag(ip) /\ new.confidence = 0
        BY DEF NewEntry
      <4>5. InStep(new, run'[ip], trips'[ip])
        BY <4>4 DEF InStep
      <4> HIDE DEF new
      <4> QED BY <1>2, <2>1, <4>3, <4>4, <4>5
    <3>3. CASE free = {}
      <4> DEFINE old(w) == [set[w] EXCEPT !.age = Sub(@, 1, INIT_AGE)]
      <4>1. set2 = [w \in Ways |-> old(w)]
        BY <3>1, <3>3 DEF AllocateWay
      <4>2. ASSUME NEW w \in Ways
            PROVE  /\ old(w).tag = set[w].tag /\ old(w).confidence = set[w].confidence
                   /\ old(w).curr_iter_cnt = set[w].curr_iter_cnt
                   /\ old(w).past_iter_cnt = set[w].past_iter_cnt
        <5>1. set[w] \in loop_entry
          BY <1>2 DEF SetOK
        <5> QED BY <5>1 DEF loop_entry
      <4> HIDE DEF old
      <4>3. \A w \in Ways : set2[w] = old(w)
        BY <4>1
      <4>4. \A w \in Ways : \A r, ts : InStep(set[w], r, ts) => InStep(set2[w], r, ts)
        BY <4>2, <4>3 DEF InStep
      <4> QED BY <1>2, <2>1, <4>2, <4>3, <4>4
    <3> QED BY <3>2, <3>3
  <2> QED BY <2>2, <2>3
<1> QED BY <1>5, <1>6

\* Predicting, and doing nothing, leave table and history alone.
LEMMA HistoryKept ==
  ASSUME HistoryInv, LoopInv', UNCHANGED <<loop_component, run, trips>>
  PROVE  HistoryInv'
<1>1. HistoryTypeOK' /\ OnlyFirstLearns'
  BY DEF HistoryInv, HistoryTypeOK, OnlyFirstLearns
<1>2. EntriesInStep'
  BY DEF HistoryInv, EntriesInStep, MatchingWays
<1> QED BY <1>1, <1>2 DEF HistoryInv

LEMMA ResolveKeepsHistory ==
  ASSUME HistoryInv, Resolve,
         RecordOutcome(pending[1], pending[2])
  PROVE  HistoryInv'
<1> USE HistoryAssumption
<1>1. PICK ip \in Ips, taken \in BOOLEAN : pending = <<ip, taken>>
  BY DEF HistoryInv, LoopInv, TypeOK, Resolve
<1>2. /\ loop_branch_info = Lookup(ip) /\ loop_branch_info \in LoopBranchInfo
      /\ RecordOutcome(ip, taken)
  BY <1>1 DEF HistoryInv, LoopInv, PredictionCurrent, TypeOK
<1>3. LoopInv'
  BY ResolveKeepsInv DEF HistoryInv
<1>4. /\ HistoryTypeOK'
      /\ \A other \in Watched \ {ip} : run'[other] = run[other] /\ trips'[other] = trips[other]
      /\ ip \in Watched => /\ taken => run'[ip] = Cap(run[ip] + 1) /\ trips'[ip] = trips[ip]
                           /\ ~taken => Exited(run[ip], trips[ip], run'[ip], trips'[ip])
  <2>1. CASE ip \in Watched
    BY <1>2, <2>1, Recorded DEF HistoryInv
  <2>2. CASE ip \notin Watched
    <3>1. run' = run /\ trips' = trips
      BY <1>2, <2>2 DEF RecordOutcome
    <3> QED BY <2>2, <3>1 DEF HistoryInv, HistoryTypeOK
  <2> QED BY <2>1, <2>2
<1> DEFINE s == index(ip)
           set == loop_component[s]
           set2 == SetAfter(set, ip, taken)
<1>5. s \in Sets
  BY Geometry
<1>6. loop_component \in [Sets -> [Ways -> loop_entry]]
  BY DEF HistoryInv, LoopInv, TypeOK
<1>7. loop_component' = [loop_component EXCEPT ![s] = set2]
  BY <1>1, <1>2, LookupFacts DEF Resolve, last_branch_result, HistoryInv, LoopInv
<1>8. /\ \A v, w \in Ways : v < w /\ set2[v].tag = set2[w].tag => set2[w].confidence = 0
      /\ \A w \in Ways :
           \/ /\ set2[w].tag = tag(ip)
              /\ ip \in Watched => InStep(set2[w], run'[ip], trips'[ip])
           \/ /\ set2[w].tag = set[w].tag /\ set2[w].tag # tag(ip)
              /\ \A r, ts : InStep(set[w], r, ts) => InStep(set2[w], r, ts)
  BY <1>2, <1>4, SetInStep
<1> HIDE DEF set2
<1>9. \A t \in Sets : loop_component'[t] = IF t = s THEN set2 ELSE loop_component[t]
  BY <1>6, <1>7
<1> HIDE DEF s
<1>10. OnlyFirstLearns'
  BY <1>8, <1>9 DEF HistoryInv, OnlyFirstLearns
<1>11. ASSUME NEW jp \in Watched, NEW w \in Ways,
              loop_component'[index(jp)][w].tag = tag(jp)
       PROVE  InStep(loop_component'[index(jp)][w], run'[jp], trips'[jp])
  <2>1. jp \in Ips /\ index(jp) \in Sets
    BY Geometry DEF HistoryAssumption
  <2>2. loop_component[index(jp)][w].tag = tag(jp)
           => InStep(loop_component[index(jp)][w], run[jp], trips[jp])
    BY DEF HistoryInv, EntriesInStep, MatchingWays
  <2>3. CASE jp = ip
    <3>1. set2[w].tag = tag(ip) /\ loop_component'[index(jp)][w] = set2[w]
      BY <1>9, <1>11, <2>1, <2>3 DEF s
    <3> QED BY <1>8, <2>3, <3>1
  <2>4. CASE jp # ip
    <3>1. run'[jp] = run[jp] /\ trips'[jp] = trips[jp]
      BY <1>4, <2>4
    <3>2. CASE index(jp) # s
      BY <1>9, <1>11, <2>1, <2>2, <3>1, <3>2
    <3>3. CASE index(jp) = s
      <4>1. tag(jp) # tag(ip)
        BY <2>4, <3>3 DEF HistoryAssumption, s
      <4>2. loop_component'[index(jp)][w] = set2[w]
        BY <1>9, <2>1, <3>3
      <4>3. set2[w].tag = set[w].tag /\ \A r, ts : InStep(set[w], r, ts) => InStep(set2[w], r, ts)
        BY <1>8, <1>11, <4>1, <4>2
      <4>4. InStep(set[w], run[jp], trips[jp])
        BY <1>11, <2>2, <3>3, <4>2, <4>3
      <4> QED BY <3>1, <4>2, <4>3, <4>4
    <3> QED BY <3>2, <3>3
  <2> QED BY <2>3, <2>4
<1>12. EntriesInStep'
  BY <1>11 DEF EntriesInStep, MatchingWays
<1> QED BY <1>3, <1>4, <1>10, <1>12 DEF HistoryInv

LEMMA HistoryNext ==
  ASSUME HistoryInv, [HistNext]_histVars
  PROVE  HistoryInv'
<1> USE HistoryAssumption
<1>0. LoopInv
  BY DEF HistoryInv
<1>1. CASE /\ \E ip \in Ips, taken \in BOOLEAN : PredictBranch(ip, taken)
           /\ UNCHANGED <<run, trips>>
  <2>1. LoopInv'
    BY <1>0, <1>1, LoopSteps DEF Next
  <2>2. UNCHANGED loop_component
    BY <1>1 DEF PredictBranch, predict_branch
  <2> QED BY <1>1, <2>1, <2>2, HistoryKept
<1>2. CASE /\ \E ip \in Ips : PredictOther(ip)
           /\ UNCHANGED <<run, trips>>
  <2>1. LoopInv'
    BY <1>0, <1>2, LoopSteps DEF Next
  <2>2. UNCHANGED loop_component
    BY <1>2 DEF PredictOther, predict_branch
  <2> QED BY <1>2, <2>1, <2>2, HistoryKept
<1>3. CASE Resolve /\ RecordOutcome(pending[1], pending[2])
  BY <1>3, ResolveKeepsHistory
<1>4. CASE UNCHANGED histVars
  <2>1. UNCHANGED vars /\ UNCHANGED <<loop_component, run, trips>>
    BY <1>4 DEF histVars, vars
  <2>2. LoopInv'
    BY <1>0, <2>1, LoopSteps
  <2> QED BY <2>1, <2>2, HistoryKept
<1> QED BY <1>1, <1>2, <1>3, <1>4 DEF HistNext

\* The entry that would override the global prediction is in step.
LEMMA InStepNow ==
  ASSUME HistoryInv, NEW ip \in Watched, Confident(ip)
  PROVE  EntryFor(ip).confidence = 3 /\ InStep(EntryFor(ip), run[ip], trips[ip])
<1> USE HistoryAssumption
<1> DEFINE w == First(MatchingWays(ip))
<1>1. w \in MatchingWays(ip)
  BY FirstIn DEF Confident, MatchingWays
<1>2. Lookup(ip).valid = (EntryFor(ip).confidence = CONF_MAX)
  BY DEF Lookup, Confident, EntryFor
<1>3. EntryFor(ip).confidence = 3
  BY <1>2 DEF Confident, CONF_MAX
<1>4. InStep(EntryFor(ip), run[ip], trips[ip])
  BY <1>1 DEF HistoryInv, EntriesInStep, EntryFor
<1> QED BY <1>3, <1>4

\* Whatever evictions, aliases and resets came before: a loop entry confident
\* enough to override TAGE has counted every iteration since the last exit,
\* and the trip count it knows is that of the last execution.
THEOREM ConfidentEntriesInStep ==
  HistSpec => []ConfidentInStep
<1> USE HistoryAssumption
<1>1. HistInit => HistoryInv
  BY HistoryInitInv
<1>2. HistoryInv /\ [HistNext]_histVars => HistoryInv'
  BY HistoryNext
<1>3. HistoryInv => ConfidentInStep
  BY InStepNow DEF ConfidentInStep, InStep, Saturated, CONF_MAX
<1> QED BY <1>1, <1>2, <1>3, PTL DEF HistSpec

\* A loop that overrides TAGE has earned it: of its last two executions either both
\* had the trip count it is predicted by, or the earlier one had no iteration at all
\* (the confidence of loop_predictor.h, with every reset and eviction).
THEOREM ConfidentLoopsAreRegular ==
  HistSpec => []ConfidentIsRegular
<1> USE HistoryAssumption
<1>1. HistInit => HistoryInv
  BY HistoryInitInv
<1>2. HistoryInv /\ [HistNext]_histVars => HistoryInv'
  BY HistoryNext
<1>3. HistoryInv => ConfidentIsRegular
  BY InStepNow DEF ConfidentIsRegular, InStep, Saturated
<1> QED BY <1>1, <1>2, <1>3, PTL DEF HistSpec

----------------------------------------------------------------------------
(* The BTB. *)

\* What a set of the table may hold: what the last branch with each of its tags was.
Noted(last, key) == [tag |-> key, target |-> last[key].target, type |-> last[key].type]
Entries(last, s) == {Noted(last, key) : key \in {t \in BranchTags : t % BTB_SETS = s}}
SetsOf(direct, last) ==
  /\ direct = [s \in 0..(BTB_SETS - 1) |-> direct[s]]
  /\ \A s \in 0..(BTB_SETS - 1) : direct[s] \in Seq(Entries(last, s))

Fielded(b) ==
  b = [direct |-> b.direct, indirect |-> b.indirect, history |-> b.history, ras |-> b.ras,
       call_size |-> b.call_size, calls |-> b.calls, last |-> b.last, known |-> b.known,
       returned |-> b.returned]

BtbTyped(b) ==
  /\ Fielded(b)
  /\ b.ras \in Seq(BranchIps) /\ b.calls \in Seq(BranchIps)
  /\ b.known \in SUBSET BranchIps
  /\ b.call_size \in [0..(TRACKERS - 1) -> Nat]
  /\ b.last = [key \in BranchTags |-> b.last[key]]

Remembered(b) == SetsOf(b.direct, b.last)

Innermost(ras, calls) ==
  /\ Len(ras) <= Len(calls)
  /\ \A k \in 1..Len(ras) : ras[k] = calls[Len(calls) - Len(ras) + k]

Measured(known, sizes) == \A call \in known : sizes[call % TRACKERS] = Sites[call].size

BtbInv(b) ==
  /\ BtbTyped(b) /\ Remembered(b) /\ Innermost(b.ras, b.calls)
  /\ Measured(b.known, b.call_size)
  /\ b.returned.expected => b.returned.right

\* The return stack.
RasAfter(ras, ip, type, target) ==
  IF type \in {"call", "indirect_call"}
  THEN IF Len(ras) = MAX_SIZE THEN Tail(ras) \o <<ip>> ELSE Append(ras, ip)
  ELSE IF type = "return" /\ ras # <<>> THEN Front(ras) ELSE ras

SizesAfter(sizes, ras, type, target) ==
  LET size == Distance(Last(ras), target)
  IN  IF type = "return" /\ ras # <<>> /\ size <= 10
      THEN [sizes EXCEPT ![Last(ras) % TRACKERS] = size] ELSE sizes

\* Of a step of the predictor: the history and the table of targets stay.
StackStep(b, c, ras, sizes) ==
  /\ Fielded(c) /\ c.ras = ras /\ c.call_size = sizes
  /\ c.direct = b.direct /\ c.calls = b.calls /\ c.last = b.last /\ c.known = b.known
  /\ c.returned = b.returned

LEMMA Pushed ==
  ASSUME NEW b, Fielded(b), NEW ip
  PROVE  StackStep(b, RasPush(b, ip),
                   IF Len(b.ras) = MAX_SIZE THEN Tail(b.ras) \o <<ip>> ELSE Append(b.ras, ip),
                   b.call_size)
BY DEF Fielded, StackStep, RasPush

LEMMA Aimed ==
  ASSUME NEW b, Fielded(b), NEW ip, NEW target
  PROVE  StackStep(b, update_target(b, ip, target), b.ras, b.call_size)
BY DEF Fielded, StackStep, update_target

LEMMA Turned ==
  ASSUME NEW b, Fielded(b), NEW taken
  PROVE  StackStep(b, update_direction(b, taken), b.ras, b.call_size)
BY DEF Fielded, StackStep, update_direction

LEMMA Sized ==
  ASSUME NEW b, Fielded(b), b.ras # <<>>, NEW target
  PROVE  StackStep(b, calibrate_call_size(b, target), Front(b.ras),
                   SizesAfter(b.call_size, b.ras, "return", target))
<1> DEFINE a == [b EXCEPT !.ras = Front(b.ras)]
           sizes == SizesAfter(b.call_size, b.ras, "return", target)
           c == [a EXCEPT !.call_size = sizes]
<1>1. calibrate_call_size(b, target) = c
  BY DEF calibrate_call_size, SizesAfter
<1> HIDE DEF sizes
<1>2. StackStep(b, a, Front(b.ras), b.call_size)
  BY DEF Fielded, StackStep
<1> HIDE DEF a
<1>3. StackStep(b, c, Front(b.ras), sizes)
  BY <1>2 DEF Fielded, StackStep
<1> QED BY <1>1, <1>3 DEF sizes

LEMMA StackUpdated ==
  ASSUME NEW b, Fielded(b), NEW ip, NEW target, NEW taken, NEW type
  PROVE  \E c : /\ update_btb(b, ip, target, taken, type) =
                     DirectUpdate(c, ip, target, type)
                /\ StackStep(b, c, RasAfter(b.ras, ip, type, target),
                             SizesAfter(b.call_size, b.ras, type, target))
<1> DEFINE pushed == IF type \in {"call", "indirect_call"} THEN RasPush(b, ip) ELSE b
           aimed == IF type \in {"indirect", "indirect_call"}
                    THEN update_target(pushed, ip, target) ELSE pushed
           turned == IF type = "conditional" THEN update_direction(aimed, taken) ELSE aimed
           sized == IF type = "return" THEN calibrate_call_size(turned, target) ELSE turned
<1>1. update_btb(b, ip, target, taken, type) = DirectUpdate(sized, ip, target, type)
  BY DEF update_btb
<1> DEFINE put == IF type \in {"call", "indirect_call"}
                  THEN IF Len(b.ras) = MAX_SIZE THEN Tail(b.ras) \o <<ip>> ELSE Append(b.ras, ip)
                  ELSE b.ras
<1>2. StackStep(b, pushed, put, b.call_size)
  <2>1. CASE type \in {"call", "indirect_call"}
    BY <2>1, Pushed
  <2>2. CASE type \notin {"call", "indirect_call"}
    BY <2>2 DEF StackStep
  <2> QED BY <2>1, <2>2
<1> HIDE DEF pushed
<1>3. StackStep(b, aimed, put, b.call_size)
  <2>1. CASE type \in {"indirect", "indirect_call"}
    <3>1. Fielded(pushed)
      BY <1>2 DEF StackStep
    <3>2. StackStep(pushed, aimed, pushed.ras, pushed.call_size)
      BY <2>1, <3>1, Aimed
    <3> HIDE DEF aimed, put
    <3> QED BY <1>2, <3>2 DEF StackStep
  <2>2. CASE type \notin {"indirect", "indirect_call"}
    BY <1>2, <2>2
  <2> QED BY <2>1, <2>2
<1> HIDE DEF aimed
<1>4. StackStep(b, turned, put, b.call_size)
  <2>1. CASE type = "conditional"
    <3>1. Fielded(aimed)
      BY <1>3 DEF StackStep
    <3>2. StackStep(aimed, turned, aimed.ras, aimed.call_size)
      BY <2>1, <3>1, Turned
    <3> HIDE DEF turned, put
    <3> QED BY <1>3, <3>2 DEF StackStep
  <2>2. CASE type # "conditional"
    BY <1>3, <2>2
  <2> QED BY <2>1, <2>2
<1> HIDE DEF turned
<1>5. CASE type = "return" /\ b.ras # <<>>
  <2>1. put = b.ras
    BY <1>5
  <2>2. turned.ras = b.ras /\ turned.call_size = b.call_size /\ Fielded(turned)
    BY <1>4, <2>1 DEF StackStep
  <2>3. StackStep(turned, sized, Front(turned.ras),
                  SizesAfter(turned.call_size, turned.ras, "return", target))
    BY <1>5, <2>2, Sized
  <2>4. RasAfter(b.ras, ip, type, target) = Front(b.ras)
    BY <1>5 DEF RasAfter
  <2> HIDE DEF sized, put
  <2>5. StackStep(b, sized, RasAfter(b.ras, ip, type, target),
                  SizesAfter(b.call_size, b.ras, type, target))
    BY <1>4, <1>5, <2>2, <2>3, <2>4 DEF StackStep
  <2> QED BY <1>1, <2>5 DEF sized
<1>6. CASE ~(type = "return" /\ b.ras # <<>>)
  <2>1. RasAfter(b.ras, ip, type, target) = put
    BY <1>6 DEF RasAfter
  <2>2. SizesAfter(b.call_size, b.ras, type, target) = b.call_size
    BY <1>6 DEF SizesAfter
  <2> HIDE DEF put
  <2>3. sized = turned
    <3>1. CASE type # "return"
      BY <3>1
    <3>2. CASE type = "return"
      <4>1. turned.ras = <<>>
        BY <1>4, <1>6, <3>2 DEF StackStep, put
      <4> QED BY <3>2, <4>1 DEF calibrate_call_size
    <3> QED BY <3>1, <3>2
  <2> QED BY <1>1, <1>4, <2>1, <2>2, <2>3
<1> QED BY <1>5, <1>6

\* How the stack and the calls that are open go along with each other.
Longer(ras, calls, m, n) ==
  /\ m \in Nat /\ n \in Nat /\ m <= n /\ m = Len(ras) /\ n = Len(calls)
  /\ \A k \in 1..m : ras[k] = calls[n - m + k]

LEMMA InnermostIs ==
  ASSUME NEW X, NEW ras \in Seq(X), NEW calls \in Seq(X)
  PROVE  Innermost(ras, calls) <=> Longer(ras, calls, Len(ras), Len(calls))
BY DEF Innermost, Longer

LEMMA ShiftedIs ==
  ASSUME NEW X, NEW s \in Seq(X), NEW e \in X, s # <<>>
  PROVE  /\ Tail(s) \o <<e>> \in Seq(X) /\ Len(Tail(s) \o <<e>>) = Len(s)
         /\ (Tail(s) \o <<e>>)[Len(s)] = e
         /\ \A k \in 1..(Len(s) - 1) : (Tail(s) \o <<e>>)[k] = s[k + 1]
<1>1. /\ Tail(s) \in Seq(X) /\ Len(Tail(s)) = Len(s) - 1 /\ Len(s) \in Nat \ {0}
      /\ \A k \in 1..(Len(s) - 1) : Tail(s)[k] = s[k + 1]
  OBVIOUS
<1> DEFINE t == Tail(s)
<1> HIDE DEF t
<1>2. /\ t \in Seq(X) /\ Len(t) = Len(s) - 1 /\ Len(s) \in Nat \ {0}
      /\ \A k \in 1..(Len(s) - 1) : t[k] = s[k + 1]
  BY <1>1 DEF t
<1>3. /\ t \o <<e>> \in Seq(X) /\ Len(t \o <<e>>) = Len(s) /\ (t \o <<e>>)[Len(s)] = e
      /\ \A k \in 1..(Len(s) - 1) : (t \o <<e>>)[k] = t[k]
  BY <1>2
<1> QED BY <1>2, <1>3 DEF t

LEMMA CallKeeps ==
  ASSUME NEW X, NEW ras \in Seq(X), NEW calls \in Seq(X), Innermost(ras, calls), NEW ip \in X,
         MAX_SIZE \in Nat \ {0},
         NEW pushed, pushed = IF Len(ras) = MAX_SIZE THEN Tail(ras) \o <<ip>> ELSE Append(ras, ip)
  PROVE  pushed \in Seq(X) /\ Innermost(pushed, Append(calls, ip))
<1> DEFINE opened == Append(calls, ip)
           m == Len(ras)
           n == Len(calls)
<1>1. Longer(ras, calls, m, n)
  BY InnermostIs
<1>2. /\ opened \in Seq(X) /\ Len(opened) = n + 1 /\ opened[n + 1] = ip
      /\ \A k \in 1..n : opened[k] = calls[k]
  BY AppendIs
<1>3. CASE m = MAX_SIZE
  <2>1. /\ pushed \in Seq(X) /\ Len(pushed) = m /\ pushed[m] = ip
        /\ \A k \in 1..(m - 1) : pushed[k] = ras[k + 1]
    <3>1. ras # <<>> /\ pushed = Tail(ras) \o <<ip>>
      BY <1>3
    <3> QED BY <3>1, ShiftedIs
  <2> HIDE DEF opened, m, n
  <2>2. Longer(pushed, opened, m, n + 1)
    <3>1. m # 0
      BY <1>3
    <3>2. ASSUME NEW k \in 1..m
          PROVE  pushed[k] = opened[n + 1 - m + k]
      <4>1. CASE k = m
        BY ONLY <1>1, <1>2, <2>1, <4>1 DEF Longer
      <4>2. CASE k # m
        <5>1. k \in 1..(m - 1) /\ k + 1 \in 1..m
          BY ONLY <1>1, <4>2, <3>1, k \in 1..m DEF Longer
        <5>2. n - m + (k + 1) \in 1..n /\ n + 1 - m + k = n - m + (k + 1)
          BY ONLY <1>1, <5>1 DEF Longer
        <5>3. pushed[k] = calls[n - m + (k + 1)]
          BY ONLY <1>1, <2>1, <5>1 DEF Longer
        <5> QED BY ONLY <1>2, <5>2, <5>3
      <4> QED BY <4>1, <4>2
    <3> QED BY ONLY <1>1, <1>2, <2>1, <3>2 DEF Longer
  <2>3. m = Len(pushed) /\ n + 1 = Len(opened)
    BY <1>2, <2>1
  <2> QED BY <1>2, <2>1, <2>2, <2>3, InnermostIs DEF opened
<1>4. CASE m # MAX_SIZE
  <2>1. /\ pushed \in Seq(X) /\ Len(pushed) = m + 1 /\ pushed[m + 1] = ip
        /\ \A k \in 1..m : pushed[k] = ras[k]
    <3>1. pushed = Append(ras, ip)
      BY <1>4
    <3>2. /\ Append(ras, ip) \in Seq(X) /\ Len(Append(ras, ip)) = m + 1
          /\ Append(ras, ip)[m + 1] = ip /\ \A k \in 1..m : Append(ras, ip)[k] = ras[k]
      BY AppendIs
    <3> QED BY ONLY <3>1, <3>2
  <2> HIDE DEF opened, m, n
  <2>2. Longer(pushed, opened, m + 1, n + 1)
    <3>1. ASSUME NEW k \in 1..(m + 1)
          PROVE  pushed[k] = opened[n + 1 - (m + 1) + k]
      <4>1. CASE k = m + 1
        BY ONLY <1>1, <1>2, <2>1, <4>1 DEF Longer
      <4>2. CASE k # m + 1
        <5>1. k \in 1..m
          BY ONLY <1>1, <4>2, k \in 1..(m + 1) DEF Longer
        <5>2. n - m + k \in 1..n /\ n + 1 - (m + 1) + k = n - m + k
          BY ONLY <1>1, <5>1 DEF Longer
        <5>3. pushed[k] = calls[n - m + k]
          BY ONLY <1>1, <2>1, <5>1 DEF Longer
        <5> QED BY ONLY <1>2, <5>2, <5>3
      <4> QED BY <4>1, <4>2
    <3> QED BY ONLY <1>1, <1>2, <2>1, <3>1, SMTT(30) DEF Longer
  <2>3. m + 1 = Len(pushed) /\ n + 1 = Len(opened)
    BY <1>2, <2>1
  <2> QED BY <1>2, <2>1, <2>2, <2>3, InnermostIs DEF opened
<1> QED BY <1>3, <1>4

LEMMA FrontIs ==
  ASSUME NEW X, NEW s \in Seq(X), s # <<>>
  PROVE  /\ Front(s) \in Seq(X) /\ Len(Front(s)) = Len(s) - 1
         /\ \A k \in 1..(Len(s) - 1) : Front(s)[k] = s[k]
         /\ Len(s) \in Nat \ {0} /\ Last(s) = s[Len(s)] /\ Last(s) \in X
<1>1. Len(s) \in Nat \ {0}
  OBVIOUS
<1>2. \A k \in 1..Len(s) : s[k] \in X
  OBVIOUS
<1> DEFINE n == Len(s) - 1
<1>3. n \in Nat /\ 1 \in Nat /\ n <= Len(s) /\ \A k \in 1..n : s[k] \in X
  BY <1>1, <1>2
<1>4. SubSeq(s, 1, n) \in Seq(X) /\ Len(SubSeq(s, 1, n)) = n
      /\ \A k \in 1..n : SubSeq(s, 1, n)[k] = s[k]
  <2> HIDE DEF n
  <2>1. /\ SubSeq(s, 1, n) \in Seq(X) /\ Len(SubSeq(s, 1, n)) = IF 1 <= n THEN n - 1 + 1 ELSE 0
        /\ \A k \in 1..(n - 1 + 1) : SubSeq(s, 1, n)[k] = s[1 + k - 1]
    BY <1>3, SubSeqProperties
  <2> QED BY <1>3, <2>1
<1> QED BY <1>1, <1>2, <1>4 DEF Front, Last

LEMMA ReturnKeeps ==
  ASSUME NEW X, NEW ras \in Seq(X), NEW calls \in Seq(X), Innermost(ras, calls), calls # <<>>,
         NEW popped, popped = IF ras = <<>> THEN ras ELSE Front(ras)
  PROVE  /\ popped \in Seq(X) /\ Front(calls) \in Seq(X)
         /\ Innermost(popped, Front(calls))
         /\ ras # <<>> => Last(ras) = Last(calls)
<1> DEFINE left == Front(calls)
           m == Len(ras)
           n == Len(calls)
<1>1. Longer(ras, calls, m, n)
  BY InnermostIs
<1>2. /\ left \in Seq(X) /\ Len(left) = n - 1 /\ n \in Nat \ {0}
      /\ \A k \in 1..(n - 1) : left[k] = calls[k]
      /\ Last(calls) = calls[n]
  BY FrontIs
<1>3. CASE ras = <<>>
  <2>1. popped = <<>> /\ popped \in Seq(X) /\ Len(popped) = 0
    BY <1>3
  <2> HIDE DEF left, n
  <2>2. Innermost(popped, left)
    <3>1. Len(popped) <= Len(left) /\ 1..Len(popped) = {}
      BY ONLY <1>2, <2>1
    <3> QED BY ONLY <3>1 DEF Innermost
  <2> QED BY <1>2, <1>3, <2>1, <2>2 DEF left
<1>4. CASE ras # <<>>
  <2>1. /\ popped \in Seq(X) /\ Len(popped) = m - 1 /\ m \in Nat \ {0}
        /\ \A k \in 1..(m - 1) : popped[k] = ras[k]
        /\ Last(ras) = ras[m]
    BY <1>4, FrontIs
  <2> HIDE DEF left, m, n
  <2>2. Last(ras) = Last(calls)
    <3>1. ras[m] = calls[n - m + m] /\ n - m + m = n
      BY ONLY <1>1, <2>1, SMTT(30) DEF Longer
    <3> QED BY ONLY <1>2, <2>1, <3>1
  <2>3. Longer(popped, left, m - 1, n - 1)
    <3>1. ASSUME NEW k \in 1..(m - 1)
          PROVE  popped[k] = left[n - 1 - (m - 1) + k]
      <4>1. k \in 1..m /\ n - m + k \in 1..(n - 1) /\ n - 1 - (m - 1) + k = n - m + k
        BY ONLY <1>1, <2>1, k \in 1..(m - 1) DEF Longer
      <4>2. popped[k] = calls[n - m + k]
        BY ONLY <1>1, <2>1, <4>1, k \in 1..(m - 1) DEF Longer
      <4> QED BY ONLY <1>2, <4>1, <4>2
    <3> QED BY ONLY <1>1, <1>2, <2>1, <3>1 DEF Longer
  <2>4. m - 1 = Len(popped) /\ n - 1 = Len(left)
    BY <1>2, <2>1
  <2> QED BY <1>2, <2>1, <2>2, <2>3, <2>4, InnermostIs DEF left
<1> QED BY <1>3, <1>4

\* The sizes of the calls that are known.
LEMMA MeasuredKeeps ==
  ASSUME NEW known \in SUBSET BranchIps,
         NEW sizes \in [0..(TRACKERS - 1) -> Nat], Measured(known, sizes),
         NEW ras \in Seq(BranchIps), ras # <<>>,
         NEW call, call = Last(ras), NEW target, target = ReturnAddress(call)
  PROVE  LET after == SizesAfter(sizes, ras, "return", target)
             learnt == IF Sites[call].size > 10 THEN known
                       ELSE {c \in known : c % TRACKERS # call % TRACKERS} \cup {call}
         IN  /\ after \in [0..(TRACKERS - 1) -> Nat] /\ learnt \in SUBSET BranchIps
             /\ Measured(learnt, after)
<1> USE BtbAssumption
<1> DEFINE after == SizesAfter(sizes, ras, "return", target)
           learnt == IF Sites[call].size > 10 THEN known
                     ELSE {c \in known : c % TRACKERS # call % TRACKERS} \cup {call}
           size == Sites[call].size
<1>1. call \in BranchIps
  BY ONLY ras \in Seq(BranchIps), ras # <<>>, call = Last(ras), FrontIs
<1>2. call \in Nat /\ size \in Nat /\ TRACKERS \in Nat \ {0}
  BY <1>1 DEF BtbAssumption
<1>3. \A c \in BranchIps : c % TRACKERS \in 0..(TRACKERS - 1)
  <2>1. \A c \in BranchIps : c \in Nat
    BY DEF BtbAssumption
  <2>2. \A c \in Nat : c % TRACKERS \in 0..(TRACKERS - 1)
    BY ONLY <1>2
  <2> QED BY ONLY <2>1, <2>2
<1>4. Distance(call, target) = size
  <2>1. target = call + size
    BY DEF ReturnAddress
  <2> HIDE DEF size
  <2> QED BY ONLY <1>2, <2>1 DEF Distance
<1>5. after = IF size <= 10 THEN [sizes EXCEPT ![call % TRACKERS] = size] ELSE sizes
  BY <1>4 DEF SizesAfter
<1> HIDE DEF size, after
<1>6. after \in [0..(TRACKERS - 1) -> Nat]
  BY <1>2, <1>5
<1>7. learnt \in SUBSET BranchIps
  BY <1>1
<1>8. Measured(learnt, after)
  <2>1. CASE size > 10
    <3>1. learnt = known /\ after = sizes
      BY <1>2, <1>5, <2>1 DEF size
    <3> QED BY <3>1
  <2>2. CASE ~(size > 10)
    <3>1. learnt = {c \in known : c % TRACKERS # call % TRACKERS} \cup {call}
      BY <2>2 DEF size
    <3>2. after = [sizes EXCEPT ![call % TRACKERS] = size]
      BY <1>2, <1>5, <2>2
    <3>3. call % TRACKERS \in 0..(TRACKERS - 1)
      BY <1>1, <1>3
    <3>4. after[call % TRACKERS] = size
      BY <3>2, <3>3
    <3>5. ASSUME NEW c \in known, c % TRACKERS # call % TRACKERS
          PROVE  after[c % TRACKERS] = Sites[c].size
      <4>1. c % TRACKERS \in 0..(TRACKERS - 1)
        BY <1>3
      <4>2. after[c % TRACKERS] = sizes[c % TRACKERS]
        BY <3>2, <3>5, <4>1
      <4> QED BY <4>2 DEF Measured
    <3> HIDE DEF learnt
    <3> QED BY <3>1, <3>4, <3>5 DEF Measured, size
  <2> QED BY <2>1, <2>2
<1> QED BY <1>6, <1>7, <1>8 DEF after, size

\* The table of targets, when a branch is looked up and when it is updated.
LEMMA Looked ==
  ASSUME NEW b, Fielded(b), Remembered(b), NEW ip, NEW c, c = direct_check_hit(b, ip)
  PROVE  /\ Fielded(c) /\ Remembered(c) /\ c.ras = b.ras /\ c.call_size = b.call_size
         /\ c.calls = b.calls /\ c.last = b.last /\ c.known = b.known /\ c.returned = b.returned
<1> DEFINE s == SetOf(ip)
           set == Touch(b.direct[s], Tag(ip))
           direct == [b.direct EXCEPT ![s] = set]
<1>1. c = [b EXCEPT !.direct = direct]
  BY DEF direct_check_hit
<1>2. SetsOf(direct, b.last)
  <2>1. /\ b.direct = [t \in 0..(BTB_SETS - 1) |-> b.direct[t]]
        /\ \A t \in 0..(BTB_SETS - 1) : b.direct[t] \in Seq(Entries(b.last, t))
    BY DEF Remembered, SetsOf
  <2>2. s \in 0..(BTB_SETS - 1) => set \in Seq(Entries(b.last, s))
    BY <2>1, TouchKeeps
  <2> HIDE DEF set, s
  <2>3. /\ direct = [t \in 0..(BTB_SETS - 1) |-> direct[t]]
        /\ \A t \in 0..(BTB_SETS - 1) : direct[t] = IF t = s THEN set ELSE b.direct[t]
    BY <2>1
  <2> HIDE DEF direct
  <2> QED BY <2>1, <2>2, <2>3 DEF SetsOf
<1> HIDE DEF direct
<1>3. /\ Fielded(c) /\ c.direct = direct /\ c.ras = b.ras /\ c.call_size = b.call_size
      /\ c.calls = b.calls /\ c.last = b.last /\ c.known = b.known /\ c.returned = b.returned
  BY ONLY <1>1, Fielded(b) DEF Fielded
<1> QED BY <1>2, <1>3 DEF Remembered

LastAfter(last, ip, target, type) ==
  IF target = NoTarget THEN last
  ELSE [last EXCEPT ![Tag(ip)] = [target |-> target, type |-> Class(type)]]

LEMMA SetIs ==
  ASSUME NEW ip \in BranchIps
  PROVE  SetOf(ip) \in 0..(BTB_SETS - 1) /\ SetOf(ip) = Tag(ip) % BTB_SETS
<1> USE BtbAssumption
<1>1. BTB_SETS \in Nat /\ BTB_SETS # 0 /\ ip \in Nat
  BY DEF BtbAssumption
<1>2. ip \div 4 \in Nat
  BY <1>1
<1> QED BY <1>1, <1>2 DEF SetOf, Tag

LEMMA DirectUpdated ==
  ASSUME NEW b, Fielded(b), Remembered(b), NEW ip \in BranchIps,
         b.last = [key \in BranchTags |-> b.last[key]], NEW target, NEW type,
         NEW c, c = DirectUpdate(b, ip, target, type)
  PROVE  /\ Fielded(c) /\ c.ras = b.ras /\ c.call_size = b.call_size
         /\ c.calls = b.calls /\ c.last = b.last /\ c.known = b.known /\ c.returned = b.returned
         /\ SetsOf(c.direct, LastAfter(b.last, ip, target, type))
<1> USE BtbAssumption
<1>1. CASE target = NoTarget
  <2>1. c = direct_check_hit(b, ip) /\ LastAfter(b.last, ip, target, type) = b.last
    BY <1>1 DEF DirectUpdate, LastAfter
  <2> QED BY <2>1, Looked DEF Remembered
<1>2. CASE target # NoTarget
  <2> DEFINE s == SetOf(ip)
             element == [tag |-> Tag(ip), target |-> target, type |-> Class(type)]
             set == Insert(b.direct[s], element, BTB_WAYS)
             direct == [b.direct EXCEPT ![s] = set]
             last == LastAfter(b.last, ip, target, type)
  <2>1. c = [b EXCEPT !.direct = direct]
    BY <1>2 DEF DirectUpdate
  <2>2. last = [b.last EXCEPT ![Tag(ip)] =
                  [target |-> target, type |-> Class(type)]]
    BY <1>2 DEF LastAfter
  <2>3. Tag(ip) \in BranchTags
    BY DEF BranchTags
  <2>4. /\ last[Tag(ip)] = [target |-> target, type |-> Class(type)]
        /\ \A key \in BranchTags : key # Tag(ip) => last[key] = b.last[key]
    <3> HIDE DEF last
    <3> QED BY <2>2, <2>3
  <2> HIDE DEF last
  <2>5. s \in 0..(BTB_SETS - 1) /\ BTB_WAYS \in Nat /\ s = Tag(ip) % BTB_SETS
    BY SetIs DEF BtbAssumption
  <2>6. element \in Entries(last, s)
    <3>1. element = Noted(last, Tag(ip))
      BY <2>4 DEF Noted
    <3> QED BY <2>3, <2>5, <3>1 DEF Entries
  <2>7. ASSUME NEW t, NEW x \in Entries(b.last, t), t # s \/ x.tag # element.tag
        PROVE  x \in Entries(last, t)
    <3>1. PICK key \in BranchTags : key % BTB_SETS = t /\ x = Noted(b.last, key)
      BY DEF Entries
    <3>2. key # Tag(ip)
      BY <2>5, <2>7, <3>1 DEF Noted
    <3>3. x = Noted(last, key)
      BY <2>4, <3>1, <3>2 DEF Noted
    <3> QED BY <3>1, <3>3 DEF Entries
  <2> HIDE DEF element, s
  <2>8. /\ b.direct = [t \in 0..(BTB_SETS - 1) |-> b.direct[t]]
        /\ \A t \in 0..(BTB_SETS - 1) : b.direct[t] \in Seq(Entries(b.last, t))
    BY DEF Remembered, SetsOf
  <2>9. SetsOf(direct, last)
    <3>1. b.direct[s] \in Seq(Entries(b.last, s))
      BY <2>5, <2>8
    <3>2. \A x \in Entries(b.last, s) : x.tag # element.tag => x \in Entries(last, s)
      BY <2>7
    <3>3. set \in Seq(Entries(last, s))
      BY <2>5, <2>6, <3>1, <3>2, InsertKeeps
    <3> HIDE DEF set
    <3>4. /\ direct = [t \in 0..(BTB_SETS - 1) |-> direct[t]]
          /\ \A t \in 0..(BTB_SETS - 1) : direct[t] = IF t = s THEN set ELSE b.direct[t]
      BY <2>8
    <3> HIDE DEF direct
    <3>5. ASSUME NEW t \in 0..(BTB_SETS - 1), t # s
          PROVE  direct[t] \in Seq(Entries(last, t))
      <4>1. direct[t] \in Seq(Entries(b.last, t))
        BY <2>8, <3>4, <3>5
      <4>2. Entries(b.last, t) \subseteq Entries(last, t)
        BY <2>7, <3>5
      <4> QED BY <4>1, <4>2
    <3> QED BY <3>3, <3>4, <3>5 DEF SetsOf
  <2> HIDE DEF direct
  <2>10. /\ Fielded(c) /\ c.direct = direct /\ c.ras = b.ras /\ c.call_size = b.call_size
         /\ c.calls = b.calls /\ c.last = b.last /\ c.known = b.known /\ c.returned = b.returned
    BY ONLY <2>1, Fielded(b) DEF Fielded
  <2> QED BY <2>9, <2>10 DEF last
<1> QED BY <1>1, <1>2

KnownNow(b, ip) ==
  LET call == Last(b.calls)
  IN  IF Sites[ip].type # "return" \/ b.ras = <<>> \/ Sites[call].size > 10 THEN b.known
      ELSE {c \in b.known : c % TRACKERS # call % TRACKERS} \cup {call}

ReturnedNow(b, ip, target) ==
  [expected |-> ReturnIsDue(ip), right |-> btb_prediction(b, ip) = target]

\* What a branch makes of the state, field by field.
LEMMA BranchFields ==
  ASSUME BtbInv(btb), NEW ip \in BranchIps, NEW target, NEW taken,
         Branch(ip, target, taken)
  PROVE  LET type == Sites[ip].type
         IN  /\ Fielded(btb')
             /\ btb'.ras = RasAfter(btb.ras, ip, type, target)
             /\ btb'.call_size = SizesAfter(btb.call_size, btb.ras, type, target)
             /\ btb'.calls = CallsAfter(ip)
             /\ btb'.last = LastAfter(btb.last, ip, target, type)
             /\ btb'.known = KnownAfter(ip)
             /\ btb'.returned = IF type = "return" THEN ReturnedNow(btb, ip, target)
                                ELSE btb.returned
             /\ SetsOf(btb'.direct, btb'.last)
<1> USE BtbAssumption
<1> DEFINE type == Sites[ip].type
           looked == direct_check_hit(btb, ip)
           updated == update_btb(looked, ip, target, taken, type)
           a == [updated EXCEPT !.calls = CallsAfter(ip)]
           b == [a EXCEPT !.last = LastAfter(btb.last, ip, target, type)]
           c == [b EXCEPT !.known = KnownAfter(ip)]
           d == [c EXCEPT !.returned = IF type = "return" THEN ReturnedNow(btb, ip, target)
                                       ELSE btb.returned]
<1>1. /\ Fielded(btb) /\ Remembered(btb) /\ btb.last = [key \in BranchTags |-> btb.last[key]]
  BY DEF BtbInv, BtbTyped
<1>2. /\ Fielded(looked) /\ Remembered(looked) /\ looked.ras = btb.ras
      /\ looked.call_size = btb.call_size /\ looked.calls = btb.calls
      /\ looked.last = btb.last /\ looked.known = btb.known /\ looked.returned = btb.returned
  BY <1>1, Looked
<1> HIDE DEF looked
<1>3. PICK stacked : /\ updated = DirectUpdate(stacked, ip, target, type)
                     /\ StackStep(looked, stacked, RasAfter(looked.ras, ip, type, target),
                                  SizesAfter(looked.call_size, looked.ras, type, target))
  <2> HIDE DEF type
  <2> QED BY <1>2, StackUpdated
<1>4. /\ Fielded(stacked) /\ Remembered(stacked)
      /\ stacked.ras = RasAfter(btb.ras, ip, type, target)
      /\ stacked.call_size = SizesAfter(btb.call_size, btb.ras, type, target)
      /\ stacked.calls = btb.calls /\ stacked.last = btb.last /\ stacked.known = btb.known
      /\ stacked.returned = btb.returned
  <2> HIDE DEF type
  <2> QED BY <1>2, <1>3 DEF StackStep, Remembered
<1>5. /\ Fielded(updated)
      /\ updated.ras = RasAfter(btb.ras, ip, type, target)
      /\ updated.call_size = SizesAfter(btb.call_size, btb.ras, type, target)
      /\ updated.last = btb.last /\ updated.returned = btb.returned
      /\ SetsOf(updated.direct, LastAfter(btb.last, ip, target, type))
  <2> HIDE DEF type, updated
  <2>1. stacked.last = [key \in BranchTags |-> stacked.last[key]]
    BY <1>1, <1>4
  <2>2. /\ Fielded(updated) /\ updated.ras = stacked.ras /\ updated.call_size = stacked.call_size
        /\ updated.last = stacked.last /\ updated.returned = stacked.returned
        /\ SetsOf(updated.direct, LastAfter(stacked.last, ip, target, type))
    BY <1>3, <1>4, <2>1, DirectUpdated
  <2> QED BY <1>4, <2>2
<1>6. btb' = d
  <2>1. btb' = [updated EXCEPT
                  !.calls = CallsAfter(ip),
                  !.last = IF target = NoTarget THEN @
                           ELSE [@ EXCEPT ![Tag(ip)] =
                                   [target |-> target, type |-> Class(type)]],
                  !.known = KnownAfter(ip),
                  !.returned = IF type = "return" THEN ReturnedNow(btb, ip, target) ELSE @]
    BY DEF Branch, looked, ReturnedNow
  <2> HIDE DEF type, updated
  <2> QED BY <1>5, <2>1 DEF LastAfter
<1> HIDE DEF type, updated
<1>7. Fielded(a) /\ a.ras = updated.ras /\ a.call_size = updated.call_size
      /\ a.direct = updated.direct /\ a.calls = CallsAfter(ip)
  BY <1>5 DEF Fielded
<1> HIDE DEF a
<1>8. Fielded(b) /\ b.ras = a.ras /\ b.call_size = a.call_size /\ b.direct = a.direct
      /\ b.calls = a.calls /\ b.last = LastAfter(btb.last, ip, target, type)
  BY <1>7 DEF Fielded
<1> HIDE DEF b
<1>9. Fielded(c) /\ c.ras = b.ras /\ c.call_size = b.call_size /\ c.direct = b.direct
      /\ c.calls = b.calls /\ c.last = b.last /\ c.known = KnownAfter(ip)
  BY <1>8 DEF Fielded
<1> HIDE DEF c
<1>10. /\ Fielded(d) /\ d.ras = c.ras /\ d.call_size = c.call_size /\ d.direct = c.direct
       /\ d.calls = c.calls /\ d.last = c.last /\ d.known = c.known
       /\ d.returned = IF type = "return" THEN ReturnedNow(btb, ip, target) ELSE btb.returned
  BY <1>9 DEF Fielded
<1> HIDE DEF d
<1> QED BY <1>5, <1>6, <1>7, <1>8, <1>9, <1>10 DEF type

LEMMA BranchKeeps ==
  ASSUME BtbInv(btb), NEW ip \in BranchIps, NEW target, NEW taken,
         Branch(ip, target, taken),
         Sites[ip].type = "return" =>
           btb.calls # <<>> /\ target = ReturnAddress(Last(btb.calls))
  PROVE  BtbInv(btb')
<1> USE BtbAssumption
<1> DEFINE type == Sites[ip].type
           call == Last(btb.calls)
<1>1. /\ Fielded(btb')
      /\ btb'.ras = RasAfter(btb.ras, ip, type, target)
      /\ btb'.call_size = SizesAfter(btb.call_size, btb.ras, type, target)
      /\ btb'.calls = CallsAfter(ip)
      /\ btb'.last = LastAfter(btb.last, ip, target, type)
      /\ btb'.known = KnownAfter(ip)
      /\ btb'.returned = IF type = "return" THEN ReturnedNow(btb, ip, target) ELSE btb.returned
      /\ SetsOf(btb'.direct, btb'.last)
  BY BranchFields
<1>2. /\ btb.ras \in Seq(BranchIps) /\ btb.calls \in Seq(BranchIps)
      /\ btb.known \in SUBSET BranchIps /\ btb.call_size \in [0..(TRACKERS - 1) -> Nat]
      /\ btb.last = [key \in BranchTags |-> btb.last[key]]
      /\ Innermost(btb.ras, btb.calls) /\ Measured(btb.known, btb.call_size)
      /\ btb.returned.expected => btb.returned.right
  BY DEF BtbInv, BtbTyped
<1>3. btb'.last = [key \in BranchTags |-> btb'.last[key]]
  BY <1>1, <1>2 DEF LastAfter
<1>4. CASE type \in {"call", "indirect_call"}
  <2>1. /\ btb'.ras = IF Len(btb.ras) = MAX_SIZE THEN Tail(btb.ras) \o <<ip>>
                      ELSE Append(btb.ras, ip)
        /\ btb'.call_size = btb.call_size /\ btb'.calls = Append(btb.calls, ip)
        /\ btb'.known = btb.known /\ btb'.returned = btb.returned
    BY <1>1, <1>4 DEF RasAfter, SizesAfter, CallsAfter, KnownAfter
  <2>2. MAX_SIZE \in Nat \ {0}
    BY DEF BtbAssumption
  <2>3. btb'.ras \in Seq(BranchIps) /\ Innermost(btb'.ras, Append(btb.calls, ip))
    BY <1>2, <2>1, <2>2, CallKeeps
  <2>4. Append(btb.calls, ip) \in Seq(BranchIps)
    BY <1>2, AppendIs
  <2> QED BY <1>1, <1>2, <1>3, <2>1, <2>3, <2>4 DEF BtbInv, BtbTyped, Remembered
<1>5. CASE type = "return"
  <2>1. /\ btb'.ras = IF btb.ras = <<>> THEN btb.ras ELSE Front(btb.ras)
        /\ btb'.call_size = SizesAfter(btb.call_size, btb.ras, "return", target)
        /\ btb'.calls = Front(btb.calls) /\ btb'.known = KnownNow(btb, ip)
        /\ btb'.returned = ReturnedNow(btb, ip, target)
    BY <1>1, <1>5 DEF RasAfter, KnownNow, CallsAfter, KnownAfter
  <2>2. btb.calls # <<>> /\ target = ReturnAddress(call)
    BY <1>5
  <2>3. /\ btb'.ras \in Seq(BranchIps) /\ Front(btb.calls) \in Seq(BranchIps)
        /\ Innermost(btb'.ras, Front(btb.calls))
        /\ btb.ras # <<>> => Last(btb.ras) = call
    BY <1>2, <2>1, <2>2, ReturnKeeps
  <2>4. /\ btb'.call_size \in [0..(TRACKERS - 1) -> Nat] /\ btb'.known \in SUBSET BranchIps
        /\ Measured(btb'.known, btb'.call_size)
    <3>1. CASE btb.ras = <<>>
      <4>1. btb'.call_size = btb.call_size /\ btb'.known = btb.known
        BY <2>1, <3>1 DEF SizesAfter, KnownNow
      <4> QED BY <1>2, <4>1
    <3>2. CASE btb.ras # <<>>
      <4> DEFINE after == SizesAfter(btb.call_size, btb.ras, "return", target)
                 learnt == IF Sites[call].size > 10 THEN btb.known
                           ELSE {c \in btb.known : c % TRACKERS # call % TRACKERS} \cup {call}
      <4>1. call = Last(btb.ras)
        BY <2>3, <3>2
      <4>2. btb'.known = learnt
        BY <1>5, <2>1, <3>2 DEF KnownNow
      <4> HIDE DEF call
      <4>3. /\ after \in [0..(TRACKERS - 1) -> Nat] /\ learnt \in SUBSET BranchIps
            /\ Measured(learnt, after)
        BY <1>2, <2>2, <3>2, <4>1, MeasuredKeeps
      <4> QED BY <2>1, <4>2, <4>3
    <3> QED BY <3>1, <3>2
  <2>5. ASSUME ReturnIsDue(ip)
        PROVE  btb_prediction(btb, ip) = target
    <3> DEFINE s == SetOf(ip)
               set == btb.direct[s]
               found == ElementOf(set, Tag(ip))
    <3>1. /\ IsIn(set, Tag(ip)) /\ btb.last[Tag(ip)].type = "RETURN"
          /\ btb.ras # <<>> /\ call \in btb.known
      BY <2>5 DEF ReturnIsDue
    <3>2. set \in Seq(Entries(btb.last, s))
      <4>1. s \in 0..(BTB_SETS - 1)
        BY SetIs
      <4> QED BY <4>1 DEF BtbInv, Remembered, SetsOf
    <3>3. found \in Entries(btb.last, s) /\ found.tag = Tag(ip)
      <4> HIDE DEF s, set
      <4> QED BY <3>1, <3>2, FoundIn
    <3> HIDE DEF found
    <3>4. found.type = "RETURN"
      BY <3>1, <3>3 DEF Entries, Noted
    <3>5. btb_prediction(btb, ip) = RasPrediction(btb)
      BY <3>1, <3>4 DEF btb_prediction, found
    <3>6. RasPrediction(btb) = call + btb.call_size[call % TRACKERS]
      BY <2>3, <3>1 DEF RasPrediction
    <3>7. btb.call_size[call % TRACKERS] = Sites[call].size
      BY <1>2, <3>1 DEF Measured
    <3> QED BY <2>2, <3>5, <3>6, <3>7 DEF ReturnAddress
  <2>6. btb'.returned.expected => btb'.returned.right
    <3>1. /\ btb'.returned.expected = ReturnIsDue(ip)
          /\ btb'.returned.right = (btb_prediction(btb, ip) = target)
      BY ONLY <2>1 DEF ReturnedNow
    <3> QED BY ONLY <2>5, <3>1, Zenon
  <2> QED BY <1>1, <1>3, <2>1, <2>3, <2>4, <2>6 DEF BtbInv, BtbTyped, Remembered
<1>6. CASE type \notin {"call", "indirect_call", "return"}
  <2>1. /\ btb'.ras = btb.ras /\ btb'.call_size = btb.call_size /\ btb'.calls = btb.calls
        /\ btb'.known = btb.known /\ btb'.returned = btb.returned
    BY <1>1, <1>6 DEF RasAfter, SizesAfter, CallsAfter, KnownAfter
  <2> QED BY <1>1, <1>2, <1>3, <2>1 DEF BtbInv, BtbTyped, Remembered
<1> QED BY <1>4, <1>5, <1>6

LEMMA BtbStarts ==
  ASSUME BtbInit
  PROVE  BtbInv(btb)
<1> USE BtbAssumption
<1>1. Fielded(btb)
  BY DEF BtbInit, Fielded
<1>2. /\ btb.direct = [s \in 0..(BTB_SETS - 1) |-> <<>>] /\ btb.ras = <<>> /\ btb.calls = <<>>
      /\ btb.call_size = [t \in 0..(TRACKERS - 1) |-> 4] /\ btb.known = {}
      /\ btb.last = [key \in BranchTags |-> [target |-> NoTarget, type |-> "NONE"]]
      /\ btb.returned = [expected |-> TRUE, right |-> TRUE]
  BY DEF BtbInit
<1>3. BtbTyped(btb)
  BY <1>1, <1>2 DEF BtbTyped
<1>4. SetsOf(btb.direct, btb.last)
  BY <1>2 DEF SetsOf
<1>5. Innermost(btb.ras, btb.calls) /\ Measured(btb.known, btb.call_size)
  BY <1>2 DEF Innermost, Measured
<1> QED BY <1>2, <1>3, <1>4, <1>5 DEF BtbInv, Remembered

LEMMA BtbSteps ==
  ASSUME BtbInv(btb), [BtbNext]_btb
  PROVE  BtbInv(btb')
<1> USE BtbAssumption
<1>1. CASE BtbNext
  <2>1. PICK ip \in BranchIps :
          \E target, taken :
            /\ Branch(ip, target, taken)
            /\ Sites[ip].type = "return" =>
                 btb.calls # <<>> /\ target = ReturnAddress(Last(btb.calls))
    BY <1>1 DEF BtbNext
  <2> QED BY <2>1, BranchKeeps
<1>2. CASE UNCHANGED btb
  BY <1>2
<1> QED BY <1>1, <1>2

\* What is on the stack is a suffix of the calls.
LEMMA InnermostPart ==
  ASSUME NEW X, NEW ras \in Seq(X), NEW calls \in Seq(X), Innermost(ras, calls)
  PROVE  \E n \in 0..Len(calls) : ras = SubSeq(calls, n + 1, Len(calls))
<1> DEFINE m == Len(ras)
           n == Len(calls)
           part == SubSeq(calls, n - m + 1, n)
<1>1. Longer(ras, calls, m, n)
  BY InnermostIs
<1>2. \A k \in 1..n : calls[k] \in X
  OBVIOUS
<1> HIDE DEF m, n
<1>3. m \in Nat /\ n \in Nat /\ m <= n /\ \A k \in 1..m : ras[k] = calls[n - m + k]
  BY <1>1 DEF Longer
<1>4. part \in Seq(X) /\ Len(part) = m /\ \A k \in 1..m : part[k] = calls[n - m + k]
  <2>1. n - m + 1 \in Nat /\ \A k \in (n - m + 1)..n : calls[k] \in X
    BY ONLY <1>2, <1>3
  <2>2. /\ part \in Seq(X)
        /\ Len(part) = IF n - m + 1 <= n THEN n - (n - m + 1) + 1 ELSE 0
        /\ \A k \in 1..(n - (n - m + 1) + 1) : part[k] = calls[n - m + 1 + k - 1]
    BY <1>3, <2>1, SubSeqProperties
  <2> HIDE DEF part
  <2> QED BY ONLY <1>3, <2>2
<1> HIDE DEF part
<1>5. ras = part
  <2>1. Len(ras) = Len(part) /\ \A k \in 1..Len(ras) : ras[k] = part[k]
    BY <1>3, <1>4 DEF m
  <2> QED BY <1>4, <2>1, SeqEqual
<1>6. n - m \in 0..n
  BY ONLY <1>3
<1> QED BY <1>5, <1>6 DEF part, n

LEMMA BtbPromise ==
  ASSUME BtbInv(btb)
  PROVE  PredictsWhatItSaw
<1> USE BtbAssumption
<1>1. /\ btb.ras \in Seq(BranchIps) /\ btb.calls \in Seq(BranchIps)
      /\ Innermost(btb.ras, btb.calls) /\ Remembered(btb)
      /\ btb.returned.expected => btb.returned.right
  BY DEF BtbInv, BtbTyped
<1>2. \E n \in 0..Len(btb.calls) : btb.ras = SubSeq(btb.calls, n + 1, Len(btb.calls))
  BY <1>1, InnermostPart
<1>3. ASSUME NEW ip \in BranchIps, IsIn(btb.direct[SetOf(ip)], Tag(ip))
      PROVE  ElementOf(btb.direct[SetOf(ip)], Tag(ip)).target =
               btb.last[Tag(ip)].target
  <2> DEFINE s == SetOf(ip)
             set == btb.direct[s]
             found == ElementOf(set, Tag(ip))
  <2>1. set \in Seq(Entries(btb.last, s))
    <3>1. s \in 0..(BTB_SETS - 1)
      BY SetIs
    <3> QED BY <1>1, <3>1 DEF Remembered, SetsOf
  <2>2. found \in Entries(btb.last, s) /\ found.tag = Tag(ip)
    <3> HIDE DEF s, set
    <3> QED BY <1>3, <2>1, FoundIn DEF s, set
  <2> HIDE DEF found
  <2>3. found.target = btb.last[Tag(ip)].target
    BY <2>2 DEF Entries, Noted
  <2> QED BY <2>3 DEF found
<1> QED BY <1>1, <1>2, <1>3 DEF PredictsWhatItSaw, ReturnsPredicted,
                               TargetsAreLast

\* However the calls nest, however often the stack ran over and whatever shares the
\* table: a return that can be known goes where the program goes, and the targets
\* are those of the last branches taken.
THEOREM ReturnsAndTargetsRemembered ==
  BtbSpec => []PredictsWhatItSaw
<1> USE BtbAssumption
<1>1. BtbInit => BtbInv(btb)
  BY BtbStarts
<1>2. BtbInv(btb) /\ [BtbNext]_btb => BtbInv(btb)'
  BY BtbSteps DEF BtbInv, BtbTyped, Remembered, Fielded
<1>3. BtbInv(btb) => PredictsWhatItSaw
  BY BtbPromise
<1> QED BY <1>1, <1>2, <1>3, PTL DEF BtbSpec
==============================================================================
