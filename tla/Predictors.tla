----------------------------- MODULE Predictors ------------------------------
(***************************************************************************)
(* The predictors that come with the simulator (branch/): bimodal, gshare, *)
(* perceptron and hashed_perceptron.  The core predicts every instruction, *)
(* and updates after a branch at once (do_predict_branch), so predictions  *)
(* of instructions that are no branches go into the predictors' state.     *)
(*                                                                         *)
(* A history is the set of the places, from the most recent 0, where the   *)
(* branch was taken.                                                       *)
(***************************************************************************)
EXTENDS FwCounter, FiniteSets, FiniteSetsExt, Sequences, SequencesExt

CONSTANTS
  COUNTER_MAX,             \* of the unsigned counters
  PRIME,                   \* entries of bimodal
  GS_LENGTH, GS_BITS,      \* of gshare: the history, and the bits of an index
  HISTORY, NUM_PERCEPTRONS, NUM_UPDATE_ENTRIES, THETA,
  WEIGHT,                  \* weights are in -WEIGHT - 1..WEIGHT
  history_lengths, WORD_LEN, NUM_WORDS, THETA_0, SPEED,   \* of hashed_perceptron
  Branches, Bodies,        \* addresses of branches; of what stands before them, sequences
  Settled,                 \* how often a branch goes one way before it is predicted
  MaxFree, MaxSettled      \* bounds: branches that go any way, and that go one way

VARIABLE bp

BitOf(x, k) == (x \div 2^k) % 2
BitsOf(x, n) == {k \in 0..(n - 1) : BitOf(x, k) = 1}
Number(bits) == MapThenSumSet(LAMBDA k : 2^k, bits)
Low(bits, n) == {k \in bits : k < n}
Shifted(bits, n) == {k - n : k \in {b \in bits : b >= n}}
Pushed(bits, taken, n) ==
  Low({k + 1 : k \in bits} \cup (IF taken THEN {0} ELSE {}), n)

\* x ^ y of two words; of some, by the parity of each bit.
Xor(words, n) == {k \in 0..(n - 1) : Cardinality({w \in DOMAIN words : k \in words[w]}) % 2 = 1}

SteerWeight(w, up) ==
  IF up THEN Min({w + 1, WEIGHT}) ELSE Max({w - 1, -WEIGHT - 1})

----------------------------------------------------------------------------
(* folded_shift_register: words of VALUE_LEN bits, the last one cut to the  *)
(* rest of the length.                                                      *)

VALUE_LEN == WORD_LEN * NUM_WORDS

\* As many words as the length needs.
WordsFor(length) == (length + VALUE_LEN - 1) \div VALUE_LEN
EmptyRegister(length) == [k \in 1..WordsFor(length) |-> {}]

Masked(word, rest) == IF rest = 0 THEN word ELSE Low(word, rest)

push_back(words, length, taken) ==
  [k \in DOMAIN words |->
     Masked(Pushed(words[k], IF k = 1 THEN taken ELSE (VALUE_LEN - 1) \in words[k - 1], VALUE_LEN),
            IF k = Len(words) THEN length % VALUE_LEN ELSE 0)]

\* The words are joined, and the parts of the joined word again.
FoldedValue(words) ==
  LET joined == Xor(words, VALUE_LEN)
      parts == [i \in 0..(NUM_WORDS + 1) |-> Shifted(joined, i * WORD_LEN)]
  IN  Xor(parts, WORD_LEN)

----------------------------------------------------------------------------
Kinds == {"bimodal", "gshare", "perceptron", "hashed"}
Tables == DOMAIN history_lengths
Perceptron == [bias |-> 0, weights |-> [k \in 0..(HISTORY - 1) |-> 0]]

\* The program repeats its branches, before each of them the same other instructions.
Init ==
  \E kind \in Kinds, body \in Bodies :
    bp = [kind |-> kind, body |-> body, others |-> 0,
          table |-> CASE kind = "bimodal" -> [h \in 0..(PRIME - 1) |-> 0]
                      [] kind = "gshare" -> [h \in 0..(2^GS_BITS - 1) |-> 0]
                      [] kind = "perceptron" -> [h \in 0..(NUM_PERCEPTRONS - 1) |-> Perceptron]
                      [] kind = "hashed" ->
                           [t \in Tables |-> [h \in 0..(2^WORD_LEN - 1) |-> 0]],
          history |-> {}, spec_history |-> {}, state_buf |-> <<>>,
          ghist_words |-> [t \in Tables |-> EmptyRegister(history_lengths[t])],
          theta |-> THETA_0, tc |-> 0, last_result |-> <<>>,
          \* history: all outcomes, how often branches went the same way since, whether
          \* the last one was predicted
          outcomes |-> <<>>, direction |-> TRUE, settled |-> [ip \in Branches |-> 0],
          right |-> TRUE]

----------------------------------------------------------------------------
(* bimodal and gshare *)

hash(ip) == ip % PRIME

gs_table_hash(ip) ==
  LET Slice(lower) == Low(Shifted(BitsOf(ip, lower + GS_BITS), lower), GS_BITS)
  IN  Number(Xor(<<bp.history, Slice(0), Slice(GS_LENGTH), Slice(2 * GS_LENGTH)>>, GS_BITS))

CounterIndex(ip) == IF bp.kind = "bimodal" THEN hash(ip) ELSE gs_table_hash(ip)

\* The half of the maximum is rounded down: gshare takes all but the lowest.
CounterPrediction(ip) ==
  LET value == bp.table[CounterIndex(ip)]
  IN  IF bp.kind = "bimodal" THEN value > COUNTER_MAX \div 2 ELSE value >= COUNTER_MAX \div 2

CounterUpdate(ip, taken) ==
  [bp EXCEPT !.table[CounterIndex(ip)] = Steer(@, taken, COUNTER_MAX),
             !.history = IF bp.kind = "gshare" THEN Pushed(@, taken, GS_LENGTH) ELSE @]

----------------------------------------------------------------------------
(* perceptron *)

PerceptronIndex(ip) == ip % NUM_PERCEPTRONS

Output(p, history) ==
  p.bias + MapThenSumSet(LAMBDA k : IF k \in history THEN p.weights[k] ELSE -p.weights[k],
                         DOMAIN p.weights)

Trained(p, taken, history) ==
  [bias |-> SteerWeight(p.bias, taken),
   weights |-> [k \in DOMAIN p.weights |-> SteerWeight(p.weights[k], (k \in history) = taken)]]

\* Every prediction is put in the buffer, which drops the oldest.
PerceptronPredict(ip) ==
  LET output == Output(bp.table[PerceptronIndex(ip)], bp.spec_history)
      all == Append(bp.state_buf, [ip |-> ip, prediction |-> output >= 0, output |-> output,
                                   history |-> bp.spec_history])
  IN  [bp EXCEPT !.state_buf = IF Len(all) > NUM_UPDATE_ENTRIES THEN Tail(all) ELSE all,
                 !.spec_history = Pushed(@, output >= 0, HISTORY)]

Saved(b, ip) == {k \in DOMAIN b.state_buf : b.state_buf[k].ip = ip}

\* Mutant of Restored: a misprediction leaves the speculative history.
Restored_Never(speculative, mispredicted, real) == speculative

Restored(speculative, mispredicted, real) == IF mispredicted THEN real ELSE speculative

PerceptronUpdate(b, ip, taken) ==
  IF Saved(b, ip) = {} THEN b
  ELSE LET state == b.state_buf[Min(Saved(b, ip))]
           history == Pushed(b.history, taken, HISTORY)
           trains == (state.output \in -THETA..THETA) \/ state.prediction # taken
       IN  [b EXCEPT
              !.state_buf = RemoveAt(@, Min(Saved(b, ip))),
              !.history = history,
              !.spec_history = Restored(@, state.prediction # taken, history),
              !.table[PerceptronIndex(ip)] = IF trains THEN Trained(@, taken, state.history) ELSE @]

----------------------------------------------------------------------------
(* hashed_perceptron *)

HashedIndex(t, ip) ==
  Number(Xor(<<FoldedValue(bp.ghist_words[t]), BitsOf(ip, WORD_LEN)>>, WORD_LEN))

HashedPredict(ip) ==
  LET indices == [t \in Tables |-> HashedIndex(t, ip)]
  IN  [bp EXCEPT !.last_result =
         [indices |-> indices, yout |-> MapThenSumSet(LAMBDA t : bp.table[t][indices[t]], Tables)]]

adjust_threshold(b, correct) ==
  IF ~correct
  THEN IF b.tc + 1 >= SPEED THEN [b EXCEPT !.theta = @ + 1, !.tc = 0] ELSE [b EXCEPT !.tc = @ + 1]
  ELSE IF b.tc - 1 <= -SPEED THEN [b EXCEPT !.theta = @ - 1, !.tc = 0] ELSE [b EXCEPT !.tc = @ - 1]

HashedUpdate(b, taken) ==
  LET yout == b.last_result.yout
      correct == taken = (yout >= 1)
      moved == [b EXCEPT !.ghist_words = [t \in Tables |->
                           push_back(@[t], history_lengths[t], taken)]]
      trained == [moved EXCEPT !.table = [t \in Tables |->
                    [@[t] EXCEPT ![b.last_result.indices[t]] = SteerWeight(@, taken)]]]
      weak == yout < b.theta /\ -yout < b.theta
  IN  IF ~correct \/ weak THEN adjust_threshold(trained, correct) ELSE moved

----------------------------------------------------------------------------
(* do_predict_branch *)

Prediction(ip) ==
  CASE bp.kind = "perceptron" -> Last(PerceptronPredict(ip).state_buf).prediction
    [] bp.kind = "hashed" -> HashedPredict(ip).last_result.yout >= 1
    [] OTHER -> CounterPrediction(ip)

predict_branch(ip) ==
  CASE bp.kind = "perceptron" -> PerceptronPredict(ip)
    [] bp.kind = "hashed" -> HashedPredict(ip)
    [] OTHER -> bp

last_branch_result(b, ip, taken) ==
  CASE bp.kind = "perceptron" -> PerceptronUpdate(b, ip, taken)
    [] bp.kind = "hashed" -> HashedUpdate(b, taken)
    [] OTHER -> CounterUpdate(ip, taken)

Other ==
  /\ bp.others < Len(bp.body)
  /\ bp' = [predict_branch(bp.body[bp.others + 1]) EXCEPT !.others = @ + 1]

SettledAfter(ip, taken) ==
  IF taken = bp.direction THEN [bp.settled EXCEPT ![ip] = @ + 1] ELSE [b \in Branches |-> 0]

Branch(ip, taken) ==
  /\ bp.others = Len(bp.body)
  /\ Len(bp.outcomes) < MaxFree \/ (taken = bp.direction /\ bp.settled[ip] < MaxSettled)
  /\ bp' = [last_branch_result(predict_branch(ip), ip, taken) EXCEPT
              !.others = 0, !.outcomes = <<taken>> \o @, !.direction = taken,
              !.settled = SettledAfter(ip, taken), !.right = Prediction(ip) = taken]

Next ==
  \/ Other
  \/ \E ip \in Branches, taken \in BOOLEAN : Branch(ip, taken)

----------------------------------------------------------------------------
\* Packed into words, carried from word to word and cut to its length, a history is
\* folded as if its bits were taken one by one.
HistoryFolded ==
  bp.kind = "hashed" => \A t \in Tables :
    FoldedValue(bp.ghist_words[t]) =
      LET recent == {k \in 1..Len(bp.outcomes) : k <= history_lengths[t] /\ bp.outcomes[k]}
      IN  {j \in 0..(WORD_LEN - 1) :
             Cardinality({k \in recent : (k - 1) % WORD_LEN = j}) % 2 = 1}

\* A branch that keeps going one way is predicted in the end, whatever the tables,
\* histories and thresholds have learnt before, and although the predictions of
\* other instructions are mixed into them.
SettledIsPredicted ==
  (\A ip \in Branches : bp.settled[ip] >= Settled) => bp.right

PredictorsSettle == HistoryFolded /\ SettledIsPredicted
==============================================================================
