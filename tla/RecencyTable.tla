---------------------------- MODULE RecencyTable -----------------------------
(* The promise of a table with LRU replacement: sets of elements in the    *)
(* order of their last use.                                                *)
EXTENDS Recency

CONSTANTS NUM_SET, NUM_WAY, Indices, Tags, Values

VARIABLES table,           \* set -> its elements, most recent first
          result           \* what the last lookup or invalidation returned

Nothing == [tag |-> "none", value |-> "none"]
Sets == 0..(NUM_SET - 1)
SetOf(index) == index % NUM_SET
Answer(set, tag) == IF IsIn(set, tag) THEN ElementOf(set, tag) ELSE Nothing

Init == table = [s \in Sets |-> <<>>] /\ result = Nothing

check_hit(index, tag) ==
  /\ result' = Answer(table[SetOf(index)], tag)
  /\ table' = [table EXCEPT ![SetOf(index)] = Touch(@, tag)]

fill(index, tag, value) ==
  /\ table' = [table EXCEPT ![SetOf(index)] =
                 Insert(@, [tag |-> tag, value |-> value], NUM_WAY)]
  /\ UNCHANGED result

invalidate(index, tag) ==
  /\ result' = Answer(table[SetOf(index)], tag)
  /\ table' = [table EXCEPT ![SetOf(index)] = Without(@, tag)]

Next ==
  \E index \in Indices, tag \in Tags :
    \/ check_hit(index, tag) \/ invalidate(index, tag)
    \/ \E value \in Values : fill(index, tag, value)

Spec == Init /\ [][Next]_<<table, result>>
==============================================================================
