----------------------------- MODULE Selection -------------------------------
(* std::partition and erase on a queue: the elements at some positions.     *)
EXTENDS Integers, Sequences, FiniteSets

\* In the order of the queue: stable_partition, partition_copy, remove_if.
Selected(seq, positions) ==
  LET kept[k \in 0..Len(seq)] ==
        IF k = 0 THEN <<>>
        ELSE IF k \in positions THEN Append(kept[k - 1], seq[k])
        ELSE kept[k - 1]
  IN  kept[Len(seq)]

\* std::partition leaves the order open.
Arrangements(seq, positions) ==
  LET n == Cardinality(positions)
      orders == {order \in [1..n -> positions] :
                   \A k \in positions : \E j \in 1..n : order[j] = k}
  IN  {[j \in 1..n |-> seq[order[j]]] : order \in orders}
==============================================================================
