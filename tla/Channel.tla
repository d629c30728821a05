------------------------------ MODULE Channel --------------------------------
(***************************************************************************)
(* The channel between two levels of the memory hierarchy                  *)
(* (src/channel.cc): three queues of requests downwards, and the responses *)
(* upwards.  Requests for one block are merged, and reads of a block that  *)
(* is about to be written are answered from the write queue.               *)
(*                                                                         *)
(* An address is <<block, offset>>.  A request carries the set of the      *)
(* instructions that wait for it; data and metadata are left out.          *)
(***************************************************************************)
EXTENDS Integers, Sequences, FiniteSets, SequencesExt

Block(address) == address[1]

Request(address, type, response_requested, instr_depend_on_me) ==
  [address |-> address, type |-> type, forward_checked |-> FALSE,
   response_requested |-> response_requested, instr_depend_on_me |-> instr_depend_on_me]

Response(block, instr_depend_on_me) ==
  [block |-> block, instr_depend_on_me |-> instr_depend_on_me]

EmptyChannel == [RQ |-> <<>>, WQ |-> <<>>, PQ |-> <<>>, returned |-> <<>>]

\* do_add_queue: a full queue refuses the request.
Accepts(queue, size) == Len(queue) < size

----------------------------------------------------------------------------
(* check_collision *)

\* The write queue of a cache that matches offsets merges and forwards whole
\* addresses only; every other comparison is of blocks.
Same(a, b, offsets) == IF offsets THEN a = b ELSE Block(a) = Block(b)

Collisions(queue, request, offsets) ==
  {k \in 1..Len(queue) : Same(queue[k].address, request.address, offsets)}

First(S) == CHOOSE k \in S : \A j \in S : k <= j

\* Mutant of Merge: the earlier request is left as it is.
Merge_KeepsFirst(source, destination) == destination

\* do_collision_for_merge: all but the waiting instructions, and whether a
\* response is wanted, is the earlier request's.
Merge(source, destination) ==
  [destination EXCEPT !.response_requested = @ \/ source.response_requested,
                      !.instr_depend_on_me = @ \cup source.instr_depend_on_me]

\* The requests not checked yet; do_add_queue puts them behind the others.
Unchecked(queue) == {k \in 1..Len(queue) : ~queue[k].forward_checked}

Checked(request) == [request EXCEPT !.forward_checked = TRUE]

\* The request at k joins an earlier one that it collides with, or stays.
MergeOrStay(queue, k, offsets) ==
  LET earlier == {j \in Collisions(queue, queue[k], offsets) : j < k}
  IN  IF earlier = {} THEN [queue EXCEPT ![k] = Checked(@)]
      ELSE RemoveAt([queue EXCEPT ![First(earlier)] = Merge(queue[k], @)], k)

CheckWrite(ch, offsets) ==
  [ch EXCEPT !.WQ = MergeOrStay(@, First(Unchecked(@)), offsets)]

\* do_collision_for_return: answered at once, if an answer is wanted.
Answer(returned, request) ==
  IF request.response_requested
  THEN Append(returned, Response(Block(request.address), request.instr_depend_on_me))
  ELSE returned

\* A read or a prefetch is answered by the write queue, or may join another.
CheckRead(ch, queue, offsets) ==
  LET k == First(Unchecked(ch[queue]))
      request == ch[queue][k]
  IN  IF Collisions(ch.WQ, request, offsets) # {}
      THEN [ch EXCEPT ![queue] = RemoveAt(@, k), !.returned = Answer(@, request)]
      ELSE [ch EXCEPT ![queue] = MergeOrStay(@, k, FALSE)]

\* The next turn of the loops: all writes, then all reads, then all prefetches.
check_collision(ch, offsets) ==
  IF Unchecked(ch.WQ) # {} THEN CheckWrite(ch, offsets)
  ELSE IF Unchecked(ch.RQ) # {} THEN CheckRead(ch, "RQ", offsets)
  ELSE CheckRead(ch, "PQ", offsets)

AllChecked(ch) == \A queue \in {"RQ", "WQ", "PQ"} : Unchecked(ch[queue]) = {}
==============================================================================
