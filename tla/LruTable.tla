------------------------------ MODULE LruTable -------------------------------
(***************************************************************************)
(* champsim::msl::lru_table (inc/msl/lru_table.h), the table under the DIB *)
(* of the core, the page structure caches and the BTB: sets of ways, each  *)
(* with the count of the accesses at its last use, zero if it is invalid.  *)
(***************************************************************************)
EXTENDS Integers, FiniteSets, FiniteSetsExt, Sequences

CONSTANTS
  NUM_SET, NUM_WAY,
  Indices, Tags, Values,   \* the two projections of an element, and its rest
  MaxAccesses              \* bound on the access count

VARIABLE lru               \* [block, access_count, result]; block is set -> way -> element

ASSUME LruAssumption == {NUM_SET, NUM_WAY} \subseteq Nat \ {0} /\ Indices \subseteq Nat

Nothing == [tag |-> "none", value |-> "none"]
Empty == [last_used |-> 0, tag |-> "none", value |-> "none"]
Sets == 0..(NUM_SET - 1)
Ways == 1..NUM_WAY

LruInit == lru = [block |-> [s \in Sets |-> [w \in Ways |-> Empty]], access_count |-> 0,
                  result |-> Nothing]

get_set(index) == index % NUM_SET

Valid(s) == {w \in Ways : lru.block[s][w].last_used > 0}
Matches(s, tag) == {w \in Valid(s) : lru.block[s][w].tag = tag}
AnswerOf(s, tag) ==
  IF Matches(s, tag) = {} THEN Nothing
  ELSE LET b == lru.block[s][Min(Matches(s, tag))] IN [tag |-> b.tag, value |-> b.value]

\* Mutant of Refreshed: a hit does not count as a use.
Refreshed_Fifo(b) == b

Refreshed(b) == [b EXCEPT !.last_used = lru.access_count + 1]

check_hit(index, tag) ==
  LET s == get_set(index)
      hit == Matches(s, tag) # {}
      way == Min(Matches(s, tag))
  IN  /\ lru.access_count < MaxAccesses
      /\ lru' = [lru EXCEPT
                   !.result = AnswerOf(s, tag),
                   !.access_count = IF hit THEN @ + 1 ELSE @,
                   !.block = IF hit THEN [@ EXCEPT ![s][way] = Refreshed(lru.block[s][way])]
                             ELSE @]

\* The extremes of match_and_check: the matching way, if there is one, is the
\* greatest; an invalid way, or else the least recently used, the smallest.
Targets(s, tag) ==
  IF Matches(s, tag) # {} THEN Matches(s, tag)
  ELSE IF Valid(s) # Ways THEN Ways \ Valid(s)
  ELSE {w \in Ways : \A v \in Ways : lru.block[s][w].last_used <= lru.block[s][v].last_used}

fill(index, tag, value) ==
  LET s == get_set(index)
  IN  /\ lru.access_count < MaxAccesses
      /\ \E w \in Targets(s, tag) :
           lru' = [lru EXCEPT
                     !.access_count = @ + 1,
                     !.block[s][w] = [last_used |-> lru.access_count + 1, tag |-> tag,
                                      value |-> value]]

invalidate(index, tag) ==
  LET s == get_set(index)
  IN  lru' = [lru EXCEPT
                !.result = AnswerOf(s, tag),
                !.block = IF Matches(s, tag) = {} THEN @
                          ELSE [@ EXCEPT ![s][Min(Matches(s, tag))] = Empty]]

LruNext ==
  \E index \in Indices, tag \in Tags :
    \/ check_hit(index, tag) \/ invalidate(index, tag)
    \/ \E value \in Values : fill(index, tag, value)

LruSpec == LruInit /\ [][LruNext]_lru

----------------------------------------------------------------------------
\* The abstraction: the valid ways of a set, the most recently used first.
Orders(block) ==
  LET used == {w \in Ways : block[w].last_used > 0}
  IN  {order \in [1..Cardinality(used) -> used] :
         /\ \A w \in used : \E k \in DOMAIN order : order[k] = w
         /\ \A j, k \in DOMAIN order :
              j < k => block[order[k]].last_used < block[order[j]].last_used}

RecentOf(block) ==
  LET order == CHOOSE order \in Orders(block) : TRUE
  IN  [k \in DOMAIN order |-> [tag |-> block[order[k]].tag, value |-> block[order[k]].value]]

Recent == [s \in Sets |-> RecentOf(lru.block[s])]

Promise == INSTANCE RecencyTable WITH table <- Recent, result <- lru.result

\* The counts implement the order of use: every lookup, fill and invalidation
\* answers and replaces as a table in the order of recency would, and no use of
\* one set disturbs another although they share the count.
ImplementsRecency == Promise!Spec
==============================================================================
