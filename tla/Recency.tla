------------------------------ MODULE Recency --------------------------------
(***************************************************************************)
(* What a table with LRU replacement promises, as operations on one set:   *)
(* a sequence of its elements, the most recently used first.  LruTable     *)
(* (inc/msl/lru_table.h) implements it; the page table walker and the      *)
(* BTB are modelled on top of it.                                          *)
(*                                                                         *)
(* An element is a record with a tag.                                      *)
(***************************************************************************)
EXTENDS Naturals, Sequences, SequencesExt, Selection

Matching(set, tag) == {k \in 1..Len(set) : set[k].tag = tag}
IsIn(set, tag) == Matching(set, tag) # {}
ElementOf(set, tag) == set[CHOOSE k \in Matching(set, tag) : TRUE]

Without(set, tag) == Selected(set, (1..Len(set)) \ Matching(set, tag))

\* check_hit: what it finds becomes the most recent.
Touch(set, tag) ==
  IF IsIn(set, tag) THEN <<ElementOf(set, tag)>> \o Without(set, tag) ELSE set

Lesser(n, m) == IF n < m THEN n ELSE m

\* fill: the element takes the place of the one with its tag, or else of the
\* least recent one when all ways are in use.
Insert(set, element, ways) ==
  LET all == <<element>> \o Without(set, element.tag)
  IN  SubSeq(all, 1, Lesser(Len(all), ways))
==============================================================================
