---------------------------- MODULE MCReplacement ----------------------------
(* Two sets of two ways under each policy; the second list of leading sets *)
(* holds a raw value that is no set, since rand_sets is not reduced.       *)
EXTENDS Replacement

MCRandSets == {<<0, 1>>, <<0, 7>>}
==============================================================================
