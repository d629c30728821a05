------------------------------- MODULE MCLsq ---------------------------------
(* LoadStoreQueue over three addresses, two of which share a block. *)
EXTENDS LoadStoreQueue

MCAddrs == {"a0", "a1", "b0"}
MCBlock(addr) == IF addr = "b0" THEN "b" ELSE "a"

Shape(loads, stores) == [loads |-> loads, stores |-> stores]

\* Loads, stores, an instruction that reads and writes one location, one that
\* copies, and one that loads from both words of a block.
MCShapes == {Shape(<<"a0">>, <<>>), Shape(<<>>, <<"a0">>), Shape(<<>>, <<"a1">>),
             Shape(<<"a0">>, <<"a0">>), Shape(<<"b0">>, <<"a0">>),
             Shape(<<"a0", "a1">>, <<>>), Shape(<<>>, <<"a0", "a0">>)}
==============================================================================
