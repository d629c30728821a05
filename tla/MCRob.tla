------------------------------- MODULE MCRob --------------------------------
(***************************************************************************)
(* Instances of ReorderBuffer.  The program is not fixed: dispatch picks   *)
(* every instruction freely, so a run covers all the programs of up to     *)
(* MaxInstrs instructions over MCOps.                                      *)
(***************************************************************************)
EXTENDS ReorderBuffer

MCArchRegs == {1, 2}

Op(src, dst, load) == [src |-> src, dst |-> dst, load |-> load]

\* A load, an instruction that reads what it writes, a move, one with two
\* destinations, and a branch that only reads.
MCOps == {Op({}, {1}, TRUE), Op({1}, {1}, FALSE), Op({1}, {2}, FALSE),
          Op({2}, {1, 2}, FALSE), Op({1, 2}, {}, FALSE)}
=============================================================================
