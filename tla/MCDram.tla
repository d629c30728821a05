------------------------------- MODULE MCDram --------------------------------
(* One channel with two groups of one bank, and three addresses of which   *)
(* two share a bank but not a row.                                         *)
EXTENDS DramChannel

ThreeAddresses == {0, 1, 3}
==============================================================================
