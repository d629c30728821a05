----------------------------- MODULE MCFrontEnd ------------------------------
(***************************************************************************)
(* FrontEnd on every trace of MaxInstrs instructions over two blocks, with *)
(* every pattern of DIB hits and mispredictions.                           *)
(***************************************************************************)
EXTENDS FrontEnd

\* A finished trace idles; any other state without a step is a deadlock.
Idle == read = MaxInstrs /\ InFlight \cup executing = {} /\ UNCHANGED vars

MCNext == Next \/ Idle
MCSpec == Init /\ [][MCNext]_vars /\ Fairness
==============================================================================
