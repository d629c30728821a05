------------------------------ MODULE Dataflow -------------------------------
(***************************************************************************)
(* What an out-of-order core promises of register values: instructions     *)
(* enter and leave in program order, and one starts only when the youngest *)
(* older writer of each of its sources has produced its result.            *)
(***************************************************************************)
EXTENDS Integers

CONSTANTS Instrs, Registers

VARIABLES
  oldest, next,   \* the window is oldest..(next - 1)
  reads, writes,  \* [Instrs -> SUBSET Registers]
  started, done   \* of the instructions in the window

dataflowVars == <<oldest, next, reads, writes, started, done>>

Window == oldest..(next - 1)
Writers(i, r) == {j \in Window : j < i /\ r \in writes[j]}
Youngest(S) == CHOOSE j \in S : \A k \in S : k <= j
Available(i, r) == Writers(i, r) # {} => Youngest(Writers(i, r)) \in done

Init ==
  /\ oldest = 1 /\ next = 1
  /\ reads = [i \in Instrs |-> {}] /\ writes = [i \in Instrs |-> {}]
  /\ started = {} /\ done = {}

Enter ==
  /\ next \in Instrs
  /\ next' = next + 1
  /\ \E R, W \in SUBSET Registers :
       /\ reads' = [reads EXCEPT ![next] = R]
       /\ writes' = [writes EXCEPT ![next] = W]
  /\ UNCHANGED <<oldest, started, done>>

Start ==
  \E S \in SUBSET (Window \ started) :
    /\ \A i \in S : \A r \in reads[i] : Available(i, r)
    /\ started' = started \cup S
    /\ UNCHANGED <<oldest, next, reads, writes, done>>

Finish ==
  \E S \in SUBSET (started \ done) :
    /\ done' = done \cup S
    /\ UNCHANGED <<oldest, next, reads, writes, started>>

Leave ==
  /\ oldest \in done
  /\ oldest' = oldest + 1
  /\ reads' = [reads EXCEPT ![oldest] = {}]
  /\ writes' = [writes EXCEPT ![oldest] = {}]
  /\ started' = started \ {oldest} /\ done' = done \ {oldest}
  /\ UNCHANGED next

Next == Enter \/ Start \/ Finish \/ Leave

Spec == Init /\ [][Next]_dataflowVars
==============================================================================
