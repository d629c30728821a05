--------------------------- MODULE LoadStoreQueue ----------------------------
(***************************************************************************)
(* The load and store queues of the core (src/ooo_cpu.cc).  A load waits   *)
(* for the youngest older store to its address that is still queued, or    *)
(* reads L1D; a store is written to L1D, in order, when its instruction    *)
(* has retired.  ChampSim carries no data: the value of a location is here *)
(* the instruction that wrote it last, so that what a load sees can be     *)
(* compared with the program.                                              *)
(*                                                                         *)
(* Widths and latencies are abstracted: each step serves one entry, at any *)
(* time.  Registers are those of ReorderBuffer: here an instruction may    *)
(* execute as soon as it is dispatched.                                    *)
(***************************************************************************)
EXTENDS Integers, Sequences, FiniteSets, Functions

CONSTANTS
  Addrs, Block(_),     \* addresses, and the cache block of each
  Shapes,              \* the instructions: sequences of loads and of stores
  MaxInstrs,           \* bound: instructions dispatched
  ROB_SIZE, LQ_SIZE, SQ_SIZE

ASSUME QueueAssumption ==
  /\ {MaxInstrs, ROB_SIZE, LQ_SIZE, SQ_SIZE} \subseteq Nat
  /\ \A s \in Shapes : s.loads \in Seq(Addrs) /\ s.stores \in Seq(Addrs)

VARIABLES
  program,           \* the instructions dispatched so far
  num_retired,       \* those of them that have left the ROB, from the front
  executed,          \* instructions of the ROB that have executed
  completed_mem_ops,  \* of each instruction of the ROB
  LQ,                \* slot -> Empty or an entry
  SQ,                \* sequence of entries
  outstanding,       \* block -> reads L1D has not answered yet
  memory,            \* address -> the instruction that wrote it last, or 0
  loaded             \* history: <<load, address, the store it saw>>

vars == <<program, num_retired, executed, completed_mem_ops, LQ, SQ, outstanding,
          memory, loaded>>

Slots == 1..LQ_SIZE
NoProducer == 0
Empty == [instr_id |-> 0]
Allocated(lq) == {s \in Slots : lq[s] # Empty}
NumMemOps(i) == Len(program[i].loads) + Len(program[i].stores)
InROB == (num_retired + 1)..Len(program)

Init ==
  /\ program = <<>> /\ num_retired = 0 /\ executed = {} /\ completed_mem_ops = <<>>
  /\ LQ = [s \in Slots |-> Empty] /\ SQ = <<>>
  /\ outstanding = [b \in {Block(a) : a \in Addrs} |-> 0]
  /\ memory = [a \in Addrs |-> 0]
  /\ loaded = {}

----------------------------------------------------------------------------
(* LSQ_ENTRY::finish *)

\* Mutant of Finish: one operation is enough.
Finish_All(ops) ==
  [i \in 1..Len(program) |-> IF ops[i] > 0 THEN NumMemOps(i) ELSE completed_mem_ops[i]]

\* ops[i] entries of instruction i finish.
Finish(ops) == [i \in 1..Len(program) |-> completed_mem_ops[i] + ops[i]]

\* The operations of each instruction among some slots of the load queue.
OpsOf(slots) ==
  [i \in 1..Len(program) |-> Cardinality({s \in slots : LQ[s].instr_id = i})]

----------------------------------------------------------------------------
(* dispatch_instruction and do_memory_scheduling *)

Hits(addr) == {k \in 1..Len(SQ) : SQ[k].virtual_address = addr}

\* Mutant of YoungestStore: the first one found.
YoungestStore_First(addr) == CHOOSE k \in Hits(addr) : \A j \in Hits(addr) : k <= j

\* max_element: of the youngest instruction that writes the address, the
\* first store.
YoungestStore(addr) ==
  CHOOSE k \in Hits(addr) : \A j \in Hits(addr) :
    SQ[j].instr_id <= SQ[k].instr_id /\ (SQ[j].instr_id = SQ[k].instr_id => k <= j)

\* Which loads a store that has executed satisfies at once.
Forwarded(loads) ==
  {n \in 1..Len(loads) : Hits(loads[n]) # {} /\ SQ[YoungestStore(loads[n])].fetch_issued}

\* The store that a load waits for, if any, when it is given slot s.
Producer(addr) == IF Hits(addr) = {} THEN NoProducer ELSE SQ[YoungestStore(addr)].instr_id
Dependents(k, loads, place) ==
  {place[n] : n \in {m \in DOMAIN place : Hits(loads[m]) # {} /\ YoungestStore(loads[m]) = k}}

\* Each load takes the first slot that is free when its turn comes; a load
\* that is satisfied at once gives its slot back before the next.
FirstFit(kept) ==
  LET free == Slots \ Allocated(LQ)
  IN  {place \in [kept -> free] :
         /\ \A m, n \in kept : m < n => place[m] < place[n]
         /\ \A n \in kept, t \in free : t < place[n] => t \in Range(place)}

LoadEntry(i, addr) == [instr_id |-> i, virtual_address |-> addr,
                       fetch_issued |-> FALSE, producer_id |-> Producer(addr)]
StoreEntry(i, addr) == [instr_id |-> i, virtual_address |-> addr,
                        fetch_issued |-> FALSE, lq_depend_on_me |-> {}]

\* The loads of an instruction look for stores of older ones only.
Dispatch(shape) ==
  /\ Len(program) < MaxInstrs /\ Cardinality(InROB) < ROB_SIZE
  /\ Cardinality(Slots \ Allocated(LQ)) >= Len(shape.loads)
  /\ Len(SQ) + Len(shape.stores) <= SQ_SIZE
  /\ LET i == Len(program) + 1
         done == Forwarded(shape.loads)
         kept == (1..Len(shape.loads)) \ done
     IN  \E place \in FirstFit(kept) :
           /\ LQ' = [s \in Slots |-> IF s \in Range(place)
                                     THEN LoadEntry(i, shape.loads[CHOOSE n \in kept : place[n] = s])
                                     ELSE LQ[s]]
           /\ SQ' = [k \in 1..Len(SQ) |-> [SQ[k] EXCEPT !.lq_depend_on_me =
                                              @ \cup Dependents(k, shape.loads, place)]]
                       \o [k \in 1..Len(shape.stores) |-> StoreEntry(i, shape.stores[k])]
           /\ completed_mem_ops' = Append(completed_mem_ops, Cardinality(done))
           /\ loaded' = loaded \cup {<<i, shape.loads[n], Producer(shape.loads[n])>> : n \in done}
  /\ program' = Append(program, shape)
  /\ UNCHANGED <<num_retired, executed, outstanding, memory>>

\* do_execution: the entries of the instruction become ready.
Execute(i) ==
  /\ i \in InROB \ executed
  /\ executed' = executed \cup {i}
  /\ UNCHANGED <<program, num_retired, completed_mem_ops, LQ, SQ, outstanding, memory, loaded>>

----------------------------------------------------------------------------
(* operate_lsq *)

Unfetched == {k \in 1..Len(SQ) : ~SQ[k].fetch_issued}

\* Mutant of FinishStore: the loads that wait are left alone.
FinishStore_KeepsDependents(k) ==
  /\ k \in Unfetched /\ SQ[k].instr_id \in executed
  /\ \A j \in Unfetched : k <= j
  /\ completed_mem_ops' = [completed_mem_ops EXCEPT ![SQ[k].instr_id] = @ + 1]
  /\ SQ' = [SQ EXCEPT ![k].fetch_issued = TRUE, ![k].lq_depend_on_me = {}]
  /\ UNCHANGED <<program, num_retired, executed, LQ, outstanding, memory, loaded>>

\* do_finish_store: the stores execute in order, and with each the loads
\* that wait for it.
FinishStore(k) ==
  /\ k \in Unfetched /\ SQ[k].instr_id \in executed
  /\ \A j \in Unfetched : k <= j
  /\ LET deps == SQ[k].lq_depend_on_me
     IN  /\ completed_mem_ops' = Finish([OpsOf(deps) EXCEPT ![SQ[k].instr_id] = @ + 1])
         /\ LQ' = [s \in Slots |-> IF s \in deps THEN Empty ELSE LQ[s]]
         /\ loaded' = loaded \cup {<<LQ[s].instr_id, LQ[s].virtual_address, SQ[k].instr_id>> :
                                     s \in deps}
  /\ SQ' = [SQ EXCEPT ![k].fetch_issued = TRUE, ![k].lq_depend_on_me = {}]
  /\ UNCHANGED <<program, num_retired, executed, outstanding, memory>>

\* Mutant of MayComplete: the store need only have executed.
MayComplete_Executed(entry) == entry.fetch_issued

\* Older than the front of the ROB, or the ROB is empty.
MayComplete(entry) == entry.instr_id <= num_retired

\* do_complete_store: L1D takes the oldest store.
CompleteStore ==
  /\ SQ # <<>> /\ MayComplete(Head(SQ))
  /\ memory' = [memory EXCEPT ![Head(SQ).virtual_address] = Head(SQ).instr_id]
  /\ SQ' = Tail(SQ)
  /\ UNCHANGED <<program, num_retired, executed, completed_mem_ops, LQ, outstanding, loaded>>

\* execute_load: L1D may merge the read with one of the same block.
IssueLoad(s, merged) ==
  /\ s \in Allocated(LQ) /\ LQ[s].producer_id = NoProducer
  /\ ~LQ[s].fetch_issued /\ LQ[s].instr_id \in executed
  /\ LET b == Block(LQ[s].virtual_address)
     IN  /\ merged => outstanding[b] > 0
         /\ outstanding' = IF merged THEN outstanding ELSE [outstanding EXCEPT ![b] = @ + 1]
  /\ LQ' = [LQ EXCEPT ![s].fetch_issued = TRUE]
  /\ UNCHANGED <<program, num_retired, executed, completed_mem_ops, SQ, memory, loaded>>

----------------------------------------------------------------------------
(* handle_memory_return, for L1D *)

\* Whichever request the answer was for, it serves every load of the block.
Served(b) == {s \in Allocated(LQ) : LQ[s].fetch_issued /\ Block(LQ[s].virtual_address) = b}

Return(b) ==
  /\ outstanding[b] > 0
  /\ outstanding' = [outstanding EXCEPT ![b] = @ - 1]
  /\ completed_mem_ops' = Finish(OpsOf(Served(b)))
  /\ loaded' = loaded \cup {<<LQ[s].instr_id, LQ[s].virtual_address,
                              memory[LQ[s].virtual_address]>> : s \in Served(b)}
  /\ LQ' = [s \in Slots |-> IF s \in Served(b) THEN Empty ELSE LQ[s]]
  /\ UNCHANGED <<program, num_retired, executed, SQ, memory>>

----------------------------------------------------------------------------
(* complete_inflight_instruction and retire_rob *)

Retire ==
  /\ InROB # {}
  /\ LET i == num_retired + 1
     IN  /\ i \in executed /\ completed_mem_ops[i] = NumMemOps(i)
         /\ num_retired' = i
         /\ executed' = executed \ {i}
  /\ UNCHANGED <<program, completed_mem_ops, LQ, SQ, outstanding, memory, loaded>>

----------------------------------------------------------------------------
Next ==
  \/ \E shape \in Shapes : Dispatch(shape)
  \/ \E i \in InROB : Execute(i)
  \/ \E k \in Unfetched : FinishStore(k)
  \/ CompleteStore
  \/ \E s \in Slots, merged \in BOOLEAN : IssueLoad(s, merged)
  \/ \E b \in DOMAIN outstanding : Return(b)
  \/ Retire

Spec == Init /\ [][Next]_vars

\* operate() gives every stage its turn in every cycle, and L1D accepts and
\* answers reads and accepts writes in the end: what can go on goes on.
FairSpec == Spec /\ WF_vars(Next)

----------------------------------------------------------------------------
(* Properties *)

Writers(i, addr) == {j \in 1..(i - 1) : addr \in Range(program[j].stores)}
LastStoreBefore(i, addr) ==
  IF Writers(i, addr) = {} THEN 0
  ELSE CHOOSE j \in Writers(i, addr) : \A k \in Writers(i, addr) : k <= j

\* Executed out of order, forwarded, or read from L1D with the answer to
\* another request: a load sees the last store before it in the program.
LoadsSeeProgramOrder == \A l \in loaded : l[3] = LastStoreBefore(l[1], l[2])

\* The assertion of LSQ_ENTRY::finish and what it does not say: every memory
\* operation of an instruction is finished once, so that the operations not
\* counted yet are exactly the entries that can still finish.
EveryOperationFinishesOnce ==
  \A i \in 1..Len(program) :
    completed_mem_ops[i]
      + Cardinality({s \in Allocated(LQ) : LQ[s].instr_id = i})
      + Cardinality({k \in Unfetched : SQ[k].instr_id = i}) = NumMemOps(i)

\* The assertions of do_finish_store: a store's references are to slots of
\* the load queue, which are reused, and each must still hold a load that
\* waits for this store; and no load waits for a store that forgot it.
DependentsWait ==
  /\ \A k \in 1..Len(SQ) : \A s \in SQ[k].lq_depend_on_me :
       LQ[s] # Empty /\ LQ[s].producer_id = SQ[k].instr_id
  /\ \A s \in Allocated(LQ) : LQ[s].producer_id # NoProducer =>
       \E k \in Unfetched : s \in SQ[k].lq_depend_on_me

\* What partition_point needs of the store queue, and what the ROB and the
\* commit of stores owe each other: the queue is in program order, executed
\* stores first, and a retired instruction has no store left to execute.
StoresInOrder ==
  /\ \A j, k \in 1..Len(SQ) : j < k =>
       /\ SQ[j].instr_id <= SQ[k].instr_id
       /\ SQ[k].fetch_issued => SQ[j].fetch_issued
  /\ \A k \in Unfetched : SQ[k].instr_id > num_retired
  /\ \A a \in Addrs : memory[a] <= num_retired

QueuesConsistent == DependentsWait /\ StoresInOrder

\* Every instruction retires and every store reaches L1D: no cycle of loads
\* that wait for stores, in-order queues and a full ROB stops the core.
AllComplete == <>[](num_retired = MaxInstrs /\ SQ = <<>>)
==============================================================================
