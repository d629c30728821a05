---------------------------- MODULE ReorderBuffer ----------------------------
(***************************************************************************)
(* The back end of the core (src/ooo_cpu.cc): the reorder buffer, whose    *)
(* instructions are renamed, executed and completed out of order between   *)
(* an in-order dispatch and an in-order retirement.  One cycle runs the    *)
(* stages in the order of O3_CPU::operate; a stage that loops over the     *)
(* buffer takes one step per iteration where an iteration can affect the   *)
(* next, and a single step where it cannot.                                *)
(***************************************************************************)
EXTENDS RegisterAllocator

CONSTANTS
  MaxInstrs,            \* bound: instructions dispatched in one behaviour
  ROB_SIZE, SCHEDULER_SIZE,
  DISPATCH_WIDTH, EXEC_WIDTH, RETIRE_WIDTH,
  SCHEDULING_LATENCY, EXEC_LATENCY,
  Ops                   \* what an instruction reads, writes, and whether it loads

ASSUME CoreAssumption ==
  /\ MaxInstrs \in Nat
  /\ {ROB_SIZE, SCHEDULER_SIZE, DISPATCH_WIDTH, EXEC_WIDTH, RETIRE_WIDTH} \subseteq Nat \ {0}
  /\ {SCHEDULING_LATENCY, EXEC_LATENCY} \subseteq Nat
  /\ Ops \subseteq [src : SUBSET ArchRegs, dst : SUBSET ArchRegs, load : BOOLEAN]

Instrs == 1..MaxInstrs
NoOp == [src |-> {}, dst |-> {}, load |-> FALSE]
NoMap == [r \in ArchRegs |-> Unmapped]
Stages == {"retire", "complete", "execute", "schedule", "rename", "memory", "dispatch"}
Delays == 0..(SCHEDULING_LATENCY + EXEC_LATENCY)

VARIABLES
  num_dispatched, num_retired,
  instr,                   \* [Instrs -> Ops], NoOp outside the buffer
  source_registers,        \* the physical names of its sources once renamed
  destination_registers,   \* and of its destinations
  scheduled, executed, completed,   \* flags, as sets of instructions
  outstanding,             \* instructions whose load has not returned
  delay,                   \* cycles left until ready_time
  warmup,
  stage, bandwidth,        \* the stage that runs, and what is left of its width
  cursor,                  \* the instruction schedule_instruction looks at
  committed                \* destinations of the head retired so far

robVars == <<num_dispatched, num_retired, instr, source_registers, destination_registers,
             scheduled, executed, completed, outstanding, delay>>
stageVars == <<warmup, stage, bandwidth, cursor, committed>>
vars == <<registerVars, robVars, stageVars>>

ROB == (num_retired + 1)..num_dispatched
Head1 == num_retired + 1

Init ==
  /\ InitRegisters
  /\ num_dispatched = 0 /\ num_retired = 0
  /\ instr = [i \in Instrs |-> NoOp]
  /\ source_registers = [i \in Instrs |-> NoMap]
  /\ destination_registers = [i \in Instrs |-> NoMap]
  /\ scheduled = {} /\ executed = {} /\ completed = {} /\ outstanding = {}
  /\ delay = [i \in Instrs |-> 0]
  /\ warmup \in BOOLEAN
  /\ stage = "retire" /\ bandwidth = RETIRE_WIDTH /\ cursor = 0 /\ committed = {}

Latency(cycles) == IF warmup THEN 0 ELSE cycles

Enter(s, width) == stage' = s /\ bandwidth' = width

\* The oldest `width` members of S: what a loop over the buffer reaches
\* before its bandwidth runs out.
OldestOf(S, width) == {i \in S : Cardinality({j \in S : j < i}) < width}

----------------------------------------------------------------------------
(* retire_rob *)

CanRetire == Head1 \in ROB /\ Head1 \in completed /\ bandwidth > 0

RetireDestination(r) ==
  /\ stage = "retire" /\ CanRetire
  /\ r \in instr[Head1].dst \ committed
  /\ retire_dest_register(destination_registers[Head1][r])
  /\ committed' = committed \cup {r}
  /\ UNCHANGED <<robVars, warmup, stage, bandwidth, cursor>>

RetireHead ==
  /\ stage = "retire" /\ CanRetire
  /\ committed = instr[Head1].dst
  /\ num_retired' = Head1
  /\ instr' = [instr EXCEPT ![Head1] = NoOp]
  /\ source_registers' = [source_registers EXCEPT ![Head1] = NoMap]
  /\ destination_registers' = [destination_registers EXCEPT ![Head1] = NoMap]
  /\ scheduled' = scheduled \ {Head1}
  /\ executed' = executed \ {Head1}
  /\ completed' = completed \ {Head1}
  /\ committed' = {} /\ bandwidth' = bandwidth - 1
  /\ UNCHANGED <<registerVars, num_dispatched, outstanding, delay, warmup, stage, cursor>>

EndRetire ==
  /\ stage = "retire" /\ ~CanRetire
  /\ Enter("complete", EXEC_WIDTH)
  /\ UNCHANGED <<registerVars, robVars, warmup, cursor, committed>>

----------------------------------------------------------------------------
(* complete_inflight_instruction, do_complete_execution *)

Completing ==
  OldestOf({i \in ROB \cap executed : i \notin completed /\ delay[i] = 0
                                        /\ i \notin outstanding}, bandwidth)

CompleteInflightInstruction ==
  /\ stage = "complete"
  /\ completed' = completed \cup Completing
  /\ complete_dest_registers(UNION {{destination_registers[i][r] : r \in instr[i].dst} :
                                      i \in Completing})
  /\ Enter("execute", EXEC_WIDTH)
  /\ UNCHANGED <<num_dispatched, num_retired, instr, source_registers, destination_registers,
                 scheduled, executed, outstanding, delay, warmup, cursor, committed>>

----------------------------------------------------------------------------
(* execute_instruction, do_execution *)

SourcesValid(i) == \A r \in instr[i].src : isValid(source_registers[i][r])

Executing ==
  OldestOf({i \in ROB \cap scheduled : i \notin executed /\ delay[i] = 0 /\ SourcesValid(i)},
           bandwidth)

ExecuteInstruction ==
  /\ stage = "execute"
  /\ executed' = executed \cup Executing
  /\ delay' = [i \in Instrs |-> IF i \in Executing THEN Latency(EXEC_LATENCY) ELSE delay[i]]
  /\ Enter("schedule", SCHEDULER_SIZE) /\ cursor' = Head1
  /\ UNCHANGED <<registerVars, num_dispatched, num_retired, instr, source_registers,
                 destination_registers, scheduled, completed, outstanding, warmup, committed>>

----------------------------------------------------------------------------
(* schedule_instruction, do_scheduling *)

\* Renaming overwrites the register numbers in place, so for an instruction
\* that is already scheduled these are physical registers.
SourceNames(i) ==
  IF i \in scheduled THEN {source_registers[i][r] : r \in instr[i].src} ELSE instr[i].src

\* Mutant of RegistersNeeded: sources that have no register yet are forgotten.
RegistersNeeded_Destinations(i) == Cardinality(instr[i].dst)

RegistersNeeded(i) ==
  Cardinality({r \in SourceNames(i) : ~isAllocated(r)}) + Cardinality(instr[i].dst)

EnoughRegisters(i) == count_free_registers >= RegistersNeeded(i)

CanVisit == cursor \in ROB /\ bandwidth > 0 /\ EnoughRegisters(cursor)
WantsRenaming == cursor \notin scheduled /\ delay[cursor] = 0

VisitNext ==
  /\ cursor' = cursor + 1
  /\ bandwidth' = IF cursor \in executed THEN bandwidth ELSE bandwidth - 1
  /\ stage' = "schedule"

SkipInstruction ==
  /\ stage = "schedule" /\ CanVisit /\ ~WantsRenaming
  /\ VisitNext
  /\ UNCHANGED <<registerVars, robVars, warmup, committed>>

StartRenaming ==
  /\ stage = "schedule" /\ CanVisit /\ WantsRenaming
  /\ stage' = "rename"
  /\ UNCHANGED <<registerVars, robVars, warmup, bandwidth, cursor, committed>>

UnnamedSources == {r \in instr[cursor].src : source_registers[cursor][r] = Unmapped}
UnnamedDestinations == {r \in instr[cursor].dst : destination_registers[cursor][r] = Unmapped}

RenameSource(r) ==
  /\ stage = "rename"
  /\ r \in UnnamedSources
  /\ \E p \in PhysRegs :
       /\ rename_src_register(r, p)
       /\ source_registers' = [source_registers EXCEPT ![cursor][r] = p]
  /\ UNCHANGED <<num_dispatched, num_retired, instr, destination_registers, scheduled,
                 executed, completed, outstanding, delay, stageVars>>

\* Mutant of RenameDestination: it does not wait for the sources to be renamed.
RenameDestination_Early(r) ==
  /\ stage = "rename"
  /\ r \in UnnamedDestinations
  /\ \E p \in PhysRegs :
       /\ rename_dest_register(r, cursor, p)
       /\ destination_registers' = [destination_registers EXCEPT ![cursor][r] = p]
  /\ UNCHANGED <<num_dispatched, num_retired, instr, source_registers, scheduled,
                 executed, completed, outstanding, delay, stageVars>>

RenameDestination(r) ==
  /\ stage = "rename"
  /\ UnnamedSources = {} /\ r \in UnnamedDestinations
  /\ \E p \in PhysRegs :
       /\ rename_dest_register(r, cursor, p)
       /\ destination_registers' = [destination_registers EXCEPT ![cursor][r] = p]
  /\ UNCHANGED <<num_dispatched, num_retired, instr, source_registers, scheduled,
                 executed, completed, outstanding, delay, stageVars>>

EndRenaming ==
  /\ stage = "rename"
  /\ UnnamedSources = {} /\ UnnamedDestinations = {}
  /\ scheduled' = scheduled \cup {cursor}
  /\ VisitNext
  /\ UNCHANGED <<registerVars, num_dispatched, num_retired, instr, source_registers,
                 destination_registers, executed, completed, outstanding, delay,
                 warmup, committed>>

EndSchedule ==
  /\ stage = "schedule" /\ ~CanVisit
  /\ Enter("memory", 0) /\ cursor' = 0
  /\ UNCHANGED <<registerVars, robVars, warmup, committed>>

----------------------------------------------------------------------------
(* handle_memory_return and operate_lsq: any of the outstanding loads of   *)
(* executed instructions may return, in any order.                         *)

MemoryReturn(returned) ==
  /\ stage = "memory"
  /\ outstanding' = outstanding \ returned
  /\ Enter("dispatch", DISPATCH_WIDTH)
  /\ UNCHANGED <<registerVars, num_dispatched, num_retired, instr, source_registers,
                 destination_registers, scheduled, executed, completed, delay,
                 warmup, cursor, committed>>

----------------------------------------------------------------------------
(* dispatch_instruction *)

\* do_init_instruction strips the registers of what is read during warmup,
\* and such an instruction may be dispatched after the warmup.
Stripped(op) == [op EXCEPT !.src = {}, !.dst = {}]
Dispatchable == {Stripped(op) : op \in Ops} \cup (IF warmup THEN {} ELSE Ops)

DispatchInstruction(op) ==
  /\ stage = "dispatch" /\ bandwidth > 0
  /\ num_dispatched < MaxInstrs
  /\ Cardinality(ROB) # ROB_SIZE
  /\ LET i == num_dispatched + 1
     IN  /\ num_dispatched' = i
         /\ instr' = [instr EXCEPT ![i] = op]
         /\ delay' = [delay EXCEPT ![i] = Latency(SCHEDULING_LATENCY)]
         /\ outstanding' = IF op.load THEN outstanding \cup {i} ELSE outstanding
  /\ bandwidth' = bandwidth - 1
  /\ UNCHANGED <<registerVars, num_retired, source_registers, destination_registers, scheduled,
                 executed, completed, warmup, stage, cursor, committed>>

\* The front end may have nothing more to dispatch; the clock advances, and
\* the warmup phase may end between two cycles.
EndCycle ==
  /\ stage = "dispatch"
  /\ delay' = [i \in Instrs |-> IF delay[i] = 0 THEN 0 ELSE delay[i] - 1]
  /\ warmup' \in {warmup, FALSE}
  /\ Enter("retire", RETIRE_WIDTH)
  /\ UNCHANGED <<registerVars, num_dispatched, num_retired, instr, source_registers,
                 destination_registers, scheduled, executed, completed, outstanding,
                 cursor, committed>>

----------------------------------------------------------------------------
Next ==
  \/ \E r \in ArchRegs : RetireDestination(r)
  \/ RetireHead
  \/ EndRetire
  \/ CompleteInflightInstruction
  \/ ExecuteInstruction
  \/ SkipInstruction
  \/ StartRenaming
  \/ \E r \in ArchRegs : RenameSource(r) \/ RenameDestination(r)
  \/ EndRenaming
  \/ EndSchedule
  \/ \E returned \in SUBSET (outstanding \cap executed) : MemoryReturn(returned)
  \/ \E op \in Dispatchable : DispatchInstruction(op)
  \/ EndCycle

Spec == Init /\ [][Next]_vars

\* The load of the oldest instruction returns.
HeadReturns ==
  \E returned \in SUBSET (outstanding \cap executed) :
    Head1 \in returned /\ MemoryReturn(returned)

\* operate() runs every stage every cycle, and the memory hierarchy answers
\* the load that retirement waits for (its stage has one turn in each cycle,
\* hence strong fairness); the front end owes the back end nothing.
FairSpec == Spec /\ WF_vars(Next) /\ SF_vars(HeadReturns)

----------------------------------------------------------------------------
(* Properties *)

\* The state the class members and the ROB entries can hold.
TypeOK ==
  /\ frontend_RAT \in [RatIndex -> PhysRegs \cup {Unmapped}]
  /\ backend_RAT \in [RatIndex -> PhysRegs \cup {Unmapped}]
  /\ free_registers \in Seq(PhysRegs)
  /\ physical_register_file \in
       [PhysRegs -> [arch_reg_index : RatIndex \cup {FreedArchReg},
                     producing_instruction_id : Instrs \cup {NoProducer},
                     valid : BOOLEAN, busy : BOOLEAN]]
  /\ num_dispatched \in 0..MaxInstrs /\ num_retired \in 0..num_dispatched
  /\ instr \in [Instrs -> [src : SUBSET ArchRegs, dst : SUBSET ArchRegs, load : BOOLEAN]]
  /\ source_registers \in [Instrs -> [ArchRegs -> PhysRegs \cup {Unmapped}]]
  /\ destination_registers \in [Instrs -> [ArchRegs -> PhysRegs \cup {Unmapped}]]
  /\ completed \subseteq executed /\ executed \subseteq scheduled /\ scheduled \subseteq ROB
  /\ outstanding \subseteq ROB
  /\ delay \in [Instrs -> Delays]
  /\ warmup \in BOOLEAN
  /\ stage \in Stages /\ bandwidth \in Nat /\ cursor \in 0..(MaxInstrs + 1)
  /\ committed \subseteq ArchRegs

FreeSet == {free_registers[k] : k \in 1..Len(free_registers)}
Committed == {r \in ArchRegs : backend_RAT[r] # Unmapped}

\* A destination of an instruction in the buffer that holds a physical
\* register which retirement has not yet moved to the backend table.
Holds(i, r) ==
  /\ i \in ROB /\ destination_registers[i][r] # Unmapped
  /\ i = Head1 => r \notin committed

\* No physical register has two owners and none is lost: the free queue, the
\* backend table and the unretired destinations divide the register file
\* among them (rename_*_register, retire_dest_register, free_register).
RegistersPartitioned ==
  /\ \A k, l \in 1..Len(free_registers) : free_registers[k] = free_registers[l] => k = l
  /\ \A r, s \in Committed : backend_RAT[r] = backend_RAT[s] => r = s
  /\ \A i, j \in ROB : \A r, s \in ArchRegs :
       (/\ Holds(i, r) /\ Holds(j, s)
        /\ destination_registers[i][r] = destination_registers[j][s]) => i = j /\ r = s
  /\ \A r \in Committed : backend_RAT[r] \notin FreeSet
  /\ \A i \in ROB : \A r \in ArchRegs :
       Holds(i, r) => /\ destination_registers[i][r] \notin FreeSet
                      /\ \A s \in Committed : backend_RAT[s] # destination_registers[i][r]
  /\ \A p \in PhysRegs :
       \/ p \in FreeSet
       \/ \E r \in Committed : backend_RAT[r] = p
       \/ \E i \in ROB : \E r \in ArchRegs : Holds(i, r) /\ destination_registers[i][r] = p

OlderWriters(i, r) == {j \in ROB : j < i /\ Holds(j, r)}
NameBefore(i, r) ==
  IF OlderWriters(i, r) = {} THEN backend_RAT[r]
  ELSE destination_registers[CHOOSE j \in OlderWriters(i, r) :
                               \A k \in OlderWriters(i, r) : k <= j][r]

\* Renaming is in program order although schedule_instruction visits the
\* buffer anew each cycle and skips what is not ready.
RenameInOrder == \A i \in scheduled : \A j \in ROB : j < i => j \in scheduled

\* As long as a reader is in the buffer, each of its sources names the
\* register of the youngest older writer of that source in program order,
\* or the committed one when there is none left (do_scheduling renames
\* sources before destinations, retirement is in order).
SourceIsLastWriter ==
  /\ RenameInOrder
  /\ \A i \in scheduled : \A r \in instr[i].src :
       (i = Head1 => r \notin committed) => source_registers[i][r] = NameBefore(i, r)

\* The assertion of rename_dest_register, and the unchecked front() of
\* rename_src_register: the check before renaming reserves enough registers.
NeverOutOfRegisters ==
  stage = "rename" =>
    count_free_registers >= Cardinality({r \in UnnamedSources : ~isAllocated(r)})
                              + Cardinality(UnnamedDestinations)

dataflow == INSTANCE Dataflow WITH
  Registers <- ArchRegs,
  oldest <- Head1, next <- num_dispatched + 1,
  reads <- [i \in Instrs |-> instr[i].src], writes <- [i \in Instrs |-> instr[i].dst],
  started <- executed, done <- completed

\* The back end implements Dataflow: no instruction executes before the
\* youngest older writer of each of its sources has completed.
DataflowOrder == dataflow!Spec

\* Every dispatched instruction retires: with a register for every
\* architectural register and for the widest instruction the scheduler's
\* early exit on a shortage never stops the core for good.
AllRetire == <>[](num_retired = num_dispatched)

==============================================================================
