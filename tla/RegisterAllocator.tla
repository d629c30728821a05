-------------------------- MODULE RegisterAllocator --------------------------
(***************************************************************************)
(* The physical register file of the core (src/register_allocator.cc):     *)
(* two register alias tables, a queue of free registers and one record per *)
(* physical register.  Each operation below is one method of the class;    *)
(* ReorderBuffer says when the core calls them.                            *)
(***************************************************************************)
EXTENDS Integers, Sequences, FiniteSets

CONSTANTS
  NUM_REGISTERS,   \* register_file_size of the configuration
  RAT_SIZE,        \* entries of each alias table (256 in the source)
  ArchRegs         \* the architectural registers the trace names

ASSUME RegisterAssumption ==
  /\ NUM_REGISTERS \in Nat \ {0}
  /\ RAT_SIZE \in Nat /\ NUM_REGISTERS <= RAT_SIZE
  /\ ArchRegs \subseteq 0..(RAT_SIZE - 1) /\ IsFiniteSet(ArchRegs)

PhysRegs == 0..(NUM_REGISTERS - 1)
RatIndex == 0..(RAT_SIZE - 1)
Unmapped == -1
FreedArchReg == 255      \* arch_reg_index of a register nobody owns
NoProducer == 0          \* producing_instruction_id of a value older than the trace

VARIABLES
  frontend_RAT,            \* the newest name of each register
  backend_RAT,             \* the name of its last retired value
  free_registers,          \* queue
  physical_register_file   \* who each physical register belongs to

registerVars == <<frontend_RAT, backend_RAT, free_registers, physical_register_file>>

InitRegisters ==
  /\ frontend_RAT = [r \in RatIndex |-> Unmapped]
  /\ backend_RAT = [r \in RatIndex |-> Unmapped]
  /\ free_registers = [k \in 1..NUM_REGISTERS |-> k - 1]
  /\ physical_register_file =
       [p \in PhysRegs |-> [arch_reg_index |-> 0, producing_instruction_id |-> NoProducer,
                            valid |-> FALSE, busy |-> FALSE]]

----------------------------------------------------------------------------
isValid(p) == physical_register_file[p].valid
isAllocated(r) == frontend_RAT[r] # Unmapped
count_free_registers == Len(free_registers)

\* The register file after physical register p is handed to register r.
Owned(p, r, producer, valid) ==
  [physical_register_file EXCEPT ![p] =
     [arch_reg_index |-> r, producing_instruction_id |-> producer,
      valid |-> valid, busy |-> TRUE]]

\* Mutant of rename_dest_register: the new register starts out valid.
rename_dest_register_Valid(r, producer, p) ==
  /\ p = Head(free_registers)
  /\ free_registers' = Tail(free_registers)
  /\ frontend_RAT' = [frontend_RAT EXCEPT ![r] = p]
  /\ physical_register_file' = Owned(p, r, producer, TRUE)
  /\ UNCHANGED backend_RAT

rename_dest_register(r, producer, p) ==
  /\ p = Head(free_registers)
  /\ free_registers' = Tail(free_registers)
  /\ frontend_RAT' = [frontend_RAT EXCEPT ![r] = p]
  /\ physical_register_file' = Owned(p, r, producer, FALSE)
  /\ UNCHANGED backend_RAT

\* A register read before anything wrote it gets a name of its own: its
\* value is older than the trace, valid and already committed.
rename_src_register(r, p) ==
  IF frontend_RAT[r] # Unmapped
  THEN p = frontend_RAT[r] /\ UNCHANGED registerVars
  ELSE /\ p = Head(free_registers)
       /\ free_registers' = Tail(free_registers)
       /\ frontend_RAT' = [frontend_RAT EXCEPT ![r] = p]
       /\ backend_RAT' = [backend_RAT EXCEPT ![r] = p]
       /\ physical_register_file' = Owned(p, r, NoProducer, TRUE)

\* complete_dest_register for every register of P
complete_dest_registers(P) ==
  /\ physical_register_file' =
       [p \in PhysRegs |->
          IF p \in P THEN [physical_register_file[p] EXCEPT !.valid = TRUE]
                     ELSE physical_register_file[p]]
  /\ UNCHANGED <<frontend_RAT, backend_RAT, free_registers>>

\* Mutants of retire_dest_register: the committed register itself is freed, or none.
retire_dest_register_FreesNew(p) ==
  /\ backend_RAT' = [backend_RAT EXCEPT ![physical_register_file[p].arch_reg_index] = p]
  /\ free_registers' = Append(free_registers, p)
  /\ UNCHANGED <<frontend_RAT, physical_register_file>>

retire_dest_register_Leaks(p) ==
  /\ backend_RAT' = [backend_RAT EXCEPT ![physical_register_file[p].arch_reg_index] = p]
  /\ UNCHANGED <<frontend_RAT, free_registers, physical_register_file>>

\* The value of p is committed: the register that held the previous one of
\* the same architectural register returns to the free queue.
retire_dest_register(p) ==
  LET r == physical_register_file[p].arch_reg_index
      old == backend_RAT[r]
  IN  /\ backend_RAT' = [backend_RAT EXCEPT ![r] = p]
      /\ IF old = Unmapped
         THEN UNCHANGED <<free_registers, physical_register_file>>
         ELSE /\ free_registers' = Append(free_registers, old)
              /\ physical_register_file' =
                   [physical_register_file EXCEPT ![old] =
                      [arch_reg_index |-> FreedArchReg,
                       producing_instruction_id |-> NoProducer,
                       valid |-> FALSE, busy |-> FALSE]]
      /\ UNCHANGED frontend_RAT
==============================================================================
