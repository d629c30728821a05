------------------------ MODULE ReorderBufferProofs ------------------------
(***************************************************************************)
(* The back end of the core keeps its registers apart, and implements the  *)
(* dataflow of the program, for every width, latency, size and program.    *)
(***************************************************************************)
EXTENDS ReorderBuffer, CommonFacts, FiniteSetTheorems, SequenceTheorems

Naming(i) == stage = "rename" /\ i = cursor

\* Where each stage leaves the buffer: only retirement commits, and only of a
\* completed head; renaming works on one instruction that is ready for it.
StagesApart ==
  /\ \A r \in committed : /\ stage = "retire" /\ CanRetire
                          /\ r \in instr[Head1].dst
  /\ stage = "rename" => /\ cursor \in ROB \ scheduled
                         /\ delay[cursor] = 0 /\ bandwidth > 0
                         /\ \A i \in ROB : i < cursor => i \in scheduled
  /\ stage = "schedule" => \A i \in ROB \ scheduled : i < cursor => delay[i] # 0
  /\ completed \cap outstanding = {}

\* What is not scheduled becomes ready in program order: the latency of
\* scheduling only grows, once, when the warmup ends.
ReadyInOrder ==
  /\ \A i, j \in ROB \ scheduled : i <= j => delay[i] <= delay[j]
  /\ \A i \in ROB \ scheduled : /\ delay[i] <= SCHEDULING_LATENCY
                                /\ warmup => delay[i] = 0

\* Exactly the registers of a scheduled instruction have names, and those
\* given so far of the one that is being renamed, sources first.
NamesGiven ==
  \A i \in Instrs : \A r \in ArchRegs :
    /\ source_registers[i][r] # Unmapped =>
         r \in instr[i].src /\ (i \in scheduled \/ Naming(i))
    /\ destination_registers[i][r] # Unmapped =>
         r \in instr[i].dst /\ (i \in scheduled \/ (Naming(i) /\ UnnamedSources = {}))
    /\ i \in scheduled =>
         /\ r \in instr[i].src => source_registers[i][r] # Unmapped
         /\ r \in instr[i].dst => destination_registers[i][r] # Unmapped

\* NameBefore as a relation.
Names(i, r, p) ==
  \/ OlderWriters(i, r) = {} /\ p = backend_RAT[r]
  \/ \E j \in OlderWriters(i, r) :
       (\A k \in OlderWriters(i, r) : k <= j) /\ p = destination_registers[j][r]

\* The frontend table names the youngest writer in the buffer.
FrontendIsNewest ==
  \A r \in ArchRegs : Names(num_dispatched + 1, r, frontend_RAT[r])

SourcesNamed ==
  \A i \in Instrs : \A r \in ArchRegs :
    (source_registers[i][r] # Unmapped /\ (i = Head1 => r \notin committed))
      => Names(i, r, source_registers[i][r])

\* The register file knows whose register it is, and a value is not valid
\* before its producer has completed.
FileAgrees ==
  \A i \in ROB : \A r \in ArchRegs :
    Holds(i, r) =>
      LET entry == physical_register_file[destination_registers[i][r]]
      IN  /\ entry.arch_reg_index = r
          /\ entry.valid => i \in completed

IInv ==
  /\ TypeOK /\ StagesApart /\ ReadyInOrder /\ RenameInOrder /\ NamesGiven
  /\ RegistersPartitioned /\ FrontendIsNewest /\ SourcesNamed /\ FileAgrees
  /\ NeverOutOfRegisters
----------------------------------------------------------------------------
(* Typing *)

LEMMA Window ==
  ASSUME TypeOK
  PROVE  /\ num_retired \in Nat /\ num_dispatched \in Nat /\ Head1 \in Nat
         /\ ROB \subseteq Instrs /\ ROB \subseteq Nat
         /\ \A i \in ROB : i + 1 \in 0..(MaxInstrs + 1)
         /\ Head1 \in 0..(MaxInstrs + 1)
BY CoreAssumption DEF TypeOK, ROB, Head1, Instrs

\* While a register is still to be named, the free queue has one.
LEMMA FreeLeft ==
  ASSUME TypeOK, NeverOutOfRegisters, StagesApart, stage = "rename", NEW r,
         \/ r \in UnnamedSources /\ ~isAllocated(r)
         \/ r \in UnnamedDestinations
  PROVE  /\ free_registers # <<>> /\ Head(free_registers) \in PhysRegs
         /\ Tail(free_registers) \in Seq(PhysRegs)
<1> DEFINE S == {s \in UnnamedSources : ~isAllocated(s)}
           D == UnnamedDestinations
<1>1. cursor \in Instrs
  BY Window DEF StagesApart
<1>2. S \subseteq ArchRegs /\ D \subseteq ArchRegs
  BY <1>1 DEF TypeOK, UnnamedSources, UnnamedDestinations
<1>3. IsFiniteSet(S) /\ IsFiniteSet(D)
  BY <1>2, FS_Subset, RegisterAssumption
<1>4. Cardinality(S) \in Nat /\ Cardinality(D) \in Nat
  BY <1>3, FS_CardinalityType
<1>5. S # {} \/ D # {}
  OBVIOUS
<1>6. Cardinality(S) # 0 \/ Cardinality(D) # 0
  BY <1>3, <1>5, FS_EmptySet
<1>7. Len(free_registers) >= Cardinality(S) + Cardinality(D)
  BY DEF NeverOutOfRegisters, count_free_registers
<1>8. free_registers \in Seq(PhysRegs)
  BY DEF TypeOK
<1>9. Len(free_registers) > 0
  <2> HIDE DEF S, D
  <2> QED BY <1>4, <1>6, <1>7, <1>8
<1> QED BY <1>8, <1>9

LEMMA InitTypeOK == Init => TypeOK
<1> SUFFICES ASSUME Init PROVE TypeOK
  OBVIOUS
<1> USE DEF Init, InitRegisters
<1>1. free_registers \in Seq(PhysRegs)
  BY RegisterAssumption DEF PhysRegs
<1>2. /\ frontend_RAT \in [RatIndex -> PhysRegs \cup {Unmapped}]
      /\ backend_RAT \in [RatIndex -> PhysRegs \cup {Unmapped}]
  OBVIOUS
<1>3. physical_register_file \in
       [PhysRegs -> [arch_reg_index : RatIndex \cup {FreedArchReg},
                     producing_instruction_id : Instrs \cup {NoProducer},
                     valid : BOOLEAN, busy : BOOLEAN]]
  BY RegisterAssumption DEF RatIndex, PhysRegs
<1>4. /\ num_dispatched \in 0..MaxInstrs /\ num_retired \in 0..num_dispatched
      /\ instr \in [Instrs -> [src : SUBSET ArchRegs, dst : SUBSET ArchRegs, load : BOOLEAN]]
      /\ delay \in [Instrs -> Delays]
  BY CoreAssumption DEF NoOp, Delays
<1>5. /\ source_registers \in [Instrs -> [ArchRegs -> PhysRegs \cup {Unmapped}]]
      /\ destination_registers \in [Instrs -> [ArchRegs -> PhysRegs \cup {Unmapped}]]
  BY DEF NoMap
<1>6. stage \in Stages /\ bandwidth \in Nat /\ cursor \in 0..(MaxInstrs + 1)
  BY CoreAssumption DEF Stages
<1> QED BY <1>1, <1>2, <1>3, <1>4, <1>5, <1>6 DEF TypeOK

\* What retirement finds in the head of the buffer.
LEMMA HeadDestination ==
  ASSUME IInv, NEW r \in ArchRegs, RetireDestination(r)
  PROVE  LET p == destination_registers[Head1][r]
         IN  /\ Head1 \in ROB /\ Head1 \in Instrs /\ Holds(Head1, r)
             /\ p \in PhysRegs /\ r \in RatIndex
             /\ physical_register_file[p].arch_reg_index = r
<1> USE DEF IInv
<1>1. Head1 \in ROB /\ r \in instr[Head1].dst \ committed /\ Head1 \in scheduled
  BY DEF RetireDestination, CanRetire, TypeOK
<1>2. Head1 \in Instrs
  BY <1>1, Window
<1>3. destination_registers[Head1][r] \in PhysRegs
  BY <1>1, <1>2 DEF TypeOK, NamesGiven
<1>4. Holds(Head1, r)
  BY <1>1, <1>3, RegisterAssumption DEF Holds, PhysRegs, Unmapped
<1> QED BY <1>1, <1>2, <1>3, <1>4, RegisterAssumption DEF FileAgrees, RatIndex

\* The types of the state the methods of the register allocator change.
LEMMA TypeOKRetire ==
  ASSUME IInv, NEW r \in ArchRegs, RetireDestination(r)
  PROVE  TypeOK'
<1> DEFINE p == destination_registers[Head1][r]
           old == backend_RAT[r]
<1>1. /\ p \in PhysRegs /\ r \in RatIndex /\ physical_register_file[p].arch_reg_index = r
  BY HeadDestination
<1>2. backend_RAT' = [backend_RAT EXCEPT ![r] = p]
  BY <1>1, Zenon DEF RetireDestination, retire_dest_register
<1>3. backend_RAT' \in [RatIndex -> PhysRegs \cup {Unmapped}]
  BY <1>1, <1>2 DEF IInv, TypeOK
<1>4. /\ free_registers' \in Seq(PhysRegs)
      /\ physical_register_file' \in
           [PhysRegs -> [arch_reg_index : RatIndex \cup {FreedArchReg},
                         producing_instruction_id : Instrs \cup {NoProducer},
                         valid : BOOLEAN, busy : BOOLEAN]]
  <2>1. CASE old = Unmapped
    BY <1>1, <2>1 DEF RetireDestination, retire_dest_register, IInv, TypeOK
  <2>2. CASE old # Unmapped
    <3>1. /\ free_registers' = Append(free_registers, old)
          /\ physical_register_file' =
               [physical_register_file EXCEPT ![old] =
                  [arch_reg_index |-> FreedArchReg, producing_instruction_id |-> NoProducer,
                   valid |-> FALSE, busy |-> FALSE]]
      BY <1>1, <2>2 DEF RetireDestination, retire_dest_register
    <3>2. old \in PhysRegs
      BY <1>1, <2>2 DEF IInv, TypeOK
    <3> QED BY <3>1, <3>2 DEF IInv, TypeOK
  <2> QED BY <2>1, <2>2
<1>5. committed' \subseteq ArchRegs
  BY DEF RetireDestination, IInv, TypeOK
<1> QED
  BY <1>3, <1>4, <1>5
  DEF RetireDestination, retire_dest_register, IInv, TypeOK, ROB, robVars

LEMMA TypeOKRename ==
  ASSUME IInv, NEW r \in ArchRegs, RenameSource(r) \/ RenameDestination(r)
  PROVE  TypeOK'
<1> USE DEF IInv, stageVars
<1>1. cursor \in Instrs /\ r \in RatIndex /\ stage = "rename"
  BY Window, RegisterAssumption DEF StagesApart, RenameSource, RenameDestination, RatIndex
<1>2. CASE RenameSource(r) /\ frontend_RAT[r] # Unmapped
  <2>1. UNCHANGED registerVars
    BY <1>2 DEF RenameSource, rename_src_register
  <2>2. PICK p \in PhysRegs :
          source_registers' = [source_registers EXCEPT ![cursor][r] = p]
    BY <1>2 DEF RenameSource
  <2>3. source_registers' \in [Instrs -> [ArchRegs -> PhysRegs \cup {Unmapped}]]
    BY <1>1, <2>2 DEF TypeOK
  <2> QED BY <1>2, <2>1, <2>3 DEF RenameSource, TypeOK, ROB, registerVars
<1>3. CASE RenameSource(r) /\ frontend_RAT[r] = Unmapped
  <2>0. /\ Head(free_registers) \in PhysRegs
        /\ Tail(free_registers) \in Seq(PhysRegs)
    BY <1>1, <1>3, FreeLeft DEF RenameSource, isAllocated
  <2>1. PICK p \in PhysRegs :
          /\ rename_src_register(r, p)
          /\ source_registers' = [source_registers EXCEPT ![cursor][r] = p]
    BY <1>3 DEF RenameSource
  <2>2. source_registers' \in [Instrs -> [ArchRegs -> PhysRegs \cup {Unmapped}]]
    BY <1>1, <2>1 DEF TypeOK
  <2>3. /\ free_registers' = Tail(free_registers)
        /\ frontend_RAT' = [frontend_RAT EXCEPT ![r] = p]
        /\ backend_RAT' = [backend_RAT EXCEPT ![r] = p]
        /\ physical_register_file' =
             [physical_register_file EXCEPT ![p] =
                [arch_reg_index |-> r, producing_instruction_id |-> NoProducer,
                 valid |-> TRUE, busy |-> TRUE]]
    BY <1>3, <2>1, Zenon DEF rename_src_register, Owned
  <2>4. /\ free_registers' \in Seq(PhysRegs)
        /\ frontend_RAT' \in [RatIndex -> PhysRegs \cup {Unmapped}]
        /\ backend_RAT' \in [RatIndex -> PhysRegs \cup {Unmapped}]
        /\ physical_register_file' \in
             [PhysRegs -> [arch_reg_index : RatIndex \cup {FreedArchReg},
                           producing_instruction_id : Instrs \cup {NoProducer},
                           valid : BOOLEAN, busy : BOOLEAN]]
    BY <1>1, <2>0, <2>1, <2>3 DEF TypeOK
  <2> QED BY <1>3, <2>2, <2>4 DEF RenameSource, TypeOK, ROB
<1>4. CASE RenameDestination(r)
  <2>0. /\ Head(free_registers) \in PhysRegs
        /\ Tail(free_registers) \in Seq(PhysRegs)
    BY <1>1, <1>4, FreeLeft DEF RenameDestination
  <2>1. PICK p \in PhysRegs :
          /\ rename_dest_register(r, cursor, p)
          /\ destination_registers' = [destination_registers EXCEPT ![cursor][r] = p]
    BY <1>4 DEF RenameDestination
  <2>2. destination_registers' \in [Instrs -> [ArchRegs -> PhysRegs \cup {Unmapped}]]
    BY <1>1, <2>1 DEF TypeOK
  <2>3. /\ free_registers' = Tail(free_registers)
        /\ frontend_RAT' = [frontend_RAT EXCEPT ![r] = p]
        /\ UNCHANGED backend_RAT
        /\ physical_register_file' =
             [physical_register_file EXCEPT ![p] =
                [arch_reg_index |-> r, producing_instruction_id |-> cursor,
                 valid |-> FALSE, busy |-> TRUE]]
    BY <2>1, Zenon DEF rename_dest_register, Owned
  <2>4. /\ free_registers' \in Seq(PhysRegs)
        /\ frontend_RAT' \in [RatIndex -> PhysRegs \cup {Unmapped}]
        /\ physical_register_file' \in
             [PhysRegs -> [arch_reg_index : RatIndex \cup {FreedArchReg},
                           producing_instruction_id : Instrs \cup {NoProducer},
                           valid : BOOLEAN, busy : BOOLEAN]]
    BY <1>1, <2>0, <2>1, <2>3 DEF TypeOK
  <2> QED BY <1>4, <2>2, <2>3, <2>4 DEF RenameDestination, TypeOK, ROB
<1> QED BY <1>2, <1>3, <1>4

\* The instructions that a stage picks are instructions of the buffer.
LEMMA PickedInWindow ==
  /\ Completing \subseteq ROB \cap executed
  /\ Completing \cap outstanding = {}
  /\ Executing \subseteq ROB \cap scheduled
BY DEF Completing, Executing, OldestOf

LEMMA DispatchableOps ==
  Dispatchable \subseteq [src : SUBSET ArchRegs, dst : SUBSET ArchRegs, load : BOOLEAN]
BY CoreAssumption DEF Dispatchable, Stripped

\* The remaining actions keep the types.
LEMMA TypeOKStep ==
  ASSUME IInv, [Next]_vars
  PROVE  TypeOK'
<1> USE CoreAssumption DEF IInv, robVars, stageVars, registerVars
<1>0. /\ ROB \subseteq Instrs /\ Head1 \in 0..(MaxInstrs + 1)
      /\ \A i \in ROB : i + 1 \in 0..(MaxInstrs + 1)
  BY Window
<1>1. ASSUME NEW r \in ArchRegs, RetireDestination(r)
      PROVE  TypeOK'
  BY <1>1, TypeOKRetire
<1>2. CASE RetireHead
  <2>1. Head1 \in ROB /\ Head1 \notin outstanding /\ Head1 \in Instrs
    BY <1>0, <1>2 DEF RetireHead, CanRetire, StagesApart, TypeOK
  <2>2. num_retired' \in 0..num_dispatched' /\ ROB' = ROB \ {Head1}
    BY <1>2, <2>1 DEF RetireHead, TypeOK, ROB, Head1
  <2>3. /\ instr' \in [Instrs -> [src : SUBSET ArchRegs, dst : SUBSET ArchRegs, load : BOOLEAN]]
        /\ source_registers' \in [Instrs -> [ArchRegs -> PhysRegs \cup {Unmapped}]]
        /\ destination_registers' \in [Instrs -> [ArchRegs -> PhysRegs \cup {Unmapped}]]
    BY <1>2, <2>1 DEF RetireHead, TypeOK, NoOp, NoMap
  <2>4. bandwidth' \in Nat
    BY <1>2 DEF RetireHead, TypeOK, CanRetire
  <2>5. /\ scheduled' = scheduled \ {Head1} /\ executed' = executed \ {Head1}
        /\ completed' = completed \ {Head1} /\ outstanding' = outstanding
        /\ committed' = {}
    BY <1>2 DEF RetireHead
  <2>6. /\ completed' \subseteq executed' /\ executed' \subseteq scheduled'
        /\ scheduled' \subseteq ROB' /\ outstanding' \subseteq ROB'
        /\ committed' \subseteq ArchRegs
    BY <2>1, <2>2, <2>5 DEF TypeOK
  <2> QED BY <1>2, <2>2, <2>3, <2>4, <2>6 DEF RetireHead, TypeOK
<1>3. CASE EndRetire
  BY <1>3 DEF EndRetire, TypeOK, Enter, Stages, ROB
<1>4. CASE CompleteInflightInstruction
  <2>1. /\ completed' \subseteq executed'
        /\ stage' \in Stages /\ bandwidth' \in Nat
    BY <1>4, PickedInWindow DEF CompleteInflightInstruction, TypeOK, Enter, Stages
  <2>2. PICK P :
          /\ physical_register_file' =
               [p \in PhysRegs |->
                  IF p \in P THEN [physical_register_file[p] EXCEPT !.valid = TRUE]
                             ELSE physical_register_file[p]]
          /\ UNCHANGED <<frontend_RAT, backend_RAT, free_registers>>
    BY <1>4, Zenon DEF CompleteInflightInstruction, complete_dest_registers
  <2>3. physical_register_file' \in
           [PhysRegs -> [arch_reg_index : RatIndex \cup {FreedArchReg},
                         producing_instruction_id : Instrs \cup {NoProducer},
                         valid : BOOLEAN, busy : BOOLEAN]]
    BY <2>2, ZenonT(60) DEF TypeOK
  <2> QED BY <1>4, <2>1, <2>2, <2>3 DEF CompleteInflightInstruction, TypeOK, ROB
<1>5. CASE ExecuteInstruction
  <2>1. executed' = executed \cup Executing /\ executed' \subseteq scheduled'
    BY <1>5, PickedInWindow DEF ExecuteInstruction, TypeOK
  <2>2. delay' \in [Instrs -> Delays]
    BY <1>5 DEF ExecuteInstruction, TypeOK, Latency, Delays
  <2>3. stage' \in Stages /\ bandwidth' \in Nat /\ cursor' \in 0..(MaxInstrs + 1)
    BY <1>0, <1>5 DEF ExecuteInstruction, Enter, Stages
  <2> QED BY <1>5, <2>1, <2>2, <2>3 DEF ExecuteInstruction, TypeOK, ROB
<1>6. CASE SkipInstruction
  BY <1>0, <1>6 DEF SkipInstruction, VisitNext, CanVisit, TypeOK, Stages, ROB
<1>7. CASE StartRenaming
  BY <1>7 DEF StartRenaming, TypeOK, Stages, ROB
<1>8. ASSUME NEW r \in ArchRegs, RenameSource(r) \/ RenameDestination(r)
      PROVE  TypeOK'
  BY <1>8, TypeOKRename
<1>9. CASE EndRenaming
  <2>1. cursor \in ROB /\ bandwidth > 0
    BY <1>9 DEF EndRenaming, StagesApart
  <2> QED BY <1>0, <1>9, <2>1, SMTT(60) DEF EndRenaming, VisitNext, TypeOK, Stages, ROB
<1>10. CASE EndSchedule
  BY <1>10 DEF EndSchedule, Enter, TypeOK, Stages, ROB
<1>11. ASSUME NEW returned, MemoryReturn(returned)
       PROVE  TypeOK'
  BY <1>11 DEF MemoryReturn, Enter, TypeOK, Stages, ROB
<1>12. ASSUME NEW op \in Dispatchable, DispatchInstruction(op)
       PROVE  TypeOK'
  <2> DEFINE i == num_dispatched + 1
  <2>1. i \in Instrs /\ num_dispatched' = i /\ ROB' = ROB \cup {i}
    BY <1>12 DEF DispatchInstruction, TypeOK, Instrs, ROB
  <2>2. num_retired' \in 0..num_dispatched' /\ num_dispatched' \in 0..MaxInstrs
    BY <1>12 DEF DispatchInstruction, TypeOK
  <2>3. instr' \in [Instrs -> [src : SUBSET ArchRegs, dst : SUBSET ArchRegs, load : BOOLEAN]]
    BY <1>12, DispatchableOps DEF DispatchInstruction, TypeOK
  <2>4. delay' \in [Instrs -> Delays]
    <3>1. delay' = [delay EXCEPT ![i] = Latency(SCHEDULING_LATENCY)]
      BY <1>12, Zenon DEF DispatchInstruction
    <3>2. Latency(SCHEDULING_LATENCY) \in Delays
      BY DEF Latency, Delays
    <3> QED BY <3>1, <3>2 DEF TypeOK
  <2>5. outstanding' \subseteq ROB' /\ scheduled' \subseteq ROB'
    BY <1>12, <2>1 DEF DispatchInstruction, TypeOK
  <2>6. bandwidth' \in Nat
    BY <1>12 DEF DispatchInstruction, TypeOK
  <2> QED BY <1>12, <2>2, <2>3, <2>4, <2>5, <2>6 DEF DispatchInstruction, TypeOK
<1>13. CASE EndCycle
  <2>1. delay' \in [Instrs -> Delays]
    BY <1>13 DEF EndCycle, TypeOK, Delays
  <2> QED BY <1>13, <2>1 DEF EndCycle, Enter, TypeOK, Stages, ROB
<1>14. CASE UNCHANGED vars
  BY <1>14 DEF vars, TypeOK, ROB
<1> QED
  BY <1>1, <1>2, <1>3, <1>4, <1>5, <1>6, <1>7, <1>8, <1>9, <1>10, <1>11, <1>12, <1>13,
     <1>14 DEF Next

----------------------------------------------------------------------------
(* The actions that move no physical register *)

\* What is not scheduled and not being renamed has no names.
LEMMA NoNames ==
  ASSUME IInv, NEW i \in Instrs, i \notin scheduled, ~Naming(i), NEW r \in ArchRegs
  PROVE  source_registers[i][r] = Unmapped /\ destination_registers[i][r] = Unmapped
BY DEF IInv, NamesGiven

LEMMA SameHolders ==
  ASSUME IInv,
         UNCHANGED <<frontend_RAT, backend_RAT, free_registers, destination_registers,
                     num_retired, committed>>,
         \/ num_dispatched' = num_dispatched
         \/ num_dispatched' = num_dispatched + 1 /\ num_dispatched' \in Instrs
              /\ stage # "rename"
  PROVE  /\ \A i \in Int : \A r \in ArchRegs : Holds(i, r)' <=> Holds(i, r)
         /\ \A i \in Int : \A r \in ArchRegs : OlderWriters(i, r)' = OlderWriters(i, r)
         /\ \A i \in Int : \A r \in ArchRegs : \A p : Names(i, r, p)' <=> Names(i, r, p)
         /\ RegistersPartitioned' /\ FrontendIsNewest'
         /\ UNCHANGED source_registers => SourcesNamed'
<1> USE DEF IInv
<1>0. num_retired \in Nat /\ num_dispatched \in Nat /\ ROB \subseteq Instrs /\ Head1' = Head1
  BY Window DEF Head1
<1>1. ASSUME NEW i \in Int, NEW r \in ArchRegs
      PROVE  Holds(i, r)' <=> Holds(i, r)
  <2>1. CASE num_dispatched' = num_dispatched
    BY <2>1 DEF Holds, ROB, Head1
  <2>2. CASE num_dispatched' = num_dispatched + 1 /\ num_dispatched' \in Instrs
               /\ stage # "rename"
    <3>1. destination_registers[num_dispatched + 1][r] = Unmapped
      BY <1>0, <2>2, NoNames DEF Naming, TypeOK, ROB
    <3> QED BY <1>0, <2>2, <3>1 DEF Holds, ROB, Head1
  <2> QED BY <2>1, <2>2
<1>2. ASSUME NEW i \in Int, NEW r \in ArchRegs
      PROVE  OlderWriters(i, r)' = OlderWriters(i, r)
  BY <1>0, <1>1 DEF OlderWriters, ROB, Holds
<1>3. RegistersPartitioned'
  BY <1>0, <1>1 DEF RegistersPartitioned, FreeSet, Committed, Holds, ROB
<1>4. ASSUME NEW i \in Int, NEW r \in ArchRegs, NEW p
      PROVE  Names(i, r, p)' <=> Names(i, r, p)
  BY <1>2 DEF Names
<1>5. ASSUME NEW r \in ArchRegs
      PROVE  OlderWriters(num_dispatched' + 1, r) = OlderWriters(num_dispatched + 1, r)
  BY <1>0 DEF OlderWriters, ROB
<1>6. FrontendIsNewest'
  <2> SUFFICES ASSUME NEW r \in ArchRegs
               PROVE  Names(num_dispatched + 1, r, frontend_RAT[r])'
    BY DEF FrontendIsNewest
  <2>1. Names(num_dispatched + 1, r, frontend_RAT[r])
    BY DEF FrontendIsNewest
  <2>2. OlderWriters(num_dispatched + 1, r)' = OlderWriters(num_dispatched' + 1, r)
    BY <1>0, <1>2
  <2> QED BY <1>5, <2>1, <2>2 DEF Names
<1>7. UNCHANGED source_registers => SourcesNamed'
  <2>1. Instrs \subseteq Int
    BY DEF Instrs
  <2> QED BY <1>0, <1>4, <2>1 DEF SourcesNamed
<1> QED BY <1>1, <1>2, <1>3, <1>4, <1>6, <1>7

\* FileAgrees depends on the owners, the register file and what has completed.
LEMMA SameFile ==
  ASSUME FileAgrees,
         \A i \in Int : \A r \in ArchRegs : Holds(i, r)' <=> Holds(i, r),
         UNCHANGED <<destination_registers, physical_register_file>>,
         completed \subseteq completed'
  PROVE  FileAgrees'
BY DEF FileAgrees, ROB, Holds

LEMMA EndRetireStep == IInv /\ EndRetire => IInv'
<1> SUFFICES ASSUME IInv, EndRetire PROVE IInv'
  OBVIOUS
<1> USE DEF EndRetire, Enter, registerVars, robVars, stageVars
<1>1. TypeOK'
  BY TypeOKStep DEF Next
<1>2. committed = {} /\ committed' = {}
  BY DEF IInv, StagesApart
<1>3. RegistersPartitioned' /\ FrontendIsNewest' /\ SourcesNamed' /\ FileAgrees'
  BY SameHolders, SameFile DEF IInv
<1>4. StagesApart'
  BY <1>2 DEF IInv, StagesApart
<1>5. ReadyInOrder' /\ RenameInOrder'
  BY DEF IInv, ReadyInOrder, RenameInOrder, ROB
<1>6. NamesGiven'
  BY DEF IInv, NamesGiven, Naming
<1>7. NeverOutOfRegisters'
  BY DEF NeverOutOfRegisters
<1> QED BY <1>1, <1>3, <1>4, <1>5, <1>6, <1>7 DEF IInv

LEMMA CompleteStep == IInv /\ CompleteInflightInstruction => IInv'
<1> SUFFICES ASSUME IInv, CompleteInflightInstruction PROVE IInv'
  OBVIOUS
<1> USE DEF CompleteInflightInstruction, Enter
<1>1. TypeOK'
  BY TypeOKStep DEF Next
<1>2. /\ UNCHANGED <<frontend_RAT, backend_RAT, free_registers>>
      /\ physical_register_file' =
           [p \in PhysRegs |->
              IF p \in UNION {{destination_registers[i][r] : r \in instr[i].dst} :
                                i \in Completing}
              THEN [physical_register_file[p] EXCEPT !.valid = TRUE]
              ELSE physical_register_file[p]]
  BY DEF complete_dest_registers
<1>3. /\ RegistersPartitioned' /\ FrontendIsNewest' /\ SourcesNamed'
      /\ \A i \in Int : \A r \in ArchRegs : Holds(i, r)' <=> Holds(i, r)
  BY <1>2, SameHolders
<1>4. FileAgrees'
  <2> SUFFICES ASSUME NEW i \in ROB', NEW r \in ArchRegs, Holds(i, r)'
               PROVE  LET entry == physical_register_file'[destination_registers'[i][r]]
                      IN  /\ entry.arch_reg_index = r
                          /\ entry.valid => i \in completed'
    BY DEF FileAgrees
  <2> DEFINE p == destination_registers[i][r]
  <2>1. i \in ROB /\ i \in Int /\ i \in Instrs /\ ROB \subseteq Instrs
    BY Window DEF ROB, Instrs, IInv
  <2>2. Holds(i, r) /\ p \in PhysRegs
    BY <1>3, <2>1 DEF Holds, IInv, TypeOK
  <2>3. /\ physical_register_file[p].arch_reg_index = r
        /\ physical_register_file[p].valid => i \in completed
    BY <2>1, <2>2 DEF IInv, FileAgrees
  <2>4. /\ physical_register_file'[p].arch_reg_index = physical_register_file[p].arch_reg_index
        /\ physical_register_file'[p].valid =>
             \/ physical_register_file[p].valid
             \/ \E j \in Completing : \E s \in instr[j].dst : destination_registers[j][s] = p
    BY <1>2, <2>2 DEF IInv, TypeOK
  <2>5. ASSUME NEW j \in Completing, NEW s \in instr[j].dst, destination_registers[j][s] = p
        PROVE  j = i
    <3>1. j \in ROB /\ j \in Instrs /\ s \in ArchRegs
      BY <2>1, PickedInWindow DEF IInv, TypeOK
    <3>2. j \notin completed /\ committed = {}
      BY DEF Completing, OldestOf, IInv, StagesApart
    <3>3. Holds(j, s)
      BY <2>5, <2>2, <3>1, <3>2, RegisterAssumption DEF Holds, PhysRegs, Unmapped
    <3> QED BY <2>1, <2>2, <2>5, <3>1, <3>3 DEF IInv, RegistersPartitioned
  <2> QED BY <2>3, <2>4, <2>5
<1>5. StagesApart'
  BY PickedInWindow DEF IInv, StagesApart, TypeOK
<1>6. ReadyInOrder' /\ RenameInOrder'
  BY DEF IInv, ReadyInOrder, RenameInOrder, ROB
<1>7. NamesGiven'
  BY DEF IInv, NamesGiven, Naming
<1>8. NeverOutOfRegisters'
  BY DEF NeverOutOfRegisters
<1> QED BY <1>1, <1>3, <1>4, <1>5, <1>6, <1>7, <1>8 DEF IInv

LEMMA ExecuteStep == IInv /\ ExecuteInstruction => IInv'
<1> SUFFICES ASSUME IInv, ExecuteInstruction PROVE IInv'
  OBVIOUS
<1> USE DEF ExecuteInstruction, Enter, registerVars
<1>1. TypeOK'
  BY TypeOKStep DEF Next
<1>2. RegistersPartitioned' /\ FrontendIsNewest' /\ SourcesNamed' /\ FileAgrees'
  BY SameHolders, SameFile DEF IInv
<1>3. \A i \in ROB \ scheduled : delay'[i] = delay[i]
  BY PickedInWindow, Window DEF IInv
<1>4. ReadyInOrder' /\ RenameInOrder'
  BY <1>3 DEF IInv, ReadyInOrder, RenameInOrder, ROB
<1>5. StagesApart'
  BY Window DEF IInv, StagesApart, ROB, Head1
<1>6. NamesGiven'
  BY DEF IInv, NamesGiven, Naming
<1>7. NeverOutOfRegisters'
  BY DEF NeverOutOfRegisters
<1> QED BY <1>1, <1>2, <1>4, <1>5, <1>6, <1>7 DEF IInv

\* Every older instruction is scheduled when one is about to be renamed.
LEMMA OlderScheduled ==
  ASSUME IInv, stage = "schedule", cursor \in ROB \ scheduled, delay[cursor] = 0,
         NEW j \in ROB, j < cursor
  PROVE  j \in scheduled
<1> SUFFICES ASSUME j \notin scheduled PROVE FALSE
  OBVIOUS
<1> USE DEF IInv
<1>1. delay[j] # 0 /\ delay[j] \in Nat
  BY Window, CoreAssumption, SMTT(60) DEF StagesApart, TypeOK, Delays
<1>2. delay[j] <= delay[cursor]
  BY Window DEF ReadyInOrder
<1> QED BY <1>1, <1>2

LEMMA SkipStep == IInv /\ SkipInstruction => IInv'
<1> SUFFICES ASSUME IInv, SkipInstruction PROVE IInv'
  OBVIOUS
<1> USE DEF SkipInstruction, VisitNext, registerVars, robVars
<1>1. TypeOK'
  BY TypeOKStep DEF Next
<1>2. RegistersPartitioned' /\ FrontendIsNewest' /\ SourcesNamed' /\ FileAgrees'
  BY SameHolders, SameFile DEF IInv
<1>3. ReadyInOrder' /\ RenameInOrder'
  BY DEF IInv, ReadyInOrder, RenameInOrder, ROB
<1>4. StagesApart'
  <2>1. \A i \in ROB \ scheduled : i < cursor + 1 => delay[i] # 0
    BY Window DEF IInv, StagesApart, CanVisit, WantsRenaming
  <2>2. committed' = {} /\ ROB' = ROB
    BY DEF IInv, StagesApart, ROB
  <2> QED BY <2>1, <2>2 DEF IInv, StagesApart
<1>5. NamesGiven'
  BY DEF IInv, NamesGiven, Naming
<1>6. NeverOutOfRegisters'
  BY DEF NeverOutOfRegisters
<1> QED BY <1>1, <1>2, <1>3, <1>4, <1>5, <1>6 DEF IInv

LEMMA StartRenamingStep == IInv /\ StartRenaming => IInv'
<1> SUFFICES ASSUME IInv, StartRenaming PROVE IInv'
  OBVIOUS
<1> USE DEF StartRenaming, registerVars, robVars
<1>1. TypeOK'
  BY TypeOKStep DEF Next
<1>2. RegistersPartitioned' /\ FrontendIsNewest' /\ SourcesNamed' /\ FileAgrees'
  BY SameHolders, SameFile DEF IInv
<1>3. ReadyInOrder' /\ RenameInOrder'
  BY DEF IInv, ReadyInOrder, RenameInOrder, ROB
<1>4. StagesApart'
  BY OlderScheduled DEF IInv, StagesApart, CanVisit, WantsRenaming, ROB
<1>5. cursor \in ROB /\ cursor \in Instrs /\ cursor \notin scheduled /\ ~Naming(cursor)
  BY Window DEF IInv, CanVisit, WantsRenaming, Naming
<1>6. \A r \in ArchRegs : source_registers[cursor][r] = Unmapped
                          /\ destination_registers[cursor][r] = Unmapped
  BY <1>5, NoNames
<1>7. instr[cursor].src \subseteq ArchRegs /\ instr[cursor].dst \subseteq ArchRegs
  BY <1>5 DEF IInv, TypeOK
<1>8. UnnamedSources = instr[cursor].src /\ UnnamedDestinations = instr[cursor].dst
  BY <1>6, <1>7 DEF UnnamedSources, UnnamedDestinations
<1>9. NamesGiven'
  BY <1>6 DEF IInv, NamesGiven, Naming
<1>10. NeverOutOfRegisters'
  <2>1. count_free_registers >=
          Cardinality({r \in instr[cursor].src : ~isAllocated(r)})
            + Cardinality(instr[cursor].dst)
    BY <1>5 DEF CanVisit, EnoughRegisters, RegistersNeeded, SourceNames
  <2>2. UnnamedSources' = instr[cursor].src /\ UnnamedDestinations' = instr[cursor].dst
    BY <1>8 DEF UnnamedSources, UnnamedDestinations
  <2>3. \A r : isAllocated(r)' <=> isAllocated(r)
    BY DEF isAllocated
  <2> QED BY <2>1, <2>2, <2>3 DEF NeverOutOfRegisters, count_free_registers
<1> QED BY <1>1, <1>2, <1>3, <1>4, <1>9, <1>10 DEF IInv

LEMMA EndRenamingStep == IInv /\ EndRenaming => IInv'
<1> SUFFICES ASSUME IInv, EndRenaming PROVE IInv'
  OBVIOUS
<1> USE DEF EndRenaming, VisitNext, registerVars
<1>1. TypeOK'
  BY TypeOKStep DEF Next
<1>2. RegistersPartitioned' /\ FrontendIsNewest' /\ SourcesNamed' /\ FileAgrees'
  BY SameHolders, SameFile DEF IInv
<1>3. ReadyInOrder' /\ RenameInOrder'
  BY Window DEF IInv, ReadyInOrder, RenameInOrder, ROB, StagesApart
<1>4. StagesApart'
  BY Window DEF IInv, StagesApart, ROB
<1>5. NamesGiven'
  <2>1. \A r \in ArchRegs :
          /\ r \in instr[cursor].src => source_registers[cursor][r] # Unmapped
          /\ r \in instr[cursor].dst => destination_registers[cursor][r] # Unmapped
    BY DEF UnnamedSources, UnnamedDestinations
  <2> QED BY <2>1 DEF IInv, NamesGiven, Naming
<1>6. NeverOutOfRegisters'
  BY DEF NeverOutOfRegisters
<1> QED BY <1>1, <1>2, <1>3, <1>4, <1>5, <1>6 DEF IInv

LEMMA EndScheduleStep == IInv /\ EndSchedule => IInv'
<1> SUFFICES ASSUME IInv, EndSchedule PROVE IInv'
  OBVIOUS
<1> USE DEF EndSchedule, Enter, registerVars, robVars
<1>1. TypeOK'
  BY TypeOKStep DEF Next
<1>2. RegistersPartitioned' /\ FrontendIsNewest' /\ SourcesNamed' /\ FileAgrees'
  BY SameHolders, SameFile DEF IInv
<1>3. ReadyInOrder' /\ RenameInOrder'
  BY DEF IInv, ReadyInOrder, RenameInOrder, ROB
<1>4. StagesApart'
  BY DEF IInv, StagesApart
<1>5. NamesGiven'
  BY DEF IInv, NamesGiven, Naming
<1>6. NeverOutOfRegisters'
  BY DEF NeverOutOfRegisters
<1> QED BY <1>1, <1>2, <1>3, <1>4, <1>5, <1>6 DEF IInv

LEMMA MemoryReturnStep ==
  ASSUME IInv, NEW returned \in SUBSET (outstanding \cap executed), MemoryReturn(returned)
  PROVE  IInv'
<1> USE DEF MemoryReturn, Enter, registerVars
<1>1. TypeOK'
  BY TypeOKStep DEF Next
<1>2. RegistersPartitioned' /\ FrontendIsNewest' /\ SourcesNamed' /\ FileAgrees'
  BY SameHolders, SameFile DEF IInv
<1>3. ReadyInOrder' /\ RenameInOrder'
  BY DEF IInv, ReadyInOrder, RenameInOrder, ROB
<1>4. StagesApart'
  BY DEF IInv, StagesApart
<1>5. NamesGiven'
  BY DEF IInv, NamesGiven, Naming
<1>6. NeverOutOfRegisters'
  BY DEF NeverOutOfRegisters
<1> QED BY <1>1, <1>2, <1>3, <1>4, <1>5, <1>6 DEF IInv

LEMMA DispatchStep ==
  ASSUME IInv, NEW op \in Dispatchable, DispatchInstruction(op)
  PROVE  IInv'
<1> DEFINE i == num_dispatched + 1
<1> USE DEF DispatchInstruction, registerVars
<1>1. TypeOK'
  BY TypeOKStep DEF Next
<1>2. /\ i \in Instrs /\ i \notin ROB /\ num_dispatched' = i /\ ROB' = ROB \cup {i}
      /\ \A j \in ROB : j < i
      /\ i \notin scheduled /\ i \notin executed /\ i \notin completed
  <2>1. num_dispatched' = i /\ num_retired' = num_retired /\ i \in Instrs
    BY CoreAssumption DEF IInv, TypeOK, Instrs
  <2>2. i \notin ROB /\ ROB' = ROB \cup {i} /\ \A j \in ROB : j < i
    BY <2>1, Window DEF IInv, TypeOK, ROB
  <2> QED BY <2>1, <2>2 DEF IInv, TypeOK
<1>3. RegistersPartitioned' /\ FrontendIsNewest' /\ SourcesNamed' /\ FileAgrees'
  BY <1>2, SameHolders, SameFile DEF IInv
<1>4. /\ delay' = [delay EXCEPT ![i] = Latency(SCHEDULING_LATENCY)]
      /\ delay'[i] = Latency(SCHEDULING_LATENCY)
      /\ \A j \in ROB : delay'[j] = delay[j]
  <2>1. delay' = [delay EXCEPT ![i] = Latency(SCHEDULING_LATENCY)]
    BY Zenon
  <2> QED BY <1>2, <2>1 DEF IInv, TypeOK
<1>5. /\ delay'[i] <= SCHEDULING_LATENCY /\ (warmup' => delay'[i] = 0)
      /\ \A j \in ROB \ scheduled : delay'[j] <= delay'[i]
  <2>1. CASE warmup
    BY <1>4, <2>1, CoreAssumption DEF Latency, IInv, ReadyInOrder
  <2>2. CASE ~warmup
    BY <1>4, <2>2, CoreAssumption DEF Latency, IInv, ReadyInOrder
  <2> QED BY <2>1, <2>2
<1>6. ReadyInOrder'
  <2>1. ASSUME NEW j \in ROB' \ scheduled'
        PROVE  delay'[j] <= SCHEDULING_LATENCY /\ (warmup' => delay'[j] = 0)
    BY <1>2, <1>4, <1>5 DEF IInv, ReadyInOrder
  <2>2. ASSUME NEW j \in ROB' \ scheduled', NEW k \in ROB' \ scheduled', j <= k
        PROVE  delay'[j] <= delay'[k]
    <3>1. CASE k = i
      BY <1>2, <1>4, <1>5, <3>1, <1>1 DEF TypeOK, Delays
    <3>2. CASE k # i
      <4>1. k \in ROB \ scheduled /\ j \in ROB \ scheduled
        BY <1>2, <2>2, <3>2 DEF ROB
      <4> QED BY <1>4, <2>2, <4>1 DEF IInv, ReadyInOrder
    <3> QED BY <3>1, <3>2
  <2> QED BY <2>1, <2>2 DEF ReadyInOrder
<1>7. RenameInOrder'
  BY <1>2, Window DEF IInv, RenameInOrder, ROB, TypeOK
<1>8. StagesApart'
  BY <1>2 DEF IInv, StagesApart
<1>9. NamesGiven'
  <2>1. /\ \A j \in Instrs \ {i} : instr'[j] = instr[j]
        /\ scheduled' = scheduled /\ ~Naming(i)
    BY DEF Naming, IInv, TypeOK
  <2>2. \A r \in ArchRegs : source_registers[i][r] = Unmapped
                            /\ destination_registers[i][r] = Unmapped
    BY <1>2, <2>1, NoNames
  <2> QED BY <1>2, <2>1, <2>2 DEF IInv, NamesGiven, Naming
<1>10. NeverOutOfRegisters'
  BY DEF NeverOutOfRegisters
<1> QED BY <1>1, <1>3, <1>6, <1>7, <1>8, <1>9, <1>10 DEF IInv

LEMMA EndCycleStep == IInv /\ EndCycle => IInv'
<1> SUFFICES ASSUME IInv, EndCycle PROVE IInv'
  OBVIOUS
<1> USE DEF EndCycle, Enter, registerVars
<1>1. TypeOK'
  BY TypeOKStep DEF Next
<1>2. RegistersPartitioned' /\ FrontendIsNewest' /\ SourcesNamed' /\ FileAgrees'
  BY SameHolders, SameFile DEF IInv
<1>3. \A i \in ROB : /\ delay[i] \in Nat
                     /\ delay'[i] = IF delay[i] = 0 THEN 0 ELSE delay[i] - 1
  BY Window, CoreAssumption, SMTT(60) DEF IInv, TypeOK, Delays
<1>4. RenameInOrder' /\ ROB' = ROB
  BY DEF IInv, RenameInOrder, ROB
<1>5. ReadyInOrder'
  <2>1. warmup' => warmup
    OBVIOUS
  <2>2. \A i, j \in ROB \ scheduled : i <= j => delay'[i] <= delay'[j]
    BY <1>3 DEF IInv, ReadyInOrder
  <2>3. \A i \in ROB \ scheduled : delay'[i] <= SCHEDULING_LATENCY /\ (warmup' => delay'[i] = 0)
    BY <1>3, <2>1, CoreAssumption DEF IInv, ReadyInOrder
  <2> QED BY <1>4, <2>2, <2>3 DEF ReadyInOrder
<1>6. StagesApart'
  BY DEF IInv, StagesApart
<1>7. NamesGiven'
  BY DEF IInv, NamesGiven, Naming
<1>8. NeverOutOfRegisters'
  BY DEF NeverOutOfRegisters
<1> QED BY <1>1, <1>2, <1>4, <1>5, <1>6, <1>7, <1>8 DEF IInv

----------------------------------------------------------------------------
(* Retirement *)

LEMMA RetireHeadStep == IInv /\ RetireHead => IInv'
<1> SUFFICES ASSUME IInv, RetireHead PROVE IInv'
  OBVIOUS
<1> USE DEF RetireHead, registerVars
<1>1. TypeOK'
  BY TypeOKStep DEF Next
<1>2. /\ Head1 \in ROB /\ Head1 \in Instrs /\ Head1 \in Nat
      /\ Head1' = Head1 + 1 /\ ROB' = ROB \ {Head1} /\ ROB \subseteq Instrs
  BY Window DEF CanRetire, IInv, TypeOK, ROB, Head1
<1>3. /\ source_registers' = [source_registers EXCEPT ![Head1] = NoMap]
      /\ destination_registers' = [destination_registers EXCEPT ![Head1] = NoMap]
      /\ instr' = [instr EXCEPT ![Head1] = NoOp]
  OBVIOUS
<1>4. \A r \in ArchRegs : source_registers'[Head1][r] = Unmapped
                          /\ destination_registers'[Head1][r] = Unmapped
  BY <1>2, <1>3 DEF IInv, TypeOK, NoMap
<1>5. \A i \in Instrs \ {Head1} : /\ source_registers'[i] = source_registers[i]
                                  /\ destination_registers'[i] = destination_registers[i]
                                  /\ instr'[i] = instr[i]
  BY <1>3 DEF IInv, TypeOK
<1>6. \A r \in ArchRegs : ~Holds(Head1, r)
  BY <1>2 DEF IInv, NamesGiven, Holds
<1>7. \A i \in Int : \A r \in ArchRegs : Holds(i, r)' <=> Holds(i, r)
  BY <1>2, <1>4, <1>5, <1>6 DEF Holds, Instrs
<1>8. ASSUME NEW i \in Int, NEW r \in ArchRegs
      PROVE  OlderWriters(i, r)' = OlderWriters(i, r)
  BY <1>7 DEF OlderWriters, Holds, ROB
<1>9. ASSUME NEW i \in Int, NEW r \in ArchRegs, NEW p
      PROVE  Names(i, r, p)' <=> Names(i, r, p)
  <2>1. \A j \in OlderWriters(i, r) : destination_registers'[j][r] = destination_registers[j][r]
    BY <1>2, <1>5, <1>6 DEF OlderWriters
  <2> QED BY <1>8, <2>1 DEF Names
<1>10. RegistersPartitioned'
  <2>1. \A i \in ROB' : destination_registers'[i] = destination_registers[i]
    BY <1>2, <1>5
  <2>2. FreeSet' = FreeSet /\ Committed' = Committed
    BY DEF FreeSet, Committed
  <2>3. \A i \in ROB : \A r \in ArchRegs : Holds(i, r) => i \in ROB' /\ Holds(i, r)'
    BY <1>2, <1>6, <1>7 DEF Instrs
  <2>4. \A i \in ROB' : \A r \in ArchRegs : Holds(i, r)' => i \in ROB /\ Holds(i, r)
    BY <1>2, <1>7 DEF Instrs
  <2> QED BY <2>1, <2>2, <2>3, <2>4 DEF IInv, RegistersPartitioned
<1>11. FrontendIsNewest'
  <2>1. num_dispatched + 1 \in Int
    BY Window DEF IInv
  <2> QED BY <1>9, <2>1 DEF IInv, FrontendIsNewest
<1>12. SourcesNamed'
  <2> SUFFICES ASSUME NEW i \in Instrs, NEW r \in ArchRegs,
                      source_registers'[i][r] # Unmapped
               PROVE  Names(i, r, source_registers[i][r])'
    BY DEF SourcesNamed
  <2>1. i # Head1 /\ source_registers'[i][r] = source_registers[i][r] /\ i \in Int
    BY <1>4, <1>5 DEF Instrs
  <2>2. Names(i, r, source_registers[i][r])
    BY <2>1 DEF IInv, SourcesNamed
  <2>3. \A j \in OlderWriters(i, r) : destination_registers'[j][r] = destination_registers[j][r]
    BY <1>2, <1>5, <1>6 DEF OlderWriters
  <2> QED BY <1>8, <2>1, <2>2, <2>3 DEF Names
<1>13. FileAgrees'
  BY <1>2, <1>5, <1>7 DEF IInv, FileAgrees, Instrs
<1>14. StagesApart'
  BY DEF IInv, StagesApart
<1>15. ReadyInOrder' /\ RenameInOrder'
  BY <1>2 DEF IInv, ReadyInOrder, RenameInOrder
<1>16. NamesGiven'
  BY <1>2, <1>4, <1>5 DEF IInv, NamesGiven, Naming
<1>17. NeverOutOfRegisters'
  BY DEF NeverOutOfRegisters
<1> QED
  BY <1>1, <1>10, <1>11, <1>12, <1>13, <1>14, <1>15, <1>16, <1>17 DEF IInv

LEMMA RetireDestinationStep ==
  ASSUME IInv, NEW r \in ArchRegs, RetireDestination(r)
  PROVE  IInv'
<1> DEFINE h == Head1
           p == destination_registers[h][r]
           old == backend_RAT[r]
<1> USE DEF RetireDestination, robVars
<1>1. TypeOK'
  BY TypeOKStep DEF Next
<1>2. /\ h \in ROB /\ h \in Instrs /\ Holds(h, r) /\ p \in PhysRegs /\ r \in RatIndex
      /\ physical_register_file[p].arch_reg_index = r
  BY HeadDestination
<1>3. /\ backend_RAT' = [backend_RAT EXCEPT ![r] = p]
      /\ frontend_RAT' = frontend_RAT
      /\ old = Unmapped => UNCHANGED <<free_registers, physical_register_file>>
      /\ old # Unmapped =>
           /\ free_registers' = Append(free_registers, old)
           /\ \A q \in PhysRegs \ {old} :
                physical_register_file'[q] = physical_register_file[q]
  BY <1>2 DEF retire_dest_register, IInv, TypeOK
<1>4. /\ backend_RAT'[r] = p
      /\ \A s \in ArchRegs \ {r} : backend_RAT'[s] = backend_RAT[s]
  BY <1>2, <1>3 DEF IInv, TypeOK
<1>5. /\ committed' = committed \cup {r} /\ Head1' = h /\ ROB' = ROB
      /\ UNCHANGED <<destination_registers, source_registers, num_dispatched>>
  BY DEF Head1, ROB
<1>6. \A i \in Int : \A s \in ArchRegs : Holds(i, s)' <=> Holds(i, s) /\ ~(i = h /\ s = r)
  BY <1>5 DEF Holds
<1>7. old # Unmapped => old \in PhysRegs
  BY <1>2 DEF IInv, TypeOK
<1>8. FreeSet' = FreeSet \cup ({old} \ {Unmapped})
  <2>1. CASE old = Unmapped
    BY <1>3, <2>1 DEF FreeSet
  <2>2. CASE old # Unmapped
    <3>1. /\ free_registers \in Seq(PhysRegs) /\ old \in PhysRegs
          /\ free_registers' = Append(free_registers, old)
      BY <1>3, <1>7, <2>2 DEF IInv, TypeOK
    <3> QED BY <2>2, <3>1 DEF FreeSet
  <2> QED BY <2>1, <2>2
<1>9. Committed' = Committed \cup {r} /\ (old # Unmapped <=> r \in Committed)
  BY <1>2, <1>4, RegisterAssumption DEF Committed, PhysRegs, Unmapped
<1>10. RegistersPartitioned'
  <2>1. \A k, l \in 1..Len(free_registers') : free_registers'[k] = free_registers'[l] => k = l
    <3>1. CASE old = Unmapped
      BY <1>3, <3>1 DEF IInv, RegistersPartitioned
    <3>2. CASE old # Unmapped
      <4>1. old \notin FreeSet
        BY <1>9, <3>2 DEF IInv, RegistersPartitioned
      <4>2. /\ free_registers \in Seq(PhysRegs) /\ old \in PhysRegs
            /\ free_registers' = Append(free_registers, old)
            /\ \A k, l \in 1..Len(free_registers) :
                 free_registers[k] = free_registers[l] => k = l
        BY <1>3, <1>7, <3>2 DEF IInv, TypeOK, RegistersPartitioned
      <4> QED BY <4>1, <4>2 DEF FreeSet
    <3> QED BY <3>1, <3>2
  <2>2. \A s \in Committed : backend_RAT[s] # p
    BY <1>2 DEF IInv, RegistersPartitioned
  <2>3. \A s, t \in Committed' : backend_RAT'[s] = backend_RAT'[t] => s = t
    BY <1>4, <1>9, <2>2 DEF IInv, RegistersPartitioned, Committed
  <2>4. \A i, j \in ROB' : \A s, t \in ArchRegs :
          (/\ Holds(i, s)' /\ Holds(j, t)'
           /\ destination_registers'[i][s] = destination_registers'[j][t]) => i = j /\ s = t
    BY <1>5, <1>6 DEF IInv, RegistersPartitioned, ROB
  <2>5. \A s \in Committed' : backend_RAT'[s] \notin FreeSet'
    <3>1. p \notin FreeSet /\ p # old
      BY <1>2, <1>9, <1>7, <2>2, RegisterAssumption
      DEF IInv, RegistersPartitioned, PhysRegs, Unmapped
    <3>2. \A s \in Committed \ {r} : backend_RAT[s] \notin FreeSet /\ backend_RAT[s] # old
      BY <1>9 DEF IInv, RegistersPartitioned, Committed
    <3> QED BY <1>4, <1>8, <1>9, <3>1, <3>2 DEF Committed
  <2>6. \A i \in ROB' : \A s \in ArchRegs :
          Holds(i, s)' => /\ destination_registers'[i][s] \notin FreeSet'
                          /\ \A t \in Committed' : backend_RAT'[t] # destination_registers'[i][s]
    <3> SUFFICES ASSUME NEW i \in ROB, NEW s \in ArchRegs, Holds(i, s), ~(i = h /\ s = r)
                 PROVE  /\ destination_registers[i][s] \notin FreeSet'
                        /\ \A t \in Committed' : backend_RAT'[t] # destination_registers[i][s]
      BY <1>5, <1>6 DEF ROB
    <3> DEFINE q == destination_registers[i][s]
    <3>1. q # p
      BY <1>2 DEF IInv, RegistersPartitioned
    <3>2. q \notin FreeSet /\ \A t \in Committed : backend_RAT[t] # q
      BY DEF IInv, RegistersPartitioned
    <3>3. q # Unmapped
      BY DEF Holds
    <3> QED BY <1>4, <1>8, <1>9, <3>1, <3>2, <3>3 DEF Committed
  <2>7. \A q \in PhysRegs :
          \/ q \in FreeSet'
          \/ \E s \in Committed' : backend_RAT'[s] = q
          \/ \E i \in ROB' : \E s \in ArchRegs : Holds(i, s)' /\ destination_registers'[i][s] = q
    <3> SUFFICES ASSUME NEW q \in PhysRegs, q \notin FreeSet',
                        \A s \in Committed' : backend_RAT'[s] # q
                 PROVE  \E i \in ROB : \E s \in ArchRegs :
                          Holds(i, s)' /\ destination_registers[i][s] = q
      BY <1>5
    <3>1. q \notin FreeSet /\ q # p /\ \A s \in Committed : backend_RAT[s] # q
      BY <1>4, <1>7, <1>8, <1>9, RegisterAssumption DEF Committed, PhysRegs, Unmapped
    <3>2. PICK i \in ROB, s \in ArchRegs : Holds(i, s) /\ destination_registers[i][s] = q
      BY <3>1 DEF IInv, RegistersPartitioned
    <3> QED BY <1>6, <3>1, <3>2 DEF ROB
  <2> QED BY <2>1, <2>3, <2>4, <2>5, <2>6, <2>7 DEF RegistersPartitioned
<1>11. \A i \in Int : \A s \in ArchRegs :
         OlderWriters(i, s)' = OlderWriters(i, s) \ (IF s = r THEN {h} ELSE {})
  BY <1>5, <1>6 DEF OlderWriters, ROB
\* The value that was the youngest of the buffer is now the committed one.
<1> DEFINE NextNames(i, s, q) ==
             \/ OlderWriters(i, s)' = {} /\ q = backend_RAT'[s]
             \/ \E j \in OlderWriters(i, s)' :
                  (\A k \in OlderWriters(i, s)' : k <= j) /\ q = destination_registers[j][s]
<1>12. ASSUME NEW i \in Int, i > h, NEW s \in ArchRegs, NEW q, Names(i, s, q)
       PROVE  NextNames(i, s, q)
  <2>1. CASE s # r
    BY <1>4, <1>11, <1>12, <2>1 DEF Names
  <2>2. CASE s = r
    <3>1. h \in OlderWriters(i, r) /\ \A j \in OlderWriters(i, r) : h <= j
      BY <1>2, <1>12, Window DEF OlderWriters, ROB, Head1, IInv
    <3>2. PICK j \in OlderWriters(i, r) :
            (\A k \in OlderWriters(i, r) : k <= j) /\ q = destination_registers[j][r]
      BY <1>12, <2>2, <3>1 DEF Names
    <3>3. CASE j = h
      <4>1. OlderWriters(i, r) = {h}
        BY <3>1, <3>2, <3>3 DEF OlderWriters, ROB, IInv, TypeOK
      <4> QED BY <1>4, <1>11, <2>2, <3>2, <3>3, <4>1
    <3>4. CASE j # h
      BY <1>11, <2>2, <3>2, <3>4
    <3> QED BY <3>3, <3>4
  <2> QED BY <2>1, <2>2
<1>13. FrontendIsNewest'
  <2> SUFFICES ASSUME NEW s \in ArchRegs
               PROVE  Names(num_dispatched + 1, s, frontend_RAT[s])'
    BY DEF FrontendIsNewest
  <2>1. Names(num_dispatched + 1, s, frontend_RAT[s])
    BY DEF IInv, FrontendIsNewest
  <2>2. num_dispatched + 1 \in Int /\ num_dispatched + 1 > h
    BY <1>2, Window DEF IInv, ROB
  <2>3. NextNames(num_dispatched + 1, s, frontend_RAT[s])
    <3> HIDE DEF NextNames
    <3> QED BY <1>12, <2>1, <2>2
  <2> QED BY <1>3, <1>5, <2>3 DEF Names
<1>14. SourcesNamed'
  <2> SUFFICES ASSUME NEW i \in Instrs, NEW s \in ArchRegs,
                      source_registers[i][s] # Unmapped, i = h => s \notin committed \cup {r}
               PROVE  Names(i, s, source_registers[i][s])'
    BY <1>5 DEF SourcesNamed
  <2> DEFINE q == source_registers[i][s]
  <2>1. i \in ROB /\ i \in Int /\ h <= i
    <3>1. i \in ROB
      BY DEF IInv, NamesGiven, Naming, TypeOK
    <3> QED BY <3>1, Window DEF IInv, ROB, Head1
  <2>2. Names(i, s, q)
    BY DEF IInv, SourcesNamed
  <2>3. CASE i = h
    BY <1>4, <1>5, <1>11, <2>1, <2>2, <2>3 DEF Names
  <2>4. CASE i # h
    <3>1. i > h
      BY <2>1, <2>4, Window DEF IInv
    <3>2. NextNames(i, s, q)
      <4> HIDE DEF NextNames, q
      <4> QED BY <1>12, <2>1, <2>2, <3>1
    <3> QED BY <1>5, <3>2 DEF Names
  <2> QED BY <2>3, <2>4
<1>15. FileAgrees'
  <2> SUFFICES ASSUME NEW i \in ROB, NEW s \in ArchRegs, Holds(i, s)
               PROVE  LET entry == physical_register_file'[destination_registers[i][s]]
                      IN  /\ entry.arch_reg_index = s
                          /\ entry.valid => i \in completed
    BY <1>5, <1>6 DEF FileAgrees, ROB
  <2>1. destination_registers[i][s] \in PhysRegs
    BY Window DEF Holds, IInv, TypeOK
  <2>2. old # Unmapped => destination_registers[i][s] # old
    BY <1>9 DEF IInv, RegistersPartitioned
  <2>3. physical_register_file'[destination_registers[i][s]]
          = physical_register_file[destination_registers[i][s]]
    BY <1>3, <2>1, <2>2
  <2> QED BY <2>3 DEF IInv, FileAgrees
<1>16. StagesApart'
  BY <1>5 DEF IInv, StagesApart, CanRetire
<1>17. ReadyInOrder' /\ RenameInOrder'
  BY DEF IInv, ReadyInOrder, RenameInOrder, ROB
<1>18. NamesGiven'
  BY DEF IInv, NamesGiven, Naming
<1>19. NeverOutOfRegisters'
  BY DEF NeverOutOfRegisters
<1> QED
  BY <1>1, <1>10, <1>13, <1>14, <1>15, <1>16, <1>17, <1>18, <1>19 DEF IInv

----------------------------------------------------------------------------
(* Renaming *)

\* A register that is taken from the free queue had no other owner.
LEMMA TakenIsFree ==
  ASSUME TypeOK, RegistersPartitioned, free_registers # <<>>,
         free_registers' = Tail(free_registers)
  PROVE  LET p == Head(free_registers)
         IN  /\ p \in PhysRegs /\ p \in FreeSet /\ FreeSet' = FreeSet \ {p}
             /\ \A k, l \in 1..Len(free_registers') :
                  free_registers'[k] = free_registers'[l] => k = l
             /\ \A r \in Committed : backend_RAT[r] # p
             /\ \A i \in ROB : \A r \in ArchRegs :
                  Holds(i, r) => destination_registers[i][r] # p
<1> DEFINE q == free_registers
<1>1. /\ q \in Seq(PhysRegs) /\ Len(q) \in Nat /\ Len(q) > 0 /\ Len(q') = Len(q) - 1
      /\ \A k \in 1..Len(q') : q'[k] = q[k + 1]
      /\ Head(q) = q[1] /\ q[1] \in PhysRegs
  BY DEF TypeOK
<1>2. \A k, l \in 1..Len(q) : q[k] = q[l] => k = l
  BY DEF RegistersPartitioned
<1>3. FreeSet' = FreeSet \ {Head(q)}
  <2>1. ASSUME NEW k \in 1..Len(q')
        PROVE  q'[k] \in FreeSet \ {Head(q)}
    <3>1. k + 1 \in 1..Len(q) /\ 1 \in 1..Len(q) /\ k + 1 # 1
      BY <1>1
    <3> QED BY <1>1, <1>2, <3>1 DEF FreeSet
  <2>2. ASSUME NEW k \in 1..Len(q), q[k] # Head(q)
        PROVE  \E l \in 1..Len(q') : q'[l] = q[k]
    <3>1. k - 1 \in 1..Len(q') /\ q'[k - 1] = q[k]
      BY <1>1, <2>2
    <3> QED BY <3>1
  <2> QED BY <2>1, <2>2 DEF FreeSet
<1>4. \A k, l \in 1..Len(q') : q'[k] = q'[l] => k = l
  <2> SUFFICES ASSUME NEW k \in 1..Len(q'), NEW l \in 1..Len(q'), q'[k] = q'[l]
               PROVE  k = l
    OBVIOUS
  <2>1. k + 1 \in 1..Len(q) /\ l + 1 \in 1..Len(q) /\ q[k + 1] = q[l + 1]
    BY <1>1
  <2>2. k + 1 = l + 1
    BY <1>2, <2>1
  <2> QED BY <2>2
<1>5. Head(q) \in FreeSet
  BY <1>1 DEF FreeSet
<1> QED BY <1>1, <1>3, <1>4, <1>5 DEF RegistersPartitioned

\* What the stages say of the instruction that is being renamed: it is the
\* youngest of the buffer that may have names.
LEMMA Renamed ==
  ASSUME IInv, stage = "rename"
  PROVE  /\ cursor \in ROB /\ cursor \in Instrs /\ cursor \notin scheduled /\ committed = {}
         /\ \A i \in Instrs : i \in scheduled \/ Naming(i) => i <= cursor
         /\ \A i \in Int : \A r \in ArchRegs : Holds(i, r) => i <= cursor /\ i \in ROB
<1> USE DEF IInv
<1>1. cursor \in ROB /\ cursor \in Instrs /\ cursor \notin scheduled /\ committed = {}
  BY Window DEF StagesApart
<1>2. ASSUME NEW i \in Instrs, i \in scheduled \/ Naming(i)
      PROVE  i <= cursor
  BY <1>1, <1>2, Window DEF RenameInOrder, Naming, Instrs
<1>3. ASSUME NEW i \in Int, NEW r \in ArchRegs, Holds(i, r)
      PROVE  i <= cursor /\ i \in ROB
  BY <1>2, <1>3, Window DEF Holds, NamesGiven
<1> QED BY <1>1, <1>2, <1>3

\* What renaming one source does to the names that are still to be given.
LEMMA NamingSource ==
  ASSUME IInv, NEW r \in ArchRegs, RenameSource(r)
  PROVE  /\ source_registers'[cursor][r] # Unmapped
         /\ \A i \in Instrs : \A s \in ArchRegs :
              (i # cursor \/ s # r) => source_registers'[i][s] = source_registers[i][s]
         /\ UnnamedSources' = UnnamedSources \ {r}
         /\ UnnamedDestinations' = UnnamedDestinations
         /\ NamesGiven'
<1> USE DEF RenameSource, stageVars
<1>1. cursor \in Instrs /\ cursor \notin scheduled /\ r \in instr[cursor].src
  BY Renamed DEF UnnamedSources
<1>2. PICK p \in PhysRegs : source_registers' = [source_registers EXCEPT ![cursor][r] = p]
  OBVIOUS
<1>3. /\ source_registers'[cursor][r] # Unmapped
      /\ \A i \in Instrs : \A s \in ArchRegs :
           (i # cursor \/ s # r) => source_registers'[i][s] = source_registers[i][s]
  BY <1>1, <1>2, RegisterAssumption DEF IInv, TypeOK, PhysRegs, Unmapped
<1>4. instr[cursor].src \subseteq ArchRegs
  BY <1>1 DEF IInv, TypeOK
<1>5. UnnamedSources' = UnnamedSources \ {r} /\ UnnamedDestinations' = UnnamedDestinations
  BY <1>1, <1>3, <1>4 DEF UnnamedSources, UnnamedDestinations
<1>6. NamesGiven'
  <2>1. \A s \in ArchRegs : destination_registers[cursor][s] = Unmapped
    BY <1>1 DEF IInv, NamesGiven
  <2> QED BY <1>1, <1>3, <2>1 DEF IInv, NamesGiven, Naming
<1> QED BY <1>3, <1>5, <1>6

\* A source that has a name takes the one of the youngest older writer.
LEMMA RenameNamedSource ==
  ASSUME IInv, NEW r \in ArchRegs, RenameSource(r), frontend_RAT[r] # Unmapped
  PROVE  IInv'
<1> USE DEF RenameSource, stageVars
<1>1. TypeOK'
  BY TypeOKStep DEF Next
<1>2. UNCHANGED registerVars /\ stage = "rename" /\ r \in UnnamedSources
  BY DEF rename_src_register
<1>3. /\ RegistersPartitioned' /\ FrontendIsNewest' /\ FileAgrees'
      /\ \A i \in Int : \A s \in ArchRegs : OlderWriters(i, s)' = OlderWriters(i, s)
  BY <1>2, SameHolders, SameFile DEF registerVars, IInv
<1>4. /\ source_registers'[cursor][r] = frontend_RAT[r]
      /\ cursor \in Instrs /\ cursor \in Int /\ cursor \in ROB /\ cursor <= num_dispatched
  <2>1. cursor \in Instrs /\ cursor \in ROB
    BY <1>2, Renamed
  <2>2. PICK p \in PhysRegs :
          /\ rename_src_register(r, p)
          /\ source_registers' = [source_registers EXCEPT ![cursor][r] = p]
    OBVIOUS
  <2>3. p = frontend_RAT[r]
    BY <2>2 DEF rename_src_register
  <2> QED BY <2>1, <2>2, <2>3, Window DEF IInv, TypeOK, ROB, Instrs
<1>5. SourcesNamed'
  <2> SUFFICES ASSUME NEW i \in Instrs, NEW s \in ArchRegs,
                      source_registers'[i][s] # Unmapped
               PROVE  Names(i, s, source_registers[i][s])'
    BY DEF SourcesNamed
  <2>1. i \in Int
    BY DEF Instrs
  <2>2. Names(i, s, source_registers'[i][s])
    <3>1. CASE i = cursor /\ s = r
      <4>1. Names(num_dispatched + 1, r, frontend_RAT[r])
        BY DEF IInv, FrontendIsNewest
      <4>2. \A j \in ArchRegs : destination_registers[cursor][j] = Unmapped
        BY <1>2, <1>4, Renamed DEF IInv, NamesGiven
      <4>3. \A j \in ROB : Holds(j, r) => j < cursor
        BY <1>2, <1>4, <4>2, Renamed, Window DEF Holds, IInv
      <4>4. OlderWriters(num_dispatched + 1, r) = OlderWriters(cursor, r)
        BY <1>4, <4>3, Window DEF OlderWriters, IInv
      <4> QED BY <1>4, <3>1, <4>1, <4>4 DEF Names
    <3>2. CASE i # cursor \/ s # r
      <4>1. source_registers'[i][s] = source_registers[i][s]
        BY <3>2, NamingSource
      <4>2. committed = {}
        BY <1>2, Renamed
      <4> QED BY <4>1, <4>2 DEF IInv, SourcesNamed
    <3> QED BY <3>1, <3>2
  <2> QED BY <1>2, <1>3, <2>1, <2>2 DEF Names, registerVars
<1>6. StagesApart' /\ ReadyInOrder' /\ RenameInOrder'
  BY DEF IInv, StagesApart, ReadyInOrder, RenameInOrder, ROB
<1>7. NamesGiven'
  BY NamingSource
<1>8. NeverOutOfRegisters'
  <2>1. /\ UnnamedSources' = UnnamedSources \ {r} /\ UnnamedDestinations' = UnnamedDestinations
        /\ \A s : isAllocated(s)' <=> isAllocated(s)
    BY <1>2, NamingSource DEF isAllocated, registerVars
  <2>2. {s \in UnnamedSources' : ~isAllocated(s)'} = {s \in UnnamedSources : ~isAllocated(s)}
    BY <2>1 DEF isAllocated
  <2> QED BY <1>2, <2>1, <2>2 DEF IInv, NeverOutOfRegisters, count_free_registers, registerVars
<1> QED BY <1>1, <1>3, <1>5, <1>6, <1>7, <1>8 DEF IInv

\* A source that nothing wrote takes a register of its own, which becomes the
\* committed one.
LEMMA RenameUnnamedSource ==
  ASSUME IInv, NEW r \in ArchRegs, RenameSource(r), frontend_RAT[r] = Unmapped
  PROVE  IInv'
<1> DEFINE p == Head(free_registers)
<1> USE DEF RenameSource, stageVars
<1>1. TypeOK'
  BY TypeOKStep DEF Next
<1>2. /\ stage = "rename" /\ r \in UnnamedSources /\ r \in RatIndex
      /\ free_registers # <<>> /\ p \in PhysRegs /\ p # Unmapped
  <2>1. stage = "rename" /\ r \in UnnamedSources /\ r \in RatIndex
    BY RegisterAssumption DEF RatIndex
  <2>2. free_registers # <<>> /\ p \in PhysRegs
    BY <2>1, FreeLeft DEF IInv, isAllocated
  <2> QED BY <2>1, <2>2, RegisterAssumption DEF PhysRegs, Unmapped
<1>3. /\ free_registers' = Tail(free_registers)
      /\ frontend_RAT' = [frontend_RAT EXCEPT ![r] = p]
      /\ backend_RAT' = [backend_RAT EXCEPT ![r] = p]
      /\ \A q \in PhysRegs \ {p} : physical_register_file'[q] = physical_register_file[q]
      /\ source_registers' = [source_registers EXCEPT ![cursor][r] = p]
  <2>1. PICK q \in PhysRegs :
          /\ rename_src_register(r, q)
          /\ source_registers' = [source_registers EXCEPT ![cursor][r] = q]
    OBVIOUS
  <2> QED BY <2>1 DEF rename_src_register, Owned, IInv, TypeOK
<1>4. /\ backend_RAT'[r] = p /\ frontend_RAT'[r] = p
      /\ \A s \in ArchRegs \ {r} : /\ backend_RAT'[s] = backend_RAT[s]
                                   /\ frontend_RAT'[s] = frontend_RAT[s]
  BY <1>2, <1>3, RegisterAssumption DEF IInv, TypeOK, RatIndex
<1>5. /\ cursor \in Instrs /\ committed = {} /\ ROB' = ROB /\ Head1' = Head1
      /\ source_registers'[cursor][r] = p
  BY <1>2, <1>3, Renamed DEF ROB, Head1, IInv, TypeOK
<1>6. \A i \in Int : \A s \in ArchRegs : Holds(i, s)' <=> Holds(i, s)
  BY <1>5 DEF Holds
<1>7. \A i \in Int : \A s \in ArchRegs : OlderWriters(i, s)' = OlderWriters(i, s)
  BY <1>5, <1>6 DEF OlderWriters, ROB
<1>8. backend_RAT[r] = Unmapped /\ \A i \in Int : OlderWriters(i, r) = {}
  <2>1. Names(num_dispatched + 1, r, Unmapped)
    BY DEF IInv, FrontendIsNewest
  <2>2. OlderWriters(num_dispatched + 1, r) = {} /\ backend_RAT[r] = Unmapped
    BY <2>1 DEF Names, OlderWriters, Holds
  <2>3. \A j \in ROB : ~Holds(j, r)
    BY <2>2, Window DEF OlderWriters, ROB, IInv
  <2> QED BY <2>2, <2>3 DEF OlderWriters
<1>9. RegistersPartitioned'
  <2>1. /\ p \in FreeSet /\ FreeSet' = FreeSet \ {p}
        /\ \A k, l \in 1..Len(free_registers') :
             free_registers'[k] = free_registers'[l] => k = l
        /\ \A s \in Committed : backend_RAT[s] # p
        /\ \A i \in ROB : \A s \in ArchRegs : Holds(i, s) => destination_registers[i][s] # p
    BY <1>2, <1>3, TakenIsFree DEF IInv
  <2>2. Committed' = Committed \cup {r} /\ r \notin Committed
    BY <1>2, <1>4, <1>8 DEF Committed
  <2>3. \A s, t \in Committed' : backend_RAT'[s] = backend_RAT'[t] => s = t
    BY <1>4, <2>1, <2>2 DEF IInv, RegistersPartitioned, Committed
  <2>4. \A i, j \in ROB' : \A s, t \in ArchRegs :
          (/\ Holds(i, s)' /\ Holds(j, t)'
           /\ destination_registers'[i][s] = destination_registers'[j][t]) => i = j /\ s = t
    BY <1>5, <1>6 DEF IInv, RegistersPartitioned, ROB
  <2>5. \A s \in Committed' : backend_RAT'[s] \notin FreeSet'
    BY <1>4, <2>1, <2>2 DEF IInv, RegistersPartitioned, Committed
  <2>6. \A i \in ROB' : \A s \in ArchRegs :
          Holds(i, s)' => /\ destination_registers'[i][s] \notin FreeSet'
                          /\ \A t \in Committed' : backend_RAT'[t] # destination_registers'[i][s]
    BY <1>4, <1>5, <1>6, <2>1, <2>2 DEF IInv, RegistersPartitioned, Committed, ROB
  <2>7. \A q \in PhysRegs :
          \/ q \in FreeSet'
          \/ \E s \in Committed' : backend_RAT'[s] = q
          \/ \E i \in ROB' : \E s \in ArchRegs : Holds(i, s)' /\ destination_registers'[i][s] = q
    <3> SUFFICES ASSUME NEW q \in PhysRegs, q \in FreeSet => q = p,
                        \A s \in Committed' : backend_RAT'[s] # q
                 PROVE  \E i \in ROB : \E s \in ArchRegs :
                          Holds(i, s)' /\ destination_registers[i][s] = q
      BY <1>5, <2>1
    <3>1. q \notin FreeSet /\ \A s \in Committed : backend_RAT[s] # q
      BY <1>4, <2>2 DEF Committed
    <3>2. PICK i \in ROB, s \in ArchRegs : Holds(i, s) /\ destination_registers[i][s] = q
      BY <3>1 DEF IInv, RegistersPartitioned
    <3> QED BY <1>6, <3>2 DEF ROB
  <2> QED BY <2>1, <2>3, <2>4, <2>5, <2>6, <2>7 DEF RegistersPartitioned
<1>10. FrontendIsNewest'
  <2> SUFFICES ASSUME NEW s \in ArchRegs
               PROVE  Names(num_dispatched + 1, s, frontend_RAT[s])'
    BY DEF FrontendIsNewest
  <2>1. Names(num_dispatched + 1, s, frontend_RAT[s]) /\ num_dispatched + 1 \in Int
    BY Window DEF IInv, FrontendIsNewest
  <2> QED BY <1>4, <1>7, <1>8, <2>1 DEF Names
<1>11. SourcesNamed'
  <2> SUFFICES ASSUME NEW i \in Instrs, NEW s \in ArchRegs,
                      source_registers'[i][s] # Unmapped
               PROVE  Names(i, s, source_registers[i][s])'
    BY DEF SourcesNamed
  <2>1. i \in Int
    BY DEF Instrs
  <2>2. CASE i = cursor /\ s = r
    BY <1>4, <1>5, <1>7, <1>8, <2>1, <2>2 DEF Names
  <2>3. CASE i # cursor \/ s # r
    <3>1. source_registers'[i][s] = source_registers[i][s]
      BY <2>3, NamingSource
    <3>2. Names(i, s, source_registers[i][s])
      BY <1>5, <3>1 DEF IInv, SourcesNamed
    <3>3. s # r
      BY <1>8, <2>1, <3>1, <3>2 DEF Names
    <3> QED BY <1>4, <1>7, <2>1, <3>1, <3>2, <3>3 DEF Names
  <2> QED BY <2>2, <2>3
<1>12. FileAgrees'
  <2>1. \A i \in ROB : \A s \in ArchRegs :
          Holds(i, s) => destination_registers[i][s] \in PhysRegs \ {p}
    BY <1>2, <1>3, TakenIsFree, Window DEF IInv, TypeOK, Holds
  <2> QED BY <1>3, <1>5, <1>6, <2>1 DEF IInv, FileAgrees, ROB
<1>13. StagesApart' /\ ReadyInOrder' /\ RenameInOrder'
  BY DEF IInv, StagesApart, ReadyInOrder, RenameInOrder, ROB
<1>14. NamesGiven'
  BY NamingSource
<1>15. NeverOutOfRegisters'
  <2> DEFINE S == {s \in UnnamedSources : ~isAllocated(s)}
  <2>1. UnnamedSources' = UnnamedSources \ {r} /\ UnnamedDestinations' = UnnamedDestinations
    BY NamingSource
  <2>2. UnnamedSources \subseteq ArchRegs /\ UnnamedDestinations \subseteq ArchRegs
    BY <1>5 DEF IInv, TypeOK, UnnamedSources, UnnamedDestinations
  <2>3. {s \in UnnamedSources' : ~isAllocated(s)'} = S \ {r} /\ r \in S
    BY <1>2, <1>4, <2>1, <2>2 DEF isAllocated
  <2>4. IsFiniteSet(S) /\ IsFiniteSet(UnnamedDestinations)
    BY <2>2, FS_Subset, RegisterAssumption
  <2>5. /\ Cardinality(S \ {r}) = Cardinality(S) - 1
        /\ Cardinality(S) \in Nat /\ Cardinality(UnnamedDestinations) \in Nat
    BY <2>3, <2>4, FS_RemoveElement, FS_CardinalityType
  <2>6. Len(free_registers) >= Cardinality(S) + Cardinality(UnnamedDestinations)
    BY <1>2 DEF IInv, NeverOutOfRegisters, count_free_registers
  <2>7. Len(free_registers') = Len(free_registers) - 1 /\ Len(free_registers) \in Nat
    BY <1>2, <1>3 DEF IInv, TypeOK
  <2> HIDE DEF S
  <2>8. Len(free_registers') >= Cardinality(S \ {r}) + Cardinality(UnnamedDestinations)
    BY <2>5, <2>6, <2>7
  <2> QED BY <2>1, <2>3, <2>8 DEF NeverOutOfRegisters, count_free_registers
<1> QED
  BY <1>1, <1>9, <1>10, <1>11, <1>12, <1>13, <1>14, <1>15 DEF IInv

\* A destination takes a new register, which is now the newest name.
LEMMA RenameDestinationStep ==
  ASSUME IInv, NEW r \in ArchRegs, RenameDestination(r)
  PROVE  IInv'
<1> DEFINE p == Head(free_registers)
<1> USE DEF RenameDestination, stageVars
<1>1. TypeOK'
  BY TypeOKStep DEF Next
<1>2. /\ stage = "rename" /\ r \in UnnamedDestinations /\ r \in RatIndex
      /\ free_registers # <<>> /\ p \in PhysRegs /\ p # Unmapped
  <2>1. stage = "rename" /\ r \in UnnamedDestinations /\ r \in RatIndex
    BY RegisterAssumption DEF RatIndex
  <2>2. free_registers # <<>> /\ p \in PhysRegs
    BY <2>1, FreeLeft DEF IInv
  <2> QED BY <2>1, <2>2, RegisterAssumption DEF PhysRegs, Unmapped
<1>3. /\ free_registers' = Tail(free_registers)
      /\ frontend_RAT' = [frontend_RAT EXCEPT ![r] = p]
      /\ backend_RAT' = backend_RAT
      /\ \A q \in PhysRegs \ {p} : physical_register_file'[q] = physical_register_file[q]
      /\ physical_register_file'[p].arch_reg_index = r
      /\ physical_register_file'[p].valid = FALSE
      /\ destination_registers' = [destination_registers EXCEPT ![cursor][r] = p]
  <2>1. PICK q \in PhysRegs :
          /\ rename_dest_register(r, cursor, q)
          /\ destination_registers' = [destination_registers EXCEPT ![cursor][r] = q]
    OBVIOUS
  <2>2. q = p /\ physical_register_file' =
          [physical_register_file EXCEPT ![p] =
             [arch_reg_index |-> r, producing_instruction_id |-> cursor,
              valid |-> FALSE, busy |-> TRUE]]
    BY <2>1 DEF rename_dest_register, Owned
  <2>3. /\ free_registers' = Tail(free_registers) /\ backend_RAT' = backend_RAT
        /\ frontend_RAT' = [frontend_RAT EXCEPT ![r] = p]
    BY <2>1 DEF rename_dest_register
  <2> QED BY <1>2, <2>1, <2>2, <2>3 DEF IInv, TypeOK
<1>4. /\ cursor \in Instrs /\ cursor \in ROB /\ cursor \in Int /\ cursor <= num_dispatched
      /\ committed = {} /\ ROB' = ROB /\ Head1' = Head1
      /\ r \in instr[cursor].dst /\ destination_registers[cursor][r] = Unmapped
  BY <1>2, Renamed, Window DEF UnnamedDestinations, ROB, Head1, Instrs, IInv
<1>5. /\ destination_registers'[cursor][r] = p
      /\ \A i \in Instrs : \A s \in ArchRegs :
           (i # cursor \/ s # r) => destination_registers'[i][s] = destination_registers[i][s]
  BY <1>3, <1>4 DEF IInv, TypeOK
<1>6. \A i \in Int : \A s \in ArchRegs :
        Holds(i, s)' <=> Holds(i, s) \/ (i = cursor /\ s = r)
  BY <1>2, <1>4, <1>5, Window DEF Holds, IInv
<1>7. \A i \in Int : \A s \in ArchRegs :
        /\ i <= cursor \/ s # r => OlderWriters(i, s)' = OlderWriters(i, s)
        /\ i > cursor /\ s = r => OlderWriters(i, s)' = OlderWriters(i, s) \cup {cursor}
  BY <1>4, <1>6, Window DEF OlderWriters, ROB, IInv
<1>8. /\ p \in FreeSet /\ FreeSet' = FreeSet \ {p}
      /\ \A k, l \in 1..Len(free_registers') :
           free_registers'[k] = free_registers'[l] => k = l
      /\ \A s \in Committed : backend_RAT[s] # p
      /\ \A i \in ROB : \A s \in ArchRegs : Holds(i, s) => destination_registers[i][s] # p
  BY <1>2, <1>3, TakenIsFree DEF IInv
<1>9. \A i \in ROB : \A s \in ArchRegs :
        Holds(i, s) => destination_registers'[i][s] = destination_registers[i][s]
  BY <1>4, <1>5, Window DEF Holds, IInv
<1>10. RegistersPartitioned'
  <2>1. Committed' = Committed
    BY <1>3 DEF Committed
  <2>2. \A i, j \in ROB' : \A s, t \in ArchRegs :
          (/\ Holds(i, s)' /\ Holds(j, t)'
           /\ destination_registers'[i][s] = destination_registers'[j][t]) => i = j /\ s = t
    <3> SUFFICES ASSUME NEW i \in ROB, NEW j \in ROB, NEW s \in ArchRegs, NEW t \in ArchRegs,
                        Holds(i, s)', Holds(j, t)',
                        destination_registers'[i][s] = destination_registers'[j][t]
                 PROVE  i = j /\ s = t
      BY <1>4
    <3>1. /\ Holds(i, s) \/ (i = cursor /\ s = r)
          /\ Holds(j, t) \/ (j = cursor /\ t = r)
      BY <1>6 DEF ROB
    <3>2. CASE Holds(i, s) /\ Holds(j, t)
      BY <1>9, <3>2 DEF IInv, RegistersPartitioned
    <3> QED BY <1>5, <1>8, <1>9, <3>1, <3>2
  <2>3. \A s \in Committed' : backend_RAT'[s] \notin FreeSet'
    BY <1>3, <1>8, <2>1 DEF IInv, RegistersPartitioned
  <2>4. \A i \in ROB' : \A s \in ArchRegs :
          Holds(i, s)' => /\ destination_registers'[i][s] \notin FreeSet'
                          /\ \A t \in Committed' : backend_RAT'[t] # destination_registers'[i][s]
    <3> SUFFICES ASSUME NEW i \in ROB, NEW s \in ArchRegs, Holds(i, s)'
                 PROVE  /\ destination_registers'[i][s] \notin FreeSet'
                        /\ \A t \in Committed : backend_RAT[t] # destination_registers'[i][s]
      BY <1>3, <1>4, <2>1
    <3>1. CASE Holds(i, s)
      BY <1>8, <1>9, <3>1 DEF IInv, RegistersPartitioned
    <3>2. CASE i = cursor /\ s = r
      BY <1>5, <1>8, <3>2
    <3> QED BY <1>6, <3>1, <3>2 DEF ROB
  <2>5. \A q \in PhysRegs :
          \/ q \in FreeSet'
          \/ \E s \in Committed' : backend_RAT'[s] = q
          \/ \E i \in ROB' : \E s \in ArchRegs : Holds(i, s)' /\ destination_registers'[i][s] = q
    <3> SUFFICES ASSUME NEW q \in PhysRegs, q \in FreeSet => q = p,
                        \A s \in Committed : backend_RAT[s] # q
                 PROVE  \E i \in ROB : \E s \in ArchRegs :
                          Holds(i, s)' /\ destination_registers'[i][s] = q
      BY <1>3, <1>4, <1>8, <2>1
    <3>1. CASE q = p
      BY <1>4, <1>5, <1>6, <3>1
    <3>2. CASE q # p
      <4>1. PICK i \in ROB, s \in ArchRegs : Holds(i, s) /\ destination_registers[i][s] = q
        BY <3>2 DEF IInv, RegistersPartitioned
      <4> QED BY <1>6, <1>9, <4>1 DEF ROB
    <3> QED BY <3>1, <3>2
  <2>6. \A s, t \in Committed' : backend_RAT'[s] = backend_RAT'[t] => s = t
    BY <1>3, <2>1 DEF IInv, RegistersPartitioned
  <2> QED BY <1>8, <2>2, <2>3, <2>4, <2>5, <2>6 DEF RegistersPartitioned
<1>11. \A i \in Int : \A s \in ArchRegs : \A j \in OlderWriters(i, s) :
         destination_registers'[j][s] = destination_registers[j][s]
  BY <1>9 DEF OlderWriters
<1>12. FrontendIsNewest'
  <2> SUFFICES ASSUME NEW s \in ArchRegs
               PROVE  Names(num_dispatched + 1, s, frontend_RAT[s])'
    BY DEF FrontendIsNewest
  <2> DEFINE n == num_dispatched + 1
  <2>1. Names(n, s, frontend_RAT[s]) /\ n \in Int /\ n > cursor
    BY <1>4, Window DEF IInv, FrontendIsNewest
  <2>2. CASE s = r
    <3>1. \A k \in OlderWriters(n, r) : k <= cursor
      BY <1>2, Renamed DEF OlderWriters, ROB
    <3>2. frontend_RAT'[r] = p
      BY <1>2, <1>3 DEF IInv, TypeOK
    <3> QED BY <1>4, <1>5, <1>7, <2>1, <2>2, <3>1, <3>2 DEF Names
  <2>3. CASE s # r
    <3>1. frontend_RAT'[s] = frontend_RAT[s]
      BY <1>3, <2>3, RegisterAssumption DEF IInv, TypeOK, RatIndex
    <3> QED BY <1>3, <1>7, <1>11, <2>1, <2>3, <3>1 DEF Names
  <2> QED BY <2>2, <2>3
<1>13. SourcesNamed'
  <2> SUFFICES ASSUME NEW i \in Instrs, NEW s \in ArchRegs,
                      source_registers[i][s] # Unmapped
               PROVE  Names(i, s, source_registers[i][s])'
    BY DEF SourcesNamed
  <2>1. i \in Int /\ i <= cursor
    BY <1>2, Renamed DEF IInv, NamesGiven, Instrs
  <2>2. Names(i, s, source_registers[i][s])
    BY <1>4 DEF IInv, SourcesNamed
  <2>3. OlderWriters(i, s)' = OlderWriters(i, s)
    BY <1>7, <2>1
  <2> QED BY <1>3, <1>11, <2>1, <2>2, <2>3 DEF Names
<1>14. FileAgrees'
  <2> SUFFICES ASSUME NEW i \in ROB, NEW s \in ArchRegs, Holds(i, s)'
               PROVE  LET entry == physical_register_file'[destination_registers'[i][s]]
                      IN  /\ entry.arch_reg_index = s
                          /\ entry.valid => i \in completed
    BY <1>4 DEF FileAgrees
  <2>1. CASE Holds(i, s)
    <3>1. destination_registers'[i][s] = destination_registers[i][s]
          /\ destination_registers[i][s] \in PhysRegs \ {p}
      BY <1>8, <1>9, <2>1, Window DEF IInv, TypeOK, Holds
    <3> QED BY <1>3, <2>1, <3>1 DEF IInv, FileAgrees
  <2>2. CASE i = cursor /\ s = r
    BY <1>3, <1>5, <2>2
  <2> QED BY <1>6, <2>1, <2>2 DEF ROB
<1>15. StagesApart' /\ ReadyInOrder' /\ RenameInOrder'
  BY DEF IInv, StagesApart, ReadyInOrder, RenameInOrder, ROB
<1>16. UnnamedSources' = {} /\ UnnamedSources = {}
  BY DEF UnnamedSources
<1>17. NamesGiven'
  BY <1>2, <1>4, <1>5, <1>16 DEF IInv, NamesGiven, Naming
<1>18. NeverOutOfRegisters'
  <2> DEFINE D == UnnamedDestinations
  <2>1. D \subseteq ArchRegs /\ D' = D \ {r}
    BY <1>2, <1>4, <1>5 DEF IInv, TypeOK, UnnamedDestinations
  <2>2. /\ IsFiniteSet(D) /\ Cardinality(D) \in Nat
        /\ Cardinality(D \ {r}) = Cardinality(D) - 1
    BY <1>2, <2>1, FS_Subset, FS_RemoveElement, FS_CardinalityType, RegisterAssumption
  <2>3. Len(free_registers) >= Cardinality({}) + Cardinality(D)
    <3>1. {s \in UnnamedSources : ~isAllocated(s)} = {}
      BY <1>16
    <3> QED BY <1>2, <3>1 DEF IInv, NeverOutOfRegisters, count_free_registers
  <2>4. Len(free_registers') = Len(free_registers) - 1 /\ Len(free_registers) \in Nat
    BY <1>2, <1>3 DEF IInv, TypeOK
  <2>5. {s \in UnnamedSources' : ~isAllocated(s)'} = {} /\ Cardinality({}) = 0
    BY <1>16, FS_EmptySet
  <2> HIDE DEF D
  <2>6. Len(free_registers') >= Cardinality({}) + Cardinality(D')
    BY <2>1, <2>2, <2>3, <2>4, <2>5
  <2> QED BY <2>5, <2>6 DEF NeverOutOfRegisters, count_free_registers, D
<1> QED
  BY <1>1, <1>10, <1>12, <1>13, <1>14, <1>15, <1>17, <1>18 DEF IInv

----------------------------------------------------------------------------
(* The invariant *)

LEMMA InitIInv == Init => IInv
<1> SUFFICES ASSUME Init PROVE IInv
  OBVIOUS
<1> USE DEF Init, InitRegisters
<1>1. TypeOK
  BY InitTypeOK
<1>2. ROB = {}
  BY DEF ROB
<1>3. \A r \in ArchRegs : backend_RAT[r] = Unmapped /\ frontend_RAT[r] = Unmapped
  BY RegisterAssumption DEF RatIndex
<1>4. \A i \in Int : \A r \in ArchRegs : ~Holds(i, r)
  BY <1>2 DEF Holds
<1>5. RegistersPartitioned
  <2>1. Committed = {}
    BY <1>3 DEF Committed
  <2>2. \A p \in PhysRegs : p + 1 \in 1..Len(free_registers) /\ free_registers[p + 1] = p
    BY RegisterAssumption DEF PhysRegs
  <2>3. \A p \in PhysRegs : p \in FreeSet
    BY <2>2 DEF FreeSet
  <2>4. \A k, l \in 1..Len(free_registers) : free_registers[k] = free_registers[l] => k = l
    BY RegisterAssumption
  <2> QED BY <1>2, <2>1, <2>3, <2>4 DEF RegistersPartitioned
<1>6. FrontendIsNewest
  BY <1>2, <1>3 DEF FrontendIsNewest, Names, OlderWriters
<1>7. \A i \in Instrs : \A r \in ArchRegs : source_registers[i][r] = Unmapped
                                            /\ destination_registers[i][r] = Unmapped
  BY DEF NoMap
<1>8. SourcesNamed /\ NamesGiven
  BY <1>7 DEF SourcesNamed, NamesGiven
<1>9. FileAgrees /\ ReadyInOrder /\ RenameInOrder /\ StagesApart
  BY <1>2 DEF FileAgrees, ReadyInOrder, RenameInOrder, StagesApart
<1>10. NeverOutOfRegisters
  BY DEF NeverOutOfRegisters
<1> QED BY <1>1, <1>5, <1>6, <1>8, <1>9, <1>10 DEF IInv

LEMMA StutterStep == IInv /\ UNCHANGED vars => IInv'
<1> SUFFICES ASSUME IInv, UNCHANGED vars PROVE IInv'
  OBVIOUS
<1> USE DEF vars, registerVars, robVars, stageVars
<1>1. TypeOK'
  BY TypeOKStep
<1>2. RegistersPartitioned' /\ FrontendIsNewest' /\ SourcesNamed' /\ FileAgrees'
  BY SameHolders, SameFile DEF IInv
<1>3. ReadyInOrder' /\ RenameInOrder'
  BY DEF IInv, ReadyInOrder, RenameInOrder, ROB
<1>4. StagesApart'
  BY DEF IInv, StagesApart, CanRetire, ROB, Head1
<1>5. NamesGiven'
  BY DEF IInv, NamesGiven, Naming, UnnamedSources
<1>6. NeverOutOfRegisters'
  BY DEF IInv, NeverOutOfRegisters, count_free_registers, isAllocated, UnnamedSources,
         UnnamedDestinations
<1> QED BY <1>1, <1>2, <1>3, <1>4, <1>5, <1>6 DEF IInv

LEMMA NextIInv == IInv /\ [Next]_vars => IInv'
<1> SUFFICES ASSUME IInv, [Next]_vars PROVE IInv'
  OBVIOUS
<1>1. ASSUME NEW r \in ArchRegs, RenameSource(r)
      PROVE  IInv'
  BY <1>1, RenameNamedSource, RenameUnnamedSource
<1> QED
  BY <1>1, RetireDestinationStep, RetireHeadStep, EndRetireStep, CompleteStep, ExecuteStep,
     SkipStep, StartRenamingStep, RenameDestinationStep, EndRenamingStep, EndScheduleStep,
     MemoryReturnStep, DispatchStep, EndCycleStep, StutterStep DEF Next

\* What the invariant says of NameBefore: a source is named by the youngest
\* older writer.
LEMMA NamedByLastWriter == IInv => SourceIsLastWriter
<1> SUFFICES ASSUME IInv, NEW i \in scheduled, NEW r \in instr[i].src,
                    i = Head1 => r \notin committed
             PROVE  source_registers[i][r] = NameBefore(i, r)
  BY DEF SourceIsLastWriter, IInv
<1> DEFINE W == OlderWriters(i, r)
<1>1. i \in Instrs /\ i \in Nat /\ r \in ArchRegs /\ ROB \subseteq Nat
  BY Window DEF IInv, TypeOK, Instrs
<1>2. Names(i, r, source_registers[i][r])
  BY <1>1 DEF IInv, NamesGiven, SourcesNamed
<1>3. CASE W = {}
  BY <1>2, <1>3 DEF Names, NameBefore
<1>4. CASE W # {}
  <2>1. PICK j \in W : (\A k \in W : k <= j) /\ source_registers[i][r] = destination_registers[j][r]
    BY <1>2, <1>4 DEF Names
  <2>2. \A k \in W : k \in Nat
    BY <1>1 DEF OlderWriters
  <2>3. j = CHOOSE k \in W : \A l \in W : l <= k
    <3>1. \A k \in W : (\A l \in W : l <= k) => k = j
      BY <2>1, <2>2
    <3> HIDE DEF W
    <3> QED BY <2>1, <3>1
  <2> QED BY <1>4, <2>1, <2>3 DEF NameBefore
<1> QED BY <1>3, <1>4

\* The inductive invariant, and with it the types, holds in every behaviour.
THEOREM Invariance == Spec => []IInv
BY InitIInv, NextIInv, PTL DEF Spec

\* No physical register is ever lost or handed out twice, in a buffer of any
\* size and for any program.
THEOREM RegistersStayPartitioned == Spec => []RegistersPartitioned
<1>1. IInv => RegistersPartitioned
  BY DEF IInv
<1> QED BY <1>1, Invariance, PTL

\* Out-of-order execution is transparent to the readers: as long as an
\* instruction is in the buffer its sources name the youngest older writers.
THEOREM ReadersNameLastWriters == Spec => []SourceIsLastWriter
BY NamedByLastWriter, Invariance, PTL

\* The assertion of rename_dest_register holds, and the front of the free
\* queue is read only when there is one.
THEOREM RegistersSuffice == Spec => []NeverOutOfRegisters
<1>1. IInv => NeverOutOfRegisters
  BY DEF IInv
<1> QED BY <1>1, Invariance, PTL

----------------------------------------------------------------------------
(* The back end implements Dataflow *)

\* An instruction whose source registers are all valid has its operands: the
\* youngest older writer of each has completed.
LEMMA ValidIsAvailable ==
  ASSUME IInv, stage = "execute", NEW i \in Executing, NEW r \in instr[i].src
  PROVE  dataflow!Available(i, r)
<1> DEFINE W == {j \in ROB : j < i /\ r \in instr[j].dst}
<1>1. i \in ROB /\ i \in scheduled /\ SourcesValid(i)
  BY DEF Executing, OldestOf
<1>2. i \in Instrs /\ i \in Nat /\ r \in ArchRegs /\ ROB \subseteq Instrs
  BY <1>1, Window DEF IInv, TypeOK, Instrs
<1>3. committed = {}
  BY DEF IInv, StagesApart
<1>4. OlderWriters(i, r) = W
  <2>1. \A j \in ROB : j < i => j \in scheduled
    BY <1>1 DEF IInv, RenameInOrder
  <2>2. \A j \in ROB : j < i => (Holds(j, r) <=> r \in instr[j].dst)
    BY <1>2, <1>3, <2>1 DEF IInv, NamesGiven, Holds
  <2> QED BY <2>2 DEF OlderWriters
<1>5. dataflow!Writers(i, r) = W
  <2>1. dataflow!Window = ROB
    BY Window DEF dataflow!Window, ROB, Head1, IInv
  <2>2. \A j \in ROB : [k \in Instrs |-> instr[k].dst][j] = instr[j].dst
    BY <1>2
  <2> QED BY <2>1, <2>2 DEF dataflow!Writers
<1>6. Names(i, r, source_registers[i][r]) /\ physical_register_file[source_registers[i][r]].valid
  BY <1>1, <1>2, <1>3 DEF IInv, NamesGiven, SourcesNamed, SourcesValid, isValid
<1>7. ASSUME W # {}
      PROVE  dataflow!Youngest(W) \in completed
  <2>1. PICK j \in W : /\ \A k \in W : k <= j
                       /\ source_registers[i][r] = destination_registers[j][r]
    BY <1>4, <1>6, <1>7 DEF Names
  <2>2. Holds(j, r) /\ j \in ROB
    BY <1>4, <2>1 DEF OlderWriters
  <2>3. j \in completed
    BY <1>2, <1>6, <2>1, <2>2 DEF IInv, FileAgrees
  <2>4. dataflow!Youngest(W) = j
    <3>1. \A k \in W : (\A l \in W : l <= k) => k = j
      BY <1>2, <2>1
    <3> HIDE DEF W
    <3> QED BY <2>1, <3>1 DEF dataflow!Youngest
  <2> QED BY <2>3, <2>4
<1> HIDE DEF W
<1> QED BY <1>5, <1>7 DEF dataflow!Available

LEMMA DataflowInit == Init => dataflow!Init
BY DEF Init, dataflow!Init, NoOp, Head1

\* Each action of the back end is an action of Dataflow or leaves its
\* variables alone.
LEMMA DataflowStep == IInv /\ [Next]_vars => [dataflow!Next]_(dataflow!dataflowVars)
<1> SUFFICES ASSUME IInv, [Next]_vars, IInv'
             PROVE  [dataflow!Next]_(dataflow!dataflowVars)
  BY NextIInv
<1> USE DEF dataflow!dataflowVars
<1>1. ASSUME UNCHANGED <<num_dispatched, num_retired, instr, executed, completed>>
      PROVE  UNCHANGED dataflow!dataflowVars
  BY <1>1 DEF Head1
<1>2. CASE RetireHead
  <2>1. /\ Head1 \in completed /\ Head1 \in Instrs /\ Head1' = Head1 + 1
        /\ instr' = [instr EXCEPT ![Head1] = NoOp]
    BY <1>2, Window DEF RetireHead, CanRetire, IInv, Head1
  <2>2. /\ [i \in Instrs |-> instr[i].src]' =
             [[i \in Instrs |-> instr[i].src] EXCEPT ![Head1] = {}]
        /\ [i \in Instrs |-> instr[i].dst]' =
             [[i \in Instrs |-> instr[i].dst] EXCEPT ![Head1] = {}]
    BY <2>1 DEF IInv, TypeOK, NoOp
  <2>3. dataflow!Leave
    BY <1>2, <2>1, <2>2 DEF dataflow!Leave, RetireHead
  <2> QED BY <2>3 DEF dataflow!Next
<1>3. CASE CompleteInflightInstruction
  <2>1. /\ Completing \subseteq executed \ completed
        /\ completed' = completed \cup Completing
        /\ UNCHANGED <<num_dispatched, num_retired, instr, executed>>
    BY <1>3 DEF CompleteInflightInstruction, Completing, OldestOf
  <2>2. dataflow!Finish
    BY <2>1 DEF dataflow!Finish, Head1
  <2> QED BY <2>2 DEF dataflow!Next
<1>4. CASE ExecuteInstruction
  <2>1. /\ Executing \subseteq ROB \ executed
        /\ executed' = executed \cup Executing /\ stage = "execute"
        /\ UNCHANGED <<num_dispatched, num_retired, instr, completed>>
    BY <1>4 DEF ExecuteInstruction, Executing, OldestOf
  <2>2. dataflow!Window = ROB
    BY Window DEF dataflow!Window, ROB, Head1, IInv
  <2>3. \A i \in Executing : \A r \in [k \in Instrs |-> instr[k].src][i] :
          dataflow!Available(i, r)
    BY <2>1, ValidIsAvailable, Window DEF IInv
  <2>4. dataflow!Start
    BY <2>1, <2>2, <2>3 DEF dataflow!Start, Head1
  <2> QED BY <2>4 DEF dataflow!Next
<1>5. ASSUME NEW op \in Dispatchable, DispatchInstruction(op)
      PROVE  dataflow!Enter
  <2> DEFINE i == num_dispatched + 1
  <2>1. /\ num_dispatched' = i /\ num_retired' = num_retired
        /\ instr' = [instr EXCEPT ![i] = op]
        /\ UNCHANGED <<executed, completed>>
    BY <1>5 DEF DispatchInstruction
  <2>2. i \in Instrs
    BY <1>5, CoreAssumption DEF DispatchInstruction, IInv, TypeOK, Instrs
  <2>3. op.src \in SUBSET ArchRegs /\ op.dst \in SUBSET ArchRegs
    BY DispatchableOps
  <2>4. /\ [k \in Instrs |-> instr[k].src]' =
             [[k \in Instrs |-> instr[k].src] EXCEPT ![i] = op.src]
        /\ [k \in Instrs |-> instr[k].dst]' =
             [[k \in Instrs |-> instr[k].dst] EXCEPT ![i] = op.dst]
    BY <2>1, <2>2 DEF IInv, TypeOK
  <2> QED BY <2>1, <2>2, <2>3, <2>4 DEF dataflow!Enter, Head1
<1>6. ASSUME \/ \E r \in ArchRegs : RetireDestination(r)
             \/ EndRetire
             \/ SkipInstruction
             \/ StartRenaming
             \/ \E r \in ArchRegs : RenameSource(r) \/ RenameDestination(r)
             \/ EndRenaming
             \/ EndSchedule
             \/ \E returned \in SUBSET (outstanding \cap executed) : MemoryReturn(returned)
             \/ EndCycle
             \/ UNCHANGED vars
      PROVE  UNCHANGED <<num_dispatched, num_retired, instr, executed, completed>>
  BY <1>6 DEF RetireDestination, EndRetire, SkipInstruction, StartRenaming, RenameSource,
              RenameDestination, EndRenaming, EndSchedule, MemoryReturn, EndCycle, vars, robVars
<1> QED BY <1>1, <1>2, <1>3, <1>4, <1>5, <1>6 DEF Next, dataflow!Next

\* No instruction executes before the youngest older writer of each of its
\* sources has completed, and all leave in the order they entered.
THEOREM BackEndImplementsDataflow == Spec => DataflowOrder
<1>1. Spec => Init /\ [][Next]_vars /\ []IInv
  BY Invariance, PTL DEF Spec
<1> QED BY <1>1, DataflowInit, DataflowStep, PTL DEF DataflowOrder, dataflow!Spec

==============================================================================
