------------------------ MODULE LoadStoreQueueProofs ------------------------
(***************************************************************************)
(* Loads see program order, every memory operation is finished once and    *)
(* the queues stay consistent, for every program and every size of the     *)
(* load queue, the store queue and the reorder buffer.                     *)
(***************************************************************************)
EXTENDS LoadStoreQueue, CommonFacts, FiniteSetTheorems, SequenceTheorems

LoadEntries == [instr_id : Nat, virtual_address : Addrs, fetch_issued : BOOLEAN,
                producer_id : Nat]
StoreEntries == [instr_id : Nat, virtual_address : Addrs, fetch_issued : BOOLEAN,
                 lq_depend_on_me : SUBSET Slots]

TypeOK ==
  /\ program \in Seq(Shapes) /\ num_retired \in 0..Len(program)
  /\ completed_mem_ops \in Seq(Nat) /\ Len(completed_mem_ops) = Len(program)
  /\ LQ \in [Slots -> {Empty} \cup LoadEntries]
  /\ SQ \in Seq(StoreEntries)
  /\ memory \in [Addrs -> Nat]

\* The entries are operations of dispatched instructions, and a load is gone
\* before its instruction retires.
EntriesNamed ==
  /\ \A s \in Allocated(LQ) : LQ[s].instr_id \in (num_retired + 1)..Len(program)
  /\ \A k \in 1..Len(SQ) : /\ SQ[k].instr_id \in 1..Len(program)
                           /\ SQ[k].virtual_address \in Range(program[SQ[k].instr_id].stores)

\* A load waits for one store, and an executed store has nothing to finish.
WaitsForOne ==
  /\ \A j, k \in 1..Len(SQ) :
       j # k => SQ[j].lq_depend_on_me \cap SQ[k].lq_depend_on_me = {}
  /\ \A k \in 1..Len(SQ) : SQ[k].fetch_issued => SQ[k].lq_depend_on_me = {}
  /\ \A s \in Allocated(LQ) : LQ[s].fetch_issued => LQ[s].producer_id = NoProducer

\* LastStoreBefore as a relation, of any program.
WritersOf(prog, i, addr) == {j \in 1..(i - 1) : addr \in Range(prog[j].stores)}
IsLast(prog, i, addr, p) ==
  \/ WritersOf(prog, i, addr) = {} /\ p = 0
  \/ /\ p \in WritersOf(prog, i, addr)
     /\ \A w \in WritersOf(prog, i, addr) : w <= p

\* The last store to an address is the youngest in the queue, or in memory.
NewestStores ==
  \A a \in Addrs :
    \/ Hits(a) = {} /\ IsLast(program, Len(program) + 1, a, memory[a])
    \/ \E k \in Hits(a) : /\ IsLast(program, Len(program) + 1, a, SQ[k].instr_id)
                          /\ \A j \in Hits(a) : SQ[j].instr_id <= SQ[k].instr_id

\* A load waits for the store that it must see, or that store is in memory,
\* and every other store to the address that is still queued is younger.
LoadsBound ==
  \A s \in Allocated(LQ) :
    LET load == LQ[s]
        addr == LQ[s].virtual_address
    IN  IF load.producer_id # NoProducer
        THEN IsLast(program, load.instr_id, addr, load.producer_id)
        ELSE /\ IsLast(program, load.instr_id, addr, memory[addr])
             /\ \A k \in 1..Len(SQ) :
                  SQ[k].virtual_address = addr => load.instr_id <= SQ[k].instr_id

SawLast ==
  \A l \in loaded : l[1] \in 1..Len(program) /\ IsLast(program, l[1], l[2], l[3])

IInv ==
  /\ TypeOK /\ EntriesNamed /\ WaitsForOne /\ DependentsWait /\ StoresInOrder
  /\ NewestStores /\ LoadsBound /\ SawLast /\ EveryOperationFinishesOnce

----------------------------------------------------------------------------
(* Counting, and the last store *)

LoadsOf(i) == {s \in Allocated(LQ) : LQ[s].instr_id = i}
StoresOf(i) == {k \in Unfetched : SQ[k].instr_id = i}

LEMMA SlotsFinite ==
  /\ LQ_SIZE \in Nat /\ IsFiniteSet(Slots)
  /\ \A S \in SUBSET Slots : IsFiniteSet(S) /\ Cardinality(S) \in Nat
<1>1. LQ_SIZE \in Nat
  BY QueueAssumption
<1>2. IsFiniteSet(Slots)
  BY <1>1, FS_Interval DEF Slots
<1> QED BY <1>1, <1>2, FS_Subset, FS_CardinalityType

LEMMA Counted ==
  ASSUME TypeOK
  PROVE  /\ Len(program) \in Nat /\ Len(SQ) \in Nat
         /\ \A i : LoadsOf(i) \subseteq Slots /\ Cardinality(LoadsOf(i)) \in Nat
                   /\ IsFiniteSet(LoadsOf(i))
         /\ \A i : StoresOf(i) \subseteq 1..Len(SQ) /\ Cardinality(StoresOf(i)) \in Nat
                   /\ IsFiniteSet(StoresOf(i))
         /\ \A i \in 1..Len(program) :
              /\ completed_mem_ops[i] \in Nat /\ program[i] \in Shapes
              /\ program[i].loads \in Seq(Addrs) /\ program[i].stores \in Seq(Addrs)
              /\ NumMemOps(i) \in Nat
<1> USE DEF TypeOK
<1>1. Len(program) \in Nat /\ Len(SQ) \in Nat
  OBVIOUS
<1>2. \A i : LoadsOf(i) \subseteq Slots
  BY DEF LoadsOf, Allocated
<1>3. \A i : StoresOf(i) \subseteq 1..Len(SQ)
  BY DEF StoresOf, Unfetched
<1>4. \A S \in SUBSET (1..Len(SQ)) : IsFiniteSet(S) /\ Cardinality(S) \in Nat
  <2>1. IsFiniteSet(1..Len(SQ))
    BY <1>1, FS_Interval
  <2> QED BY <2>1, FS_Subset, FS_CardinalityType
<1>5. ASSUME NEW i \in 1..Len(program)
      PROVE  /\ completed_mem_ops[i] \in Nat /\ program[i] \in Shapes
             /\ program[i].loads \in Seq(Addrs) /\ program[i].stores \in Seq(Addrs)
             /\ NumMemOps(i) \in Nat
  <2>1. completed_mem_ops[i] \in Nat /\ program[i] \in Shapes
    BY ElementOfSeq
  <2>2. program[i].loads \in Seq(Addrs) /\ program[i].stores \in Seq(Addrs)
    BY <2>1, QueueAssumption
  <2>3. Len(program[i].loads) \in Nat /\ Len(program[i].stores) \in Nat
    BY <2>2, LenProperties
  <2>4. \A m, n \in Nat : m + n \in Nat
    OBVIOUS
  <2>5. NumMemOps(i) \in Nat
    BY <2>3, <2>4, Zenon DEF NumMemOps
  <2> QED BY <2>1, <2>2, <2>5
<1> QED BY <1>1, <1>2, <1>3, <1>4, <1>5, SlotsFinite

\* What is not counted yet can still finish, and nothing else can.
LEMMA Uncounted ==
  ASSUME TypeOK
  PROVE  EveryOperationFinishesOnce <=>
           \A i \in 1..Len(program) :
             completed_mem_ops[i] + Cardinality(LoadsOf(i)) + Cardinality(StoresOf(i))
               = NumMemOps(i)
BY DEF EveryOperationFinishesOnce, LoadsOf, StoresOf

LEMMA LastIsUnique ==
  ASSUME NEW i \in Nat, NEW addr, NEW p, IsLast(program, i, addr, p)
  PROVE  p = LastStoreBefore(i, addr)
<1> DEFINE W == Writers(i, addr)
           Greatest(j) == j \in W /\ \A k \in W : k <= j
           c == CHOOSE j \in W : \A k \in W : k <= j
<1>1. W = WritersOf(program, i, addr) /\ W \subseteq Nat
  BY DEF Writers, WritersOf
<1>2. CASE W = {}
  BY <1>1, <1>2 DEF IsLast, LastStoreBefore
<1>3. CASE W # {}
  <2>1. Greatest(p)
    BY <1>1, <1>3 DEF IsLast
  <2>2. Greatest(c)
    BY <2>1
  <2>3. c = p
    <3> HIDE DEF c, W
    <3> QED BY <2>1, <2>2, <1>1
  <2> QED BY <1>3, <2>3 DEF LastStoreBefore
<1> QED BY <1>2, <1>3

\* Dispatch leaves the last stores of what is in the program as they were.
LEMMA LastOfAppend ==
  ASSUME NEW S, NEW prog \in Seq(S), NEW shape \in S,
         NEW i \in 1..(Len(prog) + 1), NEW addr, NEW p
  PROVE  IsLast(Append(prog, shape), i, addr, p) <=> IsLast(prog, i, addr, p)
<1>1. WritersOf(Append(prog, shape), i, addr) = WritersOf(prog, i, addr)
  <2>1. \A j \in 1..(i - 1) : Append(prog, shape)[j] = prog[j]
    BY AppendProperties
  <2> QED BY <2>1 DEF WritersOf
<1> QED BY <1>1 DEF IsLast

\* Loads of the set T leave the queue.
LEMMA LoadsLeave ==
  ASSUME TypeOK, NEW T \in SUBSET Allocated(LQ),
         LQ' = [s \in Slots |-> IF s \in T THEN Empty ELSE LQ[s]]
  PROVE  /\ LQ' \in [Slots -> {Empty} \cup LoadEntries]
         /\ Allocated(LQ') = Allocated(LQ) \ T
         /\ \A s \in Allocated(LQ') : LQ'[s] = LQ[s]
         /\ \A i \in 1..Len(program) :
              /\ OpsOf(T)[i] \in Nat
              /\ Cardinality(LoadsOf(i)') + OpsOf(T)[i] = Cardinality(LoadsOf(i))
<1> USE DEF TypeOK
<1>1. LQ' \in [Slots -> {Empty} \cup LoadEntries]
  OBVIOUS
<1>2. Allocated(LQ') = Allocated(LQ) \ T
  BY DEF Allocated
<1>3. \A s \in Allocated(LQ') : LQ'[s] = LQ[s]
  BY <1>2 DEF Allocated
<1>4. ASSUME NEW i \in 1..Len(program)
      PROVE  /\ OpsOf(T)[i] \in Nat
             /\ Cardinality(LoadsOf(i)') + OpsOf(T)[i] = Cardinality(LoadsOf(i))
  <2> DEFINE U == {s \in T : LQ[s].instr_id = i}
  <2>1. LoadsOf(i)' = LoadsOf(i) \ U /\ U \subseteq LoadsOf(i)
    BY <1>2, <1>3 DEF LoadsOf
  <2>2. OpsOf(T)[i] = Cardinality(U)
    BY DEF OpsOf
  <2>3. IsFiniteSet(LoadsOf(i)) /\ Cardinality(LoadsOf(i)) \in Nat
    BY Counted
  <2>4. IsFiniteSet(U) /\ Cardinality(U) \in Nat
    BY <2>1, <2>3, FS_Subset, FS_CardinalityType
  <2>5. Cardinality(LoadsOf(i) \ U) = Cardinality(LoadsOf(i)) - Cardinality(LoadsOf(i) \cap U)
    BY <2>3, FS_Difference
  <2>6. LoadsOf(i) \cap U = U
    BY <2>1
  <2> HIDE DEF U
  <2>7. Cardinality(LoadsOf(i)') = Cardinality(LoadsOf(i)) - Cardinality(U)
    BY <2>1, <2>5, <2>6
  <2> QED BY <2>2, <2>3, <2>4, <2>7
<1> QED BY <1>1, <1>2, <1>3, <1>4


LEMMA SameSize ==
  ASSUME NEW S, NEW T, IsFiniteSet(S), NEW f \in [S -> T],
         \A x, y \in S : f[x] = f[y] => x = y, \A t \in T : \E x \in S : f[x] = t
  PROVE  IsFiniteSet(T) /\ Cardinality(T) = Cardinality(S)
<1>1. f \in Bijection(S, T)
  BY DEF Bijection, Injection, IsInjective, Surjection
<1> QED BY <1>1, FS_Bijection DEF ExistsBijection

LEMMA StoreFields ==
  ASSUME TypeOK, NEW k \in 1..Len(SQ)
  PROVE  /\ SQ[k] \in StoreEntries
         /\ SQ[k].instr_id \in Nat /\ SQ[k].virtual_address \in Addrs
         /\ SQ[k].fetch_issued \in BOOLEAN /\ SQ[k].lq_depend_on_me \subseteq Slots
<1>1. SQ[k] \in StoreEntries
  BY ElementOfSeq DEF TypeOK
<1> QED BY <1>1 DEF StoreEntries

LEMMA LoadFields ==
  ASSUME TypeOK, NEW s \in Allocated(LQ)
  PROVE  /\ s \in Slots /\ LQ[s] \in LoadEntries
         /\ LQ[s].instr_id \in Nat /\ LQ[s].virtual_address \in Addrs
         /\ LQ[s].fetch_issued \in BOOLEAN /\ LQ[s].producer_id \in Nat
<1>1. s \in Slots /\ LQ[s] \in LoadEntries
  BY DEF TypeOK, Allocated
<1> QED BY <1>1 DEF LoadEntries

LEMMA DependentsAllocated ==
  ASSUME IInv
  PROVE  \A k \in 1..Len(SQ) : \A s \in SQ[k].lq_depend_on_me :
           s \in Allocated(LQ) /\ LQ[s].producer_id = SQ[k].instr_id
BY StoreFields DEF IInv, DependentsWait, Allocated

----------------------------------------------------------------------------
(* Steps *)

\* Execution is in no part of the invariant.
LEMMA SameQueues ==
  IInv /\ UNCHANGED <<program, num_retired, completed_mem_ops, LQ, SQ, memory, loaded>> => IInv'
<1> SUFFICES ASSUME IInv,
                    UNCHANGED <<program, num_retired, completed_mem_ops, LQ, SQ, memory, loaded>>
             PROVE  IInv'
  OBVIOUS
<1>1. TypeOK' /\ EntriesNamed' /\ WaitsForOne'
  BY DEF IInv, TypeOK, EntriesNamed, WaitsForOne
<1>2. DependentsWait' /\ StoresInOrder'
  BY DEF IInv, DependentsWait, StoresInOrder, Unfetched
<1>3. NewestStores' /\ LoadsBound' /\ SawLast'
  BY DEF IInv, NewestStores, LoadsBound, SawLast, Hits
<1>4. EveryOperationFinishesOnce'
  BY DEF IInv, EveryOperationFinishesOnce, Unfetched, NumMemOps
<1> QED BY <1>1, <1>2, <1>3, <1>4 DEF IInv

\* A load that reads L1D waits for no store.
LEMMA IssueStep ==
  ASSUME IInv, NEW s \in Slots, NEW merged, IssueLoad(s, merged)
  PROVE  IInv'
<1> USE DEF IInv, TypeOK
<1>1. /\ s \in Allocated(LQ) /\ LQ[s].producer_id = NoProducer
      /\ LQ' = [LQ EXCEPT ![s].fetch_issued = TRUE]
      /\ UNCHANGED <<program, num_retired, completed_mem_ops, SQ, memory, loaded>>
  BY DEF IssueLoad
<1>2. LQ[s] \in LoadEntries /\ LQ[s].instr_id # 0
  BY <1>1 DEF Allocated, EntriesNamed
<1>3. /\ LQ'[s] \in LoadEntries /\ LQ'[s].instr_id = LQ[s].instr_id
      /\ LQ'[s].virtual_address = LQ[s].virtual_address
      /\ LQ'[s].producer_id = LQ[s].producer_id
      /\ LQ'[s] # Empty
  BY <1>1, <1>2 DEF LoadEntries, Empty
<1>4. LQ' \in [Slots -> {Empty} \cup LoadEntries] /\ \A t \in Slots \ {s} : LQ'[t] = LQ[t]
  BY <1>1, <1>3
<1>5. Allocated(LQ') = Allocated(LQ)
  BY <1>1, <1>3, <1>4 DEF Allocated
<1>6. \A t \in Allocated(LQ) : /\ LQ'[t].instr_id = LQ[t].instr_id
                               /\ LQ'[t].virtual_address = LQ[t].virtual_address
                               /\ LQ'[t].producer_id = LQ[t].producer_id
                               /\ t # s => LQ'[t] = LQ[t]
  BY <1>3, <1>4 DEF Allocated
<1> HIDE DEF IInv, TypeOK
<1>7. TypeOK' /\ EntriesNamed'
  BY <1>1, <1>4, <1>5, <1>6 DEF IInv, TypeOK, EntriesNamed
<1>8. WaitsForOne'
  BY <1>1, <1>5, <1>6 DEF IInv, WaitsForOne
<1>9. DependentsWait'
  <2>1. \A k \in 1..Len(SQ) : \A t \in SQ[k].lq_depend_on_me : t \in Allocated(LQ)
    BY DependentsAllocated
  <2>2. Unfetched' = Unfetched
    BY <1>1 DEF Unfetched
  <2> QED BY <1>1, <1>5, <1>6, <2>1, <2>2 DEF IInv, DependentsWait, Allocated
<1>10. StoresInOrder' /\ NewestStores' /\ SawLast'
  BY <1>1 DEF IInv, StoresInOrder, NewestStores, SawLast, Unfetched, Hits
<1>11. LoadsBound'
  BY <1>1, <1>5, <1>6 DEF IInv, LoadsBound
<1>12. EveryOperationFinishesOnce'
  <2>1. \A i : LoadsOf(i)' = LoadsOf(i) /\ StoresOf(i)' = StoresOf(i)
    BY <1>1, <1>5, <1>6 DEF LoadsOf, StoresOf, Unfetched
  <2>2. \A i : NumMemOps(i)' = NumMemOps(i)
    BY <1>1 DEF NumMemOps
  <2>3. TypeOK /\ TypeOK'
    BY <1>7 DEF IInv
  <2>4. \A i \in 1..Len(program) :
          completed_mem_ops[i] + Cardinality(LoadsOf(i)) + Cardinality(StoresOf(i))
            = NumMemOps(i)
    BY <2>3, Uncounted DEF IInv
  <2> QED BY <1>1, <2>1, <2>2, <2>4 DEF EveryOperationFinishesOnce, LoadsOf, StoresOf
<1> QED BY <1>7, <1>8, <1>9, <1>10, <1>11, <1>12 DEF IInv


\* An instruction retires when its loads are gone and its stores have executed.
LEMMA RetireStep ==
  ASSUME IInv, Retire
  PROVE  IInv'
<1> DEFINE i == num_retired + 1
<1>1. /\ i \in 1..Len(program) /\ num_retired \in Nat /\ Len(program) \in Nat
      /\ completed_mem_ops[i] = NumMemOps(i) /\ num_retired' = i
      /\ UNCHANGED <<program, completed_mem_ops, LQ, SQ, memory, loaded>>
  <2>1. num_retired \in Nat /\ Len(program) \in Nat
    BY Counted DEF IInv, TypeOK
  <2>2. i..Len(program) # {}
    BY DEF Retire, InROB
  <2> QED BY <2>1, <2>2 DEF Retire
<1>2. LoadsOf(i) = {} /\ StoresOf(i) = {}
  <2>1. completed_mem_ops[i] + Cardinality(LoadsOf(i)) + Cardinality(StoresOf(i)) = NumMemOps(i)
    BY <1>1, Uncounted DEF IInv
  <2>2. /\ completed_mem_ops[i] \in Nat
        /\ Cardinality(LoadsOf(i)) \in Nat /\ IsFiniteSet(LoadsOf(i))
        /\ Cardinality(StoresOf(i)) \in Nat /\ IsFiniteSet(StoresOf(i))
    BY <1>1, Counted DEF IInv
  <2>3. Cardinality(LoadsOf(i)) = 0 /\ Cardinality(StoresOf(i)) = 0
    <3> HIDE DEF i
    <3> QED BY <1>1, <2>1, <2>2
  <2> QED BY <2>2, <2>3, FS_EmptySet
<1>3. TypeOK' /\ WaitsForOne' /\ DependentsWait'
  <2>1. TypeOK'
    <3>1. i \in 0..Len(program)
      BY <1>1
    <3> QED BY <1>1, <3>1 DEF IInv, TypeOK
  <2> QED BY <1>1, <2>1 DEF IInv, WaitsForOne, DependentsWait, Unfetched
<1>4. EntriesNamed'
  <2>1. \A s \in Allocated(LQ) : LQ[s].instr_id # i
    BY <1>2 DEF LoadsOf
  <2> QED BY <1>1, <2>1 DEF IInv, EntriesNamed
<1>5. StoresInOrder'
  <2>1. \A k \in Unfetched : SQ[k].instr_id > i
    <3>1. \A k \in Unfetched : SQ[k].instr_id # i /\ SQ[k].instr_id > num_retired
      BY <1>2 DEF StoresOf, IInv, StoresInOrder
    <3>2. \A k \in Unfetched : SQ[k].instr_id \in Nat
      BY StoreFields DEF Unfetched, IInv
    <3> QED BY <1>1, <3>1, <3>2
  <2>2. \A a \in Addrs : memory[a] <= i
    <3>1. \A a \in Addrs : memory[a] \in Nat /\ memory[a] <= num_retired
      BY DEF IInv, TypeOK, StoresInOrder
    <3> QED BY <1>1, <3>1
  <2> QED BY <1>1, <2>1, <2>2 DEF IInv, StoresInOrder, Unfetched
<1>6. NewestStores' /\ LoadsBound' /\ SawLast'
  BY <1>1 DEF IInv, NewestStores, LoadsBound, SawLast, Hits
<1>7. EveryOperationFinishesOnce'
  BY <1>1 DEF IInv, EveryOperationFinishesOnce, Unfetched, NumMemOps
<1> QED BY <1>3, <1>4, <1>5, <1>6, <1>7 DEF IInv

\* A store reaches memory after every older store to its address, and after
\* every older load: none reads a store it must not see.
LEMMA CompleteStoreStep ==
  ASSUME IInv, CompleteStore
  PROVE  IInv'
<1> DEFINE a0 == SQ[1].virtual_address
           n == Len(SQ) - 1
<1>1. /\ Len(SQ) \in Nat \ {0} /\ n \in Nat /\ 1 \in 1..Len(SQ)
      /\ SQ' \in Seq(StoreEntries) /\ Len(SQ') = n /\ \A k \in 1..n : SQ'[k] = SQ[k + 1]
      /\ \A k \in 1..n : k + 1 \in 1..Len(SQ)
      /\ \A k \in 2..Len(SQ) : k - 1 \in 1..n /\ SQ'[k - 1] = SQ[k]
      /\ SQ[1].instr_id <= num_retired
      /\ memory' = [memory EXCEPT ![a0] = SQ[1].instr_id]
      /\ UNCHANGED <<program, num_retired, completed_mem_ops, LQ, loaded>>
  <2>1. /\ SQ # <<>> /\ SQ' = Tail(SQ) /\ SQ \in Seq(StoreEntries) /\ Head(SQ) = SQ[1]
        /\ Len(SQ) \in Nat \ {0}
    BY EmptySeq DEF CompleteStore, IInv, TypeOK
  <2>2. /\ SQ' \in Seq(StoreEntries) /\ Len(SQ') = n
        /\ \A k \in 1..n : SQ'[k] = SQ[k + 1]
    BY <2>1, HeadTailProperties
  <2>3. \A k \in 2..Len(SQ) : k - 1 \in 1..n /\ SQ'[k - 1] = SQ[k]
    BY <2>1, <2>2
  <2>4. /\ SQ[1].instr_id <= num_retired
        /\ memory' = [memory EXCEPT ![a0] = SQ[1].instr_id]
        /\ UNCHANGED <<program, num_retired, completed_mem_ops, LQ, loaded>>
    BY <2>1 DEF CompleteStore, MayComplete
  <2>5. n \in Nat /\ 1 \in 1..Len(SQ) /\ \A k \in 1..n : k + 1 \in 1..Len(SQ)
    BY <2>1
  <2> QED BY <2>1, <2>2, <2>3, <2>4, <2>5
<1>2. /\ SQ[1].instr_id \in Nat /\ num_retired \in Nat /\ a0 \in Addrs
      /\ SQ[1].fetch_issued /\ SQ[1].lq_depend_on_me = {}
  <2>1. SQ[1].instr_id \in Nat /\ SQ[1].fetch_issued \in BOOLEAN /\ a0 \in Addrs
    BY <1>1, StoreFields DEF IInv
  <2>2. SQ[1].fetch_issued
    <3>1. num_retired \in Nat /\ (1 \in Unfetched => SQ[1].instr_id > num_retired)
      BY DEF IInv, TypeOK, StoresInOrder
    <3>2. 1 \notin Unfetched
      BY <1>1, <2>1, <3>1
    <3> QED BY <1>1, <2>1, <3>2 DEF Unfetched
  <2> QED BY <1>1, <2>1, <2>2 DEF IInv, TypeOK, WaitsForOne
<1>3. Unfetched = {k + 1 : k \in Unfetched'} /\ Unfetched' \subseteq 1..n
  <2>1. Unfetched' = {k \in 1..n : ~SQ[k + 1].fetch_issued}
    BY <1>1 DEF Unfetched
  <2>2. \A k \in Unfetched : k # 1 /\ k - 1 \in Unfetched' /\ k = (k - 1) + 1
    BY <1>1, <1>2, <2>1 DEF Unfetched
  <2>3. \A k \in Unfetched' : k + 1 \in Unfetched
    BY <1>1, <2>1 DEF Unfetched
  <2> QED BY <2>1, <2>2, <2>3
<1>4. TypeOK'
  BY <1>1, <1>2 DEF IInv, TypeOK
<1>5. EntriesNamed'
  BY <1>1 DEF IInv, EntriesNamed
<1>6. WaitsForOne'
  <2>1. \A j, k \in 1..n : j # k => j + 1 # k + 1
    BY <1>1
  <2> QED BY <1>1, <2>1 DEF IInv, WaitsForOne
<1>7. DependentsWait'
  <2>1. \A k \in 1..n : \A s \in SQ'[k].lq_depend_on_me :
          LQ[s] # Empty /\ LQ[s].producer_id = SQ'[k].instr_id
    BY <1>1 DEF IInv, DependentsWait
  <2>2. ASSUME NEW s \in Allocated(LQ), LQ[s].producer_id # NoProducer
        PROVE  \E k \in Unfetched' : s \in SQ'[k].lq_depend_on_me
    <3>1. PICK k \in Unfetched : s \in SQ[k].lq_depend_on_me
      BY <2>2 DEF IInv, DependentsWait
    <3>2. PICK j \in Unfetched' : k = j + 1
      BY <1>3
    <3> QED BY <1>1, <1>3, <3>1, <3>2
  <2> QED BY <1>1, <2>1, <2>2 DEF DependentsWait
<1>8. StoresInOrder'
  <2>1. \A j, k \in 1..n : j < k =>
          /\ SQ'[j].instr_id <= SQ'[k].instr_id
          /\ SQ'[k].fetch_issued => SQ'[j].fetch_issued
    <3>1. \A j, k \in 1..n : j < k => j + 1 < k + 1
      BY <1>1
    <3> QED BY <1>1, <3>1 DEF IInv, StoresInOrder
  <2>2. \A k \in Unfetched' : SQ'[k].instr_id > num_retired
    BY <1>1, <1>3 DEF IInv, StoresInOrder
  <2>3. \A a \in Addrs : memory'[a] <= num_retired
    BY <1>1, <1>2 DEF IInv, StoresInOrder, TypeOK
  <2> QED BY <1>1, <2>1, <2>2, <2>3 DEF StoresInOrder
<1> DEFINE L(a, p) == IsLast(program, Len(program) + 1, a, p)
<1>9. ASSUME NEW a \in Addrs
      PROVE  \/ Hits(a)' = {} /\ L(a, memory'[a])
             \/ \E k \in Hits(a)' : /\ L(a, SQ'[k].instr_id)
                                    /\ \A j \in Hits(a)' : SQ'[j].instr_id <= SQ'[k].instr_id
  <2> HIDE DEF L
  <2>1. Hits(a)' = {k \in 1..n : SQ[k + 1].virtual_address = a}
    BY <1>1 DEF Hits
  <2>2. /\ \A k \in Hits(a)' : k + 1 \in Hits(a) /\ SQ'[k] = SQ[k + 1]
        /\ \A k \in Hits(a) \ {1} : k - 1 \in Hits(a)' /\ SQ'[k - 1] = SQ[k]
    BY <1>1, <2>1 DEF Hits
  <2>3. CASE Hits(a) = {}
    <3>1. a # a0 /\ Hits(a)' = {}
      BY <1>1, <2>2, <2>3 DEF Hits
    <3>2. memory'[a] = memory[a]
      BY <1>1, <3>1 DEF IInv, TypeOK
    <3> QED BY <2>3, <3>1, <3>2 DEF IInv, NewestStores, L
  <2>4. CASE Hits(a) # {}
    <3>1. PICK k \in Hits(a) : /\ L(a, SQ[k].instr_id)
                               /\ \A j \in Hits(a) : SQ[j].instr_id <= SQ[k].instr_id
      BY <2>4 DEF IInv, NewestStores, L
    <3>2. CASE k # 1
      BY <2>2, <3>1, <3>2
    <3>3. CASE k = 1 /\ Hits(a)' = {}
      <4>1. memory'[a] = SQ[1].instr_id
        BY <1>1, <1>2, <3>3 DEF Hits, IInv, TypeOK
      <4> QED BY <3>1, <3>3, <4>1
    <3>4. CASE k = 1 /\ Hits(a)' # {}
      <4>1. PICK j \in Hits(a)' : TRUE
        BY <3>4
      <4>2. /\ SQ'[j] = SQ[j + 1] /\ j + 1 \in Hits(a) /\ j + 1 \in 1..Len(SQ) /\ 1 < j + 1
        BY <1>1, <2>1, <2>2, <4>1
      <4>3. SQ[1].instr_id <= SQ[j + 1].instr_id /\ SQ[j + 1].instr_id <= SQ[1].instr_id
        BY <1>1, <3>1, <3>4, <4>2 DEF IInv, StoresInOrder
      <4>4. SQ[j + 1].instr_id \in Nat
        BY <4>2, StoreFields DEF IInv
      <4>5. SQ'[j].instr_id = SQ[k].instr_id
        BY <1>2, <3>4, <4>2, <4>3, <4>4
      <4> QED BY <2>2, <3>1, <4>1, <4>5
    <3> QED BY <3>2, <3>3, <3>4
  <2> QED BY <2>3, <2>4
<1>10. NewestStores'
  BY <1>1, <1>9 DEF NewestStores
<1>11. LoadsBound'
  <2>1. ASSUME NEW s \in Allocated(LQ), LQ[s].producer_id = NoProducer
        PROVE  memory'[LQ[s].virtual_address] = memory[LQ[s].virtual_address]
    <3>1. LQ[s].instr_id > num_retired /\ LQ[s].virtual_address \in Addrs
      BY LoadFields, <1>2 DEF IInv, TypeOK, EntriesNamed
    <3>2. LQ[s].instr_id \in Nat
      BY LoadFields DEF IInv
    <3>3. LQ[s].virtual_address # a0
      <4>1. SUFFICES ASSUME LQ[s].virtual_address = a0 PROVE FALSE
        OBVIOUS
      <4>2. LQ[s].instr_id <= SQ[1].instr_id
        BY <1>1, <2>1, <4>1 DEF IInv, LoadsBound
      <4> QED BY <1>1, <1>2, <3>1, <3>2, <4>2
    <3> QED BY <1>1, <3>1, <3>3 DEF IInv, TypeOK
  <2>2. \A s \in Allocated(LQ) : LQ[s].producer_id = NoProducer =>
          \A k \in 1..n : SQ'[k].virtual_address = LQ[s].virtual_address
                            => LQ[s].instr_id <= SQ'[k].instr_id
    BY <1>1 DEF IInv, LoadsBound
  <2> QED BY <1>1, <2>1, <2>2 DEF IInv, LoadsBound
<1>12. SawLast'
  BY <1>1 DEF IInv, SawLast
<1>13. EveryOperationFinishesOnce'
  <2>1. ASSUME NEW i PROVE Cardinality(StoresOf(i)') = Cardinality(StoresOf(i))
    <3> DEFINE f == [k \in StoresOf(i) |-> k - 1]
    <3>1. /\ \A k \in StoresOf(i)' : k \in 1..n /\ k + 1 \in StoresOf(i)
          /\ \A k \in StoresOf(i) : k \in 1..Len(SQ) /\ k - 1 \in StoresOf(i)'
      <4>1. StoresOf(i)' = {k \in Unfetched' : SQ[k + 1].instr_id = i}
        BY <1>1, <1>3 DEF StoresOf
      <4>2. \A k \in Unfetched' : k \in 1..n /\ (k + 1) - 1 = k
        BY <1>1, <1>3
      <4> QED BY <1>3, <4>1, <4>2, SMTT(60) DEF StoresOf, Unfetched
    <3>2. /\ f \in [StoresOf(i) -> StoresOf(i)']
          /\ \A x, y \in StoresOf(i) : f[x] = f[y] => x = y
          /\ \A t \in StoresOf(i)' : \E x \in StoresOf(i) : f[x] = t
      <4>1. f \in [StoresOf(i) -> StoresOf(i)']
        BY <3>1
      <4>2. \A x, y \in StoresOf(i) : x - 1 = y - 1 => x = y
        BY <1>1, <3>1
      <4>3. \A t \in StoresOf(i)' : t + 1 \in StoresOf(i) /\ (t + 1) - 1 = t
        BY <1>1, <3>1
      <4> QED BY <4>1, <4>2, <4>3
    <3> HIDE DEF f
    <3> QED BY <3>2, Counted, SameSize DEF IInv
  <2>2. \A i : LoadsOf(i)' = LoadsOf(i) /\ NumMemOps(i)' = NumMemOps(i)
    BY <1>1 DEF LoadsOf, NumMemOps
  <2>3. \A i \in 1..Len(program) :
          completed_mem_ops[i] + Cardinality(LoadsOf(i)) + Cardinality(StoresOf(i))
            = NumMemOps(i)
    BY Uncounted DEF IInv
  <2> QED BY <1>1, <2>1, <2>2, <2>3 DEF EveryOperationFinishesOnce, LoadsOf, StoresOf
<1> QED BY <1>4, <1>5, <1>6, <1>7, <1>8, <1>10, <1>11, <1>12, <1>13 DEF IInv


LEMMA FinishCounts ==
  ASSUME TypeOK, NEW ops, \A i \in 1..Len(program) : ops[i] \in Nat
  PROVE  /\ Finish(ops) \in Seq(Nat) /\ Len(Finish(ops)) = Len(program)
         /\ \A i \in 1..Len(program) : Finish(ops)[i] = completed_mem_ops[i] + ops[i]
<1>1. Len(program) \in Nat /\ \A i \in 1..Len(program) : completed_mem_ops[i] \in Nat
  BY Counted
<1>2. Finish(ops) \in [1..Len(program) -> Nat]
  BY <1>1 DEF Finish
<1>3. Finish(ops) \in Seq(Nat) /\ Len(Finish(ops)) = Len(program)
  BY <1>1, <1>2
<1>4. \A i \in 1..Len(program) : Finish(ops)[i] = completed_mem_ops[i] + ops[i]
  BY DEF Finish
<1> QED BY <1>3, <1>4

\* The loads of a block that L1D answers wait for no store, and memory still
\* holds, for each, the last store before it.
LEMMA ReturnStep ==
  ASSUME IInv, NEW b, Return(b)
  PROVE  IInv'
<1> DEFINE T == Served(b)
<1>1. /\ LQ' = [s \in Slots |-> IF s \in T THEN Empty ELSE LQ[s]]
      /\ completed_mem_ops' = Finish(OpsOf(T))
      /\ loaded' = loaded \cup {<<LQ[s].instr_id, LQ[s].virtual_address,
                                  memory[LQ[s].virtual_address]>> : s \in T}
      /\ UNCHANGED <<program, num_retired, SQ, memory>>
  BY DEF Return
<1>2. T \subseteq Allocated(LQ) /\ \A s \in T : LQ[s].producer_id = NoProducer
  BY DEF Served, IInv, WaitsForOne
<1> HIDE DEF T
<1>3. TypeOK
  BY DEF IInv
<1>4. /\ LQ' \in [Slots -> {Empty} \cup LoadEntries]
      /\ Allocated(LQ') = Allocated(LQ) \ T
      /\ \A s \in Allocated(LQ') : LQ'[s] = LQ[s]
      /\ \A i \in 1..Len(program) :
           /\ OpsOf(T)[i] \in Nat
           /\ Cardinality(LoadsOf(i)') + OpsOf(T)[i] = Cardinality(LoadsOf(i))
  BY <1>1, <1>2, <1>3, LoadsLeave
<1>5. /\ completed_mem_ops' \in Seq(Nat) /\ Len(completed_mem_ops') = Len(program)
      /\ \A i \in 1..Len(program) :
           completed_mem_ops'[i] = completed_mem_ops[i] + OpsOf(T)[i]
  BY <1>1, <1>3, <1>4, FinishCounts
<1>6. TypeOK'
  BY <1>1, <1>3, <1>4, <1>5 DEF TypeOK
<1>7. EntriesNamed' /\ WaitsForOne'
  BY <1>1, <1>4 DEF IInv, EntriesNamed, WaitsForOne
<1>8. DependentsWait'
  <2>1. \A k \in 1..Len(SQ) : \A s \in SQ[k].lq_depend_on_me :
          s \in Allocated(LQ') /\ LQ'[s].producer_id = SQ[k].instr_id
    <3>1. \A k \in 1..Len(SQ) : SQ[k].instr_id # NoProducer
      BY <1>3, Counted DEF IInv, EntriesNamed, NoProducer
    <3> QED BY <1>2, <1>4, <3>1, DependentsAllocated
  <2>2. Unfetched' = Unfetched
    BY <1>1 DEF Unfetched
  <2> QED BY <1>1, <1>4, <2>1, <2>2 DEF IInv, DependentsWait, Allocated
<1>9. StoresInOrder' /\ NewestStores'
  BY <1>1 DEF IInv, StoresInOrder, NewestStores, Unfetched, Hits
<1>10. LoadsBound'
  BY <1>1, <1>4 DEF IInv, LoadsBound
<1>11. SawLast'
  <2>1. ASSUME NEW s \in T
        PROVE  /\ LQ[s].instr_id \in 1..Len(program)
               /\ IsLast(program, LQ[s].instr_id, LQ[s].virtual_address,
                         memory[LQ[s].virtual_address])
    <3>1. LQ[s].instr_id \in 1..Len(program)
      BY <1>2, <1>3, Counted DEF IInv, TypeOK, EntriesNamed
    <3> QED BY <1>2, <3>1 DEF IInv, LoadsBound
  <2> QED BY <1>1, <2>1 DEF IInv, SawLast
<1>12. EveryOperationFinishesOnce'
  <2>1. \A i : StoresOf(i)' = StoresOf(i) /\ NumMemOps(i)' = NumMemOps(i)
    BY <1>1 DEF StoresOf, Unfetched, NumMemOps
  <2>2. ASSUME NEW i \in 1..Len(program)
        PROVE  completed_mem_ops'[i] + Cardinality(LoadsOf(i)') + Cardinality(StoresOf(i))
                 = NumMemOps(i)
    <3>1. completed_mem_ops[i] + Cardinality(LoadsOf(i)) + Cardinality(StoresOf(i)) = NumMemOps(i)
      BY <1>3, Uncounted DEF IInv
    <3>2. /\ completed_mem_ops'[i] = completed_mem_ops[i] + OpsOf(T)[i] /\ OpsOf(T)[i] \in Nat
          /\ Cardinality(LoadsOf(i)') + OpsOf(T)[i] = Cardinality(LoadsOf(i))
      BY <1>4, <1>5
    <3>3. /\ completed_mem_ops[i] \in Nat /\ Cardinality(LoadsOf(i)) \in Nat
          /\ Cardinality(StoresOf(i)) \in Nat
      BY <1>3, Counted
    <3>4. Cardinality(LoadsOf(i)') \in Nat
      <4>1. LoadsOf(i)' \subseteq LoadsOf(i)
        BY <1>4 DEF LoadsOf
      <4> QED BY <1>3, <4>1, Counted, FS_Subset, FS_CardinalityType
    <3> QED BY <3>1, <3>2, <3>3, <3>4
  <2> QED BY <1>1, <2>1, <2>2 DEF EveryOperationFinishesOnce, LoadsOf, StoresOf
<1> QED BY <1>6, <1>7, <1>8, <1>9, <1>10, <1>11, <1>12 DEF IInv

\* An executed store finishes itself and the loads that wait for it, and them only.
LEMMA FinishStoreStep ==
  ASSUME IInv, NEW k \in Unfetched, FinishStore(k)
  PROVE  IInv'
<1> DEFINE T == SQ[k].lq_depend_on_me
           id == SQ[k].instr_id
           ops == [OpsOf(T) EXCEPT ![id] = @ + 1]
<1>1. /\ \A j \in Unfetched : k <= j
      /\ LQ' = [s \in Slots |-> IF s \in T THEN Empty ELSE LQ[s]]
      /\ completed_mem_ops' = Finish(ops)
      /\ loaded' = loaded \cup {<<LQ[s].instr_id, LQ[s].virtual_address, id>> : s \in T}
      /\ SQ' = [SQ EXCEPT ![k].fetch_issued = TRUE, ![k].lq_depend_on_me = {}]
      /\ UNCHANGED <<program, num_retired, memory>>
  BY DEF FinishStore
<1>2. /\ TypeOK /\ k \in 1..Len(SQ) /\ ~SQ[k].fetch_issued /\ Len(SQ) \in Nat
      /\ Len(program) \in Nat /\ id \in 1..Len(program)
  BY Counted DEF IInv, Unfetched, EntriesNamed
<1>3. T \subseteq Allocated(LQ) /\ \A s \in T : LQ[s].producer_id = id
  BY <1>2, DependentsAllocated
<1>4. /\ SQ' \in Seq(StoreEntries) /\ Len(SQ') = Len(SQ)
      /\ \A j \in 1..Len(SQ) : j # k => SQ'[j] = SQ[j]
      /\ SQ'[k].fetch_issued /\ SQ'[k].lq_depend_on_me = {}
      /\ SQ'[k].instr_id = id /\ SQ'[k].virtual_address = SQ[k].virtual_address
  <2> DEFINE e == [SQ[k] EXCEPT !.fetch_issued = TRUE, !.lq_depend_on_me = {}]
  <2>1. SQ[k] \in StoreEntries /\ SQ \in Seq(StoreEntries)
    BY <1>2, StoreFields DEF TypeOK
  <2>2. /\ e \in StoreEntries /\ e.fetch_issued /\ e.lq_depend_on_me = {}
        /\ e.instr_id = id /\ e.virtual_address = SQ[k].virtual_address
    BY <2>1 DEF StoreEntries
  <2>3. SQ' = [SQ EXCEPT ![k] = e]
    BY <1>1
  <2> HIDE DEF e, id
  <2> QED BY <1>2, <2>1, <2>2, <2>3, ExceptSeq
<1> HIDE DEF T, id, ops
<1>5. /\ LQ' \in [Slots -> {Empty} \cup LoadEntries]
      /\ Allocated(LQ') = Allocated(LQ) \ T
      /\ \A s \in Allocated(LQ') : LQ'[s] = LQ[s]
      /\ \A i \in 1..Len(program) :
           /\ OpsOf(T)[i] \in Nat
           /\ Cardinality(LoadsOf(i)') + OpsOf(T)[i] = Cardinality(LoadsOf(i))
  BY <1>1, <1>2, <1>3, LoadsLeave
<1>6. /\ \A i \in 1..Len(program) : ops[i] = IF i = id THEN OpsOf(T)[i] + 1 ELSE OpsOf(T)[i]
      /\ \A i \in 1..Len(program) : ops[i] \in Nat
  <2>1. DOMAIN OpsOf(T) = 1..Len(program) /\ OpsOf(T) = [i \in 1..Len(program) |-> OpsOf(T)[i]]
    BY DEF OpsOf
  <2>2. \A i \in 1..Len(program) : ops[i] = IF i = id THEN OpsOf(T)[i] + 1 ELSE OpsOf(T)[i]
    BY <1>2, <2>1 DEF ops
  <2> QED BY <1>5, <2>2
<1>7. /\ completed_mem_ops' \in Seq(Nat) /\ Len(completed_mem_ops') = Len(program)
      /\ \A i \in 1..Len(program) : completed_mem_ops'[i] = completed_mem_ops[i] + ops[i]
  BY <1>1, <1>2, <1>6, FinishCounts
<1>8. Unfetched' = Unfetched \ {k}
  BY <1>2, <1>4 DEF Unfetched
<1>9. \A j \in 1..Len(SQ) : /\ SQ'[j].instr_id = SQ[j].instr_id
                            /\ SQ'[j].virtual_address = SQ[j].virtual_address
                            /\ SQ'[j].lq_depend_on_me = IF j = k THEN {} ELSE SQ[j].lq_depend_on_me
  BY <1>4 DEF id
<1>10. TypeOK'
  BY <1>1, <1>2, <1>4, <1>5, <1>7 DEF TypeOK
<1>11. EntriesNamed'
  BY <1>1, <1>4, <1>5, <1>9 DEF IInv, EntriesNamed
<1>12. WaitsForOne'
  <2>1. \A i, j \in 1..Len(SQ) : i # j => SQ'[i].lq_depend_on_me \cap SQ'[j].lq_depend_on_me = {}
    BY <1>9 DEF IInv, WaitsForOne
  <2>2. \A j \in 1..Len(SQ) : SQ'[j].fetch_issued => SQ'[j].lq_depend_on_me = {}
    BY <1>4, <1>9 DEF IInv, WaitsForOne
  <2> QED BY <1>4, <1>5, <2>1, <2>2 DEF IInv, WaitsForOne
<1>13. DependentsWait'
  <2>1. ASSUME NEW j \in 1..Len(SQ), NEW s \in SQ'[j].lq_depend_on_me
        PROVE  s \in Allocated(LQ') /\ LQ'[s].producer_id = SQ'[j].instr_id
    <3>1. j # k /\ s \in SQ[j].lq_depend_on_me
      BY <1>9, <2>1
    <3>2. s \notin T
      BY <1>2, <3>1 DEF T, IInv, WaitsForOne
    <3> QED BY <1>5, <1>9, <3>1, <3>2, DependentsAllocated
  <2>2. ASSUME NEW s \in Allocated(LQ'), LQ'[s].producer_id # NoProducer
        PROVE  \E j \in Unfetched' : s \in SQ'[j].lq_depend_on_me
    <3>1. PICK j \in Unfetched : s \in SQ[j].lq_depend_on_me
      BY <1>5, <2>2 DEF IInv, DependentsWait
    <3>2. j # k /\ j \in 1..Len(SQ)
      BY <1>5, <3>1 DEF T, Unfetched
    <3> QED BY <1>8, <1>9, <3>1, <3>2
  <2> QED BY <1>4, <2>1, <2>2 DEF DependentsWait, Allocated
<1>14. StoresInOrder'
  <2>1. ASSUME NEW i \in 1..Len(SQ), NEW j \in 1..Len(SQ), i < j
        PROVE  /\ SQ'[i].instr_id <= SQ'[j].instr_id
               /\ SQ'[j].fetch_issued => SQ'[i].fetch_issued
    <3>1. SQ'[i].instr_id <= SQ'[j].instr_id
      BY <1>9, <2>1 DEF IInv, StoresInOrder
    <3>2. CASE j = k
      <4>1. i \notin Unfetched
        BY <1>1, <1>2, <2>1, <3>2
      <4> QED BY <1>4, <2>1, <3>1, <3>2, <4>1 DEF Unfetched
    <3>3. CASE j # k
      BY <1>4, <2>1, <3>1, <3>3 DEF IInv, StoresInOrder
    <3> QED BY <3>2, <3>3
  <2>2. \A j \in Unfetched' : SQ'[j].instr_id > num_retired
    BY <1>8, <1>9 DEF IInv, StoresInOrder, Unfetched
  <2> QED BY <1>1, <1>4, <2>1, <2>2 DEF IInv, StoresInOrder
<1>15. NewestStores'
  <2>1. \A a : Hits(a)' = Hits(a) /\ Hits(a) \subseteq 1..Len(SQ)
    BY <1>4, <1>9 DEF Hits
  <2> QED BY <1>1, <1>9, <2>1 DEF IInv, NewestStores
<1>16. LoadsBound'
  <2>1. ASSUME NEW s \in Allocated(LQ'), LQ[s].producer_id = NoProducer,
               NEW j \in 1..Len(SQ), SQ'[j].virtual_address = LQ[s].virtual_address
        PROVE  LQ[s].instr_id <= SQ'[j].instr_id
    BY <1>5, <1>9, <2>1 DEF IInv, LoadsBound
  <2>2. \A s \in Allocated(LQ') : /\ s \in Allocated(LQ) /\ LQ'[s] = LQ[s]
    BY <1>5
  <2>3. ASSUME NEW s \in Allocated(LQ')
        PROVE  /\ LQ[s].producer_id # NoProducer =>
                    IsLast(program, LQ[s].instr_id, LQ[s].virtual_address, LQ[s].producer_id)
               /\ LQ[s].producer_id = NoProducer =>
                    IsLast(program, LQ[s].instr_id, LQ[s].virtual_address,
                           memory[LQ[s].virtual_address])
    BY <2>2 DEF IInv, LoadsBound
  <2> HIDE DEF IsLast
  <2> QED BY <1>1, <1>4, <2>1, <2>2, <2>3, SMTT(60) DEF LoadsBound
<1>17. SawLast'
  <2>1. ASSUME NEW s \in T
        PROVE  /\ LQ[s].instr_id \in 1..Len(program)
               /\ IsLast(program, LQ[s].instr_id, LQ[s].virtual_address, id)
    <3>1. LQ[s].instr_id \in 1..Len(program)
      BY <1>2, <1>3 DEF IInv, TypeOK, EntriesNamed
    <3>2. id # NoProducer
      BY <1>2 DEF NoProducer
    <3> QED BY <1>3, <3>1, <3>2 DEF IInv, LoadsBound
  <2> QED BY <1>1, <2>1 DEF IInv, SawLast
<1>18. EveryOperationFinishesOnce'
  <2>1. \A i : NumMemOps(i)' = NumMemOps(i)
    BY <1>1 DEF NumMemOps
  <2>2. ASSUME NEW i \in 1..Len(program)
        PROVE  completed_mem_ops'[i] + Cardinality(LoadsOf(i)') + Cardinality(StoresOf(i)')
                 = NumMemOps(i)
    <3>1. completed_mem_ops[i] + Cardinality(LoadsOf(i)) + Cardinality(StoresOf(i)) = NumMemOps(i)
      BY <1>2, Uncounted DEF IInv
    <3>2. Cardinality(LoadsOf(i)') + OpsOf(T)[i] = Cardinality(LoadsOf(i)) /\ OpsOf(T)[i] \in Nat
      BY <1>5
    <3>3. /\ completed_mem_ops[i] \in Nat /\ Cardinality(LoadsOf(i)) \in Nat
          /\ Cardinality(StoresOf(i)) \in Nat /\ IsFiniteSet(StoresOf(i))
      BY <1>2, Counted
    <3>4. Cardinality(LoadsOf(i)') \in Nat
      <4>1. LoadsOf(i)' \subseteq LoadsOf(i)
        BY <1>5 DEF LoadsOf
      <4> QED BY <1>2, <4>1, Counted, FS_Subset, FS_CardinalityType
    <3>5. StoresOf(i)' = StoresOf(i) \ {k} /\ (k \in StoresOf(i) <=> i = id)
      BY <1>8, <1>9 DEF StoresOf, Unfetched, id
    <3>6. /\ Cardinality(StoresOf(i)') = IF i = id THEN Cardinality(StoresOf(i)) - 1
                                         ELSE Cardinality(StoresOf(i))
      BY <3>3, <3>5, FS_RemoveElement
    <3>7. completed_mem_ops'[i] = completed_mem_ops[i]
            + (IF i = id THEN OpsOf(T)[i] + 1 ELSE OpsOf(T)[i])
      BY <1>6, <1>7
    <3>8. CASE i = id
      <4>1. completed_mem_ops'[i] = completed_mem_ops[i] + (OpsOf(T)[i] + 1)
        BY <3>7, <3>8
      <4>2. Cardinality(StoresOf(i)') = Cardinality(StoresOf(i)) - 1
        BY <3>6, <3>8
      <4>3. \A c, o, l, st \in Nat, m \in Nat :
              m + o = l => (c + (o + 1)) + m + (st - 1) = c + l + st
        OBVIOUS
      <4> DEFINE c == completed_mem_ops[i]
                 l == Cardinality(LoadsOf(i))
                 m == Cardinality(LoadsOf(i)')
                 st == Cardinality(StoresOf(i))
                 o == OpsOf(T)[i]
      <4>4. c \in Nat /\ l \in Nat /\ m \in Nat /\ st \in Nat /\ o \in Nat /\ m + o = l
        BY <3>2, <3>3, <3>4
      <4>5. NumMemOps(i) = c + l + st
        BY <3>1
      <4>6. (c + (o + 1)) + m + (st - 1) = c + l + st
        <5> HIDE DEF c, l, m, st, o
        <5> QED BY <4>3, <4>4
      <4> QED BY <4>1, <4>2, <4>5, <4>6
    <3>9. CASE i # id
      BY <3>1, <3>2, <3>3, <3>4, <3>6, <3>7, <3>9
    <3> QED BY <3>8, <3>9
  <2> QED BY <1>1, <2>1, <2>2 DEF EveryOperationFinishesOnce, LoadsOf, StoresOf
<1> QED BY <1>10, <1>11, <1>12, <1>13, <1>14, <1>15, <1>16, <1>17, <1>18 DEF IInv


\* Among the stores of an address, forwarding finds the last of the program.
LEMMA YoungestIsLast ==
  ASSUME IInv, NEW a \in Addrs, Hits(a) # {}
  PROVE  /\ YoungestStore(a) \in Hits(a) /\ Hits(a) \subseteq 1..Len(SQ)
         /\ IsLast(program, Len(program) + 1, a, SQ[YoungestStore(a)].instr_id)
<1> DEFINE Youngest(k) == \A j \in Hits(a) : SQ[j].instr_id <= SQ[k].instr_id
           M == {k \in Hits(a) : Youngest(k)}
           First(k) == \A j \in Hits(a) : /\ SQ[j].instr_id <= SQ[k].instr_id
                                          /\ SQ[j].instr_id = SQ[k].instr_id => k <= j
           y == CHOOSE k \in Hits(a) : First(k)
<1>1. PICK k \in Hits(a) : Youngest(k) /\ IsLast(program, Len(program) + 1, a, SQ[k].instr_id)
  BY DEF IInv, NewestStores
<1>2. Hits(a) \subseteq 1..Len(SQ) /\ \A j \in Hits(a) : SQ[j].instr_id \in Nat
  BY StoreFields DEF Hits, IInv
<1>3. PICK f \in M : \A j \in M : f <= j
  <2>1. M \in SUBSET Nat /\ M # {}
    BY <1>1, <1>2
  <2> HIDE DEF M
  <2> QED BY <2>1, LeastExists
<1>4. First(f)
  <2> SUFFICES ASSUME NEW j \in Hits(a), SQ[j].instr_id = SQ[f].instr_id PROVE f <= j
    BY <1>3
  <2>1. j \in M
    BY <1>3
  <2> QED BY <1>3, <2>1
<1>5. y \in Hits(a) /\ First(y)
  <2>1. f \in Hits(a)
    BY <1>3
  <2> HIDE DEF First
  <2> QED BY <1>4, <2>1
<1>6. SQ[y].instr_id = SQ[k].instr_id
  <2> HIDE DEF y
  <2> QED BY <1>1, <1>2, <1>5
<1>7. y = YoungestStore(a)
  BY DEF YoungestStore
<1> QED
  <2> HIDE DEF y
  <2> QED BY <1>1, <1>2, <1>5, <1>6, <1>7

LEMMA ProducerIsLast ==
  ASSUME IInv, NEW a \in Addrs
  PROVE  /\ Producer(a) \in Nat
         /\ Hits(a) = {} => /\ Producer(a) = NoProducer
                            /\ IsLast(program, Len(program) + 1, a, memory[a])
         /\ Hits(a) # {} => /\ Producer(a) # NoProducer
                            /\ Producer(a) = SQ[YoungestStore(a)].instr_id
                            /\ IsLast(program, Len(program) + 1, a, Producer(a))
<1>1. CASE Hits(a) = {}
  BY <1>1 DEF Producer, NoProducer, IInv, NewestStores
<1>2. CASE Hits(a) # {}
  <2>1. YoungestStore(a) \in 1..Len(SQ) /\ Producer(a) = SQ[YoungestStore(a)].instr_id
    BY <1>2, YoungestIsLast DEF Producer
  <2>2. Producer(a) \in 1..Len(program) /\ Len(program) \in Nat
    BY <2>1, Counted DEF IInv, EntriesNamed
  <2> QED BY <1>2, <2>1, <2>2, YoungestIsLast DEF NoProducer
<1> QED BY <1>1, <1>2

\* The loads that are kept take different free slots.
LEMMA PlacedApart ==
  ASSUME NEW kept \in SUBSET Nat, NEW place \in FirstFit(kept)
  PROVE  /\ place \in [kept -> Slots \ Allocated(LQ)] /\ DOMAIN place = kept
         /\ Range(place) = {place[n] : n \in kept}
         /\ \A m, n \in kept : place[m] = place[n] => m = n
         /\ \A n \in kept : (CHOOSE m \in kept : place[m] = place[n]) = n
<1>1. /\ place \in [kept -> Slots \ Allocated(LQ)] /\ DOMAIN place = kept
      /\ \A m, n \in kept : m < n => place[m] < place[n]
  BY DEF FirstFit
<1>2. \A n \in kept : place[n] \in Int
  BY <1>1, SlotsFinite DEF Slots
<1>3. \A m, n \in kept : place[m] = place[n] => m = n
  BY <1>1, <1>2
<1>4. Range(place) = {place[n] : n \in kept}
  BY <1>1 DEF Range
<1>5. \A n \in kept : (CHOOSE m \in kept : place[m] = place[n]) = n
  BY <1>3
<1> QED BY <1>1, <1>3, <1>4, <1>5


\* The loads of an instruction find the last stores before it, wherever they
\* are, and its stores become the last of the program.
LEMMA DispatchStep ==
  ASSUME IInv, NEW shape \in Shapes, Dispatch(shape)
  PROVE  IInv'
<1> DEFINE i == Len(program) + 1
           loads == shape.loads
           stores == shape.stores
           done == Forwarded(loads)
           kept == (1..Len(loads)) \ done
           n0 == Len(SQ)
           new == Len(stores)
<1>1. PICK place \in FirstFit(kept) :
        /\ LQ' = [s \in Slots |-> IF s \in Range(place)
                                  THEN LoadEntry(i, loads[CHOOSE n \in kept : place[n] = s])
                                  ELSE LQ[s]]
        /\ SQ' = [k \in 1..n0 |-> [SQ[k] EXCEPT !.lq_depend_on_me =
                                           @ \cup Dependents(k, loads, place)]]
                    \o [k \in 1..new |-> StoreEntry(i, stores[k])]
        /\ completed_mem_ops' = Append(completed_mem_ops, Cardinality(done))
        /\ loaded' = loaded \cup {<<i, loads[n], Producer(loads[n])>> : n \in done}
  BY DEF Dispatch
<1>2. program' = Append(program, shape) /\ UNCHANGED <<num_retired, memory>>
  BY DEF Dispatch
<1>3. /\ TypeOK /\ n0 \in Nat /\ Len(program) \in Nat /\ i \in Nat
      /\ num_retired \in 0..Len(program)
  BY Counted DEF IInv, TypeOK
<1>4. /\ loads \in Seq(Addrs) /\ stores \in Seq(Addrs)
      /\ Len(loads) \in Nat /\ new \in Nat
      /\ \A n \in 1..Len(loads) : loads[n] \in Addrs
      /\ \A n \in 1..new : stores[n] \in Addrs
  <2>1. loads \in Seq(Addrs) /\ stores \in Seq(Addrs)
    BY QueueAssumption
  <2> HIDE DEF loads, stores
  <2> QED BY <2>1, ElementOfSeq, LenProperties
<1>5. /\ done \subseteq 1..Len(loads) /\ kept \subseteq 1..Len(loads)
      /\ \A n \in done : Hits(loads[n]) # {}
      /\ \A n \in kept : Hits(loads[n]) # {} => ~SQ[YoungestStore(loads[n])].fetch_issued
  BY DEF Forwarded
<1> HIDE DEF done, kept, loads, stores, new, n0, i
<1>6. /\ place \in [kept -> Slots \ Allocated(LQ)] /\ DOMAIN place = kept
      /\ Range(place) = {place[n] : n \in kept}
      /\ \A m, n \in kept : place[m] = place[n] => m = n
      /\ \A n \in kept : (CHOOSE m \in kept : place[m] = place[n]) = n
  <2>1. kept \in SUBSET Nat
    BY <1>4, <1>5
  <2> QED BY <2>1, PlacedApart
<1>7. program' \in Seq(Shapes) /\ Len(program') = i
      /\ (\A j \in 1..Len(program) : program'[j] = program[j]) /\ program'[i] = shape
  BY <1>2, <1>3, AppendProperties DEF TypeOK, i
<1>8. /\ completed_mem_ops' \in Seq(Nat) /\ Len(completed_mem_ops') = i
      /\ \A j \in 1..Len(program) : completed_mem_ops'[j] = completed_mem_ops[j]
      /\ completed_mem_ops'[i] = Cardinality(done) /\ Cardinality(done) \in Nat
      /\ Cardinality(kept) = Len(loads) - Cardinality(done)
      /\ IsFiniteSet(kept)
  <2>1. IsFiniteSet(1..Len(loads)) /\ Cardinality(1..Len(loads)) = Len(loads)
    <3>1. \A m \in Nat : IsFiniteSet(1..m) /\ Cardinality(1..m) = m
      <4> TAKE m \in Nat
      <4> QED BY FS_Interval
    <3> QED BY <1>4, <3>1
  <2>2. IsFiniteSet(done) /\ Cardinality(done) \in Nat /\ IsFiniteSet(kept)
    BY <1>5, <2>1, FS_Subset, FS_CardinalityType
  <2>3. (1..Len(loads)) \cap done = done
    BY <1>5
  <2>4. Cardinality(kept) = Len(loads) - Cardinality(done)
    BY <2>1, <2>3, FS_Difference, ZenonT(60) DEF kept
  <2>5. /\ completed_mem_ops \in Seq(Nat) /\ Len(completed_mem_ops) = Len(program)
    BY <1>3 DEF TypeOK
  <2> QED BY <1>1, <1>3, <2>2, <2>4, <2>5, AppendProperties DEF i
<1>9. /\ LQ' \in [Slots -> {Empty} \cup LoadEntries]
      /\ \A n \in kept : place[n] \in Slots /\ LQ'[place[n]] = LoadEntry(i, loads[n])
      /\ \A s \in Slots \ Range(place) : LQ'[s] = LQ[s]
  <2>1. \A n \in kept : place[n] \in Slots /\ LQ'[place[n]] = LoadEntry(i, loads[n])
    BY <1>1, <1>6
  <2>2. \A n \in kept : LoadEntry(i, loads[n]) \in LoadEntries
    BY <1>3, <1>4, <1>5, ProducerIsLast DEF LoadEntry, LoadEntries
  <2>3. \A s \in Slots \ Range(place) : LQ'[s] = LQ[s] /\ LQ[s] \in {Empty} \cup LoadEntries
    BY <1>1, <1>3 DEF TypeOK
  <2>4. \A s \in Slots : LQ'[s] \in {Empty} \cup LoadEntries
    BY <1>6, <2>1, <2>2, <2>3
  <2>5. DOMAIN LQ' = Slots /\ LQ' = [s \in Slots |-> LQ'[s]]
    BY <1>1
  <2> QED BY <2>1, <2>3, <2>4, <2>5
<1>10. /\ Allocated(LQ') = Allocated(LQ) \cup Range(place)
       /\ Allocated(LQ) \cap Range(place) = {}
       /\ \A s \in Allocated(LQ) : LQ'[s] = LQ[s]
  <2>1. \A n \in kept : LoadEntry(i, loads[n]) # Empty
    <3>1. \A n \in kept : LoadEntry(i, loads[n]).instr_id = i /\ Empty.instr_id = 0 /\ i # 0
      BY <1>3 DEF LoadEntry, Empty, i
    <3> QED BY <3>1
  <2>2. Range(place) \subseteq Slots \ Allocated(LQ)
    BY <1>6
  <2>3. \A s \in Range(place) : LQ'[s] # Empty
    BY <1>6, <1>9, <2>1
  <2> QED BY <1>9, <2>2, <2>3 DEF Allocated
<1>11. /\ SQ' \in Seq(StoreEntries) /\ Len(SQ') = n0 + new
       /\ \A k \in 1..n0 : /\ SQ'[k].instr_id = SQ[k].instr_id
                           /\ SQ'[k].virtual_address = SQ[k].virtual_address
                           /\ SQ'[k].fetch_issued = SQ[k].fetch_issued
                           /\ SQ'[k].lq_depend_on_me =
                                SQ[k].lq_depend_on_me \cup Dependents(k, loads, place)
       /\ \A k \in (n0 + 1)..(n0 + new) : SQ'[k] = StoreEntry(i, stores[k - n0])
  <2> DEFINE e(k) == [SQ[k] EXCEPT !.lq_depend_on_me = @ \cup Dependents(k, loads, place)]
             old == [k \in 1..n0 |-> e(k)]
             added == [k \in 1..new |-> StoreEntry(i, stores[k])]
  <2>1. ASSUME NEW k \in 1..n0
        PROVE  /\ e(k) \in StoreEntries /\ e(k).instr_id = SQ[k].instr_id
               /\ e(k).virtual_address = SQ[k].virtual_address
               /\ e(k).fetch_issued = SQ[k].fetch_issued
               /\ e(k).lq_depend_on_me =
                    SQ[k].lq_depend_on_me \cup Dependents(k, loads, place)
    <3>1. SQ[k] \in StoreEntries
      BY <1>3, <2>1, StoreFields DEF n0
    <3>2. Dependents(k, loads, place) \subseteq Slots
      BY <1>6 DEF Dependents
    <3> QED BY <3>1, <3>2 DEF StoreEntries
  <2>2. \A k \in 1..new : StoreEntry(i, stores[k]) \in StoreEntries
    BY <1>3, <1>4 DEF StoreEntry, StoreEntries
  <2> HIDE DEF e
  <2>3. old \in Seq(StoreEntries) /\ Len(old) = n0 /\ added \in Seq(StoreEntries) /\ Len(added) = new
    BY <1>3, <1>4, <2>1, <2>2
  <2>4. SQ' = old \o added
    BY <1>1 DEF e
  <2>5. /\ \A k \in 1..n0 : old[k] = e(k)
        /\ \A k \in 1..new : added[k] = StoreEntry(i, stores[k])
    OBVIOUS
  <2> HIDE DEF old, added
  <2>6. /\ SQ' \in Seq(StoreEntries) /\ Len(SQ') = n0 + new
        /\ \A k \in 1..(n0 + new) : SQ'[k] = IF k <= n0 THEN old[k] ELSE added[k - n0]
    BY <2>3, <2>4, ConcatProperties
  <2>7. \A k \in 1..n0 : k \in 1..(n0 + new) /\ k <= n0
    BY <1>3, <1>4
  <2>8. \A k \in (n0 + 1)..(n0 + new) : k \in 1..(n0 + new) /\ ~(k <= n0) /\ k - n0 \in 1..new
    BY <1>3, <1>4
  <2>9. \A k \in 1..n0 : SQ'[k] = e(k)
    BY <2>5, <2>6, <2>7
  <2>10. \A k \in (n0 + 1)..(n0 + new) : SQ'[k] = StoreEntry(i, stores[k - n0])
    BY <2>5, <2>6, <2>8
  <2> QED BY <2>1, <2>6, <2>9, <2>10
<1>12. /\ 1..(n0 + new) = 1..n0 \cup (n0 + 1)..(n0 + new)
       /\ \A k \in (n0 + 1)..(n0 + new) :
            /\ k - n0 \in 1..new /\ k \notin 1..n0
            /\ SQ'[k].instr_id = i /\ SQ'[k].virtual_address = stores[k - n0]
            /\ SQ'[k].fetch_issued = FALSE /\ SQ'[k].lq_depend_on_me = {}
  <2>1. /\ 1..(n0 + new) = 1..n0 \cup (n0 + 1)..(n0 + new)
        /\ \A k \in (n0 + 1)..(n0 + new) : k - n0 \in 1..new /\ k \notin 1..n0
    BY <1>3, <1>4
  <2>2. ASSUME NEW k \in (n0 + 1)..(n0 + new)
        PROVE  /\ SQ'[k].instr_id = i /\ SQ'[k].virtual_address = stores[k - n0]
               /\ SQ'[k].fetch_issued = FALSE /\ SQ'[k].lq_depend_on_me = {}
    <3>1. SQ'[k] = StoreEntry(i, stores[k - n0])
      BY <1>11
    <3> QED BY <3>1 DEF StoreEntry
  <2> QED BY <2>1, <2>2
<1>13. Unfetched' = Unfetched \cup (n0 + 1)..(n0 + new) /\ Unfetched \subseteq 1..n0
  BY <1>11, <1>12 DEF Unfetched, n0
<1>14. \A n \in kept : /\ LQ'[place[n]].instr_id = i
                       /\ LQ'[place[n]].virtual_address = loads[n]
                       /\ LQ'[place[n]].fetch_issued = FALSE
                       /\ LQ'[place[n]].producer_id = Producer(loads[n])
  <2> TAKE n \in kept
  <2>1. LQ'[place[n]] = LoadEntry(i, loads[n])
    BY <1>9
  <2> QED BY <2>1 DEF LoadEntry
<1>15. \A k \in 1..n0 : \A s \in Dependents(k, loads, place) :
         \E n \in kept : /\ s = place[n] /\ Hits(loads[n]) # {} /\ YoungestStore(loads[n]) = k
  BY <1>6 DEF Dependents
<1>16. TypeOK'
  <2>1. num_retired \in 0..i
    BY <1>3 DEF i
  <2> QED BY <1>2, <1>3, <1>7, <1>8, <1>9, <1>11, <2>1 DEF TypeOK
<1>17. EntriesNamed'
  <2>1. ASSUME NEW s \in Allocated(LQ') PROVE LQ'[s].instr_id \in (num_retired + 1)..i
    <3>1. CASE s \in Allocated(LQ)
      <4>1. LQ'[s].instr_id \in (num_retired + 1)..Len(program)
        BY <1>10, <3>1 DEF IInv, EntriesNamed
      <4> QED BY <1>3, <4>1 DEF i
    <3>2. CASE s \in Range(place)
      <4>1. LQ'[s].instr_id = i
        BY <1>6, <1>14, <3>2
      <4> QED BY <1>3, <4>1 DEF i
    <3> QED BY <1>10, <2>1, <3>1, <3>2
  <2>2. ASSUME NEW k \in 1..(n0 + new)
        PROVE  /\ SQ'[k].instr_id \in 1..i
               /\ SQ'[k].virtual_address \in Range(program'[SQ'[k].instr_id].stores)
    <3>1. CASE k \in 1..n0
      <4>1. /\ SQ[k].instr_id \in 1..Len(program)
            /\ SQ[k].virtual_address \in Range(program[SQ[k].instr_id].stores)
        BY <3>1 DEF IInv, EntriesNamed, n0
      <4>2. SQ[k].instr_id \in 1..i
        BY <1>3, <4>1 DEF i
      <4> QED BY <1>7, <1>11, <3>1, <4>1, <4>2
    <3>2. CASE k \in (n0 + 1)..(n0 + new)
      <4>1. /\ SQ'[k].instr_id = i /\ SQ'[k].virtual_address = stores[k - n0]
            /\ k - n0 \in 1..new /\ i \in 1..i
        BY <1>3, <1>12, <3>2 DEF i
      <4>2. stores[k - n0] \in Range(stores)
        BY <1>4, <4>1 DEF Range, new
      <4> QED BY <1>7, <4>1, <4>2 DEF stores
    <3> QED BY <1>12, <2>2, <3>1, <3>2
  <2> QED BY <1>2, <1>7, <1>11, <2>1, <2>2 DEF EntriesNamed
<1>18. \A k \in 1..n0 : \A s \in SQ[k].lq_depend_on_me : s \in Allocated(LQ)
  BY DependentsAllocated DEF n0
<1>19. \A k \in 1..n0 : Dependents(k, loads, place) \subseteq Range(place)
  BY <1>6, <1>15
<1>20. WaitsForOne'
  <2>1. ASSUME NEW j \in 1..(n0 + new), NEW k \in 1..(n0 + new), j # k,
               NEW s \in SQ'[j].lq_depend_on_me, s \in SQ'[k].lq_depend_on_me
        PROVE  FALSE
    <3>1. j \in 1..n0 /\ k \in 1..n0
      BY <1>12, <2>1
    <3>2. CASE s \in Allocated(LQ)
      <4>1. s \in SQ[j].lq_depend_on_me /\ s \in SQ[k].lq_depend_on_me
        BY <1>10, <1>11, <1>19, <2>1, <3>1, <3>2
      <4> QED BY <2>1, <3>1, <4>1 DEF IInv, WaitsForOne, n0
    <3>3. CASE s \notin Allocated(LQ)
      <4>1. s \in Dependents(j, loads, place) /\ s \in Dependents(k, loads, place)
        BY <1>11, <1>18, <2>1, <3>1, <3>3
      <4>2. PICK m \in kept : s = place[m] /\ YoungestStore(loads[m]) = j
        BY <1>15, <3>1, <4>1
      <4>3. PICK n \in kept : s = place[n] /\ YoungestStore(loads[n]) = k
        BY <1>15, <3>1, <4>1
      <4> QED BY <1>6, <2>1, <4>2, <4>3
    <3> QED BY <3>2, <3>3
  <2>2. ASSUME NEW k \in 1..(n0 + new), SQ'[k].fetch_issued PROVE SQ'[k].lq_depend_on_me = {}
    <3>1. CASE k \in 1..n0
      <4>1. SQ[k].fetch_issued /\ SQ[k].lq_depend_on_me = {}
        BY <1>11, <2>2, <3>1 DEF IInv, WaitsForOne, n0
      <4>2. Dependents(k, loads, place) = {}
        BY <1>5, <1>15, <3>1, <4>1
      <4> QED BY <1>11, <3>1, <4>1, <4>2
    <3>2. CASE k \in (n0 + 1)..(n0 + new)
      BY <1>12, <3>2
    <3> QED BY <1>12, <2>2, <3>1, <3>2
  <2>3. ASSUME NEW s \in Allocated(LQ'), LQ'[s].fetch_issued
        PROVE  LQ'[s].producer_id = NoProducer
    BY <1>6, <1>10, <1>14, <2>3 DEF IInv, WaitsForOne
  <2> QED BY <1>11, <2>1, <2>2, <2>3 DEF WaitsForOne
<1>21. DependentsWait'
  <2>1. ASSUME NEW k \in 1..(n0 + new), NEW s \in SQ'[k].lq_depend_on_me
        PROVE  s \in Allocated(LQ') /\ LQ'[s].producer_id = SQ'[k].instr_id
    <3>1. k \in 1..n0
      BY <1>12, <2>1
    <3>2. CASE s \in SQ[k].lq_depend_on_me
      <4>1. s \in Allocated(LQ) /\ LQ[s].producer_id = SQ[k].instr_id
        BY <3>1, <3>2, DependentsAllocated DEF n0
      <4> QED BY <1>10, <1>11, <3>1, <4>1
    <3>3. CASE s \in Dependents(k, loads, place)
      <4>1. PICK n \in kept : s = place[n] /\ Hits(loads[n]) # {} /\ YoungestStore(loads[n]) = k
        BY <1>15, <3>1, <3>3
      <4>2. loads[n] \in Addrs
        BY <1>4, <1>5
      <4>3. LQ'[s].producer_id = SQ[k].instr_id
        BY <1>14, <4>1, <4>2, ProducerIsLast
      <4> QED BY <1>6, <1>10, <1>11, <3>1, <4>1, <4>3
    <3> QED BY <1>11, <2>1, <3>1, <3>2, <3>3
  <2>2. ASSUME NEW s \in Allocated(LQ'), LQ'[s].producer_id # NoProducer
        PROVE  \E k \in Unfetched' : s \in SQ'[k].lq_depend_on_me
    <3>1. CASE s \in Allocated(LQ)
      <4>1. PICK k \in Unfetched : s \in SQ[k].lq_depend_on_me
        BY <1>10, <2>2, <3>1 DEF IInv, DependentsWait
      <4> QED BY <1>11, <1>13, <4>1
    <3>2. CASE s \in Range(place)
      <4>1. PICK n \in kept : s = place[n]
        BY <1>6, <3>2
      <4> DEFINE y == YoungestStore(loads[n])
      <4>2. loads[n] \in Addrs /\ Producer(loads[n]) # NoProducer
        BY <1>4, <1>5, <1>14, <2>2, <4>1
      <4>3. Hits(loads[n]) # {} /\ y \in 1..n0
        BY <4>2, ProducerIsLast, YoungestIsLast DEF n0
      <4>4. y \in Unfetched
        BY <1>5, <4>3 DEF Unfetched, n0
      <4>5. s \in Dependents(y, loads, place)
        BY <1>6, <4>1, <4>3 DEF Dependents
      <4> QED BY <1>11, <1>13, <4>3, <4>4, <4>5
    <3> QED BY <1>10, <2>2, <3>1, <3>2
  <2>3. \A s \in Allocated(LQ') : LQ'[s] # Empty
    BY DEF Allocated
  <2> QED BY <1>11, <2>1, <2>2, <2>3 DEF DependentsWait
<1>22. StoresInOrder'
  <2>1. \A k \in 1..n0 : SQ[k].instr_id \in 1..Len(program)
    BY DEF IInv, EntriesNamed, n0
  <2>2. ASSUME NEW j \in 1..(n0 + new), NEW k \in 1..(n0 + new), j < k
        PROVE  /\ SQ'[j].instr_id <= SQ'[k].instr_id
               /\ SQ'[k].fetch_issued => SQ'[j].fetch_issued
    <3>1. CASE k \in 1..n0
      <4>1. j \in 1..n0
        BY <1>3, <2>2, <3>1
      <4> QED BY <1>11, <2>2, <3>1, <4>1 DEF IInv, StoresInOrder, n0
    <3>2. CASE k \in (n0 + 1)..(n0 + new)
      <4>1. ~SQ'[k].fetch_issued /\ SQ'[k].instr_id = i
        BY <1>12, <3>2
      <4>2. SQ'[j].instr_id <= i
        <5>1. CASE j \in 1..n0
          <6>1. SQ'[j].instr_id \in 1..Len(program)
            BY <1>11, <2>1, <5>1
          <6> QED BY <1>3, <6>1 DEF i
        <5>2. CASE j \in (n0 + 1)..(n0 + new)
          BY <1>3, <1>12, <5>2
        <5> QED BY <1>12, <2>2, <5>1, <5>2
      <4> QED BY <4>1, <4>2
    <3> QED BY <1>12, <2>2, <3>1, <3>2
  <2>3. ASSUME NEW k \in Unfetched' PROVE SQ'[k].instr_id > num_retired
    <3>1. CASE k \in Unfetched
      <4>1. SQ'[k].instr_id = SQ[k].instr_id
        BY <1>11, <1>13, <3>1
      <4> QED BY <3>1, <4>1 DEF IInv, StoresInOrder
    <3>2. CASE k \in (n0 + 1)..(n0 + new)
      <4>1. SQ'[k].instr_id = i
        BY <1>12, <3>2
      <4> QED BY <1>3, <4>1 DEF i
    <3> QED BY <1>13, <2>3, <3>1, <3>2
  <2> QED BY <1>2, <1>11, <2>2, <2>3 DEF IInv, StoresInOrder
<1>23. \A j \in 1..i : \A a, p : IsLast(program', j, a, p) <=> IsLast(program, j, a, p)
  BY <1>2, <1>3, LastOfAppend DEF TypeOK, i
<1>24. ASSUME NEW a \in Addrs
       PROVE  \/ Hits(a)' = {} /\ IsLast(program', i + 1, a, memory[a])
              \/ \E k \in Hits(a)' :
                   /\ IsLast(program', i + 1, a, SQ'[k].instr_id)
                   /\ \A j \in Hits(a)' : SQ'[j].instr_id <= SQ'[k].instr_id
  <2>1. Hits(a)' = {k \in 1..(n0 + new) : SQ'[k].virtual_address = a}
    BY <1>11 DEF Hits
  <2>2. WritersOf(program', i + 1, a) =
          WritersOf(program, i, a) \cup (IF a \in Range(stores) THEN {i} ELSE {})
    <3>1. 1..((i + 1) - 1) = 1..(i - 1) \cup {i} /\ 1..(i - 1) = 1..Len(program)
      BY <1>3 DEF i
    <3>2. \A j \in 1..(i - 1) : program'[j] = program[j]
      BY <1>7, <3>1
    <3>3. program'[i].stores = stores
      BY <1>7 DEF stores
    <3> QED BY <3>1, <3>2, <3>3 DEF WritersOf
  <2>3. WritersOf(program, i, a) \subseteq 1..Len(program)
    BY <1>3 DEF WritersOf, i
  <2>4. CASE a \in Range(stores)
    <3>1. PICK n \in 1..new : stores[n] = a
      BY <1>4, <2>4 DEF Range, new
    <3>2. n0 + n \in (n0 + 1)..(n0 + new) /\ (n0 + n) - n0 = n
      BY <1>3, <1>4
    <3>3. n0 + n \in Hits(a)' /\ SQ'[n0 + n].instr_id = i
      BY <1>12, <2>1, <3>1, <3>2
    <3>4. IsLast(program', i + 1, a, i)
      <4>1. \A w \in WritersOf(program', i + 1, a) : w <= i
        BY <1>3, <2>2, <2>3 DEF i
      <4>2. i \in WritersOf(program', i + 1, a)
        BY <2>2, <2>4
      <4> QED BY <4>1, <4>2 DEF IsLast
    <3>5. \A j \in Hits(a)' : SQ'[j].instr_id <= i
      <4>1. \A j \in Hits(a)' : SQ'[j].instr_id \in 1..i
        BY <1>7, <1>11, <1>17, <2>1 DEF EntriesNamed
      <4> QED BY <1>3, <4>1
    <3> QED BY <3>3, <3>4, <3>5
  <2>5. CASE a \notin Range(stores)
    <3>1. \A n \in 1..new : stores[n] # a
      BY <1>4, <2>5 DEF Range, new
    <3>2. Hits(a)' = Hits(a) /\ Hits(a) \subseteq 1..n0
      <4>1. \A k \in (n0 + 1)..(n0 + new) : SQ'[k].virtual_address # a
        BY <1>12, <3>1
      <4>2. Hits(a)' = {k \in 1..n0 : SQ[k].virtual_address = a}
        BY <1>11, <1>12, <2>1, <4>1
      <4> QED BY <4>2 DEF Hits, n0
    <3>3. \A p : IsLast(program', i + 1, a, p) <=> IsLast(program, i, a, p)
      BY <2>2, <2>5 DEF IsLast
    <3>4. \/ Hits(a) = {} /\ IsLast(program, i, a, memory[a])
          \/ \E k \in Hits(a) : /\ IsLast(program, i, a, SQ[k].instr_id)
                                /\ \A j \in Hits(a) : SQ[j].instr_id <= SQ[k].instr_id
      BY DEF IInv, NewestStores, i
    <3> QED BY <1>11, <3>2, <3>3, <3>4
  <2> QED BY <2>4, <2>5
<1>25. NewestStores'
  BY <1>2, <1>7, <1>24 DEF NewestStores
<1>26. ASSUME NEW s \in Allocated(LQ')
       PROVE  IF LQ'[s].producer_id # NoProducer
              THEN IsLast(program', LQ'[s].instr_id, LQ'[s].virtual_address, LQ'[s].producer_id)
              ELSE /\ IsLast(program', LQ'[s].instr_id, LQ'[s].virtual_address,
                             memory[LQ'[s].virtual_address])
                   /\ \A k \in 1..(n0 + new) : SQ'[k].virtual_address = LQ'[s].virtual_address
                                                 => LQ'[s].instr_id <= SQ'[k].instr_id
  <2>1. CASE s \in Allocated(LQ)
    <3>1. LQ'[s] = LQ[s]
      BY <1>10, <2>1
    <3>2. LQ[s].instr_id \in 1..i /\ LQ[s].instr_id <= i
      <4>1. LQ[s].instr_id \in (num_retired + 1)..Len(program)
        BY <2>1 DEF IInv, EntriesNamed
      <4> QED BY <1>3, <4>1 DEF i
    <3>3. CASE LQ[s].producer_id # NoProducer
      <4>1. IsLast(program, LQ[s].instr_id, LQ[s].virtual_address, LQ[s].producer_id)
        BY <2>1, <3>3 DEF IInv, LoadsBound
      <4> QED BY <1>23, <3>1, <3>2, <3>3, <4>1
    <3>4. CASE LQ[s].producer_id = NoProducer
      <4>1. /\ IsLast(program, LQ[s].instr_id, LQ[s].virtual_address,
                      memory[LQ[s].virtual_address])
            /\ \A k \in 1..n0 : SQ[k].virtual_address = LQ[s].virtual_address
                                  => LQ[s].instr_id <= SQ[k].instr_id
        BY <2>1, <3>4 DEF IInv, LoadsBound, n0
      <4>2. \A k \in 1..(n0 + new) : SQ'[k].virtual_address = LQ[s].virtual_address
                                       => LQ[s].instr_id <= SQ'[k].instr_id
        <5> TAKE k \in 1..(n0 + new)
        <5>1. CASE k \in 1..n0
          BY <1>11, <4>1, <5>1
        <5>2. CASE k \in (n0 + 1)..(n0 + new)
          BY <1>12, <3>2, <5>2
        <5> QED BY <1>12, <5>1, <5>2
      <4> QED BY <1>23, <3>1, <3>2, <3>4, <4>1, <4>2
    <3> QED BY <3>3, <3>4
  <2>2. CASE s \in Range(place)
    <3>1. PICK n \in kept : s = place[n]
      BY <1>6, <2>2
    <3>2. /\ loads[n] \in Addrs /\ i \in 1..i
          /\ LQ'[s].instr_id = i /\ LQ'[s].virtual_address = loads[n]
          /\ LQ'[s].producer_id = Producer(loads[n])
      BY <1>3, <1>4, <1>5, <1>14, <3>1 DEF i
    <3>3. CASE Producer(loads[n]) # NoProducer
      <4>1. IsLast(program, i, loads[n], Producer(loads[n]))
        BY <3>2, <3>3, ProducerIsLast DEF i
      <4> QED BY <1>23, <3>2, <3>3, <4>1
    <3>4. CASE Producer(loads[n]) = NoProducer
      <4>1. Hits(loads[n]) = {} /\ IsLast(program, i, loads[n], memory[loads[n]])
        BY <3>2, <3>4, ProducerIsLast DEF i
      <4>2. \A k \in 1..(n0 + new) : SQ'[k].virtual_address = loads[n] => i <= SQ'[k].instr_id
        <5> TAKE k \in 1..(n0 + new)
        <5>1. CASE k \in 1..n0
          BY <1>11, <4>1, <5>1 DEF Hits, n0
        <5>2. CASE k \in (n0 + 1)..(n0 + new)
          BY <1>3, <1>12, <5>2
        <5> QED BY <1>12, <5>1, <5>2
      <4> QED BY <1>23, <3>2, <3>4, <4>1, <4>2
    <3> QED BY <3>3, <3>4
  <2> QED BY <1>10, <1>26, <2>1, <2>2
<1>27. LoadsBound'
  BY <1>2, <1>11, <1>26 DEF LoadsBound
<1>28. SawLast'
  <2>1. ASSUME NEW l \in loaded PROVE l[1] \in 1..i /\ IsLast(program', l[1], l[2], l[3])
    <3>1. l[1] \in 1..Len(program) /\ IsLast(program, l[1], l[2], l[3])
      BY DEF IInv, SawLast
    <3>2. l[1] \in 1..i
      BY <1>3, <3>1 DEF i
    <3> QED BY <1>23, <3>1, <3>2
  <2>2. ASSUME NEW n \in done PROVE i \in 1..i /\ IsLast(program', i, loads[n], Producer(loads[n]))
    <3>1. i \in 1..i /\ loads[n] \in Addrs /\ Hits(loads[n]) # {}
      BY <1>3, <1>4, <1>5 DEF i
    <3>2. IsLast(program, i, loads[n], Producer(loads[n]))
      BY <3>1, ProducerIsLast DEF i
    <3> QED BY <1>23, <3>1, <3>2
  <2> QED BY <1>1, <1>7, <2>1, <2>2 DEF SawLast
<1>29. ASSUME NEW j \in 1..i
       PROVE  completed_mem_ops'[j] + Cardinality(LoadsOf(j)') + Cardinality(StoresOf(j)')
                = NumMemOps(j)'
  <2>1. LoadsOf(j)' = {s \in Allocated(LQ) : LQ[s].instr_id = j}
                        \cup (IF j = i THEN Range(place) ELSE {})
    BY <1>6, <1>10, <1>14 DEF LoadsOf
  <2>2. StoresOf(j)' = {k \in Unfetched : SQ[k].instr_id = j}
                         \cup (IF j = i THEN (n0 + 1)..(n0 + new) ELSE {})
    BY <1>11, <1>12, <1>13 DEF StoresOf
  <2>3. NumMemOps(j)' = Len(program'[j].loads) + Len(program'[j].stores)
    BY DEF NumMemOps
  <2>4. CASE j \in 1..Len(program)
    <3>1. j # i
      BY <1>3, <2>4 DEF i
    <3>2. LoadsOf(j)' = LoadsOf(j) /\ StoresOf(j)' = StoresOf(j)
      BY <2>1, <2>2, <3>1 DEF LoadsOf, StoresOf
    <3>3. NumMemOps(j)' = NumMemOps(j)
      BY <1>7, <2>3, <2>4 DEF NumMemOps
    <3>4. completed_mem_ops[j] + Cardinality(LoadsOf(j)) + Cardinality(StoresOf(j))
            = NumMemOps(j)
      BY <1>3, <2>4, Uncounted DEF IInv
    <3> QED BY <1>8, <2>4, <3>2, <3>3, <3>4
  <2>5. CASE j = i
    <3>1. LoadsOf(j)' = Range(place)
      <4>1. \A s \in Allocated(LQ) : LQ[s].instr_id # i
        <5>1. \A s \in Allocated(LQ) : LQ[s].instr_id \in (num_retired + 1)..Len(program)
          BY DEF IInv, EntriesNamed
        <5> QED BY <1>3, <5>1 DEF i
      <4> QED BY <2>1, <2>5, <4>1
    <3>2. StoresOf(j)' = (n0 + 1)..(n0 + new)
      <4>1. \A k \in Unfetched : SQ[k].instr_id # i
        <5>1. \A k \in Unfetched : SQ[k].instr_id \in 1..Len(program)
          BY DEF IInv, EntriesNamed, Unfetched
        <5> QED BY <1>3, <5>1 DEF i
      <4> QED BY <2>2, <2>5, <4>1
    <3>3. Cardinality(Range(place)) = Cardinality(kept)
      <4>1. place \in [kept -> Range(place)]
        BY <1>6
      <4>2. \A t \in Range(place) : \E n \in kept : place[n] = t
        BY <1>6
      <4>3. IsFiniteSet(kept) /\ \A x, y \in kept : place[x] = place[y] => x = y
        BY <1>6, <1>8
      <4> DEFINE R == Range(place)
      <4> HIDE DEF R
      <4>4. /\ place \in [kept -> R] /\ \A t \in R : \E n \in kept : place[n] = t
        BY <4>1, <4>2 DEF R
      <4>5. Cardinality(R) = Cardinality(kept)
        BY <4>3, <4>4, SameSize
      <4> QED BY <4>5 DEF R
    <3>4. Cardinality((n0 + 1)..(n0 + new)) = new
      <4>1. \A m, n \in Nat : Cardinality((m + 1)..(m + n)) = n
        <5> TAKE m, n \in Nat
        <5>1. m + 1 \in Int /\ m + n \in Int
          OBVIOUS
        <5>2. Cardinality((m + 1)..(m + n)) = IF m + 1 > m + n THEN 0 ELSE (m + n) - (m + 1) + 1
          BY <5>1, FS_Interval
        <5> QED BY <5>2
      <4> QED BY <1>3, <1>4, <4>1
    <3>5. NumMemOps(j)' = Len(loads) + new
      BY <1>7, <2>3, <2>5 DEF loads, stores, new
    <3>6. \A m, d, w \in Nat : d + (m - d) + w = m + w
      OBVIOUS
    <3>7. Cardinality(done) + (Len(loads) - Cardinality(done)) + new = Len(loads) + new
      BY <1>4, <1>8, <3>6
    <3>8. completed_mem_ops'[j] = Cardinality(done)
      BY <1>8, <2>5
    <3>9. Cardinality(LoadsOf(j)') = Len(loads) - Cardinality(done)
      BY <1>8, <3>1, <3>3
    <3>10. Cardinality(StoresOf(j)') = new
      BY <3>2, <3>4
    <3> QED BY <3>5, <3>7, <3>8, <3>9, <3>10
  <2>6. 1..i = 1..Len(program) \cup {i}
    BY <1>3 DEF i
  <2> QED BY <1>29, <2>4, <2>5, <2>6
<1>30. EveryOperationFinishesOnce'
  BY <1>7, <1>29 DEF EveryOperationFinishesOnce, LoadsOf, StoresOf
<1> QED BY <1>16, <1>17, <1>20, <1>21, <1>22, <1>25, <1>27, <1>28, <1>30 DEF IInv


THEOREM InitInvariant == Init => IInv
<1> SUFFICES ASSUME Init PROVE IInv
  OBVIOUS
<1>1. /\ program = <<>> /\ num_retired = 0 /\ completed_mem_ops = <<>> /\ SQ = <<>>
      /\ LQ = [s \in Slots |-> Empty] /\ memory = [a \in Addrs |-> 0] /\ loaded = {}
  BY DEF Init
<1>2. /\ \A S : <<>> \in Seq(S)
      /\ Len(<<>>) = 0 /\ 1..0 = {} /\ 0 \in 0..0
  BY EmptySeq
<1>3. Allocated(LQ) = {} /\ Unfetched = {}
  BY <1>1, <1>2 DEF Allocated, Unfetched
<1>4. TypeOK
  <2>1. <<>> \in Seq(Shapes) /\ <<>> \in Seq(Nat) /\ <<>> \in Seq(StoreEntries)
    BY <1>2
  <2> QED BY <1>1, <1>2, <2>1 DEF TypeOK
<1>5. EntriesNamed /\ WaitsForOne
  BY <1>1, <1>2, <1>3 DEF EntriesNamed, WaitsForOne
<1>6. DependentsWait /\ StoresInOrder
  BY <1>1, <1>2, <1>3 DEF DependentsWait, StoresInOrder
<1>7. NewestStores
  <2>1. \A a \in Addrs : Hits(a) = {} /\ memory[a] = 0
    BY <1>1, <1>2 DEF Hits
  <2>2. \A a \in Addrs : WritersOf(program, Len(program) + 1, a) = {}
    <3>1. 1..((0 + 1) - 1) = {}
      OBVIOUS
    <3> QED BY <1>1, <1>2, <3>1 DEF WritersOf
  <2> QED BY <2>1, <2>2 DEF NewestStores, IsLast
<1>8. LoadsBound /\ SawLast /\ EveryOperationFinishesOnce
  BY <1>1, <1>2, <1>3 DEF LoadsBound, SawLast, EveryOperationFinishesOnce
<1> QED BY <1>4, <1>5, <1>6, <1>7, <1>8 DEF IInv

THEOREM StepInvariant == IInv /\ [Next]_vars => IInv'
<1> SUFFICES ASSUME IInv, [Next]_vars PROVE IInv'
  OBVIOUS
<1>1. ASSUME NEW shape \in Shapes, Dispatch(shape) PROVE IInv'
  BY <1>1, DispatchStep
<1>2. ASSUME NEW i \in InROB, Execute(i) PROVE IInv'
  BY <1>2, SameQueues DEF Execute
<1>3. ASSUME NEW k \in Unfetched, FinishStore(k) PROVE IInv'
  BY <1>3, FinishStoreStep
<1>4. CASE CompleteStore
  BY <1>4, CompleteStoreStep
<1>5. ASSUME NEW s \in Slots, NEW merged \in BOOLEAN, IssueLoad(s, merged) PROVE IInv'
  BY <1>5, IssueStep
<1>6. ASSUME NEW b \in DOMAIN outstanding, Return(b) PROVE IInv'
  BY <1>6, ReturnStep
<1>7. CASE Retire
  BY <1>7, RetireStep
<1>8. CASE UNCHANGED vars
  BY <1>8, SameQueues DEF vars
<1> QED BY <1>1, <1>2, <1>3, <1>4, <1>5, <1>6, <1>7, <1>8 DEF Next

----------------------------------------------------------------------------
(* Theorems *)

\* The inductive invariant of the queues holds in every reachable state.
THEOREM Invariance == Spec => []IInv
BY InitInvariant, StepInvariant, PTL DEF Spec

\* Executed out of order, forwarded by a store, or read from L1D with the
\* answer to another request, a load sees the last store to its address before
\* it in the program (do_memory_scheduling, do_finish_store, execute_load,
\* do_complete_store, handle_memory_return).
THEOREM LoadsSeeTheProgram == Spec => []LoadsSeeProgramOrder
<1>1. IInv => LoadsSeeProgramOrder
  <2> SUFFICES ASSUME IInv, NEW l \in loaded PROVE l[3] = LastStoreBefore(l[1], l[2])
    BY DEF LoadsSeeProgramOrder
  <2>1. l[1] \in Nat /\ IsLast(program, l[1], l[2], l[3])
    BY Counted DEF IInv, SawLast
  <2> QED BY <2>1, LastIsUnique
<1> QED BY <1>1, Invariance, PTL

\* LSQ_ENTRY::finish is called once for every memory operation: what is not
\* counted yet are exactly the entries that can still finish.
THEOREM OperationsFinishOnce == Spec => []EveryOperationFinishesOnce
<1>1. IInv => EveryOperationFinishesOnce
  BY DEF IInv
<1> QED BY <1>1, Invariance, PTL

\* The references of stores are to loads that wait for them, no load is
\* forgotten, and the store queue is in program order, executed stores first
\* (do_memory_scheduling, do_finish_store, operate_lsq, retire_rob).
THEOREM QueuesStayConsistent == Spec => []QueuesConsistent
<1>1. IInv => QueuesConsistent
  BY DEF IInv, QueuesConsistent
<1> QED BY <1>1, Invariance, PTL

=============================================================================
