--------------------------- MODULE SimulatorProofs ---------------------------
(***************************************************************************)
(* What drives the core: the front end dispatches the trace in order and   *)
(* never loses the wake-up of a misprediction, for every size of its       *)
(* buffers, every trace, and every pattern of DIB hits and mispredictions; *)
(* the main loop keeps its operables in step and ends each core once in a  *)
(* phase, for every set of operables and clocks; the trace reader hands    *)
(* every instruction out once, whatever the file and its blocks; and TAGE  *)
(* trains and replaces what it should, for every geometry of its tables.   *)
(***************************************************************************)
EXTENDS FrontEnd, Simulation, TraceReader, Tage, CommonFacts, FiniteSetTheorems

----------------------------------------------------------------------------
(* The front end. *)

Older(S, T) == \A i \in S, j \in T : i < j
Ordered(q) == \A j, k \in 1..Len(q) : j < k => q[j] < q[k]

Middle == In(DIB_HIT_BUFFER) \cup In(DECODE_BUFFER)

TypeOK ==
  /\ read \in Nat /\ stalled \in BOOLEAN
  /\ IFETCH_BUFFER \in Seq(Nat) /\ DIB_HIT_BUFFER \in Seq(Nat)
  /\ DECODE_BUFFER \in Seq(Nat) /\ DISPATCH_BUFFER \in Seq(Nat)

QueuesOrdered ==
  /\ Ordered(IFETCH_BUFFER) /\ Ordered(DIB_HIT_BUFFER)
  /\ Ordered(DECODE_BUFFER) /\ Ordered(DISPATCH_BUFFER)

\* Where the instructions are: fetched F after the middle M after dispatched D,
\* together all from some instruction to the youngest, r; executing are older.
Placed(F, M, D, E, r) ==
  /\ Older(M, F) /\ Older(D, M \cup F)
  /\ \E a \in 1..(r + 1) : F \cup M \cup D = a..r /\ \A e \in E : e \in 1..(a - 1)

IInv ==
  /\ TypeOK
  /\ QueuesOrdered
  /\ Placed(In(IFETCH_BUFFER), Middle, In(DISPATCH_BUFFER), executing, read)
  /\ found_at_decode \subseteq branch_mispredicted
  /\ StalledByTheYoungest

----------------------------------------------------------------------------
(* Queues *)

\* An instruction younger than those of a queue leaves it in order.
LEMMA AppendOrdered ==
  ASSUME NEW q \in Seq(Nat), NEW x \in Nat, Ordered(q), \A i \in In(q) : i < x
  PROVE  /\ Append(q, x) \in Seq(Nat) /\ Ordered(Append(q, x))
         /\ In(Append(q, x)) = In(q) \cup {x}
<1> DEFINE p == Append(q, x)
<1>1. /\ p \in Seq(Nat) /\ Len(p) = Len(q) + 1 /\ Len(q) \in Nat
      /\ \A k \in 1..Len(q) : p[k] = q[k]
      /\ p[Len(q) + 1] = x
  BY AppendProperties
<1> HIDE DEF p
<1>2. 1..Len(p) = 1..Len(q) \cup {Len(q) + 1}
  BY <1>1
<1>3. ASSUME NEW j \in 1..Len(p), NEW k \in 1..Len(p), j < k PROVE p[j] < p[k]
  <2>1. j \in 1..Len(q) /\ p[j] = q[j] /\ q[j] \in In(q)
    BY <1>1, <1>2, <1>3 DEF In
  <2>2. CASE k \in 1..Len(q)
    BY <1>1, <1>3, <2>1, <2>2 DEF Ordered
  <2>3. CASE k = Len(q) + 1
    BY <1>1, <2>1, <2>3
  <2> QED BY <1>2, <2>2, <2>3
<1>4. In(p) = In(q) \cup {x}
  BY <1>1, <1>2, SMTT(30) DEF In
<1> QED BY <1>1, <1>3, <1>4 DEF p, Ordered

\* What leaves an ordered queue is its least element, and it leaves for good.
LEMMA TailOrdered ==
  ASSUME NEW q \in Seq(Nat), q # <<>>, Ordered(q)
  PROVE  /\ Tail(q) \in Seq(Nat) /\ Ordered(Tail(q))
         /\ Head(q) \in Nat /\ Head(q) \in In(q)
         /\ In(Tail(q)) = In(q) \ {Head(q)}
         /\ \A i \in In(Tail(q)) : Head(q) < i
<1> DEFINE t == Tail(q)
<1>1. /\ t \in Seq(Nat) /\ Len(q) \in Nat \ {0} /\ Len(t) = Len(q) - 1
      /\ \A k \in 1..Len(t) : t[k] = q[k + 1]
      /\ Head(q) = q[1] /\ q[1] \in Nat
  BY HeadTailProperties, EmptySeq, ElementOfSeq
<1> HIDE DEF t
<1>2. ASSUME NEW j \in 1..Len(t), NEW k \in 1..Len(t), j < k PROVE t[j] < t[k]
  <2>1. /\ j + 1 \in 1..Len(q) /\ k + 1 \in 1..Len(q) /\ j + 1 < k + 1
        /\ t[j] = q[j + 1] /\ t[k] = q[k + 1]
    BY <1>1, <1>2
  <2> QED BY <2>1 DEF Ordered
<1>3. Head(q) \in In(q)
  BY <1>1 DEF In
<1>4. ASSUME NEW i \in In(t) PROVE i \in In(q) /\ Head(q) < i
  <2>1. PICK k \in 1..Len(t) : i = t[k]
    BY DEF In
  <2>2. i = q[k + 1] /\ k + 1 \in 1..Len(q) /\ 1 \in 1..Len(q) /\ 1 < k + 1
    BY <1>1, <2>1
  <2> QED BY <1>1, <2>2 DEF Ordered, In
<1>5. ASSUME NEW i \in In(q), i # Head(q) PROVE i \in In(t)
  <2>1. PICK k \in 1..Len(q) : i = q[k]
    BY DEF In
  <2>2. k - 1 \in 1..Len(t) /\ i = t[k - 1]
    BY <1>1, <1>5, <2>1
  <2> QED BY <2>2 DEF In
<1>6. Head(q) \notin In(t)
  BY <1>1, <1>4
<1> QED BY <1>1, <1>2, <1>3, <1>4, <1>5, <1>6 DEF t, Ordered

----------------------------------------------------------------------------
(* Steps *)

THEOREM InitInvariant == Init => IInv
<1> SUFFICES ASSUME Init PROVE IInv
  OBVIOUS
<1>1. /\ TypeOK /\ QueuesOrdered /\ In(IFETCH_BUFFER) = {} /\ Middle = {}
      /\ In(DISPATCH_BUFFER) = {}
  <2>1. Len(<<>>) = 0 /\ 1..0 = {}
    OBVIOUS
  <2>2. TypeOK
    <3>1. <<>> \in Seq(Nat) /\ 0 \in Nat
      BY EmptySeq
    <3> QED BY <3>1 DEF Init, TypeOK
  <2>3. Ordered(<<>>) /\ In(<<>>) = {}
    BY <2>1 DEF Ordered, In
  <2> QED BY <2>2, <2>3 DEF Init, QueuesOrdered, Middle
<1>2. Placed({}, {}, {}, executing, read)
  <2>1. 1 \in 1..(read + 1) /\ {} = 1..read /\ executing = {}
    BY DEF Init
  <2> QED BY <2>1 DEF Placed, Older
<1>3. StalledByTheYoungest /\ found_at_decode \subseteq branch_mispredicted
  BY DEF Init, StalledByTheYoungest
<1> QED BY <1>1, <1>2, <1>3 DEF IInv

\* The places of the instructions do not change, nor the branches.
LEMMA SamePlaces ==
  IInv /\ UNCHANGED <<read, queueVars, branchVars, executing, stalled>> => IInv'
<1> SUFFICES ASSUME IInv, UNCHANGED <<read, queueVars, branchVars, executing, stalled>>
             PROVE  IInv'
  OBVIOUS
<1> USE DEF IInv, queueVars, branchVars
<1>1. TypeOK' /\ QueuesOrdered'
  BY DEF TypeOK, QueuesOrdered, Ordered
<1>2. /\ In(IFETCH_BUFFER)' = In(IFETCH_BUFFER) /\ Middle' = Middle
      /\ In(DISPATCH_BUFFER)' = In(DISPATCH_BUFFER) /\ InFlight' = InFlight
  BY DEF In, Middle, InFlight
<1>3. Placed(In(IFETCH_BUFFER), Middle, In(DISPATCH_BUFFER), executing, read)'
  BY <1>2 DEF Placed, Older
<1>4. StalledByTheYoungest'
  BY <1>2 DEF StalledByTheYoungest
<1> QED BY <1>1, <1>3, <1>4

\* Reading puts the youngest instruction at the end.
LEMMA ReadStep ==
  ASSUME IInv, NEW b, NEW o, ReadInstruction(b, o)
  PROVE  IInv'
<1> DEFINE i == read + 1
<1> USE DEF IInv, TypeOK
<1>1. /\ read' = i /\ i \in Nat /\ ~stalled
      /\ IFETCH_BUFFER' = Append(IFETCH_BUFFER, i)
      /\ UNCHANGED <<DIB_HIT_BUFFER, DECODE_BUFFER, DISPATCH_BUFFER, executing>>
  BY DEF ReadInstruction
<1>2. PICK a \in 1..(read + 1) :
        /\ In(IFETCH_BUFFER) \cup Middle \cup In(DISPATCH_BUFFER) = a..read
        /\ \A e \in executing : e \in 1..(a - 1)
  BY DEF Placed
<1>3. \A j \in In(IFETCH_BUFFER) \cup Middle \cup In(DISPATCH_BUFFER) : j \in Nat /\ j < i
  BY <1>2
<1>4. /\ IFETCH_BUFFER' \in Seq(Nat) /\ Ordered(IFETCH_BUFFER')
      /\ In(IFETCH_BUFFER') = In(IFETCH_BUFFER) \cup {i}
  BY <1>1, <1>3, AppendOrdered DEF QueuesOrdered
<1>5. Middle' = Middle
  BY <1>1 DEF Middle, In
<1>6. Placed(In(IFETCH_BUFFER'), Middle, In(DISPATCH_BUFFER), executing, i)
  <2>1. a..i = a..read \cup {i} /\ a \in 1..(i + 1)
    BY <1>2
  <2>2. In(IFETCH_BUFFER') \cup Middle \cup In(DISPATCH_BUFFER) = a..i
    BY <1>2, <1>4, <2>1
  <2> QED BY <1>2, <1>3, <1>4, <2>1, <2>2 DEF Placed, Older
<1>7. /\ stalled' \in BOOLEAN
      /\ branch_mispredicted' = (IF stalled' THEN {i} ELSE {})
      /\ found_at_decode' \subseteq branch_mispredicted'
  BY <1>1 DEF StalledByTheYoungest, ReadInstruction, branchVars
<1>8. branch_mispredicted' \subseteq InFlight'
  BY <1>4, <1>7 DEF InFlight
<1> QED BY <1>1, <1>4, <1>5, <1>6, <1>7, <1>8 DEF QueuesOrdered, Ordered, StalledByTheYoungest, In

\* Promotion moves the oldest of IFETCH_BUFFER, younger than all of the middle.
LEMMA PromoteStep ==
  ASSUME IInv, PromoteToDecode
  PROVE  IInv'
<1> DEFINE i == Head(IFETCH_BUFFER)
<1> USE DEF IInv, TypeOK
<1>1. /\ IFETCH_BUFFER # <<>> /\ IFETCH_BUFFER' = Tail(IFETCH_BUFFER)
      /\ \/ /\ DIB_HIT_BUFFER' = Append(DIB_HIT_BUFFER, i) /\ UNCHANGED DECODE_BUFFER
         \/ /\ DECODE_BUFFER' = Append(DECODE_BUFFER, i) /\ UNCHANGED DIB_HIT_BUFFER
      /\ UNCHANGED <<read, DISPATCH_BUFFER, branch_mispredicted, found_at_decode, executing,
                     stalled>>
  BY DEF PromoteToDecode, CanPromote, branchVars
<1>2. /\ Tail(IFETCH_BUFFER) \in Seq(Nat) /\ Ordered(Tail(IFETCH_BUFFER))
      /\ i \in Nat /\ i \in In(IFETCH_BUFFER)
      /\ In(Tail(IFETCH_BUFFER)) = In(IFETCH_BUFFER) \ {i}
      /\ \A j \in In(Tail(IFETCH_BUFFER)) : i < j
  BY <1>1, TailOrdered DEF QueuesOrdered
<1>3. \A j \in Middle : j < i
  BY <1>2 DEF Placed, Older
<1>4. /\ DIB_HIT_BUFFER' \in Seq(Nat) /\ Ordered(DIB_HIT_BUFFER')
      /\ DECODE_BUFFER' \in Seq(Nat) /\ Ordered(DECODE_BUFFER')
      /\ In(DIB_HIT_BUFFER') \cup In(DECODE_BUFFER') = Middle \cup {i}
  <2>1. CASE DIB_HIT_BUFFER' = Append(DIB_HIT_BUFFER, i) /\ UNCHANGED DECODE_BUFFER
    <3>1. \A j \in In(DIB_HIT_BUFFER) : j < i
      BY <1>3 DEF Middle
    <3>2. /\ Append(DIB_HIT_BUFFER, i) \in Seq(Nat) /\ Ordered(Append(DIB_HIT_BUFFER, i))
          /\ In(Append(DIB_HIT_BUFFER, i)) = In(DIB_HIT_BUFFER) \cup {i}
      BY <1>2, <3>1, AppendOrdered DEF QueuesOrdered
    <3> QED BY <2>1, <3>2 DEF QueuesOrdered, Middle
  <2>2. CASE DECODE_BUFFER' = Append(DECODE_BUFFER, i) /\ UNCHANGED DIB_HIT_BUFFER
    <3>1. \A j \in In(DECODE_BUFFER) : j < i
      BY <1>3 DEF Middle
    <3>2. /\ Append(DECODE_BUFFER, i) \in Seq(Nat) /\ Ordered(Append(DECODE_BUFFER, i))
          /\ In(Append(DECODE_BUFFER, i)) = In(DECODE_BUFFER) \cup {i}
      BY <1>2, <3>1, AppendOrdered DEF QueuesOrdered
    <3> QED BY <2>2, <3>2 DEF QueuesOrdered, Middle
  <2> QED BY <1>1, <2>1, <2>2
<1>5. Middle' = Middle \cup {i}
  BY <1>4 DEF Middle, In
<1>6. Placed(In(Tail(IFETCH_BUFFER)), Middle \cup {i}, In(DISPATCH_BUFFER), executing, read)
  <2>1. In(Tail(IFETCH_BUFFER)) \cup (Middle \cup {i}) = In(IFETCH_BUFFER) \cup Middle
    BY <1>2
  <2> QED BY <1>2, <2>1 DEF Placed, Older
<1>7. In(IFETCH_BUFFER') = In(Tail(IFETCH_BUFFER)) /\ In(DISPATCH_BUFFER') = In(DISPATCH_BUFFER)
  BY <1>1
<1>8. InFlight' = InFlight
  BY <1>2, <1>4, <1>7 DEF InFlight, Middle
<1> QED BY <1>1, <1>2, <1>4, <1>5, <1>6, <1>7, <1>8 DEF QueuesOrdered, Ordered, In, StalledByTheYoungest

\* Of the two middle buffers the older head goes to dispatch, in order.
LEMMA ToDispatch ==
  ASSUME IInv, NEW i, i \in Middle, i \in Nat, \A j \in Middle \ {i} : i < j,
         UNCHANGED <<read, IFETCH_BUFFER, executing>>,
         DISPATCH_BUFFER' = Append(DISPATCH_BUFFER, i), Middle' = Middle \ {i}
  PROVE  /\ DISPATCH_BUFFER' \in Seq(Nat) /\ Ordered(DISPATCH_BUFFER')
         /\ Placed(In(IFETCH_BUFFER), Middle, In(DISPATCH_BUFFER), executing, read)'
         /\ InFlight' = InFlight
<1> USE DEF IInv, TypeOK
<1>1. \A j \in In(DISPATCH_BUFFER) : j < i
  BY DEF Placed, Older
<1>2. /\ DISPATCH_BUFFER' \in Seq(Nat) /\ Ordered(DISPATCH_BUFFER')
      /\ In(DISPATCH_BUFFER') = In(DISPATCH_BUFFER) \cup {i}
  BY <1>1, AppendOrdered DEF QueuesOrdered
<1>3. Placed(In(IFETCH_BUFFER), Middle \ {i}, In(DISPATCH_BUFFER) \cup {i}, executing, read)
  <2>1. (Middle \ {i}) \cup (In(DISPATCH_BUFFER) \cup {i}) = Middle \cup In(DISPATCH_BUFFER)
    OBVIOUS
  <2> QED BY <2>1 DEF Placed, Older
<1>4. InFlight' = InFlight
  <2>1. /\ InFlight = In(IFETCH_BUFFER) \cup Middle \cup In(DISPATCH_BUFFER)
        /\ InFlight' = In(IFETCH_BUFFER') \cup Middle' \cup In(DISPATCH_BUFFER')
    BY DEF InFlight, Middle, In
  <2> QED BY <1>2, <2>1
<1>5. In(IFETCH_BUFFER)' = In(IFETCH_BUFFER) /\ In(DISPATCH_BUFFER)' = In(DISPATCH_BUFFER')
  BY DEF In
<1>6. Placed(In(IFETCH_BUFFER), Middle, In(DISPATCH_BUFFER), executing, read)'
  BY <1>2, <1>3, <1>5 DEF Placed, Older
<1> QED BY <1>2, <1>4, <1>6

LEMMA TakeDibHitStep ==
  ASSUME IInv, TakeDibHit
  PROVE  IInv'
<1> DEFINE i == Head(DIB_HIT_BUFFER)
<1> USE DEF IInv, TypeOK
<1>1. /\ DIB_HIT_BUFFER # <<>> /\ DIB_HIT_BUFFER' = Tail(DIB_HIT_BUFFER)
      /\ \A j \in In(DECODE_BUFFER) : i < j
      /\ DISPATCH_BUFFER' = Append(DISPATCH_BUFFER, i)
      /\ UNCHANGED <<read, IFETCH_BUFFER, DECODE_BUFFER, branch_mispredicted, found_at_decode,
                     executing, stalled>>
  BY DEF TakeDibHit, OlderThanAll, branchVars
<1>2. /\ DIB_HIT_BUFFER' \in Seq(Nat) /\ Ordered(DIB_HIT_BUFFER')
      /\ i \in Nat /\ i \in In(DIB_HIT_BUFFER)
      /\ In(DIB_HIT_BUFFER') = In(DIB_HIT_BUFFER) \ {i}
      /\ \A j \in In(DIB_HIT_BUFFER') : i < j
  BY <1>1, TailOrdered DEF QueuesOrdered
<1>3. i \in Middle /\ (\A j \in Middle \ {i} : i < j) /\ Middle' = Middle \ {i}
  <2>1. i \notin In(DECODE_BUFFER)
    BY <1>1, <1>2
  <2>2. Middle' = In(DIB_HIT_BUFFER') \cup In(DECODE_BUFFER)
    BY <1>1 DEF Middle, In
  <2> QED BY <1>1, <1>2, <2>1, <2>2 DEF Middle
<1>4. /\ DISPATCH_BUFFER' \in Seq(Nat) /\ Ordered(DISPATCH_BUFFER')
      /\ Placed(In(IFETCH_BUFFER), Middle, In(DISPATCH_BUFFER), executing, read)'
      /\ InFlight' = InFlight
  BY <1>1, <1>2, <1>3, ToDispatch
<1> QED BY <1>1, <1>2, <1>4 DEF QueuesOrdered, Ordered, StalledByTheYoungest

\* A misprediction that decode finds is that of the youngest instruction.
LEMMA DecodeStep ==
  ASSUME IInv, Decode
  PROVE  IInv'
<1> DEFINE i == Head(DECODE_BUFFER)
<1> USE DEF IInv, TypeOK
<1>1. /\ DECODE_BUFFER # <<>> /\ DECODE_BUFFER' = Tail(DECODE_BUFFER)
      /\ \A j \in In(DIB_HIT_BUFFER) : i < j
      /\ DISPATCH_BUFFER' = Append(DISPATCH_BUFFER, i)
      /\ stalled' = IF i \in found_at_decode THEN FALSE ELSE stalled
      /\ branch_mispredicted' = branch_mispredicted \ ({i} \cap found_at_decode)
      /\ found_at_decode' = found_at_decode \ {i}
      /\ UNCHANGED <<read, IFETCH_BUFFER, DIB_HIT_BUFFER, executing>>
  BY DEF Decode, OlderThanAll
<1>2. /\ DECODE_BUFFER' \in Seq(Nat) /\ Ordered(DECODE_BUFFER')
      /\ i \in Nat /\ i \in In(DECODE_BUFFER)
      /\ In(DECODE_BUFFER') = In(DECODE_BUFFER) \ {i}
      /\ \A j \in In(DECODE_BUFFER') : i < j
  BY <1>1, TailOrdered DEF QueuesOrdered
<1>3. i \in Middle /\ (\A j \in Middle \ {i} : i < j) /\ Middle' = Middle \ {i}
  <2>1. i \notin In(DIB_HIT_BUFFER)
    BY <1>1, <1>2
  <2>2. Middle' = In(DIB_HIT_BUFFER) \cup In(DECODE_BUFFER')
    BY <1>1 DEF Middle, In
  <2> QED BY <1>1, <1>2, <2>1, <2>2 DEF Middle
<1>4. /\ DISPATCH_BUFFER' \in Seq(Nat) /\ Ordered(DISPATCH_BUFFER')
      /\ Placed(In(IFETCH_BUFFER), Middle, In(DISPATCH_BUFFER), executing, read)'
      /\ InFlight' = InFlight
  BY <1>1, <1>2, <1>3, ToDispatch
<1>5. /\ stalled' \in BOOLEAN /\ found_at_decode' \subseteq branch_mispredicted'
      /\ branch_mispredicted' = (IF stalled' THEN {read} ELSE {})
      /\ branch_mispredicted' \subseteq branch_mispredicted
  <2>1. CASE i \in found_at_decode
    BY <1>1, <2>1 DEF StalledByTheYoungest
  <2>2. CASE i \notin found_at_decode
    BY <1>1, <2>2 DEF StalledByTheYoungest
  <2> QED BY <2>1, <2>2
<1> QED BY <1>1, <1>2, <1>4, <1>5 DEF QueuesOrdered, Ordered, StalledByTheYoungest

\* What is dispatched is the oldest instruction of the front end.
LEMMA DispatchStep ==
  ASSUME IInv, Dispatch
  PROVE  IInv'
<1> DEFINE i == Head(DISPATCH_BUFFER)
<1> USE DEF IInv, TypeOK
<1>1. /\ DISPATCH_BUFFER # <<>> /\ DISPATCH_BUFFER' = Tail(DISPATCH_BUFFER)
      /\ executing' = executing \cup {i}
      /\ UNCHANGED <<read, IFETCH_BUFFER, DIB_HIT_BUFFER, DECODE_BUFFER, branch_mispredicted,
                     found_at_decode, stalled>>
  BY DEF Dispatch, branchVars
<1>2. /\ DISPATCH_BUFFER' \in Seq(Nat) /\ Ordered(DISPATCH_BUFFER')
      /\ i \in Nat /\ i \in In(DISPATCH_BUFFER)
      /\ In(DISPATCH_BUFFER') = In(DISPATCH_BUFFER) \ {i}
      /\ \A j \in In(DISPATCH_BUFFER') : i < j
  BY <1>1, TailOrdered DEF QueuesOrdered
<1>3. Middle' = Middle /\ In(IFETCH_BUFFER)' = In(IFETCH_BUFFER)
  BY <1>1 DEF Middle, In
<1>4. Placed(In(IFETCH_BUFFER), Middle, In(DISPATCH_BUFFER'), executing', read)
  <2>1. PICK a \in 1..(read + 1) :
          /\ In(IFETCH_BUFFER) \cup Middle \cup In(DISPATCH_BUFFER) = a..read
          /\ \A e \in executing : e \in 1..(a - 1)
    BY DEF Placed
  <2>2. \A j \in (In(IFETCH_BUFFER) \cup Middle \cup In(DISPATCH_BUFFER)) \ {i} : i < j
    BY <1>2 DEF Placed, Older
  <2>3. i \in a..read /\ a \in a..read
    BY <1>2, <2>1
  <2>4. i = a
    <3>1. a # i => i < a
      BY <2>1, <2>2, <2>3
    <3> QED BY <2>1, <2>3, <3>1
  <2>5. i \notin In(IFETCH_BUFFER) \cup Middle
    BY <1>2 DEF Placed, Older
  <2>6. In(IFETCH_BUFFER) \cup Middle \cup In(DISPATCH_BUFFER') = (a + 1)..read
    <3>1. (a + 1)..read = (a..read) \ {a}
      BY <2>1
    <3> QED BY <1>2, <2>1, <2>4, <2>5, <3>1
  <2>7. a + 1 \in 1..(read + 1) /\ \A e \in executing' : e \in 1..((a + 1) - 1)
    BY <1>1, <2>1, <2>3, <2>4
  <2> QED BY <1>2, <2>6, <2>7 DEF Placed, Older
<1>5. InFlight' \cup executing' = InFlight \cup executing
  <2>1. /\ InFlight = In(IFETCH_BUFFER) \cup Middle \cup In(DISPATCH_BUFFER)
        /\ InFlight' = In(IFETCH_BUFFER)' \cup Middle' \cup In(DISPATCH_BUFFER')
    BY DEF InFlight, Middle, In
  <2> QED BY <1>1, <1>2, <1>3, <2>1
<1>6. Placed(In(IFETCH_BUFFER), Middle, In(DISPATCH_BUFFER), executing, read)'
  BY <1>1, <1>3, <1>4 DEF Placed, Older, In
<1>7. StalledByTheYoungest'
  BY <1>1, <1>5 DEF StalledByTheYoungest
<1> QED BY <1>1, <1>2, <1>6, <1>7 DEF QueuesOrdered, Ordered

LEMMA CompleteStep ==
  ASSUME IInv, NEW i, CompleteExecution(i)
  PROVE  IInv'
<1> USE DEF IInv, TypeOK
<1>1. /\ executing' = executing \ {i}
      /\ stalled' = IF i \in branch_mispredicted THEN FALSE ELSE stalled
      /\ branch_mispredicted' = branch_mispredicted \ {i}
      /\ found_at_decode' = found_at_decode \ {i}
      /\ UNCHANGED <<read, IFETCH_BUFFER, DIB_HIT_BUFFER, DECODE_BUFFER, DISPATCH_BUFFER>>
  BY DEF CompleteExecution, queueVars
<1>2. /\ In(IFETCH_BUFFER)' = In(IFETCH_BUFFER) /\ Middle' = Middle
      /\ In(DISPATCH_BUFFER)' = In(DISPATCH_BUFFER) /\ InFlight' = InFlight
  BY <1>1 DEF In, Middle, InFlight
<1>3. Placed(In(IFETCH_BUFFER), Middle, In(DISPATCH_BUFFER), executing, read)'
  BY <1>1, <1>2 DEF Placed, Older
<1>4. /\ stalled' \in BOOLEAN /\ found_at_decode' \subseteq branch_mispredicted'
      /\ branch_mispredicted' = (IF stalled' THEN {read} ELSE {})
  BY <1>1 DEF StalledByTheYoungest
<1>5. branch_mispredicted' \subseteq InFlight' \cup executing'
  BY <1>1, <1>2 DEF StalledByTheYoungest
<1> QED BY <1>1, <1>3, <1>4, <1>5 DEF QueuesOrdered, Ordered, StalledByTheYoungest

THEOREM StepInvariant == IInv /\ [Next]_vars => IInv'
<1> SUFFICES ASSUME IInv, [Next]_vars PROVE IInv'
  OBVIOUS
<1>1. ASSUME NEW b \in Blocks, NEW o \in Outcomes, ReadInstruction(b, o) PROVE IInv'
  BY <1>1, ReadStep
<1>2. ASSUME NEW hit \in BOOLEAN, CheckDib(hit) PROVE IInv'
  BY <1>2, SamePlaces DEF CheckDib
<1>3. CASE FetchBlock
  BY <1>3, SamePlaces DEF FetchBlock
<1>4. ASSUME NEW request \in requests, FetchReturn(request) PROVE IInv'
  BY <1>4, SamePlaces DEF FetchReturn
<1>5. CASE PromoteToDecode
  BY <1>5, PromoteStep
<1>6. CASE TakeDibHit
  BY <1>6, TakeDibHitStep
<1>7. CASE Decode
  BY <1>7, DecodeStep
<1>8. CASE Dispatch
  BY <1>8, DispatchStep
<1>9. ASSUME NEW i \in executing, CompleteExecution(i) PROVE IInv'
  BY <1>9, CompleteStep
<1>10. CASE EndWarmup
  BY <1>10, SamePlaces DEF EndWarmup
<1>11. CASE UNCHANGED vars
  BY <1>11, SamePlaces DEF vars
<1> QED
  BY <1>1, <1>2, <1>3, <1>4, <1>5, <1>6, <1>7, <1>8, <1>9, <1>10, <1>11 DEF Next

----------------------------------------------------------------------------
(* Theorems *)

\* The inductive invariant of the front end holds in every reachable state.
THEOREM Invariance == Spec => []IInv
BY InitInvariant, StepInvariant, PTL DEF Spec

\* Whatever overtakes what between IFETCH_BUFFER and DISPATCH_BUFFER, dispatch
\* sees every instruction of the trace once and in program order
\* (promote_to_decode, decode_instruction).
THEOREM DispatchIsInOrder == Spec => []DispatchInOrder
<1>1. ASSUME IInv PROVE DispatchInOrder
  <2> USE <1>1 DEF IInv, TypeOK
  <2>1. ASSUME NEW q \in Seq(Nat), Ordered(q), NEW k \in 1..(Len(q) - 1)
        PROVE  q[k] < q[k + 1]
    <3>1. Len(q) \in Nat
      OBVIOUS
    <3>2. k \in 1..Len(q) /\ k + 1 \in 1..Len(q) /\ k < k + 1
      BY <3>1
    <3> QED BY <2>1, <3>2 DEF Ordered
  <2>2. PICK a \in 1..(read + 1) :
          /\ In(IFETCH_BUFFER) \cup Middle \cup In(DISPATCH_BUFFER) = a..read
          /\ \A e \in executing : e \in 1..(a - 1)
    BY DEF Placed
  <2>3. \A e \in executing, j \in In(DISPATCH_BUFFER) \cup Middle \cup In(IFETCH_BUFFER) : e < j
    BY <2>2
  <2>4. Consecutive(In(DISPATCH_BUFFER) \cup Middle \cup In(IFETCH_BUFFER))
    <3>1. In(DISPATCH_BUFFER) \cup Middle \cup In(IFETCH_BUFFER) = a..read
      BY <2>2
    <3>2. CASE a \in 1..read
      <4>1. read \in 1..read
        BY <3>2
      <4> QED BY <3>1, <3>2, <4>1 DEF Consecutive
    <3>3. CASE a = read + 1
      BY <3>1, <3>3 DEF Consecutive
    <3> QED BY <2>2, <3>2, <3>3
  <2> QED BY <2>1, <2>3, <2>4 DEF DispatchInOrder, QueuesOrdered, Placed, Older, Middle
<1> QED BY <1>1, Invariance, PTL

\* Reading is stopped exactly while a mispredicted branch that nothing has
\* resolved is in the pipeline, and that branch is the youngest instruction
\* (do_predict_branch, decode_instruction, do_complete_execution).
THEOREM NoLostWakeUp == Spec => []StalledByTheYoungest
<1>1. IInv => StalledByTheYoungest
  BY DEF IInv
<1> QED BY <1>1, Invariance, PTL

----------------------------------------------------------------------------
(* The main loop. *)

\* The fields of the loop that matter to the properties.
SimTyped ==
  /\ sim = [stage |-> sim.stage, phase |-> sim.phase, left |-> sim.left, lag |-> sim.lag,
            pending |-> sim.pending, progress |-> sim.progress, queue |-> sim.queue,
            retired |-> sim.retired, recent |-> sim.recent,
            stalled_cycle |-> sim.stalled_cycle, livelock_timer |-> sim.livelock_timer,
            complete |-> sim.complete, ran |-> sim.ran, ended |-> sim.ended]
  /\ sim.phase \in Nat \ {0}
  /\ sim.lag \in [Operables -> Int] /\ sim.ran \in [Operables -> Nat]
  /\ sim.complete \in [Cpus -> BOOLEAN] /\ sim.ended \in [Cpus -> Nat]

\* An operable has run and has caught up, or is at most a tick behind.
CaughtUp(op) == sim.ran[op] <= 1 /\ sim.lag[op] \in 0..(clock_period[op] - 1)
Behind(op) ==
  /\ sim.ran[op] = 0
  /\ sim.lag[op] \in (-time_quantum)..(clock_period[op] - 1 - time_quantum)
Clocks ==
  \A op \in Operables :
    CaughtUp(op) \/ (sim.stage = "operate" /\ op \in sim.pending /\ Behind(op))

\* The cores that are complete are those that were ended, and they all are when
\* a phase is over.
Ends ==
  /\ \A c \in Cpus : sim.ended[c] = IF sim.complete[c] THEN 1 ELSE 0
  /\ sim.stage = "done" \/ (sim.stage = "begin" /\ sim.phase > 1) =>
       \A c \in Cpus : sim.complete[c]

SimInv == SimTyped /\ Clocks /\ Ends

\* A tick takes every operable less than a period forward.
LEMMA Quantum ==
  /\ time_quantum \in Nat \ {0}
         /\ \A op \in Operables : clock_period[op] \in Nat /\ time_quantum <= clock_period[op]
<1> USE SimulationAssumption
<1> USE DEF SimulationAssumption
<1> DEFINE S == {clock_period[op] : op \in Operables}
<1>1. S \in SUBSET Nat /\ S # {} /\ 0 \notin S
  OBVIOUS
<1>2. \E x \in S : \A y \in S : x <= y
  BY ONLY <1>1, LeastExists
<1>3. time_quantum \in S /\ \A y \in S : time_quantum <= y
  BY <1>2 DEF time_quantum, Min
<1> QED BY <1>1, <1>3

LEMMA SimStarts == ASSUME SimInit PROVE SimInv
<1> USE SimulationAssumption
<1> USE DEF SimulationAssumption
<1>1. PICK left : sim = [stage |-> "begin", phase |-> 1, left |-> left,
           lag |-> [op \in Operables |-> 0], pending |-> {}, progress |-> 0,
           queue |-> [c \in Cpus |-> 0], retired |-> [c \in Cpus |-> 0],
           recent |-> [c \in Cpus |-> 0], stalled_cycle |-> 0, livelock_timer |-> 0,
           complete |-> [c \in Cpus |-> FALSE],
           ran |-> [op \in Operables |-> 0], ended |-> [c \in Cpus |-> 0]]
  BY DEF SimInit
<1>2. SimTyped
  BY <1>1 DEF SimTyped
<1>3. Clocks
  BY <1>1, Quantum DEF Clocks, CaughtUp
<1>4. Ends
  BY <1>1 DEF Ends
<1> QED BY <1>2, <1>3, <1>4 DEF SimInv

\* What steps that leave the clocks, and those that leave the ends alone keep.
LEMMA ClocksKept ==
  ASSUME Clocks, sim.stage # "operate", sim'.lag = sim.lag, sim'.ran = sim.ran
  PROVE  Clocks'
BY DEF Clocks, CaughtUp, Behind

LEMMA EndsKept ==
  ASSUME Ends, sim'.ended = sim.ended, sim'.complete = sim.complete,
         sim'.stage \notin {"done", "begin"}
  PROVE  Ends'
BY DEF Ends

LEMMA PhaseBegins == ASSUME SimInv, BeginPhase PROVE SimInv'
<1> USE DEF SimInv, BeginPhase
<1>1. SimTyped' /\ sim'.lag = sim.lag /\ sim'.ran = sim.ran /\ sim'.stage = "tick"
      /\ sim'.complete = [c \in Cpus |-> FALSE] /\ sim'.ended = [c \in Cpus |-> 0]
  BY DEF SimTyped
<1>2. Clocks'
  BY <1>1, ClocksKept
<1>3. Ends'
  BY <1>1 DEF Ends
<1> QED BY <1>1, <1>2, <1>3

LEMMA ClockTicks == ASSUME SimInv, Tick PROVE SimInv'
<1> USE SimulationAssumption
<1> USE DEF SimInv, Tick
<1>1. time_quantum \in Nat \ {0} /\ \A op \in Operables : clock_period[op] \in Nat
  BY Quantum
<1>2. /\ sim'.stage = "operate" /\ sim'.pending = Operables
      /\ sim'.lag = [op \in Operables |-> sim.lag[op] - time_quantum]
      /\ sim'.ran = [op \in Operables |-> 0]
      /\ sim'.ended = sim.ended /\ sim'.complete = sim.complete /\ sim'.phase = sim.phase
  BY DEF SimTyped
<1>3. SimTyped'
  <2>1. sim' = [stage |-> sim'.stage, phase |-> sim'.phase, left |-> sim'.left, lag |-> sim'.lag,
            pending |-> sim'.pending, progress |-> sim'.progress, queue |-> sim'.queue,
            retired |-> sim'.retired, recent |-> sim'.recent,
            stalled_cycle |-> sim'.stalled_cycle, livelock_timer |-> sim'.livelock_timer,
            complete |-> sim'.complete, ran |-> sim'.ran, ended |-> sim'.ended]
    BY DEF SimTyped
  <2>2. \A op \in Operables : sim.lag[op] - time_quantum \in Int
    BY ONLY <1>1, SimTyped DEF SimTyped
  <2>3. sim'.lag \in [Operables -> Int] /\ sim'.ran \in [Operables -> Nat]
    BY ONLY <1>2, <2>2
  <2> QED BY <1>2, <2>1, <2>3 DEF SimTyped
<1>4. Clocks'
  <2> SUFFICES ASSUME NEW op \in Operables PROVE Behind(op)'
    BY <1>2 DEF Clocks
  <2>1. sim.lag[op] \in 0..(clock_period[op] - 1)
    BY DEF Clocks, CaughtUp
  <2> QED BY <1>1, <1>2, <2>1 DEF Behind, time_quantum
<1>5. Ends'
  BY <1>2, EndsKept
<1> QED BY <1>3, <1>4, <1>5

LEMMA OperableRuns ==
  ASSUME SimInv, NEW op \in Operables, OperateOn(op)
  PROVE  SimInv'
<1> USE SimulationAssumption
<1> USE DEF SimInv
<1>0. /\ time_quantum \in Nat \ {0}
      /\ \A other \in Operables : clock_period[other] \in Nat /\ time_quantum <= clock_period[other]
      /\ op \in sim.pending /\ sim.stage = "operate"
      /\ CaughtUp(op) \/ Behind(op)
  BY Quantum DEF OperateOn, Earliest, Clocks
<1>1. CASE sim.lag[op] >= 0
  <2>1. sim' = [sim EXCEPT !.pending = @ \ {op}]
    BY <1>1 DEF OperateOn
  <2>2. /\ SimTyped' /\ sim'.pending = sim.pending \ {op} /\ sim'.stage = sim.stage
        /\ sim'.lag = sim.lag /\ sim'.ran = sim.ran
        /\ sim'.ended = sim.ended /\ sim'.complete = sim.complete
    BY <2>1 DEF SimTyped
  <2>3. CaughtUp(op)
    BY <1>0, <1>1 DEF Behind, CaughtUp, SimTyped
  <2>4. Clocks'
    <3> SUFFICES ASSUME NEW other \in Operables
                 PROVE  CaughtUp(other)' \/ (other \in sim'.pending /\ Behind(other)')
      BY <1>0, <2>2 DEF Clocks
    <3>1. CaughtUp(other)' = CaughtUp(other) /\ Behind(other)' = Behind(other)
      BY <2>2 DEF CaughtUp, Behind, time_quantum
    <3> QED BY <1>0, <2>2, <2>3, <3>1 DEF Clocks
  <2> QED BY <1>0, <2>2, <2>4, EndsKept
<1>2. CASE ~(sim.lag[op] >= 0)
  <2>1. PICK progress \in 0..1, retires \in 0..(IF op \in Cpus THEN sim.queue[op] ELSE 0) :
          LET s == [sim EXCEPT !.lag[op] = @ + clock_period[op], !.ran[op] = @ + 1,
                               !.progress = IF progress > 0 THEN 1 ELSE @]
          IN  sim' = IF op \in Cpus
                     THEN [s EXCEPT !.queue[op] = @ - retires,
                                    !.retired[op] = Min({@ + retires, Phases[sim.phase]}),
                                    !.recent[op] = Min({@ + retires, LIVELOCK_MIN + 1})]
                     ELSE s
    BY <1>2, ZenonT(60) DEF OperateOn
  <2>2. /\ sim'.pending = sim.pending /\ sim'.stage = sim.stage
        /\ sim'.lag = [sim.lag EXCEPT ![op] = @ + clock_period[op]]
        /\ sim'.ran = [sim.ran EXCEPT ![op] = @ + 1]
        /\ sim'.ended = sim.ended /\ sim'.complete = sim.complete /\ sim'.phase = sim.phase
    BY <2>1 DEF SimTyped
  <2>3. sim' = [stage |-> sim'.stage, phase |-> sim'.phase, left |-> sim'.left, lag |-> sim'.lag,
            pending |-> sim'.pending, progress |-> sim'.progress, queue |-> sim'.queue,
            retired |-> sim'.retired, recent |-> sim'.recent,
            stalled_cycle |-> sim'.stalled_cycle, livelock_timer |-> sim'.livelock_timer,
            complete |-> sim'.complete, ran |-> sim'.ran, ended |-> sim'.ended]
    BY <2>1 DEF SimTyped
  <2>4. SimTyped'
    BY <1>0, <2>2, <2>3 DEF SimTyped
  <2>5. CaughtUp(op)'
    <3>1. Behind(op)
      BY <1>0, <1>2 DEF CaughtUp
    <3>2. sim'.lag[op] = sim.lag[op] + clock_period[op] /\ sim'.ran[op] = sim.ran[op] + 1
      BY <2>2 DEF SimTyped
    <3> QED BY <1>0, <1>2, <3>1, <3>2 DEF Behind, CaughtUp
  <2>6. Clocks'
    <3> SUFFICES ASSUME NEW other \in Operables, other # op
                 PROVE  CaughtUp(other)' \/ (other \in sim'.pending /\ Behind(other)')
      BY <1>0, <2>2, <2>5 DEF Clocks
    <3>1. sim'.lag[other] = sim.lag[other] /\ sim'.ran[other] = sim.ran[other]
      BY <2>2 DEF SimTyped
    <3>2. CaughtUp(other)' = CaughtUp(other) /\ Behind(other)' = Behind(other)
      BY <3>1 DEF CaughtUp, Behind, time_quantum
    <3> QED BY <1>0, <2>2, <3>2 DEF Clocks
  <2> QED BY <1>0, <2>2, <2>4, <2>6, EndsKept
<1> QED BY <1>1, <1>2

\* The traces are read when no operable is left behind.
LEMMA TracesRead == ASSUME SimInv, ReadTraces PROVE SimInv'
<1> USE DEF SimInv, ReadTraces
<1>1. /\ SimTyped' /\ sim'.lag = sim.lag /\ sim'.ran = sim.ran /\ sim'.stage = "detect"
      /\ sim'.ended = sim.ended /\ sim'.complete = sim.complete
  BY DEF SimTyped
<1>2. Clocks'
  BY <1>1 DEF Clocks, CaughtUp
<1>3. Ends'
  BY <1>1, EndsKept
<1> QED BY <1>1, <1>2, <1>3

LEMMA FaultsDetected == ASSUME SimInv, Detect PROVE SimInv'
<1> USE DEF SimInv, Detect
<1>1. /\ SimTyped' /\ sim'.lag = sim.lag /\ sim'.ran = sim.ran
      /\ sim'.stage \in {"aborted", "check"} /\ sim.stage = "detect"
      /\ sim'.ended = sim.ended /\ sim'.complete = sim.complete
  BY DEF SimTyped
<1>2. Clocks'
  BY <1>1, ClocksKept
<1>3. Ends'
  BY <1>1, EndsKept
<1> QED BY <1>1, <1>2, <1>3

\* A core is ended in the step that completes it, and in no other.
LEMMA PhaseChecked == ASSUME SimInv, CheckPhase PROVE SimInv'
<1> USE DEF SimInv
<1> DEFINE complete == [c \in Cpus |-> sim.complete[c] \/ CompletesNow(c)]
<1>1. /\ sim.stage = "check"
      /\ sim' = [sim EXCEPT
                   !.complete = complete,
                   !.ended = [c \in Cpus |-> IF CompletesNow(c) THEN @[c] + 1 ELSE @[c]],
                   !.stage = IF \E c \in Cpus : ~complete[c] THEN "tick"
                             ELSE IF sim.phase < Len(Phases) THEN "begin" ELSE "done",
                   !.phase = IF (\A c \in Cpus : complete[c]) /\ sim.phase < Len(Phases)
                             THEN @ + 1 ELSE @]
  BY DEF CheckPhase
<1>2. \A c \in Cpus : CompletesNow(c) => ~sim.complete[c]
  BY DEF CompletesNow
<1>3. complete \in [Cpus -> BOOLEAN]
  BY DEF SimTyped, CompletesNow
<1> HIDE DEF complete
<1>4. /\ sim'.lag = sim.lag /\ sim'.ran = sim.ran /\ sim'.complete = complete
      /\ sim'.ended = [c \in Cpus |-> IF CompletesNow(c) THEN sim.ended[c] + 1
                                      ELSE sim.ended[c]]
      /\ sim'.phase \in {sim.phase, sim.phase + 1}
      /\ sim'.stage \in {"begin", "done"} => \A c \in Cpus : complete[c]
  BY <1>1 DEF SimTyped
<1>5. SimTyped'
  <2>1. sim' = [stage |-> sim'.stage, phase |-> sim'.phase, left |-> sim'.left, lag |-> sim'.lag,
            pending |-> sim'.pending, progress |-> sim'.progress, queue |-> sim'.queue,
            retired |-> sim'.retired, recent |-> sim'.recent,
            stalled_cycle |-> sim'.stalled_cycle, livelock_timer |-> sim'.livelock_timer,
            complete |-> sim'.complete, ran |-> sim'.ran, ended |-> sim'.ended]
    BY <1>1 DEF SimTyped
  <2>2. sim.ended \in [Cpus -> Nat] /\ sim.phase \in Nat \ {0}
    BY DEF SimTyped
  <2>3. sim'.ended \in [Cpus -> Nat] /\ sim'.phase \in Nat \ {0}
    BY ONLY <1>4, <2>2
  <2> QED BY <1>3, <1>4, <2>1, <2>3 DEF SimTyped
<1>6. Clocks'
  BY <1>1, <1>4, ClocksKept
<1>7. ASSUME NEW c \in Cpus PROVE sim'.ended[c] = IF sim'.complete[c] THEN 1 ELSE 0
  <2>1. sim'.complete[c] <=> sim.complete[c] \/ CompletesNow(c)
    BY <1>4 DEF complete
  <2>2. sim'.ended[c] = IF CompletesNow(c) THEN sim.ended[c] + 1 ELSE sim.ended[c]
    BY <1>4
  <2>3. sim.ended[c] = IF sim.complete[c] THEN 1 ELSE 0
    BY DEF Ends
  <2> QED BY <1>2, <2>1, <2>2, <2>3
<1>8. Ends'
  BY <1>4, <1>7 DEF Ends
<1> QED BY <1>5, <1>6, <1>8

LEMMA SimSteps == ASSUME SimInv, [SimNext]_sim PROVE SimInv'
<1> USE SimulationAssumption
<1>1. CASE UNCHANGED sim
  BY <1>1 DEF SimInv, SimTyped, Clocks, CaughtUp, Behind, time_quantum, Ends
<1> QED BY <1>1, PhaseBegins, ClockTicks, OperableRuns, TracesRead, FaultsDetected,
           PhaseChecked DEF SimNext

\* Whatever the operables, their periods and what they do: in a cycle of the loop
\* each runs at most once and is then level with the clock, and in a phase each
\* core is ended once (do_cycle and do_phase, src/champsim.cc).
THEOREM ClocksAndPhasesKept ==
  SimSpec => []ClocksAndPhases
<1> USE SimulationAssumption
<1>1. SimInit => SimInv
  BY SimStarts
<1>2. SimInv /\ [SimNext]_sim => SimInv'
  BY SimSteps
<1>3. SimInv => ClocksAndPhases
  <2> SUFFICES ASSUME SimInv PROVE InStep /\ EndedOnce
    BY DEF ClocksAndPhases
  <2>1. InStep
    BY DEF SimInv, Clocks, CaughtUp, Behind, InStep
  <2>2. EndedOnce
    BY DEF SimInv, Ends, SimTyped, EndedOnce
  <2> QED BY <2>1, <2>2
<1> QED BY <1>1, <1>2, <1>3, PTL DEF SimSpec

----------------------------------------------------------------------------
(* The trace reader. *)

Instructions == [n : Nat, target : Nat]

\* A buffer holds the instructions up to the position in the file, each with the
\* next as its target but for the last.
Lined(buffer, position) ==
  \A k \in 1..Len(buffer) :
    /\ buffer[k].n = (position - Len(buffer)) + k
    /\ buffer[k].target = IF k = Len(buffer) THEN 0 ELSE (position - Len(buffer)) + k + 1

\* At the end of a file of this length nothing is left in it; before, the buffer
\* keeps the instruction whose target is to come.
Whole(file, length) ==
  /\ file = [position |-> file.position, file_eof |-> file.file_eof,
             instr_buffer |-> file.instr_buffer]
  /\ file.position \in 0..length /\ file.file_eof \in BOOLEAN
  /\ file.instr_buffer \in Seq(Instructions) /\ Len(file.instr_buffer) <= file.position
  /\ Lined(file.instr_buffer, file.position)
  /\ file.file_eof => file.position = length
  /\ (~file.file_eof /\ file.position > 0) => file.instr_buffer # <<>>

ReaderInv ==
  /\ reader = [length |-> reader.length, repeat |-> reader.repeat, file |-> reader.file,
               before |-> reader.before, out |-> reader.out]
  /\ reader.length \in Nat \ {0} /\ reader.repeat \in BOOLEAN
  /\ reader.before \in Nat /\ reader.out \in Instructions
  /\ Whole(reader.file, reader.length)
  /\ reader.out.n = reader.file.position - Len(reader.file.instr_buffer)
  /\ reader.out.n < reader.length => reader.out.target = reader.out.n + 1
  /\ reader.out.n > 1 => reader.out.n = reader.before + 1
  /\ (reader.out.n = 1 /\ reader.before # 0) => reader.before >= reader.length - 1

LEMMA ReaderStarts == ASSUME ReaderInit PROVE ReaderInv
<1> USE ReaderAssumption
<1> USE DEF ReaderAssumption
<1>1. PICK length \in Lengths, repeat \in BOOLEAN :
        reader = [length |-> length, repeat |-> repeat, file |-> Opened,
                  before |-> 0, out |-> [n |-> 0, target |-> 1]]
  BY DEF ReaderInit
<1>2. Whole(Opened, length)
  BY DEF Whole, Lined, Opened
<1>3. Opened.position = 0 /\ Len(Opened.instr_buffer) = 0
  BY DEF Opened
<1> QED BY <1>1, <1>2, <1>3 DEF ReaderInv, Instructions

\* A block that is read in behind the buffer leaves it lined up: all the targets
\* are set again, the one across the seam with them.
LEMMA Refreshed ==
  ASSUME reader.length \in Nat \ {0},
         NEW file, Whole(file, reader.length), ~FileEof(file),
         Len(file.instr_buffer) <= refresh_thresh
  PROVE  LET whole == Refresh(file)
             L == Len(whole.instr_buffer)
         IN  /\ Whole(whole, reader.length) /\ L >= 1
             /\ whole.position - L = file.position - Len(file.instr_buffer)
             /\ L = 1 => whole.file_eof
<1> USE ReaderAssumption
<1> DEFINE length == reader.length
           buffer == file.instr_buffer
           wanted == buffer_size - refresh_thresh
           there == length - file.position
           count == IF there < wanted THEN there ELSE wanted
           next == [k \in 1..count |-> [n |-> file.position + k, target |-> TargetToCome]]
           joined == buffer \o next
           targets == set_branch_targets(joined)
           whole == Refresh(file)
<1>1. /\ wanted \in Nat /\ wanted >= 2 /\ Len(buffer) \in {0, 1} /\ file.file_eof = FALSE
      /\ file.position \in Nat /\ there \in Nat /\ file.position + there = length
  <2>1. /\ file.position \in 0..length /\ file.file_eof \in BOOLEAN
        /\ buffer \in Seq(Instructions)
    BY DEF Whole
  <2>2. Len(buffer) \in Nat
    BY <2>1, LenProperties
  <2>3. buffer_size \in Nat /\ buffer_size > 2 /\ refresh_thresh = 1
    BY DEF ReaderAssumption
  <2>4. file.file_eof = FALSE
    BY <2>1, <2>3 DEF FileEof
  <2>5. length \in Nat /\ Len(buffer) <= refresh_thresh
    OBVIOUS
  <2>6. wanted \in Nat /\ wanted >= 2
    BY ONLY <2>3
  <2>7. Len(buffer) \in {0, 1}
    <3> DEFINE size == Len(buffer)
    <3>1. size \in Nat /\ size <= 1
      BY ONLY <2>2, <2>3, <2>5
    <3> HIDE DEF size
    <3>2. size \in {0, 1}
      BY ONLY <3>1
    <3> QED BY ONLY <3>2 DEF size
  <2>8. file.position \in Nat /\ there \in Nat /\ file.position + there = length
    <3> HIDE DEF length
    <3> QED BY ONLY <2>1, <2>5
  <2> QED BY <2>4, <2>6, <2>7, <2>8
<1>2. /\ count \in Nat /\ count <= there /\ count <= wanted
      /\ there >= wanted => count = wanted
      /\ there < wanted => count = there
  BY <1>1
<1>3. whole = [position |-> file.position + count, file_eof |-> file.file_eof \/ there < wanted,
              instr_buffer |-> targets]
  BY DEF Refresh
<1> HIDE DEF wanted, there, whole
<1>4. /\ next \in Seq(Instructions) /\ Len(next) = count
      /\ \A k \in 1..count : next[k] = [n |-> file.position + k, target |-> 0]
  BY <1>1, <1>2 DEF Instructions, TargetToCome
<1> HIDE DEF count, next
<1>5. buffer \in Seq(Instructions) /\ Len(buffer) <= file.position
  BY DEF Whole
<1>6. /\ joined \in Seq(Instructions) /\ Len(joined) = Len(buffer) + count
      /\ \A k \in 1..Len(buffer) : joined[k] = buffer[k]
      /\ \A k \in (Len(buffer) + 1)..(Len(buffer) + count) : joined[k] = next[k - Len(buffer)]
  <2>1. /\ joined \in Seq(Instructions) /\ Len(joined) = Len(buffer) + Len(next)
        /\ \A k \in 1..(Len(buffer) + Len(next)) :
             joined[k] = IF k <= Len(buffer) THEN buffer[k] ELSE next[k - Len(buffer)]
    BY ONLY <1>4, <1>5, ConcatProperties
  <2>2. Len(buffer) \in Nat /\ Len(next) = count /\ count \in Nat
    BY ONLY <1>1, <1>2, <1>4
  <2> HIDE DEF joined, buffer
  <2> QED BY ONLY <2>1, <2>2
<1> HIDE DEF joined
<1>7. ASSUME NEW k \in 1..Len(joined)
      PROVE  /\ joined[k].n = (file.position - Len(buffer)) + k
             /\ joined[k] \in Instructions
             /\ k = Len(joined) => joined[k].target = 0
  <2>1. CASE k <= Len(buffer)
    <3>1. joined[k] = buffer[k] /\ buffer[k] \in Instructions /\ k = Len(buffer)
      BY <1>1, <1>5, <1>6, <2>1, SMTT(30)
    <3>2. buffer[k].n = (file.position - Len(buffer)) + k /\ buffer[k].target = 0
      BY <1>1, <2>1, <3>1 DEF Whole, Lined
    <3> QED BY <3>1, <3>2
  <2>2. CASE ~(k <= Len(buffer))
    <3>1. k - Len(buffer) \in 1..count /\ joined[k] = next[k - Len(buffer)]
      <4> DEFINE size == Len(buffer)
                 last == Len(joined)
      <4>1. /\ size \in Nat /\ count \in Nat /\ last = size + count
            /\ k \in 1..last /\ ~(k <= size)
        BY <1>1, <1>2, <1>6, <2>2
      <4>2. \A i \in (size + 1)..(size + count) : joined[i] = next[i - size]
        BY ONLY <1>6
      <4> HIDE DEF size, last
      <4>3. k - size \in 1..count /\ k \in (size + 1)..(size + count)
        BY ONLY <4>1
      <4>4. joined[k] = next[k - size]
        BY ONLY <4>2, <4>3
      <4> QED BY ONLY <4>3, <4>4 DEF size
    <3>2. joined[k] = [n |-> file.position + (k - Len(buffer)), target |-> 0]
      BY <1>4, <3>1
    <3>3. file.position + (k - Len(buffer)) = (file.position - Len(buffer)) + k
      <4> DEFINE size == Len(buffer)
      <4>1. size \in Nat /\ k \in Nat /\ file.position \in Nat
        BY <1>1, <1>5, <1>6, LenProperties
      <4> HIDE DEF size
      <4> QED BY ONLY <4>1
    <3>4. joined[k] \in Instructions
      BY <1>6
    <3> QED BY <3>2, <3>3, <3>4
  <2> QED BY <2>1, <2>2
<1>8. /\ targets \in Seq(Instructions) /\ Len(targets) = Len(joined)
      /\ \A k \in 1..Len(joined) :
           /\ targets[k].n = (file.position - Len(buffer)) + k
           /\ targets[k].target = IF k = Len(joined) THEN 0
                                  ELSE (file.position - Len(buffer)) + k + 1
  <2> DEFINE T(k) == IF k = Len(joined) THEN joined[k]
                     ELSE [joined[k] EXCEPT !.target = joined[k + 1].n]
  <2>1. targets = [k \in 1..Len(joined) |-> T(k)]
    BY DEF set_branch_targets
  <2>2. Len(joined) \in Nat
    BY <1>1, <1>2, <1>6
  <2>3. ASSUME NEW k \in 1..Len(joined)
        PROVE  /\ T(k) \in Instructions
               /\ T(k).n = (file.position - Len(buffer)) + k
               /\ T(k).target = IF k = Len(joined) THEN 0
                                ELSE (file.position - Len(buffer)) + k + 1
    <3>1. CASE k = Len(joined)
      BY <1>7, <3>1
    <3>2. CASE k # Len(joined)
      <4>1. k + 1 \in 1..Len(joined)
        BY <2>2, <3>2
      <4>2. joined[k + 1].n = (file.position - Len(buffer)) + (k + 1)
        BY <1>7, <4>1
      <4>3. joined[k] \in Instructions /\ joined[k].n = (file.position - Len(buffer)) + k
        BY <1>7
      <4>4. joined[k + 1] \in Instructions
        BY <1>7, <4>1
      <4>5. T(k) = [n |-> joined[k].n, target |-> joined[k + 1].n]
        BY <3>2, <4>3 DEF Instructions
      <4>6. joined[k].n \in Nat /\ joined[k + 1].n \in Nat
        BY <4>3, <4>4 DEF Instructions
      <4>7. T(k) \in Instructions /\ T(k).n = joined[k].n /\ T(k).target = joined[k + 1].n
        BY ONLY <4>5, <4>6 DEF Instructions
      <4>8. file.position \in Nat /\ Len(buffer) \in Nat /\ k \in Nat
        BY <1>1
      <4>9. T(k).target = (file.position - Len(buffer)) + k + 1
        BY ONLY <4>2, <4>7, <4>8
      <4> QED BY ONLY <3>2, <4>3, <4>7, <4>9
    <3> QED BY <3>1, <3>2
  <2> HIDE DEF T, targets
  <2>4. targets \in Seq(Instructions) /\ Len(targets) = Len(joined)
    BY <2>1, <2>2, <2>3
  <2>5. \A k \in 1..Len(joined) : targets[k] = T(k)
    BY <2>1
  <2> QED BY <2>3, <2>4, <2>5
<1> HIDE DEF targets
<1>9. /\ whole.position = file.position + count /\ whole.instr_buffer = targets
      /\ whole.file_eof = (there < wanted)
  BY <1>1, <1>3
<1>10. Len(targets) >= 1 /\ (Len(targets) = 1 => there < wanted)
  <2>1. there = 0 => Len(buffer) = 1
    <3>1. (~file.file_eof /\ file.position > 0) => buffer # <<>>
      BY DEF Whole
    <3>2. Len(buffer) = 0 => buffer = <<>>
      BY <1>5, EmptySeq
    <3>3. length \in Nat \ {0}
      OBVIOUS
    <3> QED BY ONLY <1>1, <3>1, <3>2, <3>3
  <2>2. Len(targets) = Len(buffer) + count
    BY ONLY <1>6, <1>8
  <2>3. wanted >= 2 /\ wanted \in Nat /\ there \in Nat /\ Len(buffer) \in {0, 1}
    BY ONLY <1>1
  <2> QED BY ONLY <1>2, <2>1, <2>2, <2>3
<1>11. whole.position - Len(targets) = file.position - Len(buffer)
  <2>1. Len(targets) = Len(buffer) + count
    BY ONLY <1>6, <1>8
  <2>2. count \in Nat /\ Len(buffer) \in Nat /\ file.position \in Nat
    BY ONLY <1>1, <1>2
  <2> QED BY ONLY <1>9, <2>1, <2>2
<1>12. Whole(whole, length)
  <2>1. whole.position \in 0..length /\ whole.file_eof \in BOOLEAN /\ Len(targets) <= whole.position
    BY <1>1, <1>2, <1>5, <1>6, <1>8, <1>9
  <2>2. whole.file_eof => whole.position = length
    BY ONLY <1>1, <1>2, <1>9
  <2>3. Lined(targets, whole.position)
    BY <1>1, <1>8, <1>11 DEF Lined
  <2>4. targets # <<>>
    BY <1>10
  <2> QED BY <1>3, <1>8, <1>9, <2>1, <2>2, <2>3, <2>4 DEF Whole
<1> QED BY <1>9, <1>10, <1>11, <1>12 DEF whole

LEMMA ReadNext == ASSUME ReaderInv, Read PROVE ReaderInv'
<1> USE ReaderAssumption
<1> USE DEF ReaderAssumption
<1> DEFINE length == reader.length
           opened == IF FileEof(reader.file) THEN Opened ELSE reader.file
           whole == IF Len(opened.instr_buffer) <= refresh_thresh THEN Refresh(opened)
                    ELSE opened
           buffer == whole.instr_buffer
           position == whole.position
           L == Len(buffer)
<1>1. reader' = [reader EXCEPT !.file = [whole EXCEPT !.instr_buffer = Tail(@)],
                               !.before = reader.out.n, !.out = Head(buffer)]
  BY DEF Read
<1>2. length \in Nat \ {0} /\ Whole(reader.file, length) /\ reader.out \in Instructions
  BY DEF ReaderInv
<1>3. Whole(Opened, length) /\ Opened.position = 0
      /\ Len(Opened.instr_buffer) = 0 /\ ~FileEof(Opened)
  BY <1>2 DEF Whole, Lined, Opened, FileEof
<1>4. Whole(opened, length) /\ ~FileEof(opened)
  BY <1>2, <1>3
<1>5. opened.position - Len(opened.instr_buffer) =
        IF FileEof(reader.file) THEN 0 ELSE reader.out.n
  BY <1>3 DEF ReaderInv
<1>6. FileEof(reader.file) => reader.out.n >= length - 1
  BY <1>2 DEF ReaderInv, Whole, FileEof
<1> HIDE DEF opened
<1>7. /\ Whole(whole, length) /\ L >= 1
      /\ position - L = opened.position - Len(opened.instr_buffer)
      /\ L = 1 => whole.file_eof
  <2>1. CASE Len(opened.instr_buffer) <= refresh_thresh
    <3>1. whole = Refresh(opened)
      BY <2>1
    <3> HIDE DEF whole
    <3>2. LET full == Refresh(opened)
              n == Len(full.instr_buffer)
          IN  /\ Whole(full, length) /\ n >= 1
              /\ full.position - n = opened.position - Len(opened.instr_buffer)
              /\ n = 1 => full.file_eof
      BY <1>2, <1>4, <2>1, Refreshed
    <3> QED BY ONLY <3>1, <3>2
  <2>2. CASE ~(Len(opened.instr_buffer) <= refresh_thresh)
    <3>1. whole = opened
      BY <2>2
    <3>2. opened.instr_buffer \in Seq(Instructions)
      BY ONLY <1>4 DEF Whole
    <3> DEFINE size == Len(opened.instr_buffer)
    <3>3. size \in Nat /\ ~(size <= refresh_thresh) /\ refresh_thresh = 1
      BY ONLY <2>2, <3>2, LenProperties, ReaderAssumption DEF ReaderAssumption
    <3> HIDE DEF size
    <3>4. size >= 1 /\ size # 1
      BY ONLY <3>3
    <3> HIDE DEF whole
    <3> QED BY ONLY <1>4, <3>1, <3>4 DEF size
  <2> QED BY <2>1, <2>2
<1> HIDE DEF whole
<1>8. /\ buffer \in Seq(Instructions) /\ L \in Nat /\ L <= position /\ position \in 0..length
      /\ whole = [position |-> position, file_eof |-> whole.file_eof, instr_buffer |-> buffer]
      /\ whole.file_eof \in BOOLEAN /\ (whole.file_eof => position = length)
  BY <1>7 DEF Whole
<1>9. /\ Tail(buffer) \in Seq(Instructions) /\ Len(Tail(buffer)) = L - 1
      /\ Head(buffer) = buffer[1] /\ buffer[1] \in Instructions
      /\ \A k \in 1..(L - 1) : Tail(buffer)[k] = buffer[k + 1]
  <2> HIDE DEF buffer
  <2>1. buffer # <<>> /\ 1 \in 1..L
    BY ONLY <1>7, <1>8, EmptySeq
  <2>2. /\ Tail(buffer) \in Seq(Instructions) /\ Len(Tail(buffer)) = L - 1
        /\ \A k \in 1..Len(Tail(buffer)) : Tail(buffer)[k] = buffer[k + 1]
    BY ONLY <1>8, <2>1, HeadTailProperties
  <2>3. buffer[1] \in Instructions
    BY ONLY <1>8, <2>1, ElementOfSeq
  <2>4. Head(buffer) = buffer[1]
    BY ONLY <1>8, <2>1
  <2> QED BY ONLY <2>2, <2>3, <2>4
<1>10. \A k \in 1..L : /\ buffer[k].n = (position - L) + k
                       /\ buffer[k].target = IF k = L THEN 0 ELSE (position - L) + k + 1
  <2>1. Lined(buffer, position)
    BY <1>7 DEF Whole
  <2> HIDE DEF buffer, position
  <2> QED BY ONLY <2>1 DEF Lined
<1>11. /\ reader'.length = length /\ reader'.repeat = reader.repeat
       /\ reader'.before = reader.out.n /\ reader'.out = buffer[1]
       /\ reader'.file = [position |-> position, file_eof |-> whole.file_eof,
                          instr_buffer |-> Tail(buffer)]
       /\ reader' = [length |-> reader'.length, repeat |-> reader'.repeat, file |-> reader'.file,
                     before |-> reader'.before, out |-> reader'.out]
  <2>1. [whole EXCEPT !.instr_buffer = Tail(@)]
          = [position |-> position, file_eof |-> whole.file_eof, instr_buffer |-> Tail(buffer)]
    <3>1. whole = [position |-> position, file_eof |-> whole.file_eof, instr_buffer |-> buffer]
      BY <1>8
    <3>2. whole.instr_buffer = buffer
      OBVIOUS
    <3> HIDE DEF buffer, position
    <3> DEFINE rest == Tail(buffer)
    <3>3. [whole EXCEPT !.instr_buffer = Tail(@)] = [whole EXCEPT !.instr_buffer = rest]
      BY ONLY <3>2
    <3> HIDE DEF rest
    <3>4. [whole EXCEPT !.instr_buffer = rest]
            = [position |-> position, file_eof |-> whole.file_eof, instr_buffer |-> rest]
      BY ONLY <3>1
    <3> QED BY ONLY <3>3, <3>4 DEF rest
  <2>2. reader = [length |-> reader.length, repeat |-> reader.repeat, file |-> reader.file,
                  before |-> reader.before, out |-> reader.out]
    BY DEF ReaderInv
  <2>3. reader' = [length |-> reader.length, repeat |-> reader.repeat,
                   file |-> [whole EXCEPT !.instr_buffer = Tail(@)],
                   before |-> reader.out.n, out |-> Head(buffer)]
    BY ONLY <1>1, <2>2
  <2>4. Head(buffer) = buffer[1]
    BY <1>9
  <2> QED BY ONLY <2>1, <2>3, <2>4
<1> HIDE DEF length, buffer, position, L
<1>12. Lined(Tail(buffer), position)
  <2> SUFFICES ASSUME NEW k \in 1..(L - 1)
               PROVE  /\ Tail(buffer)[k].n = (position - (L - 1)) + k
                      /\ Tail(buffer)[k].target = IF k = L - 1 THEN 0
                                                  ELSE (position - (L - 1)) + k + 1
    BY <1>9 DEF Lined
  <2>1. k + 1 \in 1..L
    BY <1>8
  <2>2. /\ buffer[k + 1].n = (position - L) + (k + 1)
        /\ buffer[k + 1].target = IF k + 1 = L THEN 0 ELSE (position - L) + (k + 1) + 1
    BY <1>10, <2>1
  <2>3. Tail(buffer)[k] = buffer[k + 1]
    BY ONLY <1>9
  <2>4. position \in Nat /\ L \in Nat /\ k \in Nat
    BY <1>2, <1>8
  <2> DEFINE next == Tail(buffer)[k]
             before == position - (L - 1)
  <2>5. before = (position - L) + 1
    BY ONLY <2>4
  <2>6. next.n = before + k
    <3>1. (position - L) + (k + 1) = before + k
      BY ONLY <2>4
    <3> HIDE DEF before
    <3> QED BY ONLY <2>2, <2>3, <3>1
  <2>7. next.target = IF k = L - 1 THEN 0 ELSE before + k + 1
    <3>1. k + 1 = L <=> k = L - 1
      BY ONLY <2>4
    <3>2. (position - L) + (k + 1) + 1 = before + k + 1
      BY ONLY <2>4
    <3> HIDE DEF before
    <3> QED BY ONLY <2>2, <2>3, <3>1, <3>2
  <2> QED BY ONLY <2>6, <2>7
<1>13. Whole(reader'.file, length)
  <2>1. (~whole.file_eof /\ position > 0) => Tail(buffer) # <<>>
    <3>1. L = 1 \/ L >= 2
      BY <1>7, <1>8
    <3>2. Len(Tail(buffer)) = L - 1
      BY <1>9
    <3>3. L >= 2 => L - 1 >= 1
      BY <1>8
    <3>4. Tail(buffer) = <<>> => Len(Tail(buffer)) = 0
      BY ONLY EmptySeq
    <3> QED BY ONLY <1>7, <3>1, <3>2, <3>3, <3>4
  <2> QED BY <1>8, <1>9, <1>11, <1>12, <2>1 DEF Whole
<1>14. reader'.out.n = (position - L) + 1 /\ reader'.out \in Instructions
       /\ reader'.out.target = IF L = 1 THEN 0 ELSE (position - L) + 2
  <2>1. 1 \in 1..L
    BY ONLY <1>7, <1>8
  <2>2. buffer[1].n = (position - L) + 1
        /\ buffer[1].target = IF 1 = L THEN 0 ELSE (position - L) + 1 + 1
    BY ONLY <1>10, <2>1
  <2>3. reader'.out = buffer[1] /\ buffer[1] \in Instructions
    BY <1>9, <1>11
  <2>4. position - L \in Int
    BY ONLY <1>2, <1>8
  <2> QED BY ONLY <2>2, <2>3, <2>4
<1>15. reader'.out.n = position - Len(Tail(buffer))
  BY <1>8, <1>9, <1>14
<1>16. reader'.out.n < length => reader'.out.target = reader'.out.n + 1
  BY <1>7, <1>8, <1>14
<1>17. /\ reader'.out.n > 1 => reader'.out.n = reader'.before + 1
       /\ (reader'.out.n = 1 /\ reader'.before # 0) => reader'.before >= length - 1
  <2>1. reader.out.n \in Nat /\ length \in Nat
    BY <1>2 DEF Instructions
  <2>2. CASE FileEof(reader.file)
    BY <1>5, <1>6, <1>7, <1>11, <1>14, <2>1, <2>2 DEF length
  <2>3. CASE ~FileEof(reader.file)
    BY <1>5, <1>7, <1>11, <1>14, <2>1, <2>3
  <2> QED BY <2>2, <2>3
<1>18. reader'.before \in Nat
  BY <1>2, <1>11 DEF Instructions
<1>19. reader'.file.position = position /\ reader'.file.instr_buffer = Tail(buffer)
       /\ reader'.length \in Nat \ {0} /\ reader'.repeat \in BOOLEAN
  BY <1>2, <1>11 DEF ReaderInv
<1> QED BY <1>11, <1>13, <1>14, <1>15, <1>16, <1>17, <1>18, <1>19 DEF ReaderInv

\* Whatever the length of the file and of the blocks, and whether it is repeated:
\* the instructions come once and in order, each with the target that follows it
\* (bulk_tracereader::operator(), inc/tracereader.h).
THEOREM TraceHandedOutInOrder ==
  ReaderSpec => []TraceInOrder
<1> USE ReaderAssumption
<1>1. ReaderInit => ReaderInv
  BY ReaderStarts
<1>2. ReaderInv /\ [ReaderNext]_reader => ReaderInv'
  <2>1. ReaderInv /\ ReaderNext => ReaderInv'
    BY ReadNext DEF ReaderNext
  <2>2. ReaderInv /\ UNCHANGED reader => ReaderInv'
    BY DEF ReaderInv
  <2> QED BY <2>1, <2>2
<1>3. ReaderInv => TraceInOrder
  <2> SUFFICES ASSUME ReaderInv, eof PROVE reader.out.n >= reader.length - 1
    BY DEF ReaderInv, TraceInOrder
  <2>1. reader.file.file_eof /\ Len(reader.file.instr_buffer) <= 1
    BY DEF eof, FileEof, ReaderAssumption
  <2>2. /\ Whole(reader.file, reader.length) /\ reader.length \in Nat
        /\ reader.out.n = reader.file.position - Len(reader.file.instr_buffer)
    BY DEF ReaderInv
  <2>3. reader.file.position = reader.length /\ reader.file.instr_buffer \in Seq(Instructions)
    BY ONLY <2>1, <2>2 DEF Whole
  <2>4. Len(reader.file.instr_buffer) \in Nat
    BY ONLY <2>3, LenProperties
  <2> QED BY ONLY <2>1, <2>2, <2>3, <2>4
<1> QED BY <1>1, <1>2, <1>3, PTL DEF ReaderSpec
----------------------------------------------------------------------------
(* TAGE. *)

LEMMA TageSizes ==
  /\ Len(TAG_WIDTHS) \in Nat \ {0}
  /\ \A c \in Components : TAG_WIDTHS[c] \in Nat \ {0, 1}
  /\ PRED_MAX \in Nat \ {0} /\ U_MAX \in Nat \ {0}
  /\ BIMODAL_MAX \in Nat \ {0} /\ USE_ALT_MAX \in Nat \ {0}
  /\ PHIST_BITS \in Nat /\ GHIST_BITS \in Nat /\ BIMODAL_INDEX_BITS \in Nat
  /\ RESET_USEFUL_INTERVAL \in Nat \ {0, 1}
<1>1. TAG_WIDTHS \in Seq(Nat \ {0, 1}) /\ Len(TAG_WIDTHS) > 0
  BY TageAssumption
<1>2. Len(TAG_WIDTHS) \in Nat /\ \A c \in 1..Len(TAG_WIDTHS) : TAG_WIDTHS[c] \in Nat \ {0, 1}
  BY <1>1, LenProperties, ElementOfSeq
<1> QED BY TageAssumption, <1>2 DEF Components

\* Some component is the longest of those that match.
LEMMA LongestIn ==
  ASSUME NEW S \in SUBSET Components
  PROVE  /\ Longest(S) \in S \cup {NONE}
         /\ Longest(S) = NONE => S = {}
<1> DEFINE n == Len(TAG_WIDTHS)
           R == {n - c : c \in S}
<1>1. n \in Nat /\ \A c \in S : c \in 1..n
  BY TageSizes DEF Components
<1>2. CASE S = {}
  BY <1>2 DEF Longest
<1>3. CASE S # {}
  <2>1. R \in SUBSET Nat /\ R # {}
    BY <1>1, <1>3
  <2>2. PICK m \in R : \A r \in R : m <= r
    BY ONLY <2>1, LeastExists
  <2>3. PICK c \in S : m = n - c
    BY <2>2
  <2>4. \A d \in S : n - c <= n - d
    BY <2>2, <2>3
  <2>5. \A d \in S : d <= c
    BY <1>1, <2>4
  <2>6. Longest(S) \in S
    BY <1>3, <2>5 DEF Longest
  <2> QED BY <1>1, <2>6 DEF NONE
<1> QED BY <1>2, <1>3

\* Every hash fits the table it is meant for.
LEMMA Hashes ==
  ASSUME NEW ip
  PROVE  /\ \A c \in Components :
              /\ indexHash(ip, c) \in Word(TAGE_INDEX_BITS[c])
              /\ tagHash(ip, c) \in Word(TAG_WIDTHS[c])
         /\ bimodalIndex(ip) \in Word(BIMODAL_INDEX_BITS)
<1>1. ASSUME NEW c \in Components PROVE tagHash(ip, c) \in Word(TAG_WIDTHS[c])
  <2> DEFINE w == TAG_WIDTHS[c]
             a == Low(ip, w)
             b == get_ghist_hash(HIST_LENS[c], w)
             d == get_ghist_hash(HIST_LENS[c], w - 1)
  <2>1. w \in Nat \ {0, 1}
    BY TageSizes
  <2>2. a \subseteq 0..(w - 1) /\ b \subseteq 0..(w - 1) /\ d \subseteq 0..(w - 2)
    <3>1. w - 1 - 1 = w - 2
      BY <2>1
    <3> QED BY <3>1 DEF Low, get_ghist_hash
  <2> HIDE DEF a, b, d, w
  <2>3. Shl(d, 1) \subseteq 0..(w - 1)
    BY <2>1, <2>2 DEF Shl
  <2>4. Xor(a, Xor(b, Shl(d, 1))) \subseteq 0..(w - 1)
    BY <2>2, <2>3 DEF Xor
  <2> QED BY <2>4 DEF tagHash, Word, a, b, d, w
<1> QED BY <1>1 DEF indexHash, bimodalIndex, Low, Word

\* A lookup names components whose entries match, and an alternate one only
\* beside a provider.
LEMMA TageLookup ==
  ASSUME NEW ip
  PROVE  /\ Lookup(ip).provider \in Matches(ip) \cup {NONE}
         /\ Lookup(ip).alt \in Matches(ip) \cup {NONE}
         /\ Lookup(ip).alt # NONE => Lookup(ip).provider # NONE
         /\ Lookup(ip).provider # NONE =>
              Lookup(ip).provider_index = indexHash(ip, Lookup(ip).provider)
         /\ Lookup(ip).alt # NONE =>
              Lookup(ip).alt_index = indexHash(ip, Lookup(ip).alt)
<1> DEFINE p == provider_comp(ip)
           a == altpred_comp(ip)
           M == Matches(ip)
<1>1. M \in SUBSET Components /\ M \ {p} \in SUBSET Components
  BY DEF Matches
<1>2. p \in M \cup {NONE} /\ (p = NONE => M = {})
  BY <1>1, LongestIn DEF provider_comp
<1>3. a \in (M \ {p}) \cup {NONE}
  BY <1>1, LongestIn DEF altpred_comp
<1>4. /\ Lookup(ip).provider = p /\ Lookup(ip).alt = a
      /\ Lookup(ip).provider_index = IF p = NONE THEN {} ELSE indexHash(ip, p)
      /\ Lookup(ip).alt_index = IF a = NONE THEN {} ELSE indexHash(ip, a)
  BY DEF Lookup
<1> HIDE DEF p, a, M
<1> QED BY <1>2, <1>3, <1>4 DEF M

\* The tagged tables, and one of them with another entry in one place.
Cells(c) == Word(TAGE_INDEX_BITS[c])
Tables(t) ==
  /\ t = [c \in Components |-> t[c]]
  /\ \A c \in Components : t[c] \in [Cells(c) -> Entry(c)]
Put(t, c, i, e) == [t EXCEPT ![c] = [t[c] EXCEPT ![i] = e]]

LEMMA PutFacts ==
  ASSUME NEW t, Tables(t), NEW c \in Components, NEW i \in Cells(c), NEW e \in Entry(c)
  PROVE  /\ Tables(Put(t, c, i, e))
         /\ \A d \in Components : \A j \in Cells(d) :
              Put(t, c, i, e)[d][j] = IF d = c /\ j = i THEN e ELSE t[d][j]
<1> DEFINE s == [t[c] EXCEPT ![i] = e]
<1>1. s \in [Cells(c) -> Entry(c)] /\ \A j \in Cells(c) : s[j] = IF j = i THEN e ELSE t[c][j]
  BY DEF Tables
<1>2. Put(t, c, i, e) = [d \in Components |-> IF d = c THEN s ELSE t[d]]
  BY DEF Tables, Put
<1> HIDE DEF s
<1> QED BY <1>1, <1>2 DEF Tables

LEMMA CounterSteered ==
  ASSUME NEW max \in Nat, NEW v \in 0..max, NEW up
  PROVE  Steer(v, up, max) \in 0..max
BY DEF Steer, Add, Sub, Clamp

\* Moving one counter of an entry is putting another entry in its place.
PredSteered(t, c, i, up) == [t EXCEPT ![c][i].pred = Steer(@, up, PRED_MAX)]
UsefulSteered(t, c, i, up) == [t EXCEPT ![c][i].u = Steer(@, up, U_MAX)]

LEMMA PredSteeredFacts ==
  ASSUME NEW t, Tables(t), NEW c \in Components, NEW i \in Cells(c), NEW up \in BOOLEAN
  PROVE  /\ Tables(PredSteered(t, c, i, up))
         /\ \A d \in Components : \A j \in Cells(d) :
              /\ PredSteered(t, c, i, up)[d][j].tag = t[d][j].tag
              /\ PredSteered(t, c, i, up)[d][j].u = t[d][j].u
              /\ d # c \/ j # i => PredSteered(t, c, i, up)[d][j] = t[d][j]
<1> DEFINE e == [t[c][i] EXCEPT !.pred = Steer(@, up, PRED_MAX)]
<1>1. t[c][i] \in Entry(c)
  BY DEF Tables
<1>2. Steer(t[c][i].pred, up, PRED_MAX) \in 0..PRED_MAX
  BY <1>1, CounterSteered, TageSizes DEF Entry
<1>3. e \in Entry(c) /\ e.tag = t[c][i].tag /\ e.u = t[c][i].u
  BY <1>1, <1>2 DEF Entry
<1>4. PredSteered(t, c, i, up) = Put(t, c, i, e)
  BY DEF Put, PredSteered
<1> HIDE DEF e
<1> QED BY <1>3, <1>4, PutFacts

LEMMA UsefulSteeredFacts ==
  ASSUME NEW t, Tables(t), NEW c \in Components, NEW i \in Cells(c), NEW up \in BOOLEAN
  PROVE  /\ Tables(UsefulSteered(t, c, i, up))
         /\ \A d \in Components : \A j \in Cells(d) :
              /\ UsefulSteered(t, c, i, up)[d][j].tag = t[d][j].tag
              /\ UsefulSteered(t, c, i, up)[d][j].pred = t[d][j].pred
              /\ d # c \/ j # i => UsefulSteered(t, c, i, up)[d][j] = t[d][j]
<1> DEFINE e == [t[c][i] EXCEPT !.u = Steer(@, up, U_MAX)]
<1>1. t[c][i] \in Entry(c)
  BY DEF Tables
<1>2. Steer(t[c][i].u, up, U_MAX) \in 0..U_MAX
  BY <1>1, CounterSteered, TageSizes DEF Entry
<1>3. e \in Entry(c) /\ e.tag = t[c][i].tag /\ e.pred = t[c][i].pred
  BY <1>1, <1>2 DEF Entry
<1>4. UsefulSteered(t, c, i, up) = Put(t, c, i, e)
  BY DEF Put, UsefulSteered
<1> HIDE DEF e
<1> QED BY <1>3, <1>4, PutFacts

\* The places the last lookup names are places of the tables.
PlacesOK ==
  /\ branch_info.provider \in Components \cup {NONE}
  /\ branch_info.alt \in Components \cup {NONE}
  /\ branch_info.provider # NONE => branch_info.provider_index \in Cells(branch_info.provider)
  /\ branch_info.alt # NONE => /\ branch_info.provider # NONE
                                    /\ branch_info.alt_index \in Cells(branch_info.alt)

\* Training leaves tags alone, usefulness too but for the provider's, and
\* directions but for the provider's and the alternate component's entry.
TrainedOnly(t, t2) ==
  \A c \in Components : \A i \in Cells(c) :
    /\ t2[c][i].tag = t[c][i].tag
    /\ t2[c][i].u # t[c][i].u => c = branch_info.provider
    /\ t2[c][i].pred # t[c][i].pred =>
         \/ c = branch_info.provider /\ i = branch_info.provider_index
         \/ c = branch_info.alt /\ i = branch_info.alt_index

LEMMA TrainedOnlyTransitive ==
  ASSUME NEW t, NEW t2, NEW t3, TrainedOnly(t, t2), TrainedOnly(t2, t3) PROVE TrainedOnly(t, t3)
BY DEF TrainedOnly

LEMMA Training ==
  ASSUME NEW t, Tables(t), PlacesOK, NEW taken \in BOOLEAN
  PROVE  Tables(Train(t, taken)) /\ TrainedOnly(t, Train(t, taken))
<1> DEFINE p == branch_info.provider
           pi == branch_info.provider_index
           a == branch_info.alt
           ai == branch_info.alt_index
           t1 == TrainProvider(t, taken)
           t2 == TrainAlt(t1, taken)
           t3 == CreditUseful(t2, taken)
<1>1. CASE ~Hit
  BY <1>1 DEF Train, TrainedOnly
<1>2. CASE Hit
  <2>1. p \in Components /\ pi \in Cells(p)
    BY <1>2 DEF PlacesOK, Hit, bi
  <2>2. a = NONE \/ (a \in Components /\ ai \in Cells(a))
    BY DEF PlacesOK
  <2>3. t1 = PredSteered(t, p, pi, taken)
    BY DEF TrainProvider, bi, PredSteered
  <2>4. t2 = t1 \/ (a # NONE /\ t2 = PredSteered(t1, a, ai, taken))
    BY DEF TrainAlt, bi, PredSteered
  <2>5. t3 = t2 \/ t3 = UsefulSteered(t2, p, pi, branch_info.ultimate = taken)
    BY DEF CreditUseful, bi, UsefulSteered
  <2>6. Train(t, taken) = t3
    BY <1>2 DEF Train
  <2> HIDE DEF t1, t2, t3, p, pi, a, ai
  <2>7. Tables(t1) /\ TrainedOnly(t, t1)
    BY <2>1, <2>3, PredSteeredFacts DEF TrainedOnly, p, pi
  <2>8. Tables(t2) /\ TrainedOnly(t1, t2)
    <3>1. CASE t2 = t1
      BY <2>7, <3>1 DEF TrainedOnly
    <3>2. CASE t2 = PredSteered(t1, a, ai, taken) /\ a # NONE
      <4>1. /\ Tables(t2)
            /\ \A d \in Components : \A j \in Cells(d) :
                 /\ t2[d][j].tag = t1[d][j].tag
                 /\ t2[d][j].u = t1[d][j].u
                 /\ d # a \/ j # ai => t2[d][j] = t1[d][j]
        BY <2>2, <2>7, <3>2, PredSteeredFacts
      <4> QED BY <4>1 DEF TrainedOnly, a, ai
    <3> QED BY <2>4, <3>1, <3>2
  <2>9. Tables(t3) /\ TrainedOnly(t2, t3)
    <3>1. CASE t3 = t2
      BY <2>8, <3>1 DEF TrainedOnly
    <3>2. CASE t3 = UsefulSteered(t2, p, pi, branch_info.ultimate = taken)
      <4> DEFINE up == branch_info.ultimate = taken
      <4>1. up \in BOOLEAN /\ t3 = UsefulSteered(t2, p, pi, up)
        BY <3>2
      <4> HIDE DEF up
      <4>2. /\ Tables(t3)
            /\ \A d \in Components : \A j \in Cells(d) :
                 /\ t3[d][j].tag = t2[d][j].tag
                 /\ t3[d][j].pred = t2[d][j].pred
                 /\ d # p \/ j # pi => t3[d][j] = t2[d][j]
        BY <2>1, <2>8, <4>1, UsefulSteeredFacts
      <4> QED BY <4>2 DEF TrainedOnly, p
    <3> QED BY <2>5, <3>1, <3>2
  <2>10. TrainedOnly(t, t3)
    BY <2>7, <2>8, <2>9, TrainedOnlyTransitive
  <2> QED BY <2>6, <2>9, <2>10
<1> QED BY <1>1, <1>2

\* The entry a mispredicted branch is given.
Allocated(ip, c, taken) ==
  [pred |-> IF taken THEN WEAKLY_TAKEN ELSE WEAKLY_NOT_TAKEN,
   tag |-> tagHash(ip, c), u |-> 0]

LEMMA AllocatedFacts ==
  ASSUME NEW ip, NEW c \in Components, NEW taken \in BOOLEAN
  PROVE  /\ Allocated(ip, c, taken) \in Entry(c)
         /\ Weak(Allocated(ip, c, taken).pred)
         /\ Taken(Allocated(ip, c, taken).pred, PRED_MAX) = taken
<1>1. WEAKLY_TAKEN \in 0..PRED_MAX /\ WEAKLY_NOT_TAKEN \in 0..PRED_MAX
  BY TageSizes DEF WEAKLY_TAKEN, WEAKLY_NOT_TAKEN
<1>2. tagHash(ip, c) \in Word(TAG_WIDTHS[c]) /\ 0 \in 0..U_MAX
  BY Hashes, TageSizes
<1>3. Allocated(ip, c, taken) \in Entry(c)
  BY <1>1, <1>2 DEF Allocated, Entry
<1>4. Weak(Allocated(ip, c, taken).pred)
  BY DEF Allocated, Weak
<1>5. Taken(WEAKLY_TAKEN, PRED_MAX) /\ ~Taken(WEAKLY_NOT_TAKEN, PRED_MAX)
  BY TageSizes DEF Taken, WEAKLY_TAKEN, WEAKLY_NOT_TAKEN
<1>6. Taken(Allocated(ip, c, taken).pred, PRED_MAX) = taken
  <2>1. CASE taken
    BY <1>5, <2>1 DEF Allocated, Taken
  <2>2. CASE ~taken
    BY <1>5, <2>2 DEF Allocated, Taken
  <2> QED BY <2>1, <2>2
<1> QED BY <1>3, <1>4, <1>6

\* Entries that lose or are aged keep everything but their usefulness.
SameVotes(t, t2) ==
  \A c \in Components : \A i \in Cells(c) :
    /\ t2[c][i].tag = t[c][i].tag /\ t2[c][i].pred = t[c][i].pred
    /\ t[c][i].u = 0 => t2[c][i].u = 0

LEMMA UsefulMoved ==
  ASSUME NEW t, Tables(t), NEW t2, t2 = [c \in Components |-> t2[c]],
         \A c \in Components : t2[c] = [i \in Cells(c) |-> t2[c][i]],
         \A c \in Components : \A i \in Cells(c) :
           \E u \in 0..U_MAX : /\ t2[c][i] = [t[c][i] EXCEPT !.u = u]
                               /\ t[c][i].u = 0 => u = 0
  PROVE  Tables(t2) /\ SameVotes(t, t2)
<1>1. ASSUME NEW c \in Components, NEW i \in Cells(c)
      PROVE  /\ t2[c][i] \in Entry(c)
             /\ t2[c][i].tag = t[c][i].tag /\ t2[c][i].pred = t[c][i].pred
             /\ t[c][i].u = 0 => t2[c][i].u = 0
  <2>1. t[c][i] \in Entry(c)
    BY DEF Tables
  <2>2. PICK u \in 0..U_MAX : /\ t2[c][i] = [t[c][i] EXCEPT !.u = u]
                              /\ t[c][i].u = 0 => u = 0
    OBVIOUS
  <2> QED BY <2>1, <2>2 DEF Entry
<1> QED BY <1>1 DEF Tables, SameVotes

LEMMA Ageing ==
  ASSUME NEW t, Tables(t), NEW n
  PROVE  Tables(AgeUseful(t, n)) /\ SameVotes(t, AgeUseful(t, n))
<1> DEFINE K(u) == IF n = RESET_USEFUL_INTERVAL \div 2 THEN u % 2
                   ELSE IF n = RESET_USEFUL_INTERVAL THEN u - (u % 2) ELSE u
           t2 == AgeUseful(t, n)
<1>1. \A u \in 0..U_MAX : K(u) \in 0..U_MAX /\ (u = 0 => K(u) = 0)
  BY TageSizes
<1>2. t2 = [c \in Components |-> [i \in Cells(c) |-> [t[c][i] EXCEPT !.u = K(@)]]]
  BY DEF AgeUseful, Cells
<1> HIDE DEF K, t2
<1>3. ASSUME NEW c \in Components, NEW i \in Cells(c)
      PROVE  \E u \in 0..U_MAX : /\ t2[c][i] = [t[c][i] EXCEPT !.u = u]
                                 /\ t[c][i].u = 0 => u = 0
  <2>1. t[c][i].u \in 0..U_MAX
    BY DEF Tables, Entry
  <2>2. t2[c][i] = [t[c][i] EXCEPT !.u = K(t[c][i].u)]
    BY <1>2
  <2>3. K(t[c][i].u) \in 0..U_MAX /\ (t[c][i].u = 0 => K(t[c][i].u) = 0)
    BY <1>1, <2>1
  <2> QED BY <2>2, <2>3
<1>4. /\ t2 = [c \in Components |-> t2[c]]
      /\ \A c \in Components : t2[c] = [i \in Cells(c) |-> t2[c][i]]
  BY <1>2
<1> QED BY <1>3, <1>4, UsefulMoved DEF t2

\* A misprediction gives a way in a longer component whose entry is not useful,
\* or takes some usefulness away.
LEMMA Allocation ==
  ASSUME NEW t, Tables(t), PlacesOK, NEW ip, NEW taken \in BOOLEAN, NEW skip \in Nat
  PROVE  /\ Tables(Allocate(t, ip, taken, skip))
         /\ \/ \E c \in Components :
                 /\ c > branch_info.provider
                 /\ t[c][indexHash(ip, c)].u = 0
                 /\ Allocate(t, ip, taken, skip)
                      = Put(t, c, indexHash(ip, c), Allocated(ip, c, taken))
            \/ SameVotes(t, Allocate(t, ip, taken, skip))
<1> DEFINE V == Victims(t, ip, skip)
           t2 == Allocate(t, ip, taken, skip)
<1>1. CASE V # {}
  <2> DEFINE c == CHOOSE v \in V : \A w \in V : v <= w
  <2>1. V \in SUBSET Nat
    BY DEF Victims, Candidates, Components
  <2>2. \E v \in V : \A w \in V : v <= w
    BY ONLY <1>1, <2>1, LeastExists
  <2>3. c \in V
    BY <2>2
  <2>4. t2 = Put(t, c, indexHash(ip, c), Allocated(ip, c, taken))
    BY <1>1 DEF Allocate, Put, Allocated
  <2> HIDE DEF c, t2
  <2>5. c \in Components /\ c >= FirstCandidate(skip) /\ t[c][indexHash(ip, c)].u = 0
    BY <2>3 DEF Victims, Candidates
  <2>6. c > branch_info.provider
    BY <2>5 DEF FirstCandidate, Hit, bi, PlacesOK, NONE, Components
  <2>7. indexHash(ip, c) \in Cells(c) /\ Allocated(ip, c, taken) \in Entry(c)
    BY <2>5, Hashes, AllocatedFacts DEF Cells
  <2>8. Tables(t2)
    BY <2>4, <2>5, <2>7, PutFacts
  <2> QED BY <2>4, <2>5, <2>6, <2>8 DEF t2
<1>2. CASE V = {}
  <2>1. t2 = [c \in Components |->
                IF c \in Candidates(skip)
                THEN [t[c] EXCEPT ![indexHash(ip, c)].u = Sub(@, 1, U_MAX)]
                ELSE t[c]]
    BY <1>2 DEF Allocate
  <2> HIDE DEF t2
  <2>2. t2 = [c \in Components |-> t2[c]]
    BY <2>1
  <2>3. ASSUME NEW c \in Components
        PROVE  t2[c] = [i \in Cells(c) |-> t2[c][i]]
    <3>1. t[c] \in [Cells(c) -> Entry(c)]
      BY DEF Tables
    <3> QED BY <2>1, <3>1
  <2>4. ASSUME NEW c \in Components, NEW i \in Cells(c)
        PROVE  \E u \in 0..U_MAX : /\ t2[c][i] = [t[c][i] EXCEPT !.u = u]
                                   /\ t[c][i].u = 0 => u = 0
    <3>1. t[c] \in [Cells(c) -> Entry(c)] /\ t[c][i] \in Entry(c)
      BY DEF Tables
    <3>2. t[c][i].u \in 0..U_MAX /\ t[c][i] = [t[c][i] EXCEPT !.u = t[c][i].u]
      BY <3>1 DEF Entry
    <3>3. /\ Sub(t[c][i].u, 1, U_MAX) \in 0..U_MAX
          /\ t[c][i].u = 0 => Sub(t[c][i].u, 1, U_MAX) = 0
      BY <3>2, TageSizes, SMTT(30) DEF Sub, Clamp
    <3>4. \/ t2[c][i] = t[c][i]
          \/ t2[c][i] = [t[c][i] EXCEPT !.u = Sub(t[c][i].u, 1, U_MAX)]
      BY <2>1, <3>1
    <3> QED BY <3>2, <3>3, <3>4
  <2>5. Tables(t2) /\ SameVotes(t, t2)
    BY <2>2, <2>3, <2>4, UsefulMoved
  <2> QED BY <2>5 DEF t2
<1> QED BY <1>1, <1>2

\* What an update makes of one entry: it is trained, or it is the new one.
Learnt(c, i, e, f) ==
  /\ f.tag = e.tag
  /\ f.pred # e.pred =>
       \/ c = branch_info.provider /\ i = branch_info.provider_index
       \/ c = branch_info.alt /\ i = branch_info.alt_index
Replaced(ip, taken, c, i, e, f) ==
  /\ i = indexHash(ip, c) /\ c > branch_info.provider
  /\ branch_info.ultimate # taken /\ e.u = 0
  /\ f.tag = tagHash(ip, c) /\ f.u = 0 /\ Weak(f.pred)
  /\ Taken(f.pred, PRED_MAX) = taken

LEMMA Updating ==
  ASSUME NEW t, Tables(t), PlacesOK, NEW ip, NEW taken \in BOOLEAN, NEW skip \in Nat,
         t = tage_table
  PROVE  /\ Tables(TableAfter(ip, taken, skip))
         /\ \E v \in Components : \A c \in Components : \A i \in Cells(c) :
              \/ Learnt(c, i, t[c][i], TableAfter(ip, taken, skip)[c][i])
              \/ c = v /\ Replaced(ip, taken, c, i, t[c][i], TableAfter(ip, taken, skip)[c][i])
<1> DEFINE t1 == Train(t, taken)
           t2 == AllocateOnMiss(t1, ip, taken, skip)
           t3 == AgeUseful(t2, num_branches + 1)
<1>1. Tables(t1) /\ TrainedOnly(t, t1)
  BY Training
<1>2. \/ t2 = t1
      \/ branch_info.ultimate # taken /\ t2 = Allocate(t1, ip, taken, skip)
  BY DEF AllocateOnMiss, bi
<1>3. t3 = TableAfter(ip, taken, skip)
  BY DEF TableAfter
<1> HIDE DEF t1
<1>4. /\ Tables(t2)
      /\ \/ \E v \in Components :
              /\ v > branch_info.provider /\ branch_info.ultimate # taken
              /\ t1[v][indexHash(ip, v)].u = 0
              /\ t2 = Put(t1, v, indexHash(ip, v), Allocated(ip, v, taken))
         \/ SameVotes(t1, t2)
  <2>1. CASE t2 = t1
    BY <1>1, <2>1 DEF SameVotes
  <2>2. CASE branch_info.ultimate # taken /\ t2 = Allocate(t1, ip, taken, skip)
    <3> HIDE DEF t2
    <3>1. /\ Tables(Allocate(t1, ip, taken, skip))
          /\ \/ \E c \in Components :
                  /\ c > branch_info.provider
                  /\ t1[c][indexHash(ip, c)].u = 0
                  /\ Allocate(t1, ip, taken, skip)
                       = Put(t1, c, indexHash(ip, c), Allocated(ip, c, taken))
             \/ SameVotes(t1, Allocate(t1, ip, taken, skip))
      BY <1>1, Allocation
    <3> QED BY <2>2, <3>1
  <2> QED BY <1>2, <2>1, <2>2
<1> HIDE DEF t2
<1>5. Tables(t3) /\ SameVotes(t2, t3)
  BY <1>4, Ageing
<1> HIDE DEF t3
<1>6. ASSUME SameVotes(t1, t2)
      PROVE  \A c \in Components : \A i \in Cells(c) : Learnt(c, i, t[c][i], t3[c][i])
  BY <1>1, <1>5, <1>6 DEF SameVotes, TrainedOnly, Learnt
<1>7. ASSUME NEW v \in Components, v > branch_info.provider, branch_info.ultimate # taken,
             t1[v][indexHash(ip, v)].u = 0,
             t2 = Put(t1, v, indexHash(ip, v), Allocated(ip, v, taken))
      PROVE  \A c \in Components : \A i \in Cells(c) :
               \/ Learnt(c, i, t[c][i], t3[c][i])
               \/ c = v /\ Replaced(ip, taken, c, i, t[c][i], t3[c][i])
  <2> DEFINE j == indexHash(ip, v)
             e == Allocated(ip, v, taken)
  <2>1. j \in Cells(v) /\ e \in Entry(v)
    BY Hashes, AllocatedFacts DEF Cells
  <2>2. /\ Weak(e.pred) /\ Taken(e.pred, PRED_MAX) = taken
        /\ e.tag = tagHash(ip, v) /\ e.u = 0
    BY AllocatedFacts DEF Allocated
  <2>3. v # branch_info.provider
    BY <1>7 DEF PlacesOK, Components, NONE
  <2> HIDE DEF j, e
  <2>4. \A c \in Components : \A i \in Cells(c) :
          t2[c][i] = IF c = v /\ i = j THEN e ELSE t1[c][i]
    BY <1>1, <1>7, <2>1, PutFacts DEF j, e
  <2>5. /\ t3[v][j].tag = e.tag /\ t3[v][j].pred = e.pred /\ t3[v][j].u = 0
        /\ t[v][j].u = 0
    <3>1. t2[v][j] = e
      BY <2>1, <2>4
    <3>2. t1[v][j].u = 0
      BY <1>7 DEF j
    <3> QED BY <1>1, <1>5, <2>1, <2>2, <2>3, <3>1, <3>2 DEF SameVotes, TrainedOnly
  <2>6. Replaced(ip, taken, v, j, t[v][j], t3[v][j])
    BY <1>7, <2>2, <2>5 DEF Replaced, j
  <2>7. ASSUME NEW c \in Components, NEW i \in Cells(c), ~(c = v /\ i = j)
        PROVE  Learnt(c, i, t[c][i], t3[c][i])
    <3>1. t2[c][i] = t1[c][i]
      BY <2>4, <2>7
    <3> QED BY <1>1, <1>5, <3>1 DEF SameVotes, TrainedOnly, Learnt
  <2> QED BY <2>6, <2>7
<1>8. \E v \in Components : \A c \in Components : \A i \in Cells(c) :
        \/ Learnt(c, i, t[c][i], t3[c][i])
        \/ c = v /\ Replaced(ip, taken, c, i, t[c][i], t3[c][i])
  <2>1. CASE SameVotes(t1, t2)
    <3>1. 1 \in Components
      BY TageSizes DEF Components
    <3> QED BY <1>6, <2>1, <3>1
  <2>2. CASE ~SameVotes(t1, t2)
    BY <1>4, <1>7, <2>2
  <2> QED BY <2>1, <2>2
<1> QED BY <1>3, <1>5, <1>8

\* The inductive invariant of TAGE: the tables are those of TypeOK and no more,
\* and the update sees the tables and histories the prediction was made from.
TageInv ==
  /\ TageTypeOK
  /\ tage_table = [c \in Components |-> tage_table[c]]
  /\ \A ip \in Ips : pending # <<>> /\ pending[1] = ip => branch_info = Lookup(ip)

LEMMA TageTables == ASSUME TageInv PROVE Tables(tage_table)
BY DEF TageInv, Tables, TageTypeOK, Cells

LEMMA TageStarts == TageInit => TageInv
<1> SUFFICES ASSUME TageInit PROVE TageInv
  OBVIOUS
<1> USE TageSizes DEF TageInit
<1>1. ASSUME NEW c \in Components
      PROVE  tage_table[c] \in [Word(TAGE_INDEX_BITS[c]) -> Entry(c)]
  <2>1. [pred |-> 0, tag |-> {}, u |-> 0] \in Entry(c)
    BY DEF Entry, Word
  <2> QED BY <2>1
<1>2. bimodal_table \in [Word(BIMODAL_INDEX_BITS) -> 0..BIMODAL_MAX]
  <2>1. 1 + BIMODAL_MAX \div 2 \in 0..BIMODAL_MAX
    OBVIOUS
  <2> QED BY <2>1
<1>3. tage_table = [c \in Components |-> tage_table[c]]
  OBVIOUS
<1>4. /\ phist \in Word(PHIST_BITS) /\ ghist \in Word(GHIST_BITS + 1)
      /\ num_branches \in 0..(RESET_USEFUL_INTERVAL - 1) /\ USE_ALT_ON_NA \in 0..USE_ALT_MAX
  BY DEF Word
<1> QED BY <1>1, <1>2, <1>3, <1>4 DEF TageInv, TageTypeOK

\* A lookup depends on the tables and the histories alone.
LEMMA LookupKept ==
  ASSUME NEW ip,
         UNCHANGED <<tage_table, bimodal_table, num_branches, phist, ghist, USE_ALT_ON_NA>>
  PROVE  Lookup(ip)' = Lookup(ip)
<1>1. \A c : indexHash(ip, c)' = indexHash(ip, c) /\ tagHash(ip, c)' = tagHash(ip, c)
  BY DEF indexHash, tagHash, get_ghist_hash
<1>2. \A c : EntryOf(ip, c)' = EntryOf(ip, c)
  BY <1>1 DEF EntryOf
<1>3. Matches(ip)' = Matches(ip)
  BY <1>1, <1>2 DEF Matches
<1>4. /\ provider_comp(ip)' = provider_comp(ip)
      /\ altpred_comp(ip)' = altpred_comp(ip)
  BY <1>3 DEF provider_comp, altpred_comp
<1>5. \A c : CompPred(ip, c)' = CompPred(ip, c)
  BY <1>2 DEF CompPred, base_pred
<1>6. ultimate_pred(ip)' = ultimate_pred(ip)
  BY <1>2, <1>4, <1>5 DEF ultimate_pred
<1> QED BY <1>1, <1>4, <1>5, <1>6 DEF Lookup

LEMMA TagePredicts ==
  ASSUME TageInv, NEW ip \in Ips, predict_branch(ip),
         pending = <<>>, pending' = pending \/ \E taken \in BOOLEAN : pending' = <<ip, taken>>
  PROVE  TageInv'
<1> USE DEF predict_branch
<1>1. pending' \in {<<>>} \cup (Ips \X BOOLEAN)
  OBVIOUS
<1>2. /\ Lookup(ip).provider \in Components \cup {NONE}
      /\ Lookup(ip).alt \in Components \cup {NONE}
  BY TageLookup DEF Matches
<1>3. TageTypeOK'
  BY <1>1, <1>2 DEF TageInv, TageTypeOK
<1>4. ASSUME NEW jp \in Ips, pending' # <<>>, pending'[1] = jp
      PROVE  branch_info' = Lookup(jp)'
  <2>1. jp = ip
    BY <1>4
  <2>2. Lookup(ip)' = Lookup(ip)
    BY LookupKept
  <2> QED BY <2>1, <2>2
<1>5. tage_table' = [c \in Components |-> tage_table'[c]]
  BY DEF TageInv
<1> QED BY <1>3, <1>4, <1>5 DEF TageInv

\* What is known when the outcome of a branch is reported.
LEMMA AtResolve ==
  ASSUME TageInv, NEW skip \in Skips, Resolve(skip)
  PROVE  \E ip \in Ips, taken \in BOOLEAN :
           /\ pending = <<ip, taken>> /\ last_branch_result(ip, taken, skip)
           /\ branch_info = Lookup(ip) /\ PlacesOK /\ skip \in Nat
<1>1. PICK ip \in Ips, taken \in BOOLEAN : pending = <<ip, taken>>
  BY DEF TageInv, TageTypeOK, Resolve
<1>2. branch_info = Lookup(ip) /\ last_branch_result(ip, taken, skip)
  BY <1>1 DEF TageInv, Resolve
<1>3. PlacesOK
  <2>1. Matches(ip) \subseteq Components
    BY DEF Matches
  <2>2. \A c \in Components : indexHash(ip, c) \in Cells(c)
    BY Hashes DEF Cells
  <2> QED BY <1>2, <2>1, <2>2, TageLookup DEF PlacesOK
<1>4. skip \in Nat
  BY DEF Skips
<1> QED BY <1>1, <1>2, <1>3, <1>4

LEMMA TageResolves ==
  ASSUME TageInv, NEW skip \in Skips, Resolve(skip)
  PROVE  TageInv'
<1>1. PICK ip \in Ips, taken \in BOOLEAN :
           /\ pending = <<ip, taken>> /\ last_branch_result(ip, taken, skip)
           /\ branch_info = Lookup(ip) /\ PlacesOK /\ skip \in Nat
  BY AtResolve
<1>2. tage_table' = TableAfter(ip, taken, skip) /\ pending' = <<>> /\ branch_info' = branch_info
  BY <1>1 DEF last_branch_result, Resolve
<1>3. Tables(tage_table')
  BY <1>1, <1>2, TageTables, Updating
<1>4. bimodal_table' \in [Word(BIMODAL_INDEX_BITS) -> 0..BIMODAL_MAX]
  <2> DEFINE k == bimodalIndex(ip)
             v == Steer(bimodal_table[k], taken, BIMODAL_MAX)
  <2>1. bimodal_table \in [Word(BIMODAL_INDEX_BITS) -> 0..BIMODAL_MAX]
    BY DEF TageInv, TageTypeOK
  <2>2. k \in Word(BIMODAL_INDEX_BITS)
    BY Hashes
  <2>3. v \in 0..BIMODAL_MAX
    BY <2>1, <2>2, CounterSteered, TageSizes
  <2>4. bimodal_table' = bimodal_table \/ bimodal_table' = [bimodal_table EXCEPT ![k] = v]
    BY <1>1 DEF last_branch_result
  <2> HIDE DEF k, v
  <2> QED BY <2>1, <2>2, <2>3, <2>4
<1>5. USE_ALT_ON_NA' \in 0..USE_ALT_MAX
  <2>1. USE_ALT_ON_NA \in 0..USE_ALT_MAX
    BY DEF TageInv, TageTypeOK
  <2>2. \/ USE_ALT_ON_NA' = USE_ALT_ON_NA
        \/ \E up : USE_ALT_ON_NA' = Steer(USE_ALT_ON_NA, up, USE_ALT_MAX)
    BY <1>1 DEF last_branch_result, UseAltAfter
  <2> QED BY <2>1, <2>2, CounterSteered, TageSizes
<1>6. /\ num_branches' \in 0..(RESET_USEFUL_INTERVAL - 1)
      /\ phist' \in Word(PHIST_BITS) /\ ghist' \in Word(GHIST_BITS + 1)
  <2>1. num_branches' = (num_branches + 1) % RESET_USEFUL_INTERVAL /\ num_branches \in Nat
    BY <1>1 DEF last_branch_result, TageInv, TageTypeOK
  <2>2. phist' \in Word(PHIST_BITS)
    BY <1>1 DEF last_branch_result, Low, Word
  <2>3. ghist' \subseteq 0..(GHIST_BITS + 1 - 1)
    BY <1>1, TageSizes DEF last_branch_result, Low
  <2> QED BY <2>1, <2>2, <2>3, TageSizes DEF Word
<1>7. TageTypeOK'
  BY <1>2, <1>3, <1>4, <1>5, <1>6 DEF TageInv, TageTypeOK, Tables, Cells
<1> QED BY <1>2, <1>3, <1>7 DEF TageInv, Tables

LEMMA TageSteps == TageInv /\ [TageNext]_tageVars => TageInv'
<1> SUFFICES ASSUME TageInv, [TageNext]_tageVars PROVE TageInv'
  OBVIOUS
<1>1. ASSUME NEW ip \in Ips, NEW taken \in BOOLEAN, PredictBranch(ip, taken)
      PROVE  TageInv'
  BY <1>1, TagePredicts DEF PredictBranch
<1>2. ASSUME NEW ip \in Ips, PredictOther(ip) PROVE TageInv'
  BY <1>2, TagePredicts DEF PredictOther
<1>3. ASSUME NEW skip \in Skips, Resolve(skip) PROVE TageInv'
  BY <1>3, TageResolves
<1>4. CASE UNCHANGED tageVars
  <2>1. TageTypeOK' /\ pending' = pending /\ branch_info' = branch_info /\ tage_table' = tage_table
    BY <1>4 DEF tageVars, TageInv, TageTypeOK
  <2>2. \A ip : Lookup(ip)' = Lookup(ip)
    BY <1>4, LookupKept DEF tageVars
  <2> QED BY <2>1, <2>2 DEF TageInv
<1> QED BY <1>1, <1>2, <1>3, <1>4 DEF TageNext

\* For every geometry, tables, counters and histories stay within their widths.
THEOREM TageTyped == TageSpec => []TageTypeOK
<1>1. TageInv => TageTypeOK
  BY DEF TageInv
<1> QED BY TageStarts, TageSteps, <1>1, PTL DEF TageSpec

\* Only Resolve touches the tables.
LEMMA TableMoves ==
  ASSUME [TageNext]_tageVars, tage_table' # tage_table
  PROVE  \E skip \in Skips : Resolve(skip)
BY DEF TageNext, tageVars, PredictBranch, PredictOther, predict_branch

\* What a step may make of an entry, and which branch it is made for.
LEMMA EntryMoves ==
  ASSUME TageInv, [TageNext]_tageVars, tage_table' # tage_table
  PROVE  \E ip \in Ips, taken \in BOOLEAN, v \in Components :
           /\ pending = <<ip, taken>> /\ branch_info = Lookup(ip)
           /\ \A c \in Components : \A i \in Cells(c) :
                \/ Learnt(c, i, tage_table[c][i], tage_table'[c][i])
                \/ c = v /\ Replaced(ip, taken, c, i, tage_table[c][i], tage_table'[c][i])
<1>1. PICK skip \in Skips : Resolve(skip)
  BY TableMoves
<1>2. PICK ip \in Ips, taken \in BOOLEAN :
           /\ pending = <<ip, taken>> /\ last_branch_result(ip, taken, skip)
           /\ branch_info = Lookup(ip) /\ PlacesOK /\ skip \in Nat
  BY <1>1, AtResolve
<1>3. tage_table' = TableAfter(ip, taken, skip)
  BY <1>2 DEF last_branch_result
<1>4. \E v \in Components : \A c \in Components : \A i \in Cells(c) :
        \/ Learnt(c, i, tage_table[c][i], tage_table'[c][i])
        \/ c = v /\ Replaced(ip, taken, c, i, tage_table[c][i], tage_table'[c][i])
  BY <1>2, <1>3, TageTables, Updating
<1> QED BY <1>2, <1>4

\* The two actions, as the properties state them.
TrainsMatching ==
  \A ci \in Indices :
    LET e == tage_table[ci[1]][ci[2]]
        f == tage_table'[ci[1]][ci[2]]
    IN  (f.pred # e.pred /\ f.tag = e.tag) =>
          /\ pending # <<>>
          /\ ci[2] = indexHash(pending[1], ci[1])
          /\ e.tag = tagHash(pending[1], ci[1])

AllocatesOne ==
  LET new == {ci \in Indices : ~Keeps(ci[1], ci[2])}
  IN  /\ Cardinality(new) <= 1
      /\ \A ci \in new :
           /\ pending # <<>> /\ branch_info.ultimate # pending[2]
           /\ ci[1] > branch_info.provider
           /\ Taken(tage_table'[ci[1]][ci[2]].pred, PRED_MAX) = pending[2]
           /\ tage_table[ci[1]][ci[2]].u = 0
           /\ NewlyAllocated(tage_table'[ci[1]][ci[2]])
           /\ tage_table'[ci[1]][ci[2]].tag \in Word(TAG_WIDTHS[ci[1]])

LEMMA MatchingStep == TageInv /\ [TageNext]_tageVars => [TrainsMatching]_tageVars
<1> SUFFICES ASSUME TageInv, [TageNext]_tageVars, NEW ci \in Indices,
                    tage_table'[ci[1]][ci[2]].pred # tage_table[ci[1]][ci[2]].pred,
                    tage_table'[ci[1]][ci[2]].tag = tage_table[ci[1]][ci[2]].tag
             PROVE  /\ pending # <<>>
                    /\ ci[2] = indexHash(pending[1], ci[1])
                    /\ tage_table[ci[1]][ci[2]].tag = tagHash(pending[1], ci[1])
  BY DEF TrainsMatching
<1>1. PICK ip \in Ips, taken \in BOOLEAN, v \in Components :
           /\ pending = <<ip, taken>> /\ branch_info = Lookup(ip)
           /\ \A c \in Components : \A i \in Cells(c) :
                \/ Learnt(c, i, tage_table[c][i], tage_table'[c][i])
                \/ c = v /\ Replaced(ip, taken, c, i, tage_table[c][i], tage_table'[c][i])
  BY EntryMoves
<1>0. PICK c \in Components : \E i \in Cells(c) : ci = <<c, i>>
  BY DEF Indices, Cells
<1>2. PICK i \in Cells(c) : ci = <<c, i>>
  BY <1>0
<1> DEFINE e == tage_table[c][i]
           f == tage_table'[c][i]
<1>3. f.pred # e.pred /\ f.tag = e.tag
  BY <1>2
<1>4. \/ Learnt(c, i, e, f)
      \/ Replaced(ip, taken, c, i, e, f)
  BY <1>1
<1>5. i = indexHash(ip, c) /\ e.tag = tagHash(ip, c)
  <2>1. CASE Replaced(ip, taken, c, i, e, f)
    BY <1>3, <2>1 DEF Replaced
  <2>2. CASE Learnt(c, i, e, f)
    <3>1. \/ c = branch_info.provider /\ i = branch_info.provider_index
          \/ c = branch_info.alt /\ i = branch_info.alt_index
      BY <1>3, <2>2 DEF Learnt
    <3>2. c # NONE
      BY DEF Components, NONE
    <3>3. c \in Matches(ip) /\ i = indexHash(ip, c)
      BY <1>1, <3>1, <3>2, TageLookup
    <3> QED BY <3>3 DEF Matches, EntryOf
  <2> QED BY <1>4, <2>1, <2>2
<1> QED BY <1>1, <1>2, <1>5

LEMMA AllocationStep == TageInv /\ [TageNext]_tageVars => [AllocatesOne]_tageVars
<1> SUFFICES ASSUME TageInv, [TageNext]_tageVars PROVE AllocatesOne
  OBVIOUS
<1> DEFINE New == {ci \in Indices : ~Keeps(ci[1], ci[2])}
<1>1. CASE tage_table' = tage_table
  <2>1. New = {}
    BY <1>1 DEF Keeps
  <2> QED BY <2>1, FS_EmptySet DEF AllocatesOne
<1>2. CASE tage_table' # tage_table
  <2>1. PICK ip \in Ips, taken \in BOOLEAN, v \in Components :
             /\ pending = <<ip, taken>> /\ branch_info = Lookup(ip)
             /\ \A c \in Components : \A i \in Cells(c) :
                  \/ Learnt(c, i, tage_table[c][i], tage_table'[c][i])
                  \/ c = v /\ Replaced(ip, taken, c, i, tage_table[c][i], tage_table'[c][i])
    BY <1>2, EntryMoves
  <2>2. ASSUME NEW ci \in New
        PROVE  /\ ci = <<v, indexHash(ip, v)>>
               /\ Replaced(ip, taken, ci[1], ci[2], tage_table[ci[1]][ci[2]], tage_table'[ci[1]][ci[2]])
    <3>0. PICK c \in Components : \E i \in Cells(c) : ci = <<c, i>>
      BY DEF Indices, Cells
    <3>1. PICK i \in Cells(c) : ci = <<c, i>>
      BY <3>0
    <3>2. ~Learnt(c, i, tage_table[c][i], tage_table'[c][i])
      BY <3>1 DEF Keeps, Learnt
    <3>3. c = v /\ Replaced(ip, taken, c, i, tage_table[c][i], tage_table'[c][i])
      BY <2>1, <3>2
    <3> QED BY <3>1, <3>3 DEF Replaced
  <2>3. Cardinality(New) <= 1
    <3> DEFINE one == {<<v, indexHash(ip, v)>>}
    <3>1. New \subseteq one
      BY <2>2
    <3>2. IsFiniteSet(one) /\ Cardinality(one) = 1
      BY FS_Singleton
    <3> QED BY <3>1, <3>2, FS_Subset
  <2>4. ASSUME NEW ci \in New
        PROVE  /\ pending # <<>> /\ branch_info.ultimate # pending[2]
               /\ ci[1] > branch_info.provider
               /\ Taken(tage_table'[ci[1]][ci[2]].pred, PRED_MAX) = pending[2]
               /\ tage_table[ci[1]][ci[2]].u = 0
               /\ NewlyAllocated(tage_table'[ci[1]][ci[2]])
               /\ tage_table'[ci[1]][ci[2]].tag \in Word(TAG_WIDTHS[ci[1]])
    <3>1. /\ ci[1] = v
          /\ Replaced(ip, taken, ci[1], ci[2], tage_table[ci[1]][ci[2]], tage_table'[ci[1]][ci[2]])
      BY <2>2
    <3>2. tagHash(ip, v) \in Word(TAG_WIDTHS[v])
      BY Hashes
    <3> QED BY <2>1, <3>1, <3>2 DEF Replaced, NewlyAllocated
  <2> QED BY <2>3, <2>4 DEF AllocatesOne
<1> QED BY <1>1, <1>2

\* The update trains exactly the entries the prediction was made from: whatever
\* the tables, the histories and the widths, a direction counter moves only in
\* an entry that still matches the pending branch, or in a new entry.
THEOREM TrainsWhatPredicted == TageSpec => OnlyMatchingEntriesTrained
BY TageStarts, TageSteps, MatchingStep, PTL DEF TageSpec, OnlyMatchingEntriesTrained, TrainsMatching

\* For every geometry: one entry at most is given away by a step, it is given to
\* a mispredicted branch, in a component with a longer history than the
\* provider's, and it was not useful to the one that loses it.
THEOREM AllocatesWithDiscipline == TageSpec => AllocationDiscipline
BY TageStarts, TageSteps, AllocationStep, PTL
   DEF TageSpec, AllocationDiscipline, AllocatesOne
==============================================================================
