---------------------------- MODULE CacheProofs -----------------------------
(***************************************************************************)
(* A cache answers every read once, gives every MSHR one answer and keeps  *)
(* what was written dirty, for every number of blocks, ways, MSHRs and     *)
(* requests, every size of the queues and any replacement policy; the      *)
(* policies keep what is in use, for all numbers of sets, ways and counts; *)
(* and the prefetchers keep their tables consistent and fetch what is new. *)
(***************************************************************************)
EXTENDS Cache, Replacement, SignaturePath, Prefetchers, CommonFacts, FiniteSetTheorems,
        SequenceTheorems

----------------------------------------------------------------------------
(* Counting the members of a sequence that are in a set *)

Count(s, D) == Cardinality({k \in 1..Len(s) : s[k] \in D})
One(e, D) == IF e \in D THEN 1 ELSE 0

\* Counts are naturals.
LEMMA CountType ==
  ASSUME NEW S, NEW s \in Seq(S), NEW D
  PROVE  /\ Count(s, D) \in Nat
         /\ IsFiniteSet({k \in 1..Len(s) : s[k] \in D})
<1>1. IsFiniteSet(1..Len(s))
  BY FS_Interval, LenProperties
<1> QED BY <1>1, FS_Subset, FS_CardinalityType DEF Count

\* Nothing is counted in an empty sequence.
LEMMA CountEmpty ==
  ASSUME NEW D
  PROVE  Count(<<>>, D) = 0
BY FS_EmptySet DEF Count

\* A member is counted, and two are counted twice.
LEMMA CountMember ==
  ASSUME NEW S, NEW s \in Seq(S), NEW D, NEW k \in 1..Len(s), s[k] \in D
  PROVE  /\ Count(s, D) >= 1
         /\ \A j \in 1..Len(s) : j # k /\ s[j] \in D => Count(s, D) >= 2
<1> DEFINE K == {i \in 1..Len(s) : s[i] \in D}
<1>1. IsFiniteSet(K) /\ Cardinality(K) = Count(s, D) /\ Count(s, D) \in Nat
  BY CountType DEF Count
<1>2. Count(s, D) >= 1
  <2>1. Cardinality(K) # 0
    BY <1>1, FS_EmptySet
  <2> QED BY <2>1, <1>1
<1>3. ASSUME NEW j \in 1..Len(s), j # k, s[j] \in D
      PROVE  Count(s, D) >= 2
  <2>1. Cardinality(K) # 1
    <3>1. \A x : K # {x}
      BY <1>3
    <3> QED BY <1>1, <3>1, FS_Singleton
  <2> QED BY <2>1, <1>1, <1>2
<1> QED BY <1>2, <1>3

\* Nothing counted means no member.
LEMMA CountZero ==
  ASSUME NEW S, NEW s \in Seq(S), NEW D
  PROVE  Count(s, D) = 0 <=> \A k \in 1..Len(s) : s[k] \notin D
<1> DEFINE K == {i \in 1..Len(s) : s[i] \in D}
<1>1. IsFiniteSet(K) /\ Cardinality(K) = Count(s, D)
  BY CountType DEF Count
<1>2. Count(s, D) = 0 <=> K = {}
  BY <1>1, FS_EmptySet
<1> QED BY <1>2

\* Without two of them, the count is at most one.
LEMMA CountAtMostOne ==
  ASSUME NEW S, NEW s \in Seq(S), NEW D,
         \A j, k \in 1..Len(s) : s[j] \in D /\ s[k] \in D => j = k
  PROVE  Count(s, D) <= 1
<1> DEFINE K == {i \in 1..Len(s) : s[i] \in D}
<1>1. IsFiniteSet(K) /\ Cardinality(K) = Count(s, D)
  BY CountType DEF Count
<1>2. CASE K = {}
  BY <1>1, <1>2, FS_EmptySet
<1>3. CASE K # {}
  <2>1. PICK x \in K : TRUE
    BY <1>3
  <2>2. K = {x}
    BY <2>1
  <2>3. Cardinality(K) = 1
    BY <2>2, FS_Singleton
  <2> QED BY <2>3, <1>1
<1> QED BY <1>2, <1>3

\* What is appended is counted on its own.
LEMMA CountAppend ==
  ASSUME NEW S, NEW s \in Seq(S), NEW e \in S, NEW D
  PROVE  Count(Append(s, e), D) = Count(s, D) + One(e, D)
<1> DEFINE K == {i \in 1..Len(s) : s[i] \in D}
           T == Append(s, e)
           L == {i \in 1..Len(T) : T[i] \in D}
<1>1. IsFiniteSet(K) /\ Cardinality(K) = Count(s, D) /\ Cardinality(K) \in Nat
  BY CountType DEF Count
<1>2. Len(T) = Len(s) + 1 /\ T[Len(s) + 1] = e /\ \A i \in 1..Len(s) : T[i] = s[i]
  BY AppendProperties
<1>3. Len(s) \in Nat /\ Len(s) + 1 \notin K
  BY LenProperties
<1>4. CASE e \in D
  <2>1. L = K \cup {Len(s) + 1}
    BY <1>2, <1>3, <1>4
  <2>2. Cardinality(L) = Cardinality(K) + 1
    BY <2>1, <1>1, <1>3, FS_AddElement
  <2> QED BY <2>2, <1>1, <1>4 DEF Count, One
<1>5. CASE e \notin D
  <2>1. L = K
    BY <1>2, <1>3, <1>5
  <2> QED BY <2>1, <1>1, <1>5, SMTT(60) DEF Count, One
<1> QED BY <1>4, <1>5

\* Replacing a member recounts it alone.
LEMMA CountExcept ==
  ASSUME NEW S, NEW s \in Seq(S), NEW k \in 1..Len(s), NEW e \in S, NEW D
  PROVE  Count([s EXCEPT ![k] = e], D) = Count(s, D) - One(s[k], D) + One(e, D)
<1> DEFINE K == {i \in 1..Len(s) : s[i] \in D}
           T == [s EXCEPT ![k] = e]
           L == {i \in 1..Len(T) : T[i] \in D}
<1>1. IsFiniteSet(K) /\ Cardinality(K) = Count(s, D) /\ Cardinality(K) \in Nat
  BY CountType DEF Count
<1>2. /\ Len(T) = Len(s) /\ T[k] = e
      /\ \A i \in 1..Len(s) : i # k => T[i] = s[i]
  <2>1. T \in Seq(S) /\ Len(T) = Len(s)
    BY ExceptSeq, LenProperties
  <2> QED BY <2>1, LenProperties
<1>3. L \ {k} = K \ {k}
  BY <1>2
<1>4. /\ Cardinality(K \ {k}) = Cardinality(K) - One(s[k], D)
      /\ IsFiniteSet(K \ {k}) /\ Cardinality(K \ {k}) \in Nat
  <2>1. /\ IsFiniteSet(K \ {k})
        /\ Cardinality(K \ {k}) = IF k \in K THEN Cardinality(K) - 1 ELSE Cardinality(K)
    <3> HIDE DEF K
    <3> QED BY <1>1, FS_RemoveElement
  <2>2. k \in K <=> s[k] \in D
    OBVIOUS
  <2>3. Cardinality(K \ {k}) \in Nat
    BY <2>1, FS_CardinalityType
  <2> HIDE DEF K
  <2> QED BY <2>1, <2>2, <2>3, <1>1 DEF One
<1>5. L = (K \ {k}) \cup (IF e \in D THEN {k} ELSE {})
  BY <1>2, <1>3
<1>6. Cardinality(L) = Cardinality(K \ {k}) + One(e, D)
  <2> DEFINE M == K \ {k}
  <2>1. CASE e \in D
    <3>1. L = M \cup {k} /\ k \notin M
      BY <2>1, <1>5
    <3>2. IsFiniteSet(M) /\ Cardinality(M) \in Nat
      BY <1>4
    <3> HIDE DEF L, M
    <3>3. Cardinality(M \cup {k}) = Cardinality(M) + 1
      BY <3>1, <3>2, FS_AddElement
    <3>4. Cardinality(L) = Cardinality(M) + One(e, D)
      BY <3>1, <3>3, <2>1 DEF One
    <3> QED BY <3>4 DEF M
  <2>2. CASE e \notin D
    <3>1. L = M
      BY <2>2, <1>5
    <3>2. Cardinality(M) \in Nat
      BY <1>4
    <3> HIDE DEF L, M
    <3>3. Cardinality(L) = Cardinality(M) + One(e, D)
      BY <3>1, <3>2, <2>2 DEF One
    <3> QED BY <3>3 DEF M
  <2> QED BY <2>1, <2>2
<1>7. Count(T, D) = Cardinality(L)
  BY DEF Count
<1> HIDE DEF K, L, T
<1>8. Count(T, D) = Count(s, D) - One(s[k], D) + One(e, D)
  BY <1>1, <1>4, <1>6, <1>7
<1> QED BY <1>8 DEF T

\* What is removed is no longer counted, and all else is.
LEMMA CountRemoveAt ==
  ASSUME NEW S, NEW s \in Seq(S), NEW k \in 1..Len(s), NEW D
  PROVE  Count(RemoveAt(s, k), D) = Count(s, D) - One(s[k], D)
<1> DEFINE K == {i \in 1..Len(s) : s[i] \in D}
           M == K \ {k}
           T == RemoveAt(s, k)
           L == {i \in 1..Len(T) : T[i] \in D}
           f == [i \in M |-> IF i < k THEN i ELSE i - 1]
<1>1. IsFiniteSet(K) /\ Cardinality(K) = Count(s, D) /\ Cardinality(K) \in Nat
  BY CountType DEF Count
<1>2. Len(T) = Len(s) - 1 /\ Len(s) \in Nat
  BY RemoveAtProperties, LenProperties
<1>3. \A i \in 1..(Len(s) - 1) : T[i] = IF i < k THEN s[i] ELSE s[i + 1]
  BY RemoveAtProperties
<1>4. /\ IsFiniteSet(M)
      /\ Cardinality(M) = IF k \in K THEN Cardinality(K) - 1 ELSE Cardinality(K)
  <2> HIDE DEF K
  <2> QED BY <1>1, FS_RemoveElement
<1>5. ExistsBijection(M, L)
  <2> HIDE DEF T
  <2>1. \A i \in M : f[i] \in L
    <3> TAKE i \in M
    <3>1. CASE i < k
      BY <3>1, <1>2, <1>3
    <3>2. CASE ~(i < k)
      <4>1. i - 1 \in 1..(Len(s) - 1) /\ ~(i - 1 < k) /\ (i - 1) + 1 = i
        BY <3>2, <1>2
      <4>2. T[i - 1] = s[i]
        BY <4>1, <1>3
      <4> QED BY <4>1, <4>2, <3>2, <1>2
    <3> QED BY <3>1, <3>2
  <2>2. \A i, j \in M : f[i] = f[j] => i = j
    BY <1>2
  <2>3. ASSUME NEW l \in L
        PROVE  \E i \in M : f[i] = l
    <3>1. CASE l < k
      <4>1. l \in M
        BY <3>1, <1>2, <1>3
      <4> QED BY <4>1, <3>1
    <3>2. CASE ~(l < k)
      <4>1. l + 1 \in 1..Len(s) /\ T[l] = s[l + 1] /\ l + 1 # k /\ ~(l + 1 < k)
        BY <3>2, <1>2, <1>3
      <4>2. l + 1 \in M /\ (l + 1) - 1 = l
        BY <4>1
      <4> QED BY <4>1, <4>2
    <3> QED BY <3>1, <3>2
  <2> HIDE DEF M, L
  <2>4. f \in Bijection(M, L)
    BY <2>1, <2>2, <2>3 DEF Bijection, Injection, Surjection, IsInjective
  <2> QED BY <2>4 DEF ExistsBijection
<1>6. Cardinality(L) = Cardinality(M)
  <2> HIDE DEF M, L
  <2> QED BY <1>4, <1>5, FS_Bijection
<1>7. k \in K <=> s[k] \in D
  OBVIOUS
<1>8. Count(T, D) = Cardinality(L)
  BY DEF Count
<1> HIDE DEF K, M, L, T
<1>9. Count(T, D) = Count(s, D) - One(s[k], D)
  BY <1>1, <1>4, <1>6, <1>7, <1>8 DEF One
<1> QED BY <1>9 DEF T

\* The same of the head of a sequence.
LEMMA CountTail ==
  ASSUME NEW S, NEW s \in Seq(S), s # <<>>, NEW D
  PROVE  Count(Tail(s), D) = Count(s, D) - One(Head(s), D)
<1>1. Len(s) \in Nat /\ Len(s) # 0 /\ 1 \in 1..Len(s)
  BY LenProperties, EmptySeq, SeqEqual
<1>2. RemoveAt(s, 1) \in Seq(S) /\ Len(RemoveAt(s, 1)) = Len(s) - 1
      /\ \A i \in 1..(Len(s) - 1) : RemoveAt(s, 1)[i] = s[i + 1]
  <2>1. \A i \in 1..(Len(s) - 1) : ~(i < 1)
    BY <1>1
  <2> QED BY <1>1, <2>1, RemoveAtProperties
<1>3. Tail(s) \in Seq(S) /\ Len(Tail(s)) = Len(s) - 1
      /\ \A i \in 1..Len(Tail(s)) : Tail(s)[i] = s[i + 1]
  BY HeadTailProperties, <1>1
<1>4. Tail(s) = RemoveAt(s, 1)
  BY <1>2, <1>3, SeqEqual
<1>5. Head(s) = s[1]
  BY <1>1, HeadTailProperties
<1> QED BY <1>1, <1>4, <1>5, CountRemoveAt

----------------------------------------------------------------------------
(* The inductive invariant *)

Places == Blocks \X (Offsets \cup {0})
RequestsOf(types, responses, waiting) ==
  [address : Places, type : types, forward_checked : BOOLEAN,
   response_requested : responses, instr_depend_on_me : waiting]

\* Instructions wait for reads only, and a read always wants its answer.
Reads == RequestsOf({"LOAD"}, {TRUE}, SUBSET Nat)
Writes == RequestsOf({"WRITE"}, {FALSE}, {{}})
Prefetches == RequestsOf({"PREFETCH"}, BOOLEAN, {{}})
ReadsBelow == RequestsOf({"LOAD", "RFO", "PREFETCH"}, BOOLEAN, SUBSET Nat)
Responses == [block : Blocks, instr_depend_on_me : SUBSET Nat]

UpperChannels ==
  [RQ : Seq(Reads), WQ : Seq(Writes), PQ : Seq(Prefetches), returned : Seq(Responses)]
LowerChannels ==
  [RQ : Seq(ReadsBelow), WQ : Seq(Writes), PQ : Seq(ReadsBelow), returned : Seq(Responses)]

MissTypes == {"LOAD", "WRITE", "PREFETCH"}
TagEntries ==
  {e \in [block : Blocks, type : MissTypes, skips_fill : BOOLEAN, to_return : BOOLEAN,
          instr_depend_on_me : SUBSET Nat] :
     e.instr_depend_on_me # {} => e.to_return /\ ~e.skips_fill /\ e.type # "WRITE"}
WriteEntries == {e \in TagEntries : e.type = "WRITE"}
MshrEntries ==
  {e \in [block : Blocks, type : MissTypes, to_return : BOOLEAN,
          instr_depend_on_me : SUBSET Nat, returned : BOOLEAN] :
     e.instr_depend_on_me # {} => e.to_return}

TypeOK ==
  /\ match_offset_bits \in BOOLEAN
  /\ upper \in UpperChannels /\ lower \in LowerChannels
  /\ internal_PQ \in Seq([block : Blocks, skip_fill : BOOLEAN])
  /\ inflight_tag_check \in Seq(TagEntries)
  /\ MSHR \in Seq(MshrEntries)
  /\ inflight_writes \in Seq(WriteEntries)
  /\ block \in [Ways -> {Invalid} \cup [block : Blocks, dirty : BOOLEAN]]
  /\ serving \in SUBSET Responses /\ IsFiniteSet(serving)
  /\ asked \in Nat /\ reads \in Nat /\ prefetches \in Nat
  /\ unsaved \in SUBSET Blocks

\* ReturnedFirst, of any MSHRs.
InOrder(mshr) ==
  /\ \A m, n \in 1..Len(mshr) : m < n =>
       /\ mshr[n].returned => mshr[m].returned
       /\ mshr[m].block # mshr[n].block
  /\ Len(mshr) <= MSHR_SIZE

\* What is counted: the requests and answers of a block, the MSHRs that wait
\* for them, and whatever read i waits in.
Wanting(b) == {r \in ReadsBelow : Block(r.address) = b /\ r.response_requested}
AnswersOf(b) == {r \in Responses : r.block = b}
WaitingFor(b) == {e \in MshrEntries : e.block = b /\ ~e.returned}
Holding(S, i) == {e \in S : i \in e.instr_depend_on_me}

\* Expected(b), and what it should be.
Due(low, serve, b) ==
  Count(low.RQ, Wanting(b)) + Count(low.PQ, Wanting(b))
    + Cardinality(serve \cap AnswersOf(b)) + Count(low.returned, AnswersOf(b))
AnswersDue(low, serve, mshr) ==
  \A b \in Blocks : Due(low, serve, b) = Count(mshr, WaitingFor(b))

\* The number of places where read i waits.
PlacesOf(up, tags, mshr, i) ==
  Count(up.RQ, Holding(Reads, i)) + Count(tags, Holding(TagEntries, i))
    + Count(mshr, Holding(MshrEntries, i)) + Count(up.returned, Holding(Responses, i))
InOnePlace(up, tags, mshr, n) ==
  \A i \in Nat : PlacesOf(up, tags, mshr, i) = (IF i \in 1..n THEN 1 ELSE 0)

\* In L1D nothing is filled but misses, and of a block that is not there.
ValidIn(blk, w, b) == blk[w] # Invalid /\ blk[w].block = b
OneWay(blk, mshr, writes) ==
  /\ writes = <<>>
  /\ \A m \in 1..Len(mshr) : \A w \in Ways : ~ValidIn(blk, w, mshr[m].block)
  /\ \A b \in Blocks : \A v, w \in Ways : ValidIn(blk, v, b) /\ ValidIn(blk, w, b) => v = w

\* Elsewhere no miss is a write, and writes that are not filled are in flight.
WritesKept(blk, mshr, writes, owed) ==
  /\ \A m \in 1..Len(mshr) : mshr[m].type # "WRITE"
  /\ \A b \in owed :
       \/ \E w \in Ways : blk[w].dirty /\ blk[w].block = b
       \/ \E k \in 1..Len(writes) : writes[k].block = b

IInv ==
  /\ TypeOK
  /\ InOrder(MSHR)
  /\ AnswersDue(lower, serving, MSHR)
  /\ InOnePlace(upper, inflight_tag_check, MSHR, reads)
  /\ match_offset_bits => OneWay(block, MSHR, inflight_writes)
  /\ ~match_offset_bits => WritesKept(block, MSHR, inflight_writes, unsaved)

----------------------------------------------------------------------------
(* Operators of the channel and of the cache *)

\* The first of a non-empty set of positions.
LEMMA FirstOf ==
  ASSUME NEW S \in SUBSET Nat, S # {}
  PROVE  First(S) \in S /\ \A j \in S : First(S) <= j
BY LeastExists DEF First

\* The positions a search looks at are naturals.
LEMMA FirstIndex ==
  ASSUME NEW n \in Nat, NEW S \in SUBSET (1..n), S # {}
  PROVE  First(S) \in S /\ First(S) \in 1..n /\ \A j \in S : First(S) <= j
<1>1. S \in SUBSET Nat
  OBVIOUS
<1> QED BY <1>1, FirstOf

\* One turn of a collision check keeps the kind of the requests, and a count of
\* at most one that a merge hands on is not changed.
LEMMA MergeKeeps ==
  ASSUME NEW X, NEW queue \in Seq(X), NEW k \in 1..Len(queue), NEW offsets, NEW D,
         \A r \in X : /\ Checked(r) \in X
                      /\ Checked(r) \in D <=> r \in D,
         \A r, c \in X : /\ Merge(r, c) \in X
                         /\ Block(r.address) = Block(c.address) =>
                              (Merge(r, c) \in D <=> r \in D \/ c \in D),
         Count(queue, D) <= 1
  PROVE  /\ MergeOrStay(queue, k, offsets) \in Seq(X)
         /\ Count(MergeOrStay(queue, k, offsets), D) = Count(queue, D)
<1> DEFINE earlier == {j \in Collisions(queue, queue[k], offsets) : j < k}
           j == First(earlier)
           checked == Checked(queue[k])
           merged == Merge(queue[k], queue[j])
           joined == [queue EXCEPT ![j] = merged]
<1>1. Len(queue) \in Nat /\ \A i \in 1..Len(queue) : queue[i] \in X
  BY LenProperties, ElementOfSeq
<1>2. Count(queue, D) \in Nat
  BY CountType
<1>3. CASE earlier = {}
  <2>1. MergeOrStay(queue, k, offsets) = [queue EXCEPT ![k] = checked]
    BY <1>3 DEF MergeOrStay
  <2>2. checked \in X /\ One(checked, D) = One(queue[k], D)
    BY <1>1 DEF One
  <2>3. Count([queue EXCEPT ![k] = checked], D)
          = Count(queue, D) - One(queue[k], D) + One(checked, D)
    <3> HIDE DEF checked
    <3> QED BY <2>2, CountExcept
  <2>4. One(queue[k], D) \in {0, 1}
    BY DEF One
  <2>5. [queue EXCEPT ![k] = checked] \in Seq(X)
    <3> HIDE DEF checked
    <3> QED BY <2>2, ExceptSeq
  <2> HIDE DEF checked
  <2> QED BY <2>1, <2>2, <2>3, <2>4, <2>5, <1>2
<1>4. CASE earlier # {}
  <2>1. /\ j \in 1..Len(queue) /\ j < k
        /\ Same(queue[j].address, queue[k].address, offsets)
    <3>1. earlier \in SUBSET (1..Len(queue))
      BY DEF Collisions
    <3>2. j \in earlier
      <4> HIDE DEF earlier
      <4> QED BY <3>1, <1>1, <1>4, FirstIndex
    <3> HIDE DEF j
    <3> QED BY <3>2 DEF Collisions
  <2>2. Block(queue[j].address) = Block(queue[k].address)
    <3> HIDE DEF j
    <3> QED BY <2>1 DEF Same
  <2>3. MergeOrStay(queue, k, offsets) = RemoveAt(joined, k)
    BY <1>4 DEF MergeOrStay
  <2> HIDE DEF earlier, j
  <2>4. merged \in X /\ (merged \in D <=> queue[k] \in D \/ queue[j] \in D)
    BY <2>1, <2>2, <1>1
  <2> HIDE DEF merged
  <2>5. /\ joined \in Seq(X) /\ Len(joined) = Len(queue)
        /\ joined[k] = queue[k]
    <3>1. joined \in Seq(X)
      BY <2>1, <2>4, ExceptSeq
    <3> QED BY <3>1, <2>1, <1>1, LenProperties
  <2>6. Count(joined, D) = Count(queue, D) - One(queue[j], D) + One(merged, D)
    BY <2>1, <2>4, CountExcept
  <2> HIDE DEF joined
  <2>7. RemoveAt(joined, k) \in Seq(X)
    BY <2>5, RemoveAtProperties
  <2>8. Count(RemoveAt(joined, k), D) = Count(joined, D) - One(queue[k], D)
    BY <2>5, CountRemoveAt
  <2>9. ~(queue[k] \in D /\ queue[j] \in D)
    <3>1. j # k
      BY <2>1
    <3>2. queue[k] \in D /\ queue[j] \in D => Count(queue, D) >= 2
      BY <3>1, <2>1, CountMember
    <3> QED BY <3>2, <1>2
  <2>10. One(merged, D) = One(queue[j], D) + One(queue[k], D)
    BY <2>4, <2>9 DEF One
  <2>11. One(queue[j], D) \in {0, 1} /\ One(queue[k], D) \in {0, 1}
    BY DEF One
  <2> QED BY <2>3, <2>6, <2>7, <2>8, <2>10, <2>11, <1>2
<1> QED BY <1>3, <1>4

\* The kinds of requests are closed under a turn of the check.
LEMMA RequestsClosed ==
  ASSUME NEW T, NEW R \in SUBSET BOOLEAN, NEW W,
         \A p, q \in R : (p \/ q) \in R,
         \A p, q \in W : p \cup q \in W
  PROVE  LET X == RequestsOf(T, R, W)
         IN  /\ \A r \in X : Checked(r) \in X
             /\ \A r, c \in X : Merge(r, c) \in X
<1> DEFINE X == RequestsOf(T, R, W)
<1>1. ASSUME NEW r \in X
      PROVE  Checked(r) \in X
  BY DEF RequestsOf, Checked
<1>2. ASSUME NEW r \in X, NEW c \in X
      PROVE  Merge(r, c) \in X
  <2> DEFINE p == c.response_requested \/ r.response_requested
             q == c.instr_depend_on_me \cup r.instr_depend_on_me
  <2>1. p \in R /\ q \in W
    BY DEF RequestsOf
  <2>2. Merge(r, c) = [c EXCEPT !.response_requested = p, !.instr_depend_on_me = q]
    BY DEF Merge
  <2> HIDE DEF p, q
  <2>3. [c EXCEPT !.response_requested = p, !.instr_depend_on_me = q] \in X
    BY <2>1 DEF RequestsOf
  <2> QED BY <2>2, <2>3
<1> QED BY <1>1, <1>2

\* So no turn makes a request of another kind.
LEMMA KindsClosed ==
  \A X \in {Reads, Writes, Prefetches, ReadsBelow} :
    /\ \A r \in X : Checked(r) \in X
    /\ \A r, c \in X : Merge(r, c) \in X
<1>1. \A p, q \in {TRUE} : (p \/ q) \in {TRUE}
  OBVIOUS
<1>2. \A p, q \in {FALSE} : (p \/ q) \in {FALSE}
  OBVIOUS
<1>3. \A p, q \in BOOLEAN : (p \/ q) \in BOOLEAN
  OBVIOUS
<1>4. \A p, q \in SUBSET Nat : p \cup q \in SUBSET Nat
  OBVIOUS
<1>5. \A p, q \in {{}} : p \cup q \in {{}}
  OBVIOUS
<1>6. {TRUE} \in SUBSET BOOLEAN /\ {FALSE} \in SUBSET BOOLEAN /\ BOOLEAN \in SUBSET BOOLEAN
  OBVIOUS
<1>7. /\ \A r \in Reads : Checked(r) \in Reads
      /\ \A r, c \in Reads : Merge(r, c) \in Reads
  BY <1>1, <1>4, <1>6, RequestsClosed DEF Reads
<1>8. /\ \A r \in Writes : Checked(r) \in Writes
      /\ \A r, c \in Writes : Merge(r, c) \in Writes
  BY <1>2, <1>5, <1>6, RequestsClosed DEF Writes
<1>9. /\ \A r \in Prefetches : Checked(r) \in Prefetches
      /\ \A r, c \in Prefetches : Merge(r, c) \in Prefetches
  BY <1>3, <1>5, <1>6, RequestsClosed DEF Prefetches
<1>10. /\ \A r \in ReadsBelow : Checked(r) \in ReadsBelow
       /\ \A r, c \in ReadsBelow : Merge(r, c) \in ReadsBelow
  BY <1>3, <1>4, <1>6, RequestsClosed DEF ReadsBelow
<1> QED BY <1>7, <1>8, <1>9, <1>10

\* What a turn of the loop over reads leaves of its queue and of the answers.
NextQueue(wq, queue, offsets) ==
  LET k == First(Unchecked(queue))
  IN  IF Collisions(wq, queue[k], offsets) # {} THEN RemoveAt(queue, k)
      ELSE MergeOrStay(queue, k, FALSE)
NextReturned(wq, queue, returned, offsets) ==
  LET k == First(Unchecked(queue))
  IN  IF Collisions(wq, queue[k], offsets) # {} THEN Answer(returned, queue[k])
      ELSE returned

\* It moves a request to the answers or merges it: what was counted in one of
\* the two is still counted once.
LEMMA TurnKeeps ==
  ASSUME NEW X, NEW queue \in Seq(X), NEW returned \in Seq(Responses),
         NEW wq, NEW offsets, NEW D, NEW E,
         Unchecked(queue) # {},
         \A r \in X : /\ Checked(r) \in X
                      /\ Checked(r) \in D <=> r \in D
                      /\ Response(Block(r.address), r.instr_depend_on_me) \in Responses
                      /\ r.response_requested =>
                           (Response(Block(r.address), r.instr_depend_on_me) \in E <=> r \in D)
                      /\ ~r.response_requested => r \notin D,
         \A r, c \in X : /\ Merge(r, c) \in X
                         /\ Block(r.address) = Block(c.address) =>
                              (Merge(r, c) \in D <=> r \in D \/ c \in D),
         Count(queue, D) <= 1
  PROVE  /\ NextQueue(wq, queue, offsets) \in Seq(X)
         /\ NextReturned(wq, queue, returned, offsets) \in Seq(Responses)
         /\ Count(NextQueue(wq, queue, offsets), D)
              + Count(NextReturned(wq, queue, returned, offsets), E)
            = Count(queue, D) + Count(returned, E)
<1> DEFINE k == First(Unchecked(queue))
           answer == Response(Block(queue[k].address), queue[k].instr_depend_on_me)
<1>1. Len(queue) \in Nat /\ \A i \in 1..Len(queue) : queue[i] \in X
  BY LenProperties, ElementOfSeq
<1>2. k \in 1..Len(queue)
  <2>1. Unchecked(queue) \in SUBSET (1..Len(queue))
    BY DEF Unchecked
  <2> QED BY <2>1, <1>1, FirstIndex
<1>3. queue[k] \in X
  BY <1>1, <1>2
<1>4. Count(queue, D) \in Nat /\ Count(returned, E) \in Nat
  BY CountType
<1>5. CASE Collisions(wq, queue[k], offsets) # {}
  <2>1. /\ NextQueue(wq, queue, offsets) = RemoveAt(queue, k)
        /\ NextReturned(wq, queue, returned, offsets) = Answer(returned, queue[k])
    BY <1>5 DEF NextQueue, NextReturned
  <2> HIDE DEF k
  <2>2. /\ RemoveAt(queue, k) \in Seq(X)
        /\ Count(RemoveAt(queue, k), D) = Count(queue, D) - One(queue[k], D)
    BY <1>2, RemoveAtProperties, CountRemoveAt
  <2>3. CASE queue[k].response_requested
    <3>1. Answer(returned, queue[k]) = Append(returned, answer)
      BY <2>3 DEF Answer
    <3>2. answer \in Responses /\ (answer \in E <=> queue[k] \in D)
      BY <2>3, <1>3
    <3> HIDE DEF answer
    <3>3. /\ Append(returned, answer) \in Seq(Responses)
          /\ Count(Append(returned, answer), E) = Count(returned, E) + One(answer, E)
      BY <3>2, AppendProperties, CountAppend
    <3>4. One(answer, E) = One(queue[k], D) /\ One(queue[k], D) \in {0, 1}
      BY <3>2 DEF One
    <3> QED BY <2>1, <2>2, <3>1, <3>3, <3>4, <1>4
  <2>4. CASE ~queue[k].response_requested
    <3>1. Answer(returned, queue[k]) = returned
      BY <2>4 DEF Answer
    <3>2. One(queue[k], D) = 0
      BY <2>4, <1>3 DEF One
    <3> QED BY <2>1, <2>2, <3>1, <3>2, <1>4
  <2> QED BY <2>3, <2>4
<1>6. CASE Collisions(wq, queue[k], offsets) = {}
  <2> DEFINE no == FALSE
  <2>1. /\ NextQueue(wq, queue, offsets) = MergeOrStay(queue, k, no)
        /\ NextReturned(wq, queue, returned, offsets) = returned
    BY <1>6 DEF NextQueue, NextReturned
  <2> HIDE DEF answer, k, no
  <2>2. \A r \in X : /\ Checked(r) \in X
                    /\ Checked(r) \in D <=> r \in D
    OBVIOUS
  <2>3. /\ MergeOrStay(queue, k, no) \in Seq(X)
        /\ Count(MergeOrStay(queue, k, no), D) = Count(queue, D)
    BY <1>2, <2>2, MergeKeeps
  <2> QED BY <2>1, <2>3, <1>4
<1> QED BY <1>5, <1>6

\* The three kinds of turns of a collision check.
WriteTurn(ch, offsets) ==
  [ch EXCEPT !.WQ = MergeOrStay(ch.WQ, First(Unchecked(ch.WQ)), offsets)]
ReadTurn(ch, queue, offsets) ==
  [ch EXCEPT ![queue] = NextQueue(ch.WQ, ch[queue], offsets),
             !.returned = NextReturned(ch.WQ, ch[queue], ch.returned, offsets)]

\* A check that is not done takes one of the three turns.
LEMMA TurnOfCheck ==
  ASSUME NEW A, NEW B, NEW C, NEW offsets,
         NEW ch \in [RQ : Seq(A), WQ : Seq(B), PQ : Seq(C), returned : Seq(Responses)],
         ~AllChecked(ch)
  PROVE  \/ Unchecked(ch.WQ) # {} /\ check_collision(ch, offsets) = WriteTurn(ch, offsets)
         \/ Unchecked(ch.RQ) # {} /\ check_collision(ch, offsets) = ReadTurn(ch, "RQ", offsets)
         \/ Unchecked(ch.PQ) # {} /\ check_collision(ch, offsets) = ReadTurn(ch, "PQ", offsets)
<1>1. CASE Unchecked(ch.WQ) # {}
  BY <1>1 DEF check_collision, CheckWrite, WriteTurn
<1>2. ASSUME NEW queue \in {"RQ", "PQ"}
      PROVE  CheckRead(ch, queue, offsets) = ReadTurn(ch, queue, offsets)
  <2> DEFINE request == ch[queue][First(Unchecked(ch[queue]))]
  <2>1. CASE Collisions(ch.WQ, request, offsets) # {}
    <3>1. /\ NextQueue(ch.WQ, ch[queue], offsets)
               = RemoveAt(ch[queue], First(Unchecked(ch[queue])))
          /\ NextReturned(ch.WQ, ch[queue], ch.returned, offsets)
               = Answer(ch.returned, request)
      BY <2>1 DEF NextQueue, NextReturned
    <3>2. CheckRead(ch, queue, offsets) =
            [ch EXCEPT ![queue] = RemoveAt(ch[queue], First(Unchecked(ch[queue]))),
                       !.returned = Answer(ch.returned, request)]
      BY <2>1 DEF CheckRead
    <3> QED BY <3>1, <3>2 DEF ReadTurn
  <2>2. CASE Collisions(ch.WQ, request, offsets) = {}
    <3> DEFINE next == MergeOrStay(ch[queue], First(Unchecked(ch[queue])), FALSE)
    <3>1. /\ NextQueue(ch.WQ, ch[queue], offsets) = next
          /\ NextReturned(ch.WQ, ch[queue], ch.returned, offsets) = ch.returned
      BY <2>2 DEF NextQueue, NextReturned
    <3>2. CheckRead(ch, queue, offsets) = [ch EXCEPT ![queue] = next]
      BY <2>2 DEF CheckRead
    <3> HIDE DEF next, request
    <3>3. [ch EXCEPT ![queue] = next] =
            [ch EXCEPT ![queue] = next, !.returned = ch.returned]
      OBVIOUS
    <3> QED BY <3>1, <3>2, <3>3 DEF ReadTurn
  <2> QED BY <2>1, <2>2
<1>3. CASE Unchecked(ch.WQ) = {} /\ Unchecked(ch.RQ) # {}
  <2>1. check_collision(ch, offsets) = CheckRead(ch, "RQ", offsets)
    BY <1>3 DEF check_collision
  <2> QED BY <2>1, <1>2, <1>3
<1>4. CASE Unchecked(ch.WQ) = {} /\ Unchecked(ch.RQ) = {}
  <2>1. check_collision(ch, offsets) = CheckRead(ch, "PQ", offsets)
    BY <1>4 DEF check_collision
  <2>2. Unchecked(ch.PQ) # {}
    BY <1>4 DEF AllChecked
  <2> QED BY <2>1, <2>2, <1>2
<1> QED BY <1>1, <1>3, <1>4

\* A turn leaves requests of the kind it found.
LEMMA TurnKinds ==
  ASSUME NEW X \in {Reads, Writes, Prefetches, ReadsBelow},
         NEW queue \in Seq(X), Unchecked(queue) # {},
         NEW returned \in Seq(Responses), NEW wq, NEW offsets
  PROVE  /\ MergeOrStay(queue, First(Unchecked(queue)), offsets) \in Seq(X)
         /\ NextQueue(wq, queue, offsets) \in Seq(X)
         /\ NextReturned(wq, queue, returned, offsets) \in Seq(Responses)
<1> DEFINE k == First(Unchecked(queue))
           D == {}
<1>1. k \in 1..Len(queue)
  <2>1. Unchecked(queue) \in SUBSET (1..Len(queue)) /\ Len(queue) \in Nat
    BY LenProperties DEF Unchecked
  <2> QED BY <2>1, FirstIndex
<1>2. Count(queue, D) <= 1
  <2>1. Count(queue, D) = 0
    BY CountZero
  <2> QED BY <2>1
<1>3. \A r \in X :
        /\ Checked(r) \in X
        /\ Checked(r) \in D <=> r \in D
        /\ Response(Block(r.address), r.instr_depend_on_me) \in Responses
        /\ r.response_requested =>
             (Response(Block(r.address), r.instr_depend_on_me) \in D <=> r \in D)
        /\ ~r.response_requested => r \notin D
  <2>1. \A r \in X : Checked(r) \in X
    BY KindsClosed
  <2>2. ASSUME NEW r \in X
        PROVE  Response(Block(r.address), r.instr_depend_on_me) \in Responses
    <3>1. r.address \in Places /\ r.instr_depend_on_me \in SUBSET Nat
      <4>1. \A q \in Reads : q.address \in Places /\ q.instr_depend_on_me \in SUBSET Nat
        BY DEF Reads, RequestsOf
      <4>2. \A q \in Writes : q.address \in Places /\ q.instr_depend_on_me \in SUBSET Nat
        BY DEF Writes, RequestsOf
      <4>3. \A q \in Prefetches : q.address \in Places /\ q.instr_depend_on_me \in SUBSET Nat
        BY DEF Prefetches, RequestsOf
      <4>4. \A q \in ReadsBelow : q.address \in Places /\ q.instr_depend_on_me \in SUBSET Nat
        BY DEF ReadsBelow, RequestsOf
      <4> QED BY <4>1, <4>2, <4>3, <4>4
    <3> QED BY <3>1 DEF Response, Block, Places, Responses
  <2>3. \A r \in X :
          r.response_requested =>
             (Response(Block(r.address), r.instr_depend_on_me) \in D <=> r \in D)
    BY DEF Response
  <2> QED BY <2>1, <2>2, <2>3
<1>4. \A r, c \in X :
        /\ Merge(r, c) \in X
        /\ Block(r.address) = Block(c.address) => (Merge(r, c) \in D <=> r \in D \/ c \in D)
  BY KindsClosed
<1> HIDE DEF D
<1>5. /\ NextQueue(wq, queue, offsets) \in Seq(X)
      /\ NextReturned(wq, queue, returned, offsets) \in Seq(Responses)
  BY <1>2, <1>3, <1>4, TurnKeeps
<1> HIDE DEF k
<1>6. MergeOrStay(queue, k, offsets) \in Seq(X)
  BY <1>1, <1>2, <1>3, <1>4, MergeKeeps
<1> QED BY <1>5, <1>6 DEF k

\* Below, a check keeps what is due to each block.
LEMMA LowerCheckKeeps ==
  ASSUME NEW low \in LowerChannels, NEW serve, NEW offsets, ~AllChecked(low),
         \A b \in Blocks : Due(low, serve, b) <= 1,
         \A b \in Blocks : Cardinality(serve \cap AnswersOf(b)) \in Nat
  PROVE  /\ check_collision(low, offsets) \in LowerChannels
         /\ \A b \in Blocks :
              Due(check_collision(low, offsets), serve, b) = Due(low, serve, b)
<1> DEFINE new == check_collision(low, offsets)
<1>1. /\ low.RQ \in Seq(ReadsBelow) /\ low.WQ \in Seq(Writes)
      /\ low.PQ \in Seq(ReadsBelow) /\ low.returned \in Seq(Responses)
  BY DEF LowerChannels
<1>2. ASSUME NEW b \in Blocks
      PROVE  /\ Count(low.RQ, Wanting(b)) \in Nat /\ Count(low.PQ, Wanting(b)) \in Nat
             /\ Count(low.returned, AnswersOf(b)) \in Nat
             /\ Count(low.RQ, Wanting(b)) <= 1 /\ Count(low.PQ, Wanting(b)) <= 1
  <2>1. /\ Count(low.RQ, Wanting(b)) \in Nat /\ Count(low.PQ, Wanting(b)) \in Nat
        /\ Count(low.returned, AnswersOf(b)) \in Nat
    BY <1>1, CountType
  <2> DEFINE p == Count(low.RQ, Wanting(b))
             q == Count(low.PQ, Wanting(b))
             s == Cardinality(serve \cap AnswersOf(b))
             t == Count(low.returned, AnswersOf(b))
  <2>2. p + q + s + t <= 1 /\ s \in Nat
    BY DEF Due
  <2>3. p \in Nat /\ q \in Nat /\ t \in Nat
    BY <2>1
  <2>4. p <= 1 /\ q <= 1
    <3> HIDE DEF p, q, s, t
    <3> QED BY <2>2, <2>3
  <2> QED BY <2>1, <2>4
<1>3. /\ \A r \in ReadsBelow : Checked(r) \in ReadsBelow
      /\ \A r, c \in ReadsBelow : Merge(r, c) \in ReadsBelow
      /\ \A r \in Writes : Checked(r) \in Writes
      /\ \A r, c \in Writes : Merge(r, c) \in Writes
  BY KindsClosed
<1>4. ASSUME NEW b \in Blocks, NEW r \in ReadsBelow
      PROVE  /\ Checked(r) \in Wanting(b) <=> r \in Wanting(b)
             /\ Response(Block(r.address), r.instr_depend_on_me) \in Responses
             /\ r.response_requested =>
                  (Response(Block(r.address), r.instr_depend_on_me) \in AnswersOf(b)
                     <=> r \in Wanting(b))
             /\ ~r.response_requested => r \notin Wanting(b)
  <2>1. /\ Checked(r).address = r.address
        /\ Checked(r).response_requested = r.response_requested
    BY DEF Checked, ReadsBelow, RequestsOf
  <2>2. Response(Block(r.address), r.instr_depend_on_me) \in Responses
    BY DEF Response, Block, ReadsBelow, RequestsOf, Places, Responses
  <2>3. Response(Block(r.address), r.instr_depend_on_me).block = Block(r.address)
    BY DEF Response
  <2> QED BY <1>3, <2>1, <2>2, <2>3 DEF Wanting, AnswersOf
<1>5. ASSUME NEW b \in Blocks, NEW r \in ReadsBelow, NEW c \in ReadsBelow,
             Block(r.address) = Block(c.address)
      PROVE  Merge(r, c) \in Wanting(b) <=> r \in Wanting(b) \/ c \in Wanting(b)
  <2>1. /\ Merge(r, c).address = c.address
        /\ Merge(r, c).response_requested = (c.response_requested \/ r.response_requested)
    BY DEF Merge, ReadsBelow, RequestsOf
  <2> QED BY <1>3, <1>5, <2>1 DEF Wanting
<1>6. ASSUME NEW queue \in Seq(ReadsBelow), Unchecked(queue) # {}, NEW b \in Blocks,
             Count(queue, Wanting(b)) <= 1
      PROVE  Count(NextQueue(low.WQ, queue, offsets), Wanting(b))
               + Count(NextReturned(low.WQ, queue, low.returned, offsets), AnswersOf(b))
             = Count(queue, Wanting(b)) + Count(low.returned, AnswersOf(b))
  <2> DEFINE D == Wanting(b)
             E == AnswersOf(b)
  <2>1. \A r \in ReadsBelow :
          /\ Checked(r) \in ReadsBelow
          /\ Checked(r) \in D <=> r \in D
          /\ Response(Block(r.address), r.instr_depend_on_me) \in Responses
          /\ r.response_requested =>
               (Response(Block(r.address), r.instr_depend_on_me) \in E <=> r \in D)
          /\ ~r.response_requested => r \notin D
    BY <1>3, <1>4
  <2>2. \A r, c \in ReadsBelow :
          /\ Merge(r, c) \in ReadsBelow
          /\ Block(r.address) = Block(c.address) => (Merge(r, c) \in D <=> r \in D \/ c \in D)
    BY <1>3, <1>5
  <2>3. Count(queue, D) <= 1
    BY <1>6
  <2> DEFINE wq == low.WQ
             returned == low.returned
  <2>4. queue \in Seq(ReadsBelow) /\ Unchecked(queue) # {} /\ returned \in Seq(Responses)
    BY <1>1, <1>6
  <2> HIDE DEF D, E, wq, returned
  <2>5. Count(NextQueue(wq, queue, offsets), D)
             + Count(NextReturned(wq, queue, returned, offsets), E)
           = Count(queue, D) + Count(returned, E)
    BY ONLY <2>1, <2>2, <2>3, <2>4, TurnKeeps
  <2> QED BY <2>5 DEF D, E, wq, returned

<1>7. ASSUME NEW queue \in Seq(ReadsBelow), Unchecked(queue) # {}
      PROVE  /\ NextQueue(low.WQ, queue, offsets) \in Seq(ReadsBelow)
             /\ NextReturned(low.WQ, queue, low.returned, offsets) \in Seq(Responses)
  BY <1>1, <1>7, TurnKinds
<1>8. ASSUME Unchecked(low.WQ) # {}
      PROVE  MergeOrStay(low.WQ, First(Unchecked(low.WQ)), offsets) \in Seq(Writes)
  BY <1>1, <1>8, TurnKinds
<1>9. CASE Unchecked(low.WQ) # {} /\ new = WriteTurn(low, offsets)
  <2>1. /\ new \in LowerChannels /\ new.RQ = low.RQ /\ new.PQ = low.PQ
        /\ new.returned = low.returned
    BY <1>8, <1>9 DEF LowerChannels, WriteTurn
  <2> QED BY <2>1 DEF Due
<1>10. CASE Unchecked(low.RQ) # {} /\ new = ReadTurn(low, "RQ", offsets)
  <2>1. /\ new \in LowerChannels /\ new.PQ = low.PQ
        /\ new.RQ = NextQueue(low.WQ, low.RQ, offsets)
        /\ new.returned = NextReturned(low.WQ, low.RQ, low.returned, offsets)
    BY <1>1, <1>7, <1>10 DEF LowerChannels, ReadTurn
  <2> HIDE DEF new
  <2>2. ASSUME NEW b \in Blocks
        PROVE  Due(new, serve, b) = Due(low, serve, b)
    <3>1. /\ new.RQ \in Seq(ReadsBelow) /\ new.returned \in Seq(Responses)
      BY <2>1 DEF LowerChannels
    <3>2. Count(new.RQ, Wanting(b)) + Count(new.returned, AnswersOf(b))
            = Count(low.RQ, Wanting(b)) + Count(low.returned, AnswersOf(b))
      BY <1>1, <1>2, <1>6, <1>10, <2>1
    <3>3. Count(new.RQ, Wanting(b)) \in Nat /\ Count(new.returned, AnswersOf(b)) \in Nat
      BY <3>1, CountType
    <3> QED BY <3>2, <3>3, <2>1, <1>2 DEF Due
  <2> QED BY <2>1, <2>2 DEF new
<1>11. CASE Unchecked(low.PQ) # {} /\ new = ReadTurn(low, "PQ", offsets)
  <2>1. /\ new \in LowerChannels /\ new.RQ = low.RQ
        /\ new.PQ = NextQueue(low.WQ, low.PQ, offsets)
        /\ new.returned = NextReturned(low.WQ, low.PQ, low.returned, offsets)
    BY <1>1, <1>7, <1>11 DEF LowerChannels, ReadTurn
  <2> HIDE DEF new
  <2>2. ASSUME NEW b \in Blocks
        PROVE  Due(new, serve, b) = Due(low, serve, b)
    <3>1. /\ new.PQ \in Seq(ReadsBelow) /\ new.returned \in Seq(Responses)
      BY <2>1 DEF LowerChannels
    <3>2. Count(new.PQ, Wanting(b)) + Count(new.returned, AnswersOf(b))
            = Count(low.PQ, Wanting(b)) + Count(low.returned, AnswersOf(b))
      BY <1>1, <1>2, <1>6, <1>11, <2>1
    <3>3. Count(new.PQ, Wanting(b)) \in Nat /\ Count(new.returned, AnswersOf(b)) \in Nat
      BY <3>1, CountType
    <3> QED BY <3>2, <3>3, <2>1, <1>2 DEF Due
  <2> QED BY <2>1, <2>2 DEF new
<1>12. \/ Unchecked(low.WQ) # {} /\ new = WriteTurn(low, offsets)
       \/ Unchecked(low.RQ) # {} /\ new = ReadTurn(low, "RQ", offsets)
       \/ Unchecked(low.PQ) # {} /\ new = ReadTurn(low, "PQ", offsets)
  <2>1. low \in [RQ : Seq(ReadsBelow), WQ : Seq(Writes), PQ : Seq(ReadsBelow),
                 returned : Seq(Responses)]
    BY DEF LowerChannels
  <2> QED BY <2>1, TurnOfCheck
<1> QED BY <1>9, <1>10, <1>11, <1>12

\* Above, a check keeps the number of places where a read waits.
LEMMA UpperCheckKeeps ==
  ASSUME NEW up \in UpperChannels, NEW offsets, ~AllChecked(up), NEW i \in Nat,
         Count(up.RQ, Holding(Reads, i)) <= 1
  PROVE  LET new == check_collision(up, offsets)
         IN  /\ new \in UpperChannels
             /\ Count(new.RQ, Holding(Reads, i)) + Count(new.returned, Holding(Responses, i))
                = Count(up.RQ, Holding(Reads, i)) + Count(up.returned, Holding(Responses, i))
<1> DEFINE new == check_collision(up, offsets)
           D == Holding(Reads, i)
           E == Holding(Responses, i)
<1>1. /\ up.RQ \in Seq(Reads) /\ up.WQ \in Seq(Writes)
      /\ up.PQ \in Seq(Prefetches) /\ up.returned \in Seq(Responses)
  BY DEF UpperChannels
<1>2. CASE Unchecked(up.WQ) # {} /\ new = WriteTurn(up, offsets)
  <2>1. MergeOrStay(up.WQ, First(Unchecked(up.WQ)), offsets) \in Seq(Writes)
    BY <1>1, <1>2, TurnKinds
  <2>2. new \in UpperChannels /\ new.RQ = up.RQ /\ new.returned = up.returned
    BY <2>1, <1>2 DEF UpperChannels, WriteTurn
  <2> QED BY <2>2
<1>3. CASE Unchecked(up.RQ) # {} /\ new = ReadTurn(up, "RQ", offsets)
  <2> DEFINE queue == up.RQ
             returned == up.returned
             wq == up.WQ
  <2>1. queue \in Seq(Reads) /\ Unchecked(queue) # {} /\ returned \in Seq(Responses)
    BY <1>1, <1>3
  <2>2. /\ NextQueue(wq, queue, offsets) \in Seq(Reads)
        /\ NextReturned(wq, queue, returned, offsets) \in Seq(Responses)
    BY <2>1, TurnKinds
  <2>3. /\ new \in UpperChannels
        /\ new.RQ = NextQueue(wq, queue, offsets)
        /\ new.returned = NextReturned(wq, queue, returned, offsets)
    BY <1>1, <1>3, <2>2 DEF UpperChannels, ReadTurn
  <2>4. \A r \in Reads :
          /\ Checked(r) \in Reads
          /\ Checked(r) \in D <=> r \in D
          /\ Response(Block(r.address), r.instr_depend_on_me) \in Responses
          /\ r.response_requested =>
               (Response(Block(r.address), r.instr_depend_on_me) \in E <=> r \in D)
          /\ ~r.response_requested => r \notin D
    <3> TAKE r \in Reads
    <3>1. Checked(r) \in Reads
      BY KindsClosed
    <3>2. Checked(r).instr_depend_on_me = r.instr_depend_on_me
      BY DEF Checked, Reads, RequestsOf
    <3>3. Response(Block(r.address), r.instr_depend_on_me) \in Responses
      BY DEF Response, Block, Places, Responses, Reads, RequestsOf
    <3>4. Response(Block(r.address), r.instr_depend_on_me).instr_depend_on_me
            = r.instr_depend_on_me
      BY DEF Response
    <3>5. r.response_requested
      BY DEF Reads, RequestsOf
    <3> QED BY <3>1, <3>2, <3>3, <3>4, <3>5 DEF Holding
  <2>5. \A r, c \in Reads :
          /\ Merge(r, c) \in Reads
          /\ Block(r.address) = Block(c.address) =>
               (Merge(r, c) \in D <=> r \in D \/ c \in D)
    <3> TAKE r, c \in Reads
    <3>1. Merge(r, c) \in Reads
      BY KindsClosed
    <3>2. Merge(r, c).instr_depend_on_me = c.instr_depend_on_me \cup r.instr_depend_on_me
      BY DEF Merge, Reads, RequestsOf
    <3> QED BY <3>1, <3>2 DEF Holding
  <2>6. Count(queue, D) <= 1
    OBVIOUS
  <2> HIDE DEF D, E, queue, returned, wq
  <2>7. Count(NextQueue(wq, queue, offsets), D)
          + Count(NextReturned(wq, queue, returned, offsets), E)
        = Count(queue, D) + Count(returned, E)
    BY ONLY <2>1, <2>4, <2>5, <2>6, TurnKeeps
  <2> QED BY <2>3, <2>7 DEF D, E, queue, returned
<1>4. CASE Unchecked(up.PQ) # {} /\ new = ReadTurn(up, "PQ", offsets)
  <2> DEFINE queue == up.PQ
             returned == up.returned
             wq == up.WQ
             none == {}
  <2>1. queue \in Seq(Prefetches) /\ Unchecked(queue) # {} /\ returned \in Seq(Responses)
    BY <1>1, <1>4
  <2>2. /\ NextQueue(wq, queue, offsets) \in Seq(Prefetches)
        /\ NextReturned(wq, queue, returned, offsets) \in Seq(Responses)
    BY <2>1, TurnKinds
  <2>3. /\ new \in UpperChannels /\ new.RQ = up.RQ
        /\ new.returned = NextReturned(wq, queue, returned, offsets)
    BY <1>1, <1>4, <2>2 DEF UpperChannels, ReadTurn
  <2>4. \A r \in Prefetches :
          /\ Checked(r) \in Prefetches
          /\ Checked(r) \in none <=> r \in none
          /\ Response(Block(r.address), r.instr_depend_on_me) \in Responses
          /\ r.response_requested =>
               (Response(Block(r.address), r.instr_depend_on_me) \in E <=> r \in none)
          /\ ~r.response_requested => r \notin none
    <3> TAKE r \in Prefetches
    <3>1. Checked(r) \in Prefetches
      BY KindsClosed
    <3>2. Response(Block(r.address), r.instr_depend_on_me) \in Responses
      BY DEF Response, Block, Places, Responses, Prefetches, RequestsOf
    <3>3. Response(Block(r.address), r.instr_depend_on_me).instr_depend_on_me = {}
      BY DEF Response, Prefetches, RequestsOf
    <3> QED BY <3>1, <3>2, <3>3 DEF Holding
  <2>5. \A r, c \in Prefetches :
          /\ Merge(r, c) \in Prefetches
          /\ Block(r.address) = Block(c.address) =>
               (Merge(r, c) \in none <=> r \in none \/ c \in none)
    BY KindsClosed
  <2>6. /\ Count(queue, none) = 0 /\ Count(NextQueue(wq, queue, offsets), none) = 0
    BY <2>1, <2>2, CountZero
  <2>7. Count(queue, none) <= 1
    BY <2>6
  <2>8. Count(NextReturned(wq, queue, returned, offsets), E) \in Nat
        /\ Count(returned, E) \in Nat
    BY <2>1, <2>2, CountType
  <2> HIDE DEF E, queue, returned, wq, none
  <2>9. Count(NextQueue(wq, queue, offsets), none)
          + Count(NextReturned(wq, queue, returned, offsets), E)
        = Count(queue, none) + Count(returned, E)
    BY ONLY <2>1, <2>4, <2>5, <2>7, TurnKeeps
  <2>10. Count(NextReturned(wq, queue, returned, offsets), E) = Count(returned, E)
    BY <2>6, <2>8, <2>9
  <2> QED BY <2>3, <2>10 DEF E, returned
<1>5. \/ Unchecked(up.WQ) # {} /\ new = WriteTurn(up, offsets)
      \/ Unchecked(up.RQ) # {} /\ new = ReadTurn(up, "RQ", offsets)
      \/ Unchecked(up.PQ) # {} /\ new = ReadTurn(up, "PQ", offsets)
  <2>1. up \in [RQ : Seq(Reads), WQ : Seq(Writes), PQ : Seq(Prefetches),
                returned : Seq(Responses)]
    BY DEF UpperChannels
  <2> QED BY <2>1, TurnOfCheck
<1> QED BY <1>2, <1>3, <1>4, <1>5

----------------------------------------------------------------------------
(* What the operations build *)

\* What the level above sends, and what a miss sends down.
LEMMA BuildsRequests ==
  /\ \A a \in Addresses : a \in Places
  /\ \A a \in Places :
       /\ \A i \in Nat : Request(a, "LOAD", TRUE, {i}) \in Reads
       /\ Request(a, "WRITE", FALSE, {}) \in Writes
       /\ \A flag \in BOOLEAN : Request(a, "PREFETCH", flag, {}) \in Prefetches
  /\ \A b \in Blocks, type \in {"LOAD", "RFO", "PREFETCH"}, flag \in BOOLEAN, S \in SUBSET Nat :
       Request(<<b, 0>>, type, flag, S) \in ReadsBelow
<1>1. \A a \in Addresses : a \in Places
  BY DEF Addresses, Places
<1>2. ASSUME NEW a \in Places, NEW i \in Nat
      PROVE  Request(a, "LOAD", TRUE, {i}) \in Reads
  BY DEF Request, Reads, RequestsOf
<1>3. ASSUME NEW a \in Places
      PROVE  Request(a, "WRITE", FALSE, {}) \in Writes
  BY DEF Request, Writes, RequestsOf
<1>4. ASSUME NEW a \in Places, NEW flag \in BOOLEAN
      PROVE  Request(a, "PREFETCH", flag, {}) \in Prefetches
  BY DEF Request, Prefetches, RequestsOf
<1>5. ASSUME NEW b \in Blocks, NEW type \in {"LOAD", "RFO", "PREFETCH"},
             NEW flag \in BOOLEAN, NEW S \in SUBSET Nat
      PROVE  Request(<<b, 0>>, type, flag, S) \in ReadsBelow
  <2>1. <<b, 0>> \in Places
    BY DEF Places
  <2> QED BY <2>1 DEF Request, ReadsBelow, RequestsOf
<1> QED BY <1>1, <1>2, <1>3, <1>4, <1>5

\* The response to an entry, and what it holds.
LEMMA BuildsResponses ==
  ASSUME NEW b \in Blocks, NEW S \in SUBSET Nat
  PROVE  /\ Response(b, S) \in Responses
         /\ Response(b, S).block = b /\ Response(b, S).instr_depend_on_me = S
BY DEF Response, Responses

\* An entry for the tag checks is made of what asked for it.
LEMMA BuildsTagEntries ==
  /\ \A r \in Reads :
       TagEntry(Block(r.address), r.type, FALSE, r.response_requested,
                r.instr_depend_on_me) \in TagEntries
  /\ \A r \in Writes \cup Prefetches :
       /\ TagEntry(Block(r.address), r.type, FALSE, r.response_requested,
                   r.instr_depend_on_me) \in TagEntries
       /\ r.instr_depend_on_me = {}
  /\ \A b \in Blocks, skip \in BOOLEAN :
       TagEntry(b, "PREFETCH", skip, FALSE, {}) \in TagEntries
<1>1. ASSUME NEW r \in Reads
      PROVE  TagEntry(Block(r.address), r.type, FALSE, r.response_requested,
                      r.instr_depend_on_me) \in TagEntries
  BY DEF TagEntry, TagEntries, MissTypes, Block, Reads, RequestsOf, Places
<1>2. ASSUME NEW r \in Writes
      PROVE  /\ TagEntry(Block(r.address), r.type, FALSE, r.response_requested,
                         r.instr_depend_on_me) \in TagEntries
             /\ r.instr_depend_on_me = {}
  BY DEF TagEntry, TagEntries, MissTypes, Block, Writes, RequestsOf, Places
<1>3. ASSUME NEW r \in Prefetches
      PROVE  /\ TagEntry(Block(r.address), r.type, FALSE, r.response_requested,
                         r.instr_depend_on_me) \in TagEntries
             /\ r.instr_depend_on_me = {}
  BY DEF TagEntry, TagEntries, MissTypes, Block, Prefetches, RequestsOf, Places
<1>4. ASSUME NEW b \in Blocks, NEW skip \in BOOLEAN
      PROVE  TagEntry(b, "PREFETCH", skip, FALSE, {}) \in TagEntries
  BY DEF TagEntry, TagEntries, MissTypes
<1> QED BY <1>1, <1>2, <1>3, <1>4

\* A miss makes an MSHR, or is merged into one, which stays for its block.
LEMMA BuildsMshrEntries ==
  /\ \A e \in TagEntries :
       /\ MshrEntry(e) \in MshrEntries
       /\ MshrEntry(e).block = e.block /\ ~MshrEntry(e).returned
       /\ MshrEntry(e).instr_depend_on_me = e.instr_depend_on_me
       /\ MshrEntry(e).type = e.type
  /\ \A p, q \in MshrEntries :
       /\ MergeMSHR(p, q) \in MshrEntries
       /\ MergeMSHR(p, q).block = p.block /\ MergeMSHR(p, q).returned = p.returned
       /\ MergeMSHR(p, q).instr_depend_on_me = p.instr_depend_on_me \cup q.instr_depend_on_me
       /\ MergeMSHR(p, q).type \in {p.type, q.type}
<1>1. ASSUME NEW e \in TagEntries
      PROVE  /\ MshrEntry(e) \in MshrEntries
             /\ MshrEntry(e).block = e.block /\ ~MshrEntry(e).returned
             /\ MshrEntry(e).instr_depend_on_me = e.instr_depend_on_me
             /\ MshrEntry(e).type = e.type
  BY DEF MshrEntry, MshrEntries, TagEntries, MissTypes
<1>2. ASSUME NEW p \in MshrEntries, NEW q \in MshrEntries
      PROVE  /\ MergeMSHR(p, q) \in MshrEntries
             /\ MergeMSHR(p, q).block = p.block /\ MergeMSHR(p, q).returned = p.returned
             /\ MergeMSHR(p, q).instr_depend_on_me
                  = p.instr_depend_on_me \cup q.instr_depend_on_me
             /\ MergeMSHR(p, q).type \in {p.type, q.type}
  <2> DEFINE type == IF q.type = "PREFETCH" THEN p.type ELSE q.type
             flag == p.to_return \/ q.to_return
             held == p.instr_depend_on_me \cup q.instr_depend_on_me
  <2>1. /\ type \in MissTypes /\ type \in {p.type, q.type}
        /\ flag \in BOOLEAN /\ held \in SUBSET Nat /\ (held # {} => flag)
    BY DEF MshrEntries
  <2>2. MergeMSHR(p, q) =
          [p EXCEPT !.type = type, !.to_return = flag, !.instr_depend_on_me = held]
    BY DEF MergeMSHR
  <2> HIDE DEF type, flag, held
  <2> DEFINE new == [p EXCEPT !.type = type, !.to_return = flag, !.instr_depend_on_me = held]
  <2>3. /\ new \in MshrEntries /\ new.block = p.block /\ new.returned = p.returned
        /\ new.instr_depend_on_me = held /\ new.type = type
    BY <2>1 DEF MshrEntries
  <2> HIDE DEF new
  <2> QED BY <2>1, <2>2, <2>3 DEF new, held
<1> QED BY <1>1, <1>2

\* An answer to the level above, where it is due.
LEMMA RespondEffect ==
  ASSUME upper \in UpperChannels, NEW entry, entry.block \in Blocks,
         entry.instr_depend_on_me \in SUBSET Nat, Respond(entry)
  PROVE  /\ upper' \in UpperChannels
         /\ upper'.RQ = upper.RQ
         /\ \A i \in Nat : Count(upper'.returned, Holding(Responses, i))
              = Count(upper.returned, Holding(Responses, i))
                  + (IF entry.to_return /\ i \in entry.instr_depend_on_me THEN 1 ELSE 0)
<1> DEFINE r == Response(entry.block, entry.instr_depend_on_me)
<1>1. r \in Responses /\ r.instr_depend_on_me = entry.instr_depend_on_me
  BY BuildsResponses
<1>2. upper.returned \in Seq(Responses)
  BY DEF UpperChannels
<1>3. \A i \in Nat : Count(upper.returned, Holding(Responses, i)) \in Nat
  BY <1>2, CountType
<1>4. CASE entry.to_return
  <2>1. upper' = [upper EXCEPT !.returned = Append(upper.returned, r)]
    BY <1>4 DEF Respond
  <2> HIDE DEF r
  <2>2. Append(upper.returned, r) \in Seq(Responses)
    BY <1>1, <1>2, AppendProperties
  <2>3. /\ upper' \in UpperChannels /\ upper'.RQ = upper.RQ
        /\ upper'.returned = Append(upper.returned, r)
    BY <2>1, <2>2 DEF UpperChannels
  <2>4. ASSUME NEW i \in Nat
        PROVE  Count(upper'.returned, Holding(Responses, i))
                 = Count(upper.returned, Holding(Responses, i))
                     + (IF i \in entry.instr_depend_on_me THEN 1 ELSE 0)
    <3>1. Count(Append(upper.returned, r), Holding(Responses, i))
            = Count(upper.returned, Holding(Responses, i)) + One(r, Holding(Responses, i))
      BY <1>1, <1>2, CountAppend
    <3>2. r \in Holding(Responses, i) <=> i \in entry.instr_depend_on_me
      BY <1>1 DEF Holding
    <3> QED BY <3>1, <3>2, <2>3 DEF One
  <2> QED BY <2>3, <2>4, <1>4
<1>5. CASE ~entry.to_return
  <2>1. upper' = upper
    BY <1>5 DEF Respond
  <2> QED BY <2>1, <1>3, <1>5
<1> QED BY <1>4, <1>5

\* A fill changes one way, if any, and writes back what was dirty there.
LEMMA FillEffect ==
  ASSUME TypeOK, NEW entry, NEW w, entry.block \in Blocks,
         entry.instr_depend_on_me \in SUBSET Nat, HandleFill(entry, w)
  PROVE  /\ lower' \in LowerChannels
         /\ lower'.RQ = lower.RQ /\ lower'.PQ = lower.PQ
         /\ lower'.returned = lower.returned
         /\ block' \in [Ways -> {Invalid} \cup [block : Blocks, dirty : BOOLEAN]]
         /\ unsaved' \in SUBSET Blocks
<1>1. block' \in [Ways -> {Invalid} \cup [block : Blocks, dirty : BOOLEAN]]
  <2>1. FillBlock(entry) \in [block : Blocks, dirty : BOOLEAN]
    BY DEF FillBlock
  <2> QED BY <2>1 DEF TypeOK, HandleFill
<1>2. CASE WritesBack(w)
  <2>1. block[w].block \in Blocks
    BY <1>2 DEF WritesBack, TypeOK, Invalid
  <2> DEFINE r == Request(<<block[w].block, 0>>, "WRITE", FALSE, {})
  <2>2. r \in Writes
    <3>1. <<block[w].block, 0>> \in Places
      BY <2>1 DEF Places
    <3> QED BY <3>1, BuildsRequests
  <2>3. lower' = [lower EXCEPT !.WQ = Append(lower.WQ, r)]
    BY <1>2 DEF HandleFill
  <2> HIDE DEF r
  <2>4. Append(lower.WQ, r) \in Seq(Writes)
    BY <2>2, AppendProperties DEF TypeOK, LowerChannels
  <2>5. /\ lower' \in LowerChannels
        /\ lower'.RQ = lower.RQ /\ lower'.PQ = lower.PQ
        /\ lower'.returned = lower.returned
    BY <2>3, <2>4 DEF TypeOK, LowerChannels
  <2>6. unsaved' \in SUBSET Blocks
    BY <1>2 DEF HandleFill, TypeOK
  <2> QED BY <1>1, <2>5, <2>6
<1>3. CASE ~WritesBack(w)
  BY <1>1, <1>3 DEF HandleFill, TypeOK
<1> QED BY <1>2, <1>3

\* The head of the MSHRs, and what is left.
LEMMA HeadOfSeq ==
  ASSUME NEW S, NEW s \in Seq(S), s # <<>>
  PROVE  /\ Len(s) \in Nat /\ Len(s) >= 1 /\ Head(s) = s[1] /\ Head(s) \in S
         /\ Tail(s) \in Seq(S) /\ Len(Tail(s)) = Len(s) - 1
         /\ \A k \in 1..(Len(s) - 1) : Tail(s)[k] = s[k + 1]
<1>1. Len(s) \in Nat /\ Len(s) # 0
  BY LenProperties, EmptySeq, SeqEqual
<1>2. Len(s) >= 1 /\ 1 \in 1..Len(s)
  BY <1>1
<1>3. /\ Head(s) = s[1] /\ Head(s) \in S /\ Tail(s) \in Seq(S)
      /\ Len(Tail(s)) = Len(s) - 1 /\ \A k \in 1..Len(Tail(s)) : Tail(s)[k] = s[k + 1]
  BY HeadTailProperties, ElementOfSeq, <1>2
<1> QED BY <1>1, <1>2, <1>3

\* An answer finds the one entry of its block; the entry takes the place of the
\* first that is still waiting.
Finished(e) == [e EXCEPT !.returned = TRUE]
Exchanged(mshr, m, f) == [mshr EXCEPT ![m] = mshr[f]]
Swapped(mshr, m, f) == [Exchanged(mshr, m, f) EXCEPT ![f] = Finished(mshr[m])]

\* finish_packet, with all that it searches for found.
LEMMA FinishEffect ==
  ASSUME TypeOK, InOrder(MSHR), AnswersDue(lower, serving, MSHR), FinishPacket
  PROVE  /\ Head(lower.returned) \in Responses
         /\ \E m, f \in 1..Len(MSHR) :
              /\ f <= m /\ MSHR' = Swapped(MSHR, m, f)
              /\ MSHR[m].block = Head(lower.returned).block
              /\ ~MSHR[m].returned /\ ~MSHR[f].returned
              /\ \A j \in 1..Len(MSHR) : j < f => MSHR[j].returned
<1> DEFINE b == Head(lower.returned).block
           m == First(EntriesFor(b))
           f == First(Unreturned)
<1>1. /\ lower.returned \in Seq(Responses) /\ lower.returned # <<>>
      /\ lower.RQ \in Seq(ReadsBelow) /\ lower.PQ \in Seq(ReadsBelow)
      /\ MSHR \in Seq(MshrEntries) /\ Len(MSHR) \in Nat
      /\ \A k \in 1..Len(MSHR) : MSHR[k] \in MshrEntries
  BY LenProperties, ElementOfSeq DEF FinishPacket, TypeOK, LowerChannels
<1>2. /\ Head(lower.returned) \in Responses /\ b \in Blocks
      /\ Len(lower.returned) >= 1 /\ lower.returned[1] = Head(lower.returned)
      /\ Len(lower.returned) \in Nat
  <2>1. /\ Head(lower.returned) \in Responses
        /\ Len(lower.returned) >= 1 /\ lower.returned[1] = Head(lower.returned)
        /\ Len(lower.returned) \in Nat
    BY <1>1, HeadOfSeq
  <2> QED BY <2>1 DEF Responses
<1>3. /\ m \in 1..Len(MSHR) /\ MSHR[m].block = b
      /\ f \in 1..Len(MSHR) /\ ~MSHR[f].returned
      /\ \A j \in 1..Len(MSHR) : j < f => MSHR[j].returned
  <2>1. /\ EntriesFor(b) \in SUBSET (1..Len(MSHR)) /\ EntriesFor(b) # {}
        /\ Unreturned \in SUBSET (1..Len(MSHR)) /\ Unreturned # {}
    BY DEF FinishPacket, EntriesFor, Unreturned
  <2>2. /\ m \in EntriesFor(b) /\ f \in Unreturned
        /\ \A j \in Unreturned : f <= j
    BY <2>1, <1>1, FirstIndex
  <2> HIDE DEF m, f
  <2>3. \A j \in 1..Len(MSHR) : j < f => MSHR[j].returned
    BY <2>2, <1>1 DEF Unreturned
  <2> QED BY <2>2, <2>3 DEF EntriesFor, Unreturned
<1>4. Count(MSHR, WaitingFor(b)) # 0
  <2>1. lower.returned[1] \in AnswersOf(b)
    BY <1>2 DEF AnswersOf
  <2>2. Count(lower.returned, AnswersOf(b)) >= 1
    BY <1>1, <1>2, <2>1, CountMember
  <2> DEFINE p == Count(lower.RQ, Wanting(b))
             q == Count(lower.PQ, Wanting(b))
             s == Cardinality(serving \cap AnswersOf(b))
             t == Count(lower.returned, AnswersOf(b))
  <2>3. p \in Nat /\ q \in Nat /\ t \in Nat
    BY <1>1, CountType
  <2>4. s \in Nat
    BY FS_Intersection, FS_CardinalityType DEF TypeOK
  <2>5. p + q + s + t = Count(MSHR, WaitingFor(b))
    BY <1>2 DEF AnswersDue, Due
  <2>6. t >= 1
    BY <2>2
  <2> HIDE DEF p, q, s, t
  <2> QED BY <2>3, <2>4, <2>5, <2>6
<1>5. ~MSHR[m].returned /\ f <= m
  <2> HIDE DEF m, f, b
  <2>1. PICK k \in 1..Len(MSHR) : MSHR[k] \in WaitingFor(b)
    BY <1>1, <1>4, CountZero
  <2>2. MSHR[k].block = b /\ ~MSHR[k].returned
    BY <2>1 DEF WaitingFor
  <2>3. k = m
    <3>1. ~(k < m) /\ ~(m < k)
      BY <2>2, <1>3 DEF InOrder
    <3> QED BY <3>1, <1>1, <1>3
  <2>4. f <= m
    BY <2>2, <2>3, <1>1, <1>3
  <2> QED BY <2>2, <2>3, <2>4
<1>6. MSHR' = Swapped(MSHR, m, f)
  <2> DEFINE done == [MSHR[m] EXCEPT !.returned = TRUE]
  <2>1. MSHR' = IF m = f THEN [MSHR EXCEPT ![m] = done]
                ELSE [MSHR EXCEPT ![m] = MSHR[f], ![f] = done]
    BY DEF FinishPacket
  <2>2. Finished(MSHR[m]) = done
    BY DEF Finished
  <2> HIDE DEF m, f, done
  <2>3. CASE m = f
    <3>1. [MSHR EXCEPT ![m] = done] = [[MSHR EXCEPT ![m] = MSHR[m]] EXCEPT ![m] = done]
      BY <1>1, <1>3, LenProperties
    <3> QED BY <2>1, <2>2, <2>3, <3>1 DEF Swapped, Exchanged
  <2>4. CASE m # f
    BY <2>1, <2>2, <2>4 DEF Swapped, Exchanged
  <2> QED BY <2>3, <2>4
<1> HIDE DEF m, f
<1> QED BY <1>2, <1>3, <1>5, <1>6

\* The exchange recounts one entry alone.
LEMMA SwapKeeps ==
  ASSUME NEW mshr \in Seq(MshrEntries), NEW m \in 1..Len(mshr), NEW f \in 1..Len(mshr)
  PROVE  /\ Finished(mshr[m]) \in MshrEntries
         /\ Finished(mshr[m]).block = mshr[m].block /\ Finished(mshr[m]).returned
         /\ Finished(mshr[m]).type = mshr[m].type
         /\ Finished(mshr[m]).instr_depend_on_me = mshr[m].instr_depend_on_me
         /\ Swapped(mshr, m, f) \in Seq(MshrEntries)
         /\ Len(Swapped(mshr, m, f)) = Len(mshr)
         /\ \A k \in 1..Len(mshr) :
              Swapped(mshr, m, f)[k] = IF k = f THEN Finished(mshr[m])
                                       ELSE IF k = m THEN mshr[f] ELSE mshr[k]
         /\ \A D : Count(Swapped(mshr, m, f), D)
              = Count(mshr, D) - One(mshr[m], D) + One(Finished(mshr[m]), D)
<1> DEFINE done == Finished(mshr[m])
           s == Exchanged(mshr, m, f)
           t == [s EXCEPT ![f] = done]
<1>1. /\ Len(mshr) \in Nat /\ mshr[m] \in MshrEntries /\ mshr[f] \in MshrEntries
      /\ DOMAIN mshr = 1..Len(mshr)
  BY LenProperties, ElementOfSeq
<1>2. /\ done \in MshrEntries /\ done.block = mshr[m].block /\ done.returned
      /\ done.type = mshr[m].type
      /\ done.instr_depend_on_me = mshr[m].instr_depend_on_me
  BY <1>1 DEF Finished, MshrEntries
<1> HIDE DEF done
<1>3. /\ s \in Seq(MshrEntries) /\ Len(s) = Len(mshr)
      /\ \A k \in 1..Len(mshr) : s[k] = IF k = m THEN mshr[f] ELSE mshr[k]
  <2>1. s \in Seq(MshrEntries)
    BY <1>1, ExceptSeq DEF Exchanged
  <2>2. Len(s) = Len(mshr)
    BY <1>1, ExceptSeq, LenProperties DEF Exchanged
  <2> QED BY <2>1, <2>2, <1>1 DEF Exchanged
<1>4. ASSUME NEW D
      PROVE  Count(s, D) = Count(mshr, D) - One(mshr[m], D) + One(mshr[f], D)
  <2> DEFINE e == mshr[f]
  <2>1. e \in MshrEntries
    BY <1>1
  <2>2. Exchanged(mshr, m, f) = [mshr EXCEPT ![m] = e]
    BY DEF Exchanged
  <2> HIDE DEF e
  <2>3. Count([mshr EXCEPT ![m] = e], D) = Count(mshr, D) - One(mshr[m], D) + One(e, D)
    BY <2>1, CountExcept
  <2> QED BY <2>2, <2>3 DEF e
<1> HIDE DEF s
<1>5. /\ t \in Seq(MshrEntries) /\ Len(t) = Len(mshr)
      /\ \A k \in 1..Len(mshr) : t[k] = IF k = f THEN done ELSE s[k]
  <2>1. t \in Seq(MshrEntries) /\ f \in 1..Len(s)
    BY <1>2, <1>3, ExceptSeq
  <2>2. Len(t) = Len(mshr)
    BY <2>1, <1>3, LenProperties
  <2> QED BY <2>1, <2>2, <1>3, LenProperties
<1>6. ASSUME NEW D
      PROVE  Count(t, D) = Count(s, D) - One(s[f], D) + One(done, D)
  <2>1. f \in 1..Len(s)
    BY <1>3
  <2> QED BY <2>1, <1>2, <1>3, CountExcept, SMTT(60)
<1>7. s[f] = mshr[f]
  BY <1>3
<1>8. ASSUME NEW D
      PROVE  Count(t, D) = Count(mshr, D) - One(mshr[m], D) + One(done, D)
  <2>1. Count(mshr, D) \in Nat
    BY CountType
  <2>2. One(mshr[m], D) \in Nat /\ One(mshr[f], D) \in Nat /\ One(done, D) \in Nat
    BY DEF One
  <2>3. Count(t, D) = Count(s, D) - One(mshr[f], D) + One(done, D)
    BY <1>6, <1>7
  <2>4. Count(s, D) = Count(mshr, D) - One(mshr[m], D) + One(mshr[f], D)
    BY <1>4
  <2> HIDE DEF t
  <2> QED BY <2>1, <2>2, <2>3, <2>4
<1>9. \A D : Count(t, D) = Count(mshr, D) - One(mshr[m], D) + One(done, D)
  BY <1>8
<1>10. t = Swapped(mshr, m, f)
  BY DEF Swapped, s, done
<1> HIDE DEF t
<1>11. \A k \in 1..Len(mshr) : t[k] = IF k = f THEN done ELSE IF k = m THEN mshr[f] ELSE mshr[k]
  BY <1>3, <1>5
<1> QED BY <1>2, <1>5, <1>9, <1>10, <1>11 DEF done

----------------------------------------------------------------------------
(* Types *)

\* The entry at a place of the tag checks, and what is left without it.
LEMMA TagsAt ==
  ASSUME TypeOK, NEW k \in TagChecks
  PROVE  /\ inflight_tag_check[k] \in TagEntries
         /\ inflight_tag_check[k].block \in Blocks
         /\ inflight_tag_check[k].instr_depend_on_me \in SUBSET Nat
         /\ OtherChecks(k) \in Seq(TagEntries)
         /\ \A D : Count(OtherChecks(k), D)
              = Count(inflight_tag_check, D) - One(inflight_tag_check[k], D)
<1>1. inflight_tag_check \in Seq(TagEntries) /\ k \in 1..Len(inflight_tag_check)
  BY DEF TypeOK, TagChecks
<1>2. inflight_tag_check[k] \in TagEntries
  BY <1>1, ElementOfSeq
<1>3. \A D : Count(OtherChecks(k), D)
              = Count(inflight_tag_check, D) - One(inflight_tag_check[k], D)
  BY <1>1, CountRemoveAt DEF OtherChecks
<1>4. OtherChecks(k) \in Seq(TagEntries)
  BY <1>1, RemoveAtProperties DEF OtherChecks
<1> QED BY <1>2, <1>3, <1>4 DEF TagEntries

\* The entry that a miss is merged into.
LEMMA EntryAt ==
  ASSUME TypeOK, NEW b, EntriesFor(b) # {}
  PROVE  /\ First(EntriesFor(b)) \in 1..Len(MSHR)
         /\ MSHR[First(EntriesFor(b))].block = b
         /\ MSHR[First(EntriesFor(b))] \in MshrEntries
<1>1. Len(MSHR) \in Nat /\ \A m \in 1..Len(MSHR) : MSHR[m] \in MshrEntries
  BY LenProperties, ElementOfSeq DEF TypeOK
<1>2. EntriesFor(b) \in SUBSET (1..Len(MSHR))
  BY DEF EntriesFor
<1>3. First(EntriesFor(b)) \in EntriesFor(b)
  BY <1>1, <1>2, FirstIndex
<1> QED BY <1>1, <1>3 DEF EntriesFor

\* A block is due at most one answer, and a read waits in one place at most.
LEMMA DueOnce ==
  ASSUME TypeOK, InOrder(MSHR), AnswersDue(lower, serving, MSHR)
  PROVE  \A b \in Blocks :
           /\ Due(lower, serving, b) <= 1
           /\ Count(MSHR, WaitingFor(b)) \in Nat
           /\ Count(lower.RQ, Wanting(b)) \in Nat /\ Count(lower.PQ, Wanting(b)) \in Nat
           /\ Count(lower.returned, AnswersOf(b)) \in Nat
           /\ Cardinality(serving \cap AnswersOf(b)) \in Nat
<1> TAKE b \in Blocks
<1>1. /\ MSHR \in Seq(MshrEntries) /\ lower.RQ \in Seq(ReadsBelow)
      /\ lower.PQ \in Seq(ReadsBelow) /\ lower.returned \in Seq(Responses)
  BY DEF TypeOK, LowerChannels
<1>2. \A j, k \in 1..Len(MSHR) :
        MSHR[j] \in WaitingFor(b) /\ MSHR[k] \in WaitingFor(b) => j = k
  <2> TAKE j, k \in 1..Len(MSHR)
  <2> HAVE MSHR[j] \in WaitingFor(b) /\ MSHR[k] \in WaitingFor(b)
  <2>1. MSHR[j].block = b /\ MSHR[k].block = b
    BY DEF WaitingFor
  <2>2. ~(j < k) /\ ~(k < j)
    BY <2>1 DEF InOrder
  <2> QED BY <2>2, <1>1, LenProperties
<1>3. Count(MSHR, WaitingFor(b)) <= 1
  BY <1>1, <1>2, CountAtMostOne
<1>4. Cardinality(serving \cap AnswersOf(b)) \in Nat
  BY FS_Intersection, FS_CardinalityType DEF TypeOK
<1>5. Due(lower, serving, b) <= 1
  BY <1>3 DEF AnswersDue
<1> QED BY <1>1, <1>4, <1>5, CountType

\* A read waits in one place at most, and the counts are naturals.
LEMMA WaitsOnce ==
  ASSUME TypeOK, InOnePlace(upper, inflight_tag_check, MSHR, reads)
  PROVE  \A i \in Nat :
           /\ Count(upper.RQ, Holding(Reads, i)) <= 1
           /\ Count(upper.RQ, Holding(Reads, i)) \in Nat
           /\ Count(inflight_tag_check, Holding(TagEntries, i)) \in Nat
           /\ Count(MSHR, Holding(MshrEntries, i)) \in Nat
           /\ Count(upper.returned, Holding(Responses, i)) \in Nat
           /\ PlacesOf(upper, inflight_tag_check, MSHR, i) = (IF i \in 1..reads THEN 1 ELSE 0)
<1> TAKE i \in Nat
<1> DEFINE p == Count(upper.RQ, Holding(Reads, i))
           q == Count(inflight_tag_check, Holding(TagEntries, i))
           m == Count(MSHR, Holding(MshrEntries, i))
           t == Count(upper.returned, Holding(Responses, i))
           n == IF i \in 1..reads THEN 1 ELSE 0
<1>1. p \in Nat /\ q \in Nat /\ m \in Nat /\ t \in Nat
  BY CountType DEF TypeOK, UpperChannels
<1>2. p + q + m + t = n
  BY DEF InOnePlace, PlacesOf
<1>3. n <= 1 /\ n \in Nat
  OBVIOUS
<1>4. PlacesOf(upper, inflight_tag_check, MSHR, i) = n
  BY DEF InOnePlace
<1>5. p <= 1
  <2> HIDE DEF p, q, m, t, n
  <2> QED BY <1>1, <1>2, <1>3
<1> QED BY <1>1, <1>4, <1>5

\* A miss sends one request down, which wants an answer if there is an MSHR for it.
LEMMA MissEffect ==
  ASSUME TypeOK, NEW k \in TagChecks, HandleMiss(k)
  PROVE  /\ lower' \in LowerChannels /\ lower'.returned = lower.returned
         /\ \A b \in Blocks :
              Count(lower'.RQ, Wanting(b)) + Count(lower'.PQ, Wanting(b))
                = Count(lower.RQ, Wanting(b)) + Count(lower.PQ, Wanting(b))
                    + (IF b = inflight_tag_check[k].block /\ ~inflight_tag_check[k].skips_fill
                       THEN 1 ELSE 0)
<1> DEFINE entry == inflight_tag_check[k]
           type == IF entry.type = "WRITE" THEN "RFO" ELSE entry.type
           r == Request(<<entry.block, 0>>, type, ~entry.skips_fill, entry.instr_depend_on_me)
           queue == LowerQueue(entry)
<1>1. /\ lower \in LowerChannels
      /\ lower.RQ \in Seq(ReadsBelow) /\ lower.PQ \in Seq(ReadsBelow)
  BY DEF TypeOK, LowerChannels
<1>2. /\ entry.block \in Blocks /\ entry.instr_depend_on_me \in SUBSET Nat
      /\ (~entry.skips_fill) \in BOOLEAN /\ type \in {"LOAD", "RFO", "PREFETCH"}
  <2>1. entry \in TagEntries
    BY TagsAt
  <2> HIDE DEF entry
  <2>2. /\ entry.block \in Blocks /\ entry.instr_depend_on_me \in SUBSET Nat
        /\ entry.skips_fill \in BOOLEAN /\ entry.type \in MissTypes
    BY <2>1 DEF TagEntries
  <2> QED BY <2>2 DEF MissTypes
<1>3. /\ r \in ReadsBelow /\ Block(r.address) = entry.block
      /\ r.response_requested = ~entry.skips_fill
  <2>1. /\ Block(r.address) = entry.block
        /\ r.response_requested = ~entry.skips_fill
    BY DEF Request, Block
  <2>2. r \in ReadsBelow
    <3> DEFINE b == entry.block
               wanted == ~entry.skips_fill
               held == entry.instr_depend_on_me
    <3>1. b \in Blocks /\ held \in SUBSET Nat /\ wanted \in BOOLEAN
      BY <1>2
    <3>2. type \in {"LOAD", "RFO", "PREFETCH"}
      BY <1>2
    <3> HIDE DEF b, wanted, held, type
    <3>3. Request(<<b, 0>>, type, wanted, held) \in ReadsBelow
      BY <3>1, <3>2, BuildsRequests
    <3> QED BY <3>3 DEF b, wanted, held
  <2> QED BY <2>1, <2>2
<1>4. /\ lower' = [lower EXCEPT ![queue] = Append(lower[queue], r)]
      /\ queue \in {"RQ", "PQ"}
  BY DEF HandleMiss, LowerQueue
<1>5. ASSUME NEW q \in Seq(ReadsBelow), NEW b \in Blocks
      PROVE  /\ Append(q, r) \in Seq(ReadsBelow)
             /\ Count(q, Wanting(b)) \in Nat
             /\ Count(Append(q, r), Wanting(b)) = Count(q, Wanting(b))
                  + (IF b = entry.block /\ ~entry.skips_fill THEN 1 ELSE 0)
  <2> HIDE DEF r
  <2>1. Count(Append(q, r), Wanting(b)) = Count(q, Wanting(b)) + One(r, Wanting(b))
    BY <1>3, CountAppend
  <2>2. r \in Wanting(b) <=> b = entry.block /\ ~entry.skips_fill
    BY <1>3 DEF Wanting
  <2> QED BY <1>3, <2>1, <2>2, AppendProperties, CountType DEF One
<1>6. entry.block \in Blocks
  BY <1>2
<1> HIDE DEF r, queue, entry
<1>7. CASE queue = "RQ"
  <2>1. /\ lower' \in LowerChannels /\ lower'.returned = lower.returned
        /\ lower'.RQ = Append(lower.RQ, r) /\ lower'.PQ = lower.PQ
    BY <1>1, <1>4, <1>5, <1>6, <1>7 DEF LowerChannels
  <2> QED BY <2>1, <1>1, <1>5 DEF entry
<1>8. CASE queue = "PQ"
  <2>1. /\ lower' \in LowerChannels /\ lower'.returned = lower.returned
        /\ lower'.PQ = Append(lower.PQ, r) /\ lower'.RQ = lower.RQ
    BY <1>1, <1>4, <1>5, <1>6, <1>8 DEF LowerChannels
  <2> QED BY <2>1, <1>1, <1>5 DEF entry
<1> QED BY <1>4, <1>7, <1>8

\* No step leaves the types.
LEMMA TypeStep ==
  ASSUME IInv, Next
  PROVE  TypeOK'
<1> USE DEF IInv
<1>1. ASSUME NEW a \in Addresses, IssueRead(a)
      PROVE  TypeOK'
  <2> DEFINE r == Request(a, "LOAD", TRUE, {reads + 1})
  <2>1. r \in Reads
    <3>1. reads + 1 \in Nat /\ a \in Places
      BY BuildsRequests DEF TypeOK
    <3> QED BY <3>1, BuildsRequests
  <2>2. upper' = [upper EXCEPT !.RQ = Append(upper.RQ, r)]
    BY <1>1 DEF IssueRead
  <2> HIDE DEF r
  <2>3. Append(upper.RQ, r) \in Seq(Reads)
    BY <2>1, AppendProperties DEF TypeOK, UpperChannels
  <2>4. upper' \in UpperChannels
    BY <2>2, <2>3 DEF TypeOK, UpperChannels
  <2> QED BY <2>4, <1>1 DEF IssueRead, TypeOK
<1>2. ASSUME NEW a \in Addresses, IssueWrite(a)
      PROVE  TypeOK'
  <2> DEFINE r == Request(a, "WRITE", FALSE, {})
  <2>1. r \in Writes
    BY BuildsRequests
  <2>2. upper' = [upper EXCEPT !.WQ = Append(upper.WQ, r)]
    BY <1>2 DEF IssueWrite
  <2> HIDE DEF r
  <2>3. Append(upper.WQ, r) \in Seq(Writes)
    BY <2>1, AppendProperties DEF TypeOK, UpperChannels
  <2>4. upper' \in UpperChannels
    BY <2>2, <2>3 DEF TypeOK, UpperChannels
  <2> QED BY <2>4, <1>2 DEF IssueWrite, TypeOK
<1>3. ASSUME NEW a \in Addresses, NEW flag \in BOOLEAN, IssuePrefetch(a, flag)
      PROVE  TypeOK'
  <2> DEFINE r == Request(a, "PREFETCH", flag, {})
  <2>1. r \in Prefetches
    BY BuildsRequests
  <2>2. upper' = [upper EXCEPT !.PQ = Append(upper.PQ, r)]
    BY <1>3 DEF IssuePrefetch
  <2> HIDE DEF r
  <2>3. Append(upper.PQ, r) \in Seq(Prefetches)
    BY <2>1, AppendProperties DEF TypeOK, UpperChannels
  <2>4. upper' \in UpperChannels
    BY <2>2, <2>3 DEF TypeOK, UpperChannels
  <2> QED BY <2>4, <1>3 DEF IssuePrefetch, TypeOK
<1>4. ASSUME NEW a \in Addresses, NEW flag \in BOOLEAN, PrefetchLine(a, flag)
      PROVE  TypeOK'
  <2> DEFINE e == [block |-> Block(a), skip_fill |-> ~flag]
  <2>1. e \in [block : Blocks, skip_fill : BOOLEAN]
    BY BuildsRequests DEF Places, Block
  <2>2. internal_PQ' = Append(internal_PQ, e)
    BY <1>4 DEF PrefetchLine
  <2> HIDE DEF e
  <2>3. internal_PQ' \in Seq([block : Blocks, skip_fill : BOOLEAN])
    BY <2>1, <2>2, AppendProperties DEF TypeOK
  <2> QED BY <2>3, <1>4 DEF PrefetchLine, TypeOK
<1>5. ASSUME CheckCollision
      PROVE  TypeOK'
  <2>1. upper' \in UpperChannels
    <3>1. /\ ~AllChecked(upper) /\ upper \in UpperChannels
          /\ upper' = check_collision(upper, match_offset_bits)
          /\ Count(upper.RQ, Holding(Reads, 0)) <= 1
      BY <1>5, WaitsOnce DEF CheckCollision, TypeOK
    <3> QED BY <3>1, UpperCheckKeeps
  <2> QED BY <2>1, <1>5 DEF CheckCollision, TypeOK, counts
<1>6. ASSUME FinishPacket
      PROVE  TypeOK'
  <2>1. MSHR \in Seq(MshrEntries) /\ lower.returned \in Seq(Responses)
        /\ lower.returned # <<>>
    BY <1>6 DEF TypeOK, LowerChannels, FinishPacket
  <2>2. MSHR' \in Seq(MshrEntries)
    BY <1>6, <2>1, FinishEffect, SwapKeeps
  <2>3. Tail(lower.returned) \in Seq(Responses)
    BY <2>1, HeadOfSeq
  <2>4. lower' \in LowerChannels
    BY <2>3, <1>6 DEF FinishPacket, TypeOK, LowerChannels
  <2> QED BY <2>2, <2>4, <1>6 DEF FinishPacket, TypeOK, counts
<1>7. ASSUME NEW w \in 1..Bypass, FillFromMSHR(w)
      PROVE  TypeOK'
  <2>1. MSHR \in Seq(MshrEntries) /\ MSHR # <<>>
    BY <1>7 DEF TypeOK, FillFromMSHR
  <2>2. Head(MSHR) \in MshrEntries /\ Tail(MSHR) \in Seq(MshrEntries)
    BY <2>1, HeadOfSeq
  <2> DEFINE entry == Head(MSHR)
  <2>3. /\ entry.block \in Blocks /\ entry.instr_depend_on_me \in SUBSET Nat
        /\ HandleFill(entry, w)
    BY <2>2, <1>7 DEF MshrEntries, FillFromMSHR
  <2> HIDE DEF entry
  <2>4. upper' \in UpperChannels
    BY <2>3, RespondEffect DEF HandleFill, TypeOK
  <2>5. /\ lower' \in LowerChannels /\ unsaved' \in SUBSET Blocks
        /\ block' \in [Ways -> {Invalid} \cup [block : Blocks, dirty : BOOLEAN]]
    BY <2>3, FillEffect
  <2> QED BY <2>2, <2>4, <2>5, <1>7 DEF FillFromMSHR, TypeOK, counts
<1>8. ASSUME NEW w \in 1..Bypass, FillFromWrites(w)
      PROVE  TypeOK'
  <2>1. inflight_writes \in Seq(WriteEntries) /\ inflight_writes # <<>>
    BY <1>8 DEF TypeOK, FillFromWrites
  <2>2. Head(inflight_writes) \in WriteEntries /\ Tail(inflight_writes) \in Seq(WriteEntries)
    BY <2>1, HeadOfSeq
  <2> DEFINE entry == Head(inflight_writes)
  <2>3. /\ entry.block \in Blocks /\ entry.instr_depend_on_me \in SUBSET Nat
        /\ HandleFill(entry, w)
    BY <2>2, <1>8 DEF WriteEntries, TagEntries, FillFromWrites
  <2> HIDE DEF entry
  <2>4. upper' \in UpperChannels
    BY <2>3, RespondEffect DEF HandleFill, TypeOK
  <2>5. /\ lower' \in LowerChannels /\ unsaved' \in SUBSET Blocks
        /\ block' \in [Ways -> {Invalid} \cup [block : Blocks, dirty : BOOLEAN]]
    BY <2>3, FillEffect
  <2> QED BY <2>2, <2>4, <2>5, <1>8 DEF FillFromWrites, TypeOK, counts

<1>9. ASSUME NEW queue \in {"WQ", "RQ", "PQ"}, InitiateTagCheck(queue)
      PROVE  TypeOK'
  <2> DEFINE r == Head(upper[queue])
             e == TagEntry(Block(r.address), r.type, FALSE, r.response_requested,
                           r.instr_depend_on_me)
  <2>1. /\ upper' = [upper EXCEPT ![queue] = Tail(upper[queue])]
        /\ inflight_tag_check' = Append(inflight_tag_check, e)
        /\ upper[queue] # <<>>
    BY <1>9 DEF InitiateTagCheck
  <2>2. e \in TagEntries /\ upper' \in UpperChannels
    <3>1. CASE queue = "RQ"
      <4>1. upper.RQ \in Seq(Reads) /\ upper.RQ # <<>>
        BY <2>1, <3>1 DEF TypeOK, UpperChannels
      <4>2. Head(upper.RQ) \in Reads /\ Tail(upper.RQ) \in Seq(Reads)
        BY <4>1, HeadOfSeq
      <4>3. upper' \in UpperChannels
        BY <4>2, <2>1, <3>1 DEF TypeOK, UpperChannels
      <4>4. e \in TagEntries
        BY <4>2, <3>1, BuildsTagEntries
      <4> QED BY <4>3, <4>4
    <3>2. CASE queue = "WQ"
      <4>1. upper.WQ \in Seq(Writes) /\ upper.WQ # <<>>
        BY <2>1, <3>2 DEF TypeOK, UpperChannels
      <4>2. Head(upper.WQ) \in Writes /\ Tail(upper.WQ) \in Seq(Writes)
        BY <4>1, HeadOfSeq
      <4>3. upper' \in UpperChannels
        BY <4>2, <2>1, <3>2 DEF TypeOK, UpperChannels
      <4>4. e \in TagEntries
        BY <4>2, <3>2, BuildsTagEntries
      <4> QED BY <4>3, <4>4
    <3>3. CASE queue = "PQ"
      <4>1. upper.PQ \in Seq(Prefetches) /\ upper.PQ # <<>>
        BY <2>1, <3>3 DEF TypeOK, UpperChannels
      <4>2. Head(upper.PQ) \in Prefetches /\ Tail(upper.PQ) \in Seq(Prefetches)
        BY <4>1, HeadOfSeq
      <4>3. upper' \in UpperChannels
        BY <4>2, <2>1, <3>3 DEF TypeOK, UpperChannels
      <4>4. e \in TagEntries
        BY <4>2, <3>3, BuildsTagEntries
      <4> QED BY <4>3, <4>4
    <3> QED BY <3>1, <3>2, <3>3
  <2> HIDE DEF e, r
  <2>3. inflight_tag_check' \in Seq(TagEntries)
    BY <2>1, <2>2, AppendProperties DEF TypeOK
  <2> QED BY <2>2, <2>3, <1>9 DEF InitiateTagCheck, TypeOK, counts
<1>10. ASSUME InitiatePrefetch
       PROVE  TypeOK'
  <2> DEFINE PrefetchSet == [block : Blocks, skip_fill : BOOLEAN]
  <2>1. internal_PQ \in Seq(PrefetchSet) /\ internal_PQ # <<>>
    BY <1>10 DEF InitiatePrefetch, TypeOK
  <2>2. Head(internal_PQ) \in PrefetchSet /\ Tail(internal_PQ) \in Seq(PrefetchSet)
    BY <2>1, HeadOfSeq
  <2> DEFINE e == TagEntry(Head(internal_PQ).block, "PREFETCH", Head(internal_PQ).skip_fill,
                           FALSE, {})
  <2>3. e \in TagEntries
    BY <2>2, BuildsTagEntries
  <2>4. inflight_tag_check' = Append(inflight_tag_check, e)
    BY <1>10 DEF InitiatePrefetch
  <2> HIDE DEF e
  <2>5. inflight_tag_check' \in Seq(TagEntries)
    BY <2>3, <2>4, AppendProperties DEF TypeOK
  <2> QED BY <2>2, <2>5, <1>10 DEF InitiatePrefetch, TypeOK, counts
<1>11. ASSUME NEW k \in TagChecks, TryHit(k)
       PROVE  TypeOK'
  <2> DEFINE entry == inflight_tag_check[k]
             w == First(WaysOf(entry.block))
  <2>1. /\ entry \in TagEntries /\ entry.block \in Blocks
        /\ entry.instr_depend_on_me \in SUBSET Nat
        /\ inflight_tag_check' \in Seq(TagEntries)
    BY <1>11, TagsAt DEF TryHit
  <2>2. Respond(entry) /\ Wrote(entry)
    BY <1>11 DEF TryHit
  <2>3. block' = [block EXCEPT ![w].dirty = @ \/ entry.type = "WRITE"]
    BY <1>11 DEF TryHit
  <2>4. w \in Ways /\ block[w] # Invalid
    <3>1. WaysOf(entry.block) \in SUBSET (1..NUM_WAY) /\ WaysOf(entry.block) # {}
      BY <1>11 DEF TryHit, IsHit, WaysOf, Ways
    <3>2. w \in WaysOf(entry.block)
      BY <3>1, CacheAssumption, FirstIndex
    <3> QED BY <3>2 DEF WaysOf
  <2> HIDE DEF entry, w
  <2>5. upper' \in UpperChannels
    BY <2>1, <2>2, RespondEffect DEF TypeOK
  <2>6. unsaved' \in SUBSET Blocks
    BY <2>1, <2>2 DEF Wrote, TypeOK
  <2>7. block' \in [Ways -> {Invalid} \cup [block : Blocks, dirty : BOOLEAN]]
    <3>1. block[w] \in [block : Blocks, dirty : BOOLEAN]
      BY <2>4 DEF TypeOK
    <3> DEFINE flag == block[w].dirty \/ entry.type = "WRITE"
               line == [block[w] EXCEPT !.dirty = flag]
    <3>2. block' = [block EXCEPT ![w] = line]
      BY <2>3
    <3>3. flag \in BOOLEAN
      OBVIOUS
    <3>4. line \in [block : Blocks, dirty : BOOLEAN]
      <4> HIDE DEF flag
      <4> QED BY <3>1, <3>3
    <3> HIDE DEF line
    <3> QED BY <3>2, <3>4, <2>4 DEF TypeOK
  <2> QED BY <2>1, <2>5, <2>6, <2>7, <1>11 DEF TryHit, TypeOK, counts
<1>12. ASSUME NEW k \in TagChecks, HandleWrite(k)
       PROVE  TypeOK'
  <2> DEFINE entry == inflight_tag_check[k]
  <2>1. /\ entry \in TagEntries /\ entry.block \in Blocks
        /\ inflight_tag_check' \in Seq(TagEntries)
    BY <1>12, TagsAt DEF HandleWrite
  <2>2. /\ entry.type = "WRITE" /\ Wrote(entry)
        /\ inflight_writes' = Append(inflight_writes, entry)
    BY <1>12 DEF HandleWrite, IsWriteback
  <2>3. entry \in WriteEntries
    BY <2>1, <2>2 DEF WriteEntries
  <2> HIDE DEF entry
  <2>4. inflight_writes' \in Seq(WriteEntries)
    BY <2>2, <2>3, AppendProperties DEF TypeOK
  <2>5. unsaved' \in SUBSET Blocks
    BY <2>1, <2>2 DEF Wrote, TypeOK
  <2> QED BY <2>1, <2>4, <2>5, <1>12 DEF HandleWrite, TypeOK, counts
<1>13. ASSUME NEW k \in TagChecks, MergeMiss(k)
       PROVE  TypeOK'
  <2> DEFINE entry == inflight_tag_check[k]
             m == First(EntriesFor(entry.block))
             merged == MergeMSHR(MSHR[m], MshrEntry(entry))
  <2>1. /\ entry \in TagEntries /\ entry.block \in Blocks
        /\ inflight_tag_check' \in Seq(TagEntries)
    BY <1>13, TagsAt DEF MergeMiss
  <2>2. Wrote(entry) /\ MSHR' = [MSHR EXCEPT ![m] = merged] /\ EntriesFor(entry.block) # {}
    BY <1>13 DEF MergeMiss, NeedsMSHR
  <2>3. m \in 1..Len(MSHR) /\ MSHR[m] \in MshrEntries
    BY <2>2, EntryAt
  <2>4. merged \in MshrEntries
    BY <2>1, <2>3, BuildsMshrEntries
  <2> HIDE DEF entry, m, merged
  <2>5. MSHR' \in Seq(MshrEntries)
    BY <2>2, <2>3, <2>4, ExceptSeq DEF TypeOK
  <2>6. unsaved' \in SUBSET Blocks
    BY <2>1, <2>2 DEF Wrote, TypeOK
  <2> QED BY <2>1, <2>5, <2>6, <1>13 DEF MergeMiss, TypeOK, counts
<1>14. ASSUME NEW k \in TagChecks, HandleMiss(k)
       PROVE  TypeOK'
  <2> DEFINE entry == inflight_tag_check[k]
             added == MshrEntry(entry)
  <2>1. /\ entry \in TagEntries /\ entry.block \in Blocks
        /\ inflight_tag_check' \in Seq(TagEntries)
    BY <1>14, TagsAt DEF HandleMiss
  <2>2. Wrote(entry) /\ MSHR' = IF Allocates(entry) THEN Append(MSHR, added) ELSE MSHR
    BY <1>14 DEF HandleMiss
  <2>3. added \in MshrEntries
    BY <2>1, BuildsMshrEntries
  <2> HIDE DEF entry, added
  <2>4. MSHR' \in Seq(MshrEntries)
    BY <2>2, <2>3, AppendProperties DEF TypeOK
  <2>5. unsaved' \in SUBSET Blocks
    BY <2>1, <2>2 DEF Wrote, TypeOK
  <2>6. lower' \in LowerChannels
    BY <1>14, MissEffect
  <2> QED BY <2>1, <2>4, <2>5, <2>6, <1>14 DEF HandleMiss, TypeOK, counts
<1>15. ASSUME LowerCheck
       PROVE  TypeOK'
  <2> DEFINE no == FALSE
  <2>1. /\ lower \in LowerChannels /\ ~AllChecked(lower)
        /\ lower' = check_collision(lower, no)
    BY <1>15 DEF LowerCheck, TypeOK
  <2>2. /\ \A b \in Blocks : Due(lower, serving, b) <= 1
        /\ \A b \in Blocks : Cardinality(serving \cap AnswersOf(b)) \in Nat
    BY DueOnce
  <2> HIDE DEF no
  <2>3. lower' \in LowerChannels
    BY <2>1, <2>2, LowerCheckKeeps
  <2> QED BY <2>3, <1>15 DEF LowerCheck, TypeOK, counts
<1>16. ASSUME NEW queue \in {"WQ", "RQ", "PQ"}, LowerTake(queue)
       PROVE  TypeOK'
  <2> DEFINE r == Head(lower[queue])
             answer == Response(Block(r.address), r.instr_depend_on_me)
  <2>1. /\ lower' = [lower EXCEPT ![queue] = Tail(lower[queue])] /\ lower[queue] # <<>>
        /\ serving' = IF r.response_requested THEN serving \cup {answer} ELSE serving
    BY <1>16 DEF LowerTake
  <2>2. answer \in Responses /\ lower' \in LowerChannels
    <3>1. CASE queue = "WQ"
      <4>1. lower.WQ \in Seq(Writes) /\ lower.WQ # <<>>
        BY <2>1, <3>1 DEF TypeOK, LowerChannels
      <4>2. Head(lower.WQ) \in Writes /\ Tail(lower.WQ) \in Seq(Writes)
        BY <4>1, HeadOfSeq
      <4>3. answer \in Responses
        BY <4>2, <3>1 DEF Response, Block, Writes, RequestsOf, Places, Responses
      <4>4. lower' \in LowerChannels
        BY <4>2, <2>1, <3>1 DEF TypeOK, LowerChannels
      <4> QED BY <4>3, <4>4
    <3>2. CASE queue \in {"RQ", "PQ"}
      <4>1. lower[queue] \in Seq(ReadsBelow) /\ lower[queue] # <<>>
        BY <2>1, <3>2 DEF TypeOK, LowerChannels
      <4>2. Head(lower[queue]) \in ReadsBelow /\ Tail(lower[queue]) \in Seq(ReadsBelow)
        BY <4>1, HeadOfSeq
      <4>3. answer \in Responses
        BY <4>2 DEF Response, Block, ReadsBelow, RequestsOf, Places, Responses
      <4>4. lower' \in LowerChannels
        BY <4>2, <2>1, <3>2 DEF TypeOK, LowerChannels
      <4> QED BY <4>3, <4>4
    <3> QED BY <3>1, <3>2
  <2> HIDE DEF answer, r
  <2>3. serving' \in SUBSET Responses /\ IsFiniteSet(serving')
    BY <2>1, <2>2, FS_AddElement DEF TypeOK
  <2> QED BY <2>2, <2>3, <1>16 DEF LowerTake, TypeOK, counts
<1>17. ASSUME NEW r \in serving, LowerAnswer(r)
       PROVE  TypeOK'
  <2>1. r \in Responses
    BY DEF TypeOK
  <2>2. lower' = [lower EXCEPT !.returned = Append(lower.returned, r)]
        /\ serving' = serving \ {r}
    BY <1>17 DEF LowerAnswer
  <2>3. Append(lower.returned, r) \in Seq(Responses)
    BY <2>1, AppendProperties DEF TypeOK, LowerChannels
  <2>4. lower' \in LowerChannels
    BY <2>2, <2>3 DEF TypeOK, LowerChannels
  <2>5. serving' \in SUBSET Responses /\ IsFiniteSet(serving')
    BY <2>2, FS_RemoveElement DEF TypeOK
  <2> QED BY <2>4, <2>5, <1>17 DEF LowerAnswer, TypeOK, counts
<1> QED
  BY <1>1, <1>2, <1>3, <1>4, <1>5, <1>6, <1>7, <1>8, <1>9, <1>10, <1>11, <1>12, <1>13,
     <1>14, <1>15, <1>16, <1>17 DEF Next, Ask, Serve

----------------------------------------------------------------------------
(* The MSHRs *)

\* An entry changed in place keeps the order if its block and its state stay.
LEMMA OrderStep ==
  ASSUME IInv, Next
  PROVE  InOrder(MSHR')
<1> USE DEF IInv
<1>1. MSHR \in Seq(MshrEntries) /\ Len(MSHR) \in Nat /\ MSHR_SIZE \in Nat
  BY LenProperties, CacheAssumption DEF TypeOK
<1>2. ASSUME UNCHANGED MSHR
      PROVE  InOrder(MSHR')
  BY <1>2
<1>3. ASSUME FinishPacket
      PROVE  InOrder(MSHR')
  <2>1. PICK m, f \in 1..Len(MSHR) :
          /\ f <= m /\ MSHR' = Swapped(MSHR, m, f)
          /\ ~MSHR[m].returned /\ ~MSHR[f].returned
          /\ \A j \in 1..Len(MSHR) : j < f => MSHR[j].returned
    BY <1>3, FinishEffect
  <2>2. /\ Len(MSHR') = Len(MSHR)
        /\ Finished(MSHR[m]).block = MSHR[m].block /\ Finished(MSHR[m]).returned
        /\ \A k \in 1..Len(MSHR) :
             MSHR'[k] = IF k = f THEN Finished(MSHR[m])
                        ELSE IF k = m THEN MSHR[f] ELSE MSHR[k]
    <3>1. /\ Len(Swapped(MSHR, m, f)) = Len(MSHR)
          /\ Finished(MSHR[m]).block = MSHR[m].block /\ Finished(MSHR[m]).returned
      BY <1>1, SwapKeeps
    <3>2. \A k \in 1..Len(MSHR) :
             Swapped(MSHR, m, f)[k] = IF k = f THEN Finished(MSHR[m])
                                      ELSE IF k = m THEN MSHR[f] ELSE MSHR[k]
      BY <1>1, SwapKeeps
    <3> QED BY <2>1, <3>1, <3>2
  <2>3. ASSUME NEW j \in 1..Len(MSHR), NEW k \in 1..Len(MSHR), j < k
        PROVE  /\ MSHR'[k].returned => MSHR'[j].returned
               /\ MSHR'[j].block # MSHR'[k].block
    <3> DEFINE at == [i \in 1..Len(MSHR) |-> IF i = f THEN m ELSE IF i = m THEN f ELSE i]
    <3>1. \A i \in 1..Len(MSHR) : MSHR'[i].block = MSHR[at[i]].block
      BY <2>2
    <3>2. at[j] # at[k] /\ at[j] \in 1..Len(MSHR) /\ at[k] \in 1..Len(MSHR)
      BY <2>3, <1>1
    <3>3. \A p, q \in 1..Len(MSHR) : p # q => MSHR[p].block # MSHR[q].block
      <4> TAKE p, q \in 1..Len(MSHR)
      <4> HAVE p # q
      <4>1. p < q \/ q < p
        BY <1>1
      <4> QED BY <4>1 DEF InOrder
    <3>4. MSHR'[j].block # MSHR'[k].block
      <4> HIDE DEF at
      <4> QED BY <3>1, <3>2, <3>3
    <3>5. \A i \in 1..Len(MSHR) : MSHR[i].returned <=> i < f
      <4> TAKE i \in 1..Len(MSHR)
      <4>1. i < f \/ i = f \/ f < i
        BY <1>1
      <4> QED BY <4>1, <2>1 DEF InOrder
    <3>6. \A i \in 1..Len(MSHR) : MSHR'[i].returned <=> i <= f
      <4> TAKE i \in 1..Len(MSHR)
      <4>1. CASE i = f
        BY <4>1, <2>2, <1>1
      <4>2. CASE i # f /\ i = m
        BY <4>2, <2>1, <2>2, <1>1
      <4>3. CASE i # f /\ i # m
        BY <4>3, <2>2, <3>5, <1>1
      <4> QED BY <4>1, <4>2, <4>3
    <3> QED BY <3>4, <3>6, <2>3, <1>1
  <2> QED BY <2>2, <2>3 DEF InOrder
<1>4. ASSUME NEW w \in 1..Bypass, FillFromMSHR(w)
      PROVE  InOrder(MSHR')
  <2>1. /\ MSHR' = Tail(MSHR) /\ Len(Tail(MSHR)) = Len(MSHR) - 1
        /\ \A k \in 1..(Len(MSHR) - 1) : Tail(MSHR)[k] = MSHR[k + 1]
    BY <1>1, <1>4, HeadOfSeq DEF FillFromMSHR
  <2> QED BY <1>1, <2>1 DEF InOrder
<1>5. ASSUME NEW k \in TagChecks, MergeMiss(k)
      PROVE  InOrder(MSHR')
  <2> DEFINE entry == inflight_tag_check[k]
             m == First(EntriesFor(entry.block))
             merged == MergeMSHR(MSHR[m], MshrEntry(entry))
  <2>1. MSHR' = [MSHR EXCEPT ![m] = merged] /\ EntriesFor(entry.block) # {}
    BY <1>5 DEF MergeMiss, NeedsMSHR
  <2>2. m \in 1..Len(MSHR) /\ MSHR[m] \in MshrEntries
    BY <2>1, EntryAt
  <2>3. merged.block = MSHR[m].block /\ merged.returned = MSHR[m].returned
    BY <2>2, <1>5, TagsAt, BuildsMshrEntries
  <2>4. Len(MSHR') = Len(MSHR)
    <3> HIDE DEF m, merged
    <3> QED BY <1>1, <2>1, LenProperties
  <2>5. \A i \in 1..Len(MSHR) : MSHR'[i].block = MSHR[i].block
                                /\ MSHR'[i].returned = MSHR[i].returned
    <3> HIDE DEF m, merged
    <3> QED BY <1>1, <2>1, <2>3, LenProperties
  <2> QED BY <2>4, <2>5 DEF InOrder
<1>6. ASSUME NEW k \in TagChecks, HandleMiss(k)
      PROVE  InOrder(MSHR')
  <2> DEFINE entry == inflight_tag_check[k]
             added == MshrEntry(entry)
  <2>1. /\ MSHR' = IF Allocates(entry) THEN Append(MSHR, added) ELSE MSHR
        /\ Len(MSHR) < MSHR_SIZE /\ EntriesFor(entry.block) = {}
    BY <1>6 DEF HandleMiss, CanMiss, NeedsMSHR
  <2>2. added \in MshrEntries /\ added.block = entry.block /\ ~added.returned
    BY <1>6, TagsAt, BuildsMshrEntries
  <2> HIDE DEF entry, added
  <2>3. CASE Allocates(entry)
    <3>1. /\ Len(MSHR') = Len(MSHR) + 1 /\ MSHR'[Len(MSHR) + 1] = added
          /\ \A i \in 1..Len(MSHR) : MSHR'[i] = MSHR[i]
      BY <1>1, <2>1, <2>2, <2>3, AppendProperties
    <3>2. \A i \in 1..Len(MSHR) : MSHR[i].block # added.block
      BY <2>1, <2>2 DEF EntriesFor
    <3>3. ASSUME NEW i \in 1..Len(MSHR'), NEW j \in 1..Len(MSHR'), i < j
          PROVE  /\ MSHR'[j].returned => MSHR'[i].returned
                 /\ MSHR'[i].block # MSHR'[j].block
      <4>1. i \in 1..Len(MSHR)
        BY <3>1, <3>3, <1>1
      <4>2. CASE j = Len(MSHR) + 1
        BY <4>1, <4>2, <3>1, <3>2, <2>2
      <4>3. CASE j \in 1..Len(MSHR)
        BY <4>1, <4>3, <3>1, <3>3 DEF InOrder
      <4> QED BY <4>2, <4>3, <3>1, <1>1
    <3> QED BY <3>1, <3>3, <2>1, <1>1 DEF InOrder
  <2>4. CASE ~Allocates(entry)
    BY <2>1, <2>4
  <2> QED BY <2>3, <2>4
<1> QED
  BY <1>2, <1>3, <1>4, <1>5, <1>6
  DEF Next, Ask, Serve, IssueRead, IssueWrite, IssuePrefetch, PrefetchLine, CheckCollision,
      FillFromWrites, InitiateTagCheck, InitiatePrefetch, TryHit, HandleWrite, LowerCheck,
      LowerTake, LowerAnswer

----------------------------------------------------------------------------
(* The answers that are due *)

\* A request that is taken is being served, if it wants an answer.
LEMMA TakeKeeps ==
  ASSUME TypeOK, InOrder(MSHR), AnswersDue(lower, serving, MSHR),
         NEW queue \in {"WQ", "RQ", "PQ"}, LowerTake(queue)
  PROVE  \A b \in Blocks : Due(lower', serving', b) = Due(lower, serving, b)
<1> DEFINE r == Head(lower[queue])
           answer == Response(Block(r.address), r.instr_depend_on_me)
<1>1. /\ lower' = [lower EXCEPT ![queue] = Tail(lower[queue])] /\ lower[queue] # <<>>
      /\ serving' = IF r.response_requested THEN serving \cup {answer} ELSE serving
      /\ lower \in LowerChannels
  BY DEF LowerTake, TypeOK
<1>2. CASE queue = "WQ"
  <2>1. lower.WQ \in Seq(Writes) /\ lower.WQ # <<>>
    BY <1>1, <1>2 DEF LowerChannels
  <2>2. ~r.response_requested
    <3>1. Head(lower.WQ) \in Writes
      BY <2>1, HeadOfSeq
    <3> QED BY <3>1, <1>2 DEF Writes, RequestsOf
  <2>3. /\ lower'.RQ = lower.RQ /\ lower'.PQ = lower.PQ
        /\ lower'.returned = lower.returned
    BY <1>1, <1>2 DEF LowerChannels
  <2> QED BY <1>1, <2>2, <2>3 DEF Due
<1>3. CASE queue \in {"RQ", "PQ"}
  <2>1. lower[queue] \in Seq(ReadsBelow) /\ lower[queue] # <<>>
    BY <1>1, <1>3 DEF LowerChannels
  <2>2. r \in ReadsBelow /\ lower[queue][1] = r /\ 1 \in 1..Len(lower[queue])
    BY <2>1, HeadOfSeq
  <2>3. /\ answer \in Responses /\ answer.block = Block(r.address)
        /\ Block(r.address) \in Blocks
    BY <2>2 DEF Response, Block, ReadsBelow, RequestsOf, Places, Responses
  <2>4. /\ lower'[queue] = Tail(lower[queue]) /\ lower'.returned = lower.returned
        /\ \A other \in {"RQ", "PQ"} : other # queue => lower'[other] = lower[other]
    BY <1>1, <1>3 DEF LowerChannels
  <2> HIDE DEF r, answer
  <2>5. ASSUME NEW b \in Blocks
        PROVE  Due(lower', serving', b) = Due(lower, serving, b)
    <3>1. Count(lower'[queue], Wanting(b))
            = Count(lower[queue], Wanting(b)) - One(r, Wanting(b))
      BY <2>1, <2>4, CountTail DEF r
    <3>2. Cardinality(serving' \cap AnswersOf(b))
            = Cardinality(serving \cap AnswersOf(b)) + One(r, Wanting(b))
      <4>1. CASE r \in Wanting(b)
        <5>1. r.response_requested /\ answer \in AnswersOf(b)
          BY <4>1, <2>3 DEF Wanting, AnswersOf
        <5>2. Count(lower[queue], Wanting(b)) >= 1
          BY <2>1, <2>2, <4>1, CountMember
        <5> DEFINE p == Count(lower.RQ, Wanting(b))
                   q == Count(lower.PQ, Wanting(b))
                   s == Cardinality(serving \cap AnswersOf(b))
                   t == Count(lower.returned, AnswersOf(b))
        <5>3. p + q + s + t <= 1 /\ p \in Nat /\ q \in Nat /\ s \in Nat /\ t \in Nat
          BY DueOnce DEF Due
        <5>4. p >= 1 \/ q >= 1
          BY <5>2, <1>3
        <5>5. s = 0
          <6> HIDE DEF p, q, s, t
          <6> QED BY <5>3, <5>4
        <5> DEFINE A == serving \cap AnswersOf(b)
        <5>6. A = {} /\ IsFiniteSet(A) /\ Cardinality(A) = 0
          <6>1. IsFiniteSet(A)
            BY FS_Intersection DEF TypeOK
          <6> HIDE DEF A
          <6>2. Cardinality(A) = 0
            BY <5>5 DEF A
          <6> QED BY <6>1, <6>2, FS_EmptySet
        <5>7. serving' \cap AnswersOf(b) = {answer}
          BY <5>1, <5>6, <1>1
        <5>8. Cardinality({answer}) = 1
          BY FS_Singleton
        <5> QED BY <5>6, <5>7, <5>8, <4>1 DEF One
      <4>2. CASE r \notin Wanting(b)
        <5>1. serving' \cap AnswersOf(b) = serving \cap AnswersOf(b)
          BY <1>1, <2>2, <2>3, <4>2 DEF Wanting, AnswersOf
        <5>2. Cardinality(serving \cap AnswersOf(b)) \in Nat
          BY DueOnce
        <5> QED BY <5>1, <5>2, <4>2 DEF One
      <4> QED BY <4>1, <4>2
    <3>3. /\ Count(lower.RQ, Wanting(b)) \in Nat /\ Count(lower.PQ, Wanting(b)) \in Nat
          /\ Count(lower.returned, AnswersOf(b)) \in Nat
          /\ Cardinality(serving \cap AnswersOf(b)) \in Nat
      BY DueOnce
    <3>4. One(r, Wanting(b)) \in {0, 1}
      BY DEF One
    <3>5. CASE queue = "RQ"
      BY <3>1, <3>2, <3>3, <3>4, <3>5, <2>4 DEF Due
    <3>6. CASE queue = "PQ"
      BY <3>1, <3>2, <3>3, <3>4, <3>6, <2>4 DEF Due
    <3> QED BY <3>5, <3>6, <1>3
  <2> QED BY <2>5
<1> QED BY <1>2, <1>3

\* What is answered below has come back.
LEMMA AnswerKeeps ==
  ASSUME TypeOK, InOrder(MSHR), AnswersDue(lower, serving, MSHR),
         NEW r \in serving, LowerAnswer(r)
  PROVE  \A b \in Blocks : Due(lower', serving', b) = Due(lower, serving, b)
<1>1. r \in Responses /\ lower.returned \in Seq(Responses)
  BY DEF TypeOK, LowerChannels
<1>2. /\ lower'.RQ = lower.RQ /\ lower'.PQ = lower.PQ
      /\ lower'.returned = Append(lower.returned, r) /\ serving' = serving \ {r}
  BY DEF LowerAnswer, TypeOK, LowerChannels
<1>3. ASSUME NEW b \in Blocks
      PROVE  Due(lower', serving', b) = Due(lower, serving, b)
  <2>1. Count(lower'.returned, AnswersOf(b))
          = Count(lower.returned, AnswersOf(b)) + One(r, AnswersOf(b))
    BY <1>1, <1>2, CountAppend
  <2>2. Cardinality(serving' \cap AnswersOf(b))
          = Cardinality(serving \cap AnswersOf(b)) - One(r, AnswersOf(b))
    <3> DEFINE A == serving \cap AnswersOf(b)
    <3>1. IsFiniteSet(A) /\ Cardinality(A) \in Nat
      BY FS_Intersection, FS_CardinalityType DEF TypeOK
    <3>2. serving' \cap AnswersOf(b) = A \ {r} /\ (r \in A <=> r \in AnswersOf(b))
      BY <1>2
    <3> HIDE DEF A
    <3>3. Cardinality(A \ {r}) = IF r \in A THEN Cardinality(A) - 1 ELSE Cardinality(A)
      BY <3>1, FS_RemoveElement
    <3>4. Cardinality(serving' \cap AnswersOf(b)) = Cardinality(A) - One(r, AnswersOf(b))
      BY <3>1, <3>2, <3>3 DEF One
    <3> QED BY <3>4 DEF A
  <2>3. /\ Count(lower.RQ, Wanting(b)) \in Nat /\ Count(lower.PQ, Wanting(b)) \in Nat
        /\ Count(lower.returned, AnswersOf(b)) \in Nat
        /\ Cardinality(serving \cap AnswersOf(b)) \in Nat
    BY DueOnce
  <2>4. One(r, AnswersOf(b)) \in {0, 1}
    BY DEF One
  <2> QED BY <2>1, <2>2, <2>3, <2>4, <1>2 DEF Due
<1> QED BY <1>3

\* An answer that has come back wakes the entry that waits for it.
LEMMA FinishKeepsAnswers ==
  ASSUME TypeOK, InOrder(MSHR), AnswersDue(lower, serving, MSHR), FinishPacket
  PROVE  AnswersDue(lower', serving', MSHR')
<1> DEFINE r == Head(lower.returned)
<1>1. /\ MSHR \in Seq(MshrEntries) /\ lower.returned \in Seq(Responses)
      /\ lower.returned # <<>> /\ r \in Responses
  BY FinishEffect DEF TypeOK, LowerChannels, FinishPacket
<1>2. PICK m, f \in 1..Len(MSHR) :
        /\ MSHR' = Swapped(MSHR, m, f) /\ MSHR[m].block = r.block /\ ~MSHR[m].returned
  BY FinishEffect
<1>3. /\ lower'.RQ = lower.RQ /\ lower'.PQ = lower.PQ
      /\ lower'.returned = Tail(lower.returned) /\ serving' = serving
  BY DEF FinishPacket, TypeOK, LowerChannels
<1> HIDE DEF r
<1>4. Finished(MSHR[m]).returned /\ MSHR[m] \in MshrEntries
  BY <1>1, SwapKeeps, ElementOfSeq
<1>5. ASSUME NEW b \in Blocks
      PROVE  Due(lower', serving', b) = Count(MSHR', WaitingFor(b))
  <2>1. Count(lower'.returned, AnswersOf(b))
          = Count(lower.returned, AnswersOf(b)) - One(r, AnswersOf(b))
    BY <1>1, <1>3, CountTail DEF r
  <2>2. Count(MSHR', WaitingFor(b))
          = Count(MSHR, WaitingFor(b)) - One(MSHR[m], WaitingFor(b))
              + One(Finished(MSHR[m]), WaitingFor(b))
    BY <1>1, <1>2, SwapKeeps
  <2>3. One(Finished(MSHR[m]), WaitingFor(b)) = 0
    BY <1>4 DEF One, WaitingFor
  <2>4. MSHR[m] \in WaitingFor(b) <=> r \in AnswersOf(b)
    BY <1>1, <1>2, <1>4 DEF WaitingFor, AnswersOf
  <2>5. One(MSHR[m], WaitingFor(b)) = One(r, AnswersOf(b)) /\ One(r, AnswersOf(b)) \in {0, 1}
    BY <2>4 DEF One
  <2>6. /\ Count(MSHR, WaitingFor(b)) \in Nat
        /\ Count(lower.RQ, Wanting(b)) \in Nat /\ Count(lower.PQ, Wanting(b)) \in Nat
        /\ Count(lower.returned, AnswersOf(b)) \in Nat
        /\ Cardinality(serving \cap AnswersOf(b)) \in Nat
    BY DueOnce
  <2>7. Due(lower, serving, b) = Count(MSHR, WaitingFor(b))
    BY DEF AnswersDue
  <2> QED BY <2>1, <2>2, <2>3, <2>5, <2>6, <2>7, <1>3 DEF Due
<1> QED BY <1>5 DEF AnswersDue

\* No step changes what is due without the entry that waits for it.
LEMMA AnswersStep ==
  ASSUME IInv, Next
  PROVE  AnswersDue(lower', serving', MSHR')
<1> USE DEF IInv
<1>1. MSHR \in Seq(MshrEntries) /\ lower \in LowerChannels
  BY DEF TypeOK
<1>2. ASSUME lower'.RQ = lower.RQ, lower'.PQ = lower.PQ, lower'.returned = lower.returned,
             UNCHANGED serving,
             \A b \in Blocks : Count(MSHR', WaitingFor(b)) = Count(MSHR, WaitingFor(b))
      PROVE  AnswersDue(lower', serving', MSHR')
  BY <1>2 DEF AnswersDue, Due
<1>3. ASSUME UNCHANGED <<lower, serving, MSHR>>
      PROVE  AnswersDue(lower', serving', MSHR')
  BY <1>3
<1>4. ASSUME FinishPacket
      PROVE  AnswersDue(lower', serving', MSHR')
  BY <1>4, FinishKeepsAnswers
<1>5. ASSUME NEW w \in 1..Bypass, FillFromMSHR(w)
      PROVE  AnswersDue(lower', serving', MSHR')
  <2> DEFINE entry == Head(MSHR)
  <2>1. MSHR # <<>> /\ MSHR' = Tail(MSHR) /\ entry.returned /\ entry \in MshrEntries
    BY <1>1, <1>5, HeadOfSeq DEF FillFromMSHR
  <2>2. ASSUME NEW b \in Blocks
        PROVE  Count(MSHR', WaitingFor(b)) = Count(MSHR, WaitingFor(b))
    <3>1. Count(MSHR', WaitingFor(b)) = Count(MSHR, WaitingFor(b)) - One(entry, WaitingFor(b))
      BY <1>1, <2>1, CountTail
    <3>2. One(entry, WaitingFor(b)) = 0
      BY <2>1 DEF One, WaitingFor
    <3>3. Count(MSHR, WaitingFor(b)) \in Nat
      BY DueOnce
    <3> QED BY <3>1, <3>2, <3>3
  <2>3. /\ entry.block \in Blocks /\ entry.instr_depend_on_me \in SUBSET Nat
        /\ HandleFill(entry, w)
    BY <2>1, <1>5 DEF MshrEntries, FillFromMSHR
  <2> HIDE DEF entry
  <2>4. lower'.RQ = lower.RQ /\ lower'.PQ = lower.PQ /\ lower'.returned = lower.returned
    BY <2>3, FillEffect
  <2> QED BY <1>2, <1>5, <2>2, <2>4 DEF FillFromMSHR
<1>6. ASSUME NEW w \in 1..Bypass, FillFromWrites(w)
      PROVE  AnswersDue(lower', serving', MSHR')
  <2> DEFINE entry == Head(inflight_writes)
  <2>1. inflight_writes \in Seq(WriteEntries) /\ inflight_writes # <<>>
    BY <1>6 DEF TypeOK, FillFromWrites
  <2>2. entry \in WriteEntries
    BY <2>1, HeadOfSeq
  <2>3. /\ entry.block \in Blocks /\ entry.instr_depend_on_me \in SUBSET Nat
        /\ HandleFill(entry, w)
    BY <2>2, <1>6 DEF WriteEntries, TagEntries, FillFromWrites
  <2> HIDE DEF entry
  <2>4. lower'.RQ = lower.RQ /\ lower'.PQ = lower.PQ /\ lower'.returned = lower.returned
    BY <2>3, FillEffect
  <2> QED BY <1>2, <1>6, <2>4 DEF FillFromWrites
<1>7. ASSUME NEW k \in TagChecks, MergeMiss(k)
      PROVE  AnswersDue(lower', serving', MSHR')
  <2> DEFINE entry == inflight_tag_check[k]
             m == First(EntriesFor(entry.block))
             merged == MergeMSHR(MSHR[m], MshrEntry(entry))
  <2>1. MSHR' = [MSHR EXCEPT ![m] = merged] /\ EntriesFor(entry.block) # {}
    BY <1>7 DEF MergeMiss, NeedsMSHR
  <2>2. m \in 1..Len(MSHR) /\ MSHR[m] \in MshrEntries
    BY <2>1, EntryAt
  <2>3. /\ merged \in MshrEntries
        /\ merged.block = MSHR[m].block /\ merged.returned = MSHR[m].returned
    BY <2>2, <1>7, TagsAt, BuildsMshrEntries
  <2> HIDE DEF entry, m, merged
  <2>4. ASSUME NEW b \in Blocks
        PROVE  Count(MSHR', WaitingFor(b)) = Count(MSHR, WaitingFor(b))
    <3>1. Count(MSHR', WaitingFor(b)) = Count(MSHR, WaitingFor(b))
            - One(MSHR[m], WaitingFor(b)) + One(merged, WaitingFor(b))
      <4>1. MSHR \in Seq(MshrEntries) /\ m \in 1..Len(MSHR) /\ merged \in MshrEntries
        BY <1>1, <2>2, <2>3
      <4>2. Count([MSHR EXCEPT ![m] = merged], WaitingFor(b)) = Count(MSHR, WaitingFor(b))
              - One(MSHR[m], WaitingFor(b)) + One(merged, WaitingFor(b))
        BY ONLY <4>1, CountExcept
      <4> QED BY <4>2, <2>1
    <3>2. One(merged, WaitingFor(b)) = One(MSHR[m], WaitingFor(b))
          /\ One(merged, WaitingFor(b)) \in {0, 1}
      BY <2>2, <2>3 DEF One, WaitingFor
    <3>3. Count(MSHR, WaitingFor(b)) \in Nat
      BY DueOnce
    <3> QED BY <3>1, <3>2, <3>3
  <2> QED BY <1>2, <1>7, <2>4 DEF MergeMiss
<1>8. ASSUME NEW k \in TagChecks, HandleMiss(k)
      PROVE  AnswersDue(lower', serving', MSHR')
  <2> DEFINE entry == inflight_tag_check[k]
             added == MshrEntry(entry)
  <2>1. /\ MSHR' = IF entry.skips_fill THEN MSHR ELSE Append(MSHR, added)
        /\ serving' = serving
    BY <1>8 DEF HandleMiss, Allocates
  <2>2. /\ added \in MshrEntries /\ added.block = entry.block /\ ~added.returned
        /\ lower'.returned = lower.returned
    BY <1>8, TagsAt, BuildsMshrEntries, MissEffect
  <2>3. \A b \in Blocks :
          Count(lower'.RQ, Wanting(b)) + Count(lower'.PQ, Wanting(b))
            = Count(lower.RQ, Wanting(b)) + Count(lower.PQ, Wanting(b))
                + (IF b = entry.block /\ ~entry.skips_fill THEN 1 ELSE 0)
    BY <1>8, MissEffect
  <2> HIDE DEF entry, added
  <2>4. ASSUME NEW b \in Blocks
        PROVE  Due(lower', serving', b) = Count(MSHR', WaitingFor(b))
    <3>1. Count(MSHR', WaitingFor(b)) = Count(MSHR, WaitingFor(b))
            + (IF b = entry.block /\ ~entry.skips_fill THEN 1 ELSE 0)
      <4>1. Count(MSHR, WaitingFor(b)) \in Nat
        BY DueOnce
      <4>2. CASE entry.skips_fill
        BY <2>1, <4>1, <4>2
      <4>3. CASE ~entry.skips_fill
        <5>1. Count(MSHR', WaitingFor(b)) = Count(MSHR, WaitingFor(b)) + One(added, WaitingFor(b))
          BY <1>1, <2>1, <2>2, <4>3, CountAppend
        <5>2. added \in WaitingFor(b) <=> b = entry.block
          BY <2>2 DEF WaitingFor
        <5> QED BY <4>3, <5>1, <5>2 DEF One
      <4> QED BY <4>2, <4>3
    <3> DEFINE n == IF b = entry.block /\ ~entry.skips_fill THEN 1 ELSE 0
               p == Count(lower.RQ, Wanting(b))
               q == Count(lower.PQ, Wanting(b))
               s == Cardinality(serving \cap AnswersOf(b))
               t == Count(lower.returned, AnswersOf(b))
               u == Count(lower'.RQ, Wanting(b))
               v == Count(lower'.PQ, Wanting(b))
    <3>2. p \in Nat /\ q \in Nat /\ s \in Nat /\ t \in Nat
      BY DueOnce
    <3>3. u \in Nat /\ v \in Nat
      <4>1. lower' \in LowerChannels
        BY <1>8, MissEffect
      <4> QED BY <4>1, CountType DEF LowerChannels
    <3>4. u + v = p + q + n
      BY <2>3
    <3>5. p + q + s + t = Count(MSHR, WaitingFor(b))
      BY DEF AnswersDue, Due
    <3>6. Due(lower', serving', b) = u + v + s + t
      BY <2>1, <2>2 DEF Due
    <3>7. Count(MSHR', WaitingFor(b)) = Count(MSHR, WaitingFor(b)) + n
      BY <3>1
    <3>8. n \in Nat
      OBVIOUS
    <3> HIDE DEF n, p, q, s, t, u, v
    <3> QED BY <3>2, <3>3, <3>4, <3>5, <3>6, <3>7, <3>8
  <2> QED BY <2>4 DEF AnswersDue
<1>9. ASSUME LowerCheck
      PROVE  AnswersDue(lower', serving', MSHR')
  <2> DEFINE no == FALSE
  <2>1. /\ lower \in LowerChannels /\ ~AllChecked(lower)
        /\ lower' = check_collision(lower, no)
        /\ serving' = serving /\ MSHR' = MSHR
    BY <1>9 DEF LowerCheck, TypeOK
  <2>2. /\ \A b \in Blocks : Due(lower, serving, b) <= 1
        /\ \A b \in Blocks : Cardinality(serving \cap AnswersOf(b)) \in Nat
    BY DueOnce
  <2> HIDE DEF no
  <2>3. \A b \in Blocks : Due(lower', serving, b) = Due(lower, serving, b)
    BY <2>1, <2>2, LowerCheckKeeps
  <2> QED BY <2>1, <2>3 DEF AnswersDue
<1>10. ASSUME NEW queue \in {"WQ", "RQ", "PQ"}, LowerTake(queue)
       PROVE  AnswersDue(lower', serving', MSHR')
  <2>1. \A b \in Blocks : Due(lower', serving', b) = Due(lower, serving, b)
    BY <1>10, TakeKeeps
  <2>2. MSHR' = MSHR
    BY <1>10 DEF LowerTake
  <2> QED BY <2>1, <2>2 DEF AnswersDue
<1>11. ASSUME NEW r \in serving, LowerAnswer(r)
       PROVE  AnswersDue(lower', serving', MSHR')
  <2>1. \A b \in Blocks : Due(lower', serving', b) = Due(lower, serving, b)
    BY <1>11, AnswerKeeps
  <2>2. MSHR' = MSHR
    BY <1>11 DEF LowerAnswer
  <2> QED BY <2>1, <2>2 DEF AnswersDue
<1> QED
  BY <1>3, <1>4, <1>5, <1>6, <1>7, <1>8, <1>9, <1>10, <1>11
  DEF Next, Ask, Serve, IssueRead, IssueWrite, IssuePrefetch, PrefetchLine, CheckCollision,
      InitiateTagCheck, InitiatePrefetch, TryHit, HandleWrite

----------------------------------------------------------------------------
(* Where the reads wait *)

\* A read that moves from a place to the next waits in one place still.
LEMMA MovesKeepPlaces ==
  ASSUME TypeOK, InOnePlace(upper, inflight_tag_check, MSHR, reads), NEW i \in Nat,
         NEW a \in Int, NEW b \in Int, NEW c \in Int, NEW d \in Int, a + b + c + d = 0,
         Count(upper'.RQ, Holding(Reads, i)) = Count(upper.RQ, Holding(Reads, i)) + a,
         Count(inflight_tag_check', Holding(TagEntries, i))
           = Count(inflight_tag_check, Holding(TagEntries, i)) + b,
         Count(MSHR', Holding(MshrEntries, i)) = Count(MSHR, Holding(MshrEntries, i)) + c,
         Count(upper'.returned, Holding(Responses, i))
           = Count(upper.returned, Holding(Responses, i)) + d
  PROVE  PlacesOf(upper', inflight_tag_check', MSHR', i)
           = PlacesOf(upper, inflight_tag_check, MSHR, i)
<1> DEFINE p == Count(upper.RQ, Holding(Reads, i))
           q == Count(inflight_tag_check, Holding(TagEntries, i))
           m == Count(MSHR, Holding(MshrEntries, i))
           t == Count(upper.returned, Holding(Responses, i))
<1>1. p \in Nat /\ q \in Nat /\ m \in Nat /\ t \in Nat
  BY WaitsOnce
<1>2. PlacesOf(upper, inflight_tag_check, MSHR, i) = p + q + m + t
  BY DEF PlacesOf
<1>3. PlacesOf(upper', inflight_tag_check', MSHR', i)
        = (p + a) + (q + b) + (m + c) + (t + d)
  BY DEF PlacesOf
<1>4. a + b + c + d = 0
  OBVIOUS
<1> HIDE DEF p, q, m, t
<1>5. (p + a) + (q + b) + (m + c) + (t + d) = p + q + m + t
  BY ONLY <1>1, <1>4, a \in Int, b \in Int, c \in Int, d \in Int
<1> QED BY ONLY <1>2, <1>3, <1>5

\* The head of the queue of reads goes to the tags; no other request waits.
LEMMA TagCheckKeepsPlaces ==
  ASSUME TypeOK, InOnePlace(upper, inflight_tag_check, MSHR, reads), NEW i \in Nat,
         NEW queue \in {"WQ", "RQ", "PQ"}, InitiateTagCheck(queue)
  PROVE  PlacesOf(upper', inflight_tag_check', MSHR', i)
           = PlacesOf(upper, inflight_tag_check, MSHR, i)
<1> DEFINE r == Head(upper[queue])
           e == TagEntry(Block(r.address), r.type, FALSE, r.response_requested,
                         r.instr_depend_on_me)
           held == Holding(TagEntries, i)
           n == One(e, held)
<1>1. /\ upper' = [upper EXCEPT ![queue] = Tail(upper[queue])]
      /\ inflight_tag_check' = Append(inflight_tag_check, e)
      /\ upper[queue] # <<>> /\ MSHR' = MSHR
      /\ upper \in UpperChannels /\ inflight_tag_check \in Seq(TagEntries)
  BY DEF InitiateTagCheck, TypeOK
<1>2. e.instr_depend_on_me = r.instr_depend_on_me
  BY DEF TagEntry
<1>3. /\ Count(upper.RQ, Holding(Reads, i)) \in Nat
      /\ Count(inflight_tag_check, held) \in Nat
      /\ Count(MSHR, Holding(MshrEntries, i)) \in Nat
      /\ Count(upper.returned, Holding(Responses, i)) \in Nat
  BY WaitsOnce
<1>4. e \in TagEntries =>
        Count(inflight_tag_check', held) = Count(inflight_tag_check, held) + n
  <2> HIDE DEF e
  <2> QED BY <1>1, CountAppend
<1>5. n \in {0, 1}
  BY DEF One
<1>6. CASE queue = "RQ"
  <2>1. upper.RQ \in Seq(Reads) /\ upper.RQ # <<>>
    BY <1>1, <1>6 DEF UpperChannels
  <2>2. r \in Reads
    BY <2>1, <1>6, HeadOfSeq
  <2>3. e \in TagEntries
    BY <2>2, BuildsTagEntries
  <2>4. upper'.RQ = Tail(upper.RQ) /\ upper'.returned = upper.returned
    BY <1>1, <1>6 DEF UpperChannels
  <2>5. Count(upper'.RQ, Holding(Reads, i))
          = Count(upper.RQ, Holding(Reads, i)) - One(r, Holding(Reads, i))
    BY <2>1, <2>4, <1>6, CountTail
  <2> HIDE DEF r, e
  <2>6. One(r, Holding(Reads, i)) = n
    BY <1>2, <2>2, <2>3 DEF One, Holding
  <2> HIDE DEF n, held
  <2>7. /\ Count(upper'.RQ, Holding(Reads, i)) = Count(upper.RQ, Holding(Reads, i)) + (-n)
        /\ Count(inflight_tag_check', held) = Count(inflight_tag_check, held) + n
        /\ Count(MSHR', Holding(MshrEntries, i)) = Count(MSHR, Holding(MshrEntries, i)) + 0
        /\ Count(upper'.returned, Holding(Responses, i))
             = Count(upper.returned, Holding(Responses, i)) + 0
    BY <1>1, <1>3, <1>4, <1>5, <2>3, <2>4, <2>5, <2>6
  <2>8. -n \in Int /\ n \in Int /\ 0 \in Int /\ (-n) + n + 0 + 0 = 0
    BY <1>5
  <2> QED BY <2>7, <2>8, MovesKeepPlaces DEF held
<1>7. CASE queue \in {"WQ", "PQ"}
  <2>1. e \in TagEntries /\ r.instr_depend_on_me = {}
    <3>1. CASE queue = "WQ"
      <4>1. upper.WQ \in Seq(Writes) /\ upper.WQ # <<>>
        BY <1>1, <3>1 DEF UpperChannels
      <4>2. r \in Writes
        BY <4>1, <3>1, HeadOfSeq
      <4> QED BY <4>2, BuildsTagEntries
    <3>2. CASE queue = "PQ"
      <4>1. upper.PQ \in Seq(Prefetches) /\ upper.PQ # <<>>
        BY <1>1, <3>2 DEF UpperChannels
      <4>2. r \in Prefetches
        BY <4>1, <3>2, HeadOfSeq
      <4> QED BY <4>2, BuildsTagEntries
    <3> QED BY <3>1, <3>2, <1>7
  <2>2. upper'.RQ = upper.RQ /\ upper'.returned = upper.returned
    BY <1>1, <1>7 DEF UpperChannels
  <2> HIDE DEF r, e
  <2>3. n = 0
    BY <1>2, <2>1 DEF One, Holding
  <2> HIDE DEF n, held
  <2>4. /\ Count(upper'.RQ, Holding(Reads, i)) = Count(upper.RQ, Holding(Reads, i)) + 0
        /\ Count(inflight_tag_check', held) = Count(inflight_tag_check, held) + 0
        /\ Count(MSHR', Holding(MshrEntries, i)) = Count(MSHR, Holding(MshrEntries, i)) + 0
        /\ Count(upper'.returned, Holding(Responses, i))
             = Count(upper.returned, Holding(Responses, i)) + 0
    BY <1>1, <1>3, <1>4, <2>1, <2>2, <2>3
  <2> QED BY <2>4, MovesKeepPlaces DEF held
<1> QED BY <1>6, <1>7

\* A request that leaves the tags with its answer waits nowhere else.
LEMMA HitKeepsPlaces ==
  ASSUME TypeOK, InOnePlace(upper, inflight_tag_check, MSHR, reads), NEW i \in Nat,
         NEW k \in TagChecks, TryHit(k)
  PROVE  PlacesOf(upper', inflight_tag_check', MSHR', i)
           = PlacesOf(upper, inflight_tag_check, MSHR, i)
<1> DEFINE entry == inflight_tag_check[k]
           held == Holding(TagEntries, i)
           n == One(entry, held)
<1>1. /\ entry \in TagEntries /\ entry.block \in Blocks
      /\ entry.instr_depend_on_me \in SUBSET Nat
      /\ Count(OtherChecks(k), held) = Count(inflight_tag_check, held) - n
  BY TagsAt
<1>2. /\ Respond(entry) /\ inflight_tag_check' = OtherChecks(k) /\ MSHR' = MSHR
      /\ upper \in UpperChannels
  BY DEF TryHit, TypeOK
<1>3. /\ Count(upper.RQ, Holding(Reads, i)) \in Nat
      /\ Count(inflight_tag_check, held) \in Nat
      /\ Count(MSHR, Holding(MshrEntries, i)) \in Nat
      /\ Count(upper.returned, Holding(Responses, i)) \in Nat
  BY WaitsOnce
<1>4. n \in {0, 1}
  BY DEF One
<1>5. (IF entry.to_return /\ i \in entry.instr_depend_on_me THEN 1 ELSE 0) = n
  <2>1. i \in entry.instr_depend_on_me => entry.to_return
    BY <1>1 DEF TagEntries
  <2> HIDE DEF entry
  <2> QED BY <1>1, <2>1 DEF One, Holding
<1> HIDE DEF entry
<1>6. /\ upper'.RQ = upper.RQ
      /\ Count(upper'.returned, Holding(Responses, i))
           = Count(upper.returned, Holding(Responses, i)) + n
  BY <1>1, <1>2, <1>5, RespondEffect
<1> HIDE DEF n, held
<1>7. /\ Count(upper'.RQ, Holding(Reads, i)) = Count(upper.RQ, Holding(Reads, i)) + 0
      /\ Count(inflight_tag_check', held) = Count(inflight_tag_check, held) + (-n)
      /\ Count(MSHR', Holding(MshrEntries, i)) = Count(MSHR, Holding(MshrEntries, i)) + 0
      /\ Count(upper'.returned, Holding(Responses, i))
           = Count(upper.returned, Holding(Responses, i)) + n
  BY <1>1, <1>2, <1>3, <1>4, <1>6
<1>8. -n \in Int /\ n \in Int /\ 0 \in Int /\ 0 + (-n) + 0 + n = 0
  BY <1>4
<1> QED BY <1>7, <1>8, MovesKeepPlaces DEF held

\* A fill answers whatever waits in the entry that leaves the MSHRs.
LEMMA FillKeepsPlaces ==
  ASSUME TypeOK, InOnePlace(upper, inflight_tag_check, MSHR, reads), NEW i \in Nat,
         NEW w, FillFromMSHR(w)
  PROVE  PlacesOf(upper', inflight_tag_check', MSHR', i)
           = PlacesOf(upper, inflight_tag_check, MSHR, i)
<1> DEFINE entry == Head(MSHR)
           held == Holding(MshrEntries, i)
           n == One(entry, held)
<1>1. /\ MSHR \in Seq(MshrEntries) /\ MSHR # <<>> /\ MSHR' = Tail(MSHR)
      /\ HandleFill(entry, w) /\ inflight_tag_check' = inflight_tag_check
      /\ upper \in UpperChannels
  BY DEF FillFromMSHR, TypeOK
<1>2. /\ entry \in MshrEntries
      /\ Count(MSHR', held) = Count(MSHR, held) - n
  BY <1>1, HeadOfSeq, CountTail
<1>3. /\ Count(upper.RQ, Holding(Reads, i)) \in Nat
      /\ Count(inflight_tag_check, Holding(TagEntries, i)) \in Nat
      /\ Count(MSHR, held) \in Nat
      /\ Count(upper.returned, Holding(Responses, i)) \in Nat
  BY WaitsOnce
<1>4. n \in {0, 1}
  BY DEF One
<1> HIDE DEF entry
<1>5. /\ entry.block \in Blocks /\ entry.instr_depend_on_me \in SUBSET Nat
      /\ i \in entry.instr_depend_on_me => entry.to_return
  BY <1>2 DEF MshrEntries
<1>6. (IF entry.to_return /\ i \in entry.instr_depend_on_me THEN 1 ELSE 0) = n
  BY <1>2, <1>5 DEF One, Holding
<1>7. /\ upper'.RQ = upper.RQ
      /\ Count(upper'.returned, Holding(Responses, i))
           = Count(upper.returned, Holding(Responses, i)) + n
  BY <1>1, <1>5, <1>6, RespondEffect DEF HandleFill
<1> HIDE DEF n, held
<1>8. /\ Count(upper'.RQ, Holding(Reads, i)) = Count(upper.RQ, Holding(Reads, i)) + 0
      /\ Count(inflight_tag_check', Holding(TagEntries, i))
           = Count(inflight_tag_check, Holding(TagEntries, i)) + 0
      /\ Count(MSHR', held) = Count(MSHR, held) + (-n)
      /\ Count(upper'.returned, Holding(Responses, i))
           = Count(upper.returned, Holding(Responses, i)) + n
  BY <1>1, <1>2, <1>3, <1>4, <1>7
<1>9. -n \in Int /\ n \in Int /\ 0 \in Int /\ 0 + 0 + (-n) + n = 0
  BY <1>4
<1> QED BY <1>8, <1>9, MovesKeepPlaces DEF held

\* A read that misses waits in the entry it is merged into.
LEMMA MergeKeepsPlaces ==
  ASSUME TypeOK, InOnePlace(upper, inflight_tag_check, MSHR, reads), NEW i \in Nat,
         NEW k \in TagChecks, MergeMiss(k)
  PROVE  PlacesOf(upper', inflight_tag_check', MSHR', i)
           = PlacesOf(upper, inflight_tag_check, MSHR, i)
<1> DEFINE entry == inflight_tag_check[k]
           m == First(EntriesFor(entry.block))
           merged == MergeMSHR(MSHR[m], MshrEntry(entry))
           held == Holding(MshrEntries, i)
           n == One(entry, Holding(TagEntries, i))
<1>1. /\ entry \in TagEntries /\ inflight_tag_check \in Seq(TagEntries)
      /\ Count(OtherChecks(k), Holding(TagEntries, i))
           = Count(inflight_tag_check, Holding(TagEntries, i)) - n
      /\ MSHR \in Seq(MshrEntries)
  BY TagsAt DEF TypeOK
<1>2. /\ MSHR' = [MSHR EXCEPT ![m] = merged] /\ EntriesFor(entry.block) # {}
      /\ inflight_tag_check' = OtherChecks(k) /\ upper' = upper
  BY DEF MergeMiss, NeedsMSHR
<1>3. m \in 1..Len(MSHR) /\ MSHR[m] \in MshrEntries
  BY <1>2, EntryAt
<1>4. /\ merged \in MshrEntries
      /\ merged.instr_depend_on_me = MSHR[m].instr_depend_on_me \cup entry.instr_depend_on_me
  BY <1>1, <1>3, BuildsMshrEntries
<1>5. k \in 1..Len(inflight_tag_check)
  BY DEF TagChecks
<1> HIDE DEF m, merged
<1>6. Count(MSHR', held) = Count(MSHR, held) - One(MSHR[m], held) + One(merged, held)
  <2>1. Count([MSHR EXCEPT ![m] = merged], held)
          = Count(MSHR, held) - One(MSHR[m], held) + One(merged, held)
    BY ONLY <1>1, <1>3, <1>4, CountExcept
  <2> QED BY <2>1, <1>2
<1>7. ~(entry \in Holding(TagEntries, i) /\ MSHR[m] \in held)
  <2>1. entry \in Holding(TagEntries, i) => Count(inflight_tag_check, Holding(TagEntries, i)) >= 1
    BY <1>1, <1>5, CountMember
  <2>2. MSHR[m] \in held => Count(MSHR, held) >= 1
    BY <1>1, <1>3, CountMember
  <2> DEFINE p == Count(upper.RQ, Holding(Reads, i))
             q == Count(inflight_tag_check, Holding(TagEntries, i))
             c == Count(MSHR, held)
             t == Count(upper.returned, Holding(Responses, i))
  <2>3. /\ p \in Nat /\ q \in Nat /\ c \in Nat /\ t \in Nat
    BY WaitsOnce
  <2>4. p + q + c + t <= 1
    <3>1. p + q + c + t = PlacesOf(upper, inflight_tag_check, MSHR, i)
      BY DEF PlacesOf
    <3>2. PlacesOf(upper, inflight_tag_check, MSHR, i) = (IF i \in 1..reads THEN 1 ELSE 0)
      BY WaitsOnce
    <3>3. (IF i \in 1..reads THEN 1 ELSE 0) <= 1
      OBVIOUS
    <3> QED BY ONLY <3>1, <3>2, <3>3
  <2>5. ~(q >= 1 /\ c >= 1)
    <3> HIDE DEF p, q, c, t
    <3> QED BY <2>3, <2>4
  <2> QED BY <2>1, <2>2, <2>5
<1>8. One(merged, held) = One(MSHR[m], held) + n /\ One(MSHR[m], held) \in {0, 1}
      /\ n \in {0, 1}
  BY <1>1, <1>3, <1>4, <1>7 DEF One, Holding
<1>9. /\ Count(upper.RQ, Holding(Reads, i)) \in Nat
      /\ Count(inflight_tag_check, Holding(TagEntries, i)) \in Nat
      /\ Count(MSHR, held) \in Nat
      /\ Count(upper.returned, Holding(Responses, i)) \in Nat
  BY WaitsOnce
<1> HIDE DEF n, held, entry
<1>10. /\ Count(upper'.RQ, Holding(Reads, i)) = Count(upper.RQ, Holding(Reads, i)) + 0
       /\ Count(inflight_tag_check', Holding(TagEntries, i))
            = Count(inflight_tag_check, Holding(TagEntries, i)) + (-n)
       /\ Count(MSHR', held) = Count(MSHR, held) + n
       /\ Count(upper'.returned, Holding(Responses, i))
            = Count(upper.returned, Holding(Responses, i)) + 0
  BY <1>1, <1>2, <1>6, <1>8, <1>9
<1>11. -n \in Int /\ n \in Int /\ 0 \in Int /\ 0 + (-n) + n + 0 = 0
  BY <1>8
<1> QED BY <1>10, <1>11, MovesKeepPlaces DEF held

\* So does one that gets an entry of its own; what gets none waits for nothing.
LEMMA MissKeepsPlaces ==
  ASSUME TypeOK, InOnePlace(upper, inflight_tag_check, MSHR, reads), NEW i \in Nat,
         NEW k \in TagChecks, HandleMiss(k)
  PROVE  PlacesOf(upper', inflight_tag_check', MSHR', i)
           = PlacesOf(upper, inflight_tag_check, MSHR, i)
<1> DEFINE entry == inflight_tag_check[k]
           added == MshrEntry(entry)
           held == Holding(MshrEntries, i)
           n == One(entry, Holding(TagEntries, i))
<1>1. /\ entry \in TagEntries
      /\ Count(OtherChecks(k), Holding(TagEntries, i))
           = Count(inflight_tag_check, Holding(TagEntries, i)) - n
      /\ MSHR \in Seq(MshrEntries)
  BY TagsAt DEF TypeOK
<1>2. /\ MSHR' = IF entry.skips_fill THEN MSHR ELSE Append(MSHR, added)
      /\ inflight_tag_check' = OtherChecks(k) /\ upper' = upper
  BY DEF HandleMiss, Allocates
<1>3. /\ added \in MshrEntries /\ added.instr_depend_on_me = entry.instr_depend_on_me
  BY <1>1, BuildsMshrEntries
<1>4. /\ Count(upper.RQ, Holding(Reads, i)) \in Nat
      /\ Count(inflight_tag_check, Holding(TagEntries, i)) \in Nat
      /\ Count(MSHR, held) \in Nat
      /\ Count(upper.returned, Holding(Responses, i)) \in Nat
  BY WaitsOnce
<1> HIDE DEF entry, added
<1>5. n \in {0, 1}
  BY DEF One
<1>6. Count(MSHR', held) = Count(MSHR, held) + n
  <2>1. CASE entry.skips_fill
    <3>1. n = 0
      BY <1>1, <2>1 DEF One, Holding, TagEntries
    <3> QED BY <3>1, <1>2, <1>4, <2>1
  <2>2. CASE ~entry.skips_fill
    <3>1. Count(MSHR', held) = Count(MSHR, held) + One(added, held)
      BY <1>1, <1>2, <1>3, <2>2, CountAppend
    <3>2. One(added, held) = n
      BY <1>1, <1>3 DEF One, Holding
    <3> QED BY <3>1, <3>2
  <2> QED BY <2>1, <2>2
<1> HIDE DEF n, held
<1>7. /\ Count(upper'.RQ, Holding(Reads, i)) = Count(upper.RQ, Holding(Reads, i)) + 0
      /\ Count(inflight_tag_check', Holding(TagEntries, i))
           = Count(inflight_tag_check, Holding(TagEntries, i)) + (-n)
      /\ Count(MSHR', held) = Count(MSHR, held) + n
      /\ Count(upper'.returned, Holding(Responses, i))
           = Count(upper.returned, Holding(Responses, i)) + 0
  BY <1>1, <1>2, <1>4, <1>5, <1>6
<1>8. -n \in Int /\ n \in Int /\ 0 \in Int /\ 0 + (-n) + n + 0 = 0
  BY <1>5
<1> QED BY <1>7, <1>8, MovesKeepPlaces DEF held

\* No step loses a read or makes it wait twice.
LEMMA PlacesStep ==
  ASSUME IInv, Next
  PROVE  InOnePlace(upper', inflight_tag_check', MSHR', reads')
<1> DEFINE Goal == InOnePlace(upper', inflight_tag_check', MSHR', reads')
<1>1. TypeOK /\ InOnePlace(upper, inflight_tag_check, MSHR, reads)
  BY DEF IInv
<1>2. ASSUME reads' = reads,
             \A i \in Nat : PlacesOf(upper', inflight_tag_check', MSHR', i)
                              = PlacesOf(upper, inflight_tag_check, MSHR, i)
      PROVE  Goal
  BY <1>1, <1>2 DEF InOnePlace
<1>3. ASSUME upper'.RQ = upper.RQ, upper'.returned = upper.returned,
             UNCHANGED <<inflight_tag_check, MSHR, reads>>
      PROVE  Goal
  BY <1>1, <1>3 DEF InOnePlace, PlacesOf
<1>4. ASSUME NEW a \in Addresses, IssueRead(a)
      PROVE  Goal
  <2> DEFINE r == Request(a, "LOAD", TRUE, {reads + 1})
  <2>1. reads \in Nat /\ upper \in UpperChannels /\ upper.RQ \in Seq(Reads)
    BY <1>1 DEF TypeOK, UpperChannels
  <2>2. r \in Reads /\ r.instr_depend_on_me = {reads + 1}
    <3>1. reads + 1 \in Nat /\ a \in Places
      BY <2>1, BuildsRequests
    <3> QED BY <3>1, BuildsRequests DEF Request
  <2>3. /\ upper' = [upper EXCEPT !.RQ = Append(upper.RQ, r)] /\ reads' = reads + 1
        /\ inflight_tag_check' = inflight_tag_check /\ MSHR' = MSHR
    BY <1>4 DEF IssueRead
  <2> HIDE DEF r
  <2>4. upper'.RQ = Append(upper.RQ, r) /\ upper'.returned = upper.returned
    BY <2>1, <2>3 DEF UpperChannels
  <2>5. ASSUME NEW i \in Nat
        PROVE  PlacesOf(upper', inflight_tag_check', MSHR', i)
                 = (IF i \in 1..reads' THEN 1 ELSE 0)
    <3> DEFINE p == Count(upper.RQ, Holding(Reads, i))
               q == Count(inflight_tag_check, Holding(TagEntries, i))
               m == Count(MSHR, Holding(MshrEntries, i))
               t == Count(upper.returned, Holding(Responses, i))
               n == One(r, Holding(Reads, i))
    <3>1. p \in Nat /\ q \in Nat /\ m \in Nat /\ t \in Nat
      BY <1>1, WaitsOnce
    <3>2. p + q + m + t = (IF i \in 1..reads THEN 1 ELSE 0)
      BY <1>1 DEF InOnePlace, PlacesOf
    <3>3. Count(upper'.RQ, Holding(Reads, i)) = p + n
      BY <2>1, <2>2, <2>4, CountAppend
    <3>4. PlacesOf(upper', inflight_tag_check', MSHR', i) = (p + n) + q + m + t
      BY <2>3, <2>4, <3>3 DEF PlacesOf
    <3>5. n = IF i = reads + 1 THEN 1 ELSE 0
      BY <2>2 DEF One, Holding
    <3>6. reads' = reads + 1
      BY <2>3
    <3> HIDE DEF p, q, m, t, n
    <3> QED BY <2>1, <3>1, <3>2, <3>4, <3>5, <3>6
  <2> QED BY <2>5 DEF InOnePlace
<1>5. ASSUME NEW a \in Addresses, IssueWrite(a)
      PROVE  Goal
  BY <1>1, <1>3, <1>5 DEF IssueWrite, TypeOK, UpperChannels
<1>6. ASSUME NEW a \in Addresses, NEW flag \in BOOLEAN, IssuePrefetch(a, flag)
      PROVE  Goal
  BY <1>1, <1>3, <1>6 DEF IssuePrefetch, TypeOK, UpperChannels
<1>7. ASSUME CheckCollision
      PROVE  Goal
  <2>1. /\ ~AllChecked(upper) /\ upper \in UpperChannels
        /\ upper' = check_collision(upper, match_offset_bits)
        /\ inflight_tag_check' = inflight_tag_check /\ MSHR' = MSHR /\ reads' = reads
    BY <1>1, <1>7 DEF CheckCollision, TypeOK, counts
  <2>2. ASSUME NEW i \in Nat
        PROVE  PlacesOf(upper', inflight_tag_check', MSHR', i)
                 = PlacesOf(upper, inflight_tag_check, MSHR, i)
    <3> DEFINE p == Count(upper.RQ, Holding(Reads, i))
               q == Count(inflight_tag_check, Holding(TagEntries, i))
               m == Count(MSHR, Holding(MshrEntries, i))
               t == Count(upper.returned, Holding(Responses, i))
               u == Count(upper'.RQ, Holding(Reads, i))
               v == Count(upper'.returned, Holding(Responses, i))
    <3>1. p \in Nat /\ q \in Nat /\ m \in Nat /\ t \in Nat /\ p <= 1
      BY <1>1, WaitsOnce
    <3>2. upper' \in UpperChannels /\ u + v = p + t
      <4>1. Count(upper.RQ, Holding(Reads, i)) <= 1
        BY <3>1
      <4>2. LET new == check_collision(upper, match_offset_bits)
            IN  /\ new \in UpperChannels
                /\ Count(new.RQ, Holding(Reads, i)) + Count(new.returned, Holding(Responses, i))
                   = Count(upper.RQ, Holding(Reads, i)) + Count(upper.returned, Holding(Responses, i))
        BY ONLY <2>1, <4>1, UpperCheckKeeps
      <4> QED BY <2>1, <4>2
    <3>3. u \in Nat /\ v \in Nat
      BY <3>2, CountType DEF UpperChannels
    <3>4. /\ PlacesOf(upper', inflight_tag_check', MSHR', i) = u + q + m + v
          /\ PlacesOf(upper, inflight_tag_check, MSHR, i) = p + q + m + t
      BY <2>1 DEF PlacesOf
    <3> HIDE DEF p, q, m, t, u, v
    <3> QED BY <3>1, <3>2, <3>3, <3>4
  <2> QED BY <1>2, <2>1, <2>2
<1>8. ASSUME FinishPacket
      PROVE  Goal
  <2>1. MSHR \in Seq(MshrEntries) /\ InOrder(MSHR) /\ AnswersDue(lower, serving, MSHR)
    BY DEF IInv, TypeOK
  <2>2. PICK m, f \in 1..Len(MSHR) : MSHR' = Swapped(MSHR, m, f)
    BY <1>1, <1>8, <2>1, FinishEffect
  <2>3. /\ Finished(MSHR[m]) \in MshrEntries /\ MSHR[m] \in MshrEntries
        /\ Finished(MSHR[m]).instr_depend_on_me = MSHR[m].instr_depend_on_me
    BY <2>1, SwapKeeps, ElementOfSeq
  <2>4. ASSUME NEW i \in Nat
        PROVE  Count(MSHR', Holding(MshrEntries, i)) = Count(MSHR, Holding(MshrEntries, i))
    <3>1. Count(MSHR', Holding(MshrEntries, i)) = Count(MSHR, Holding(MshrEntries, i))
            - One(MSHR[m], Holding(MshrEntries, i))
            + One(Finished(MSHR[m]), Holding(MshrEntries, i))
      BY <2>1, <2>2, SwapKeeps
    <3>2. /\ One(Finished(MSHR[m]), Holding(MshrEntries, i))
               = One(MSHR[m], Holding(MshrEntries, i))
          /\ One(MSHR[m], Holding(MshrEntries, i)) \in {0, 1}
      BY <2>3 DEF One, Holding
    <3>3. Count(MSHR, Holding(MshrEntries, i)) \in Nat
      BY <1>1, WaitsOnce
    <3> QED BY <3>1, <3>2, <3>3
  <2>5. UNCHANGED <<upper, inflight_tag_check, reads>>
    BY <1>8 DEF FinishPacket, counts
  <2> QED BY <1>2, <2>4, <2>5 DEF PlacesOf
<1>9. ASSUME NEW w \in 1..Bypass, FillFromMSHR(w)
      PROVE  Goal
  <2>1. reads' = reads
    BY <1>9 DEF FillFromMSHR, counts
  <2> QED BY <1>1, <1>2, <1>9, <2>1, FillKeepsPlaces
<1>10. ASSUME NEW w \in 1..Bypass, FillFromWrites(w)
       PROVE  Goal
  <2> DEFINE entry == Head(inflight_writes)
  <2>1. inflight_writes \in Seq(WriteEntries) /\ inflight_writes # <<>>
    BY <1>1, <1>10 DEF TypeOK, FillFromWrites
  <2>2. entry \in WriteEntries
    BY <2>1, HeadOfSeq
  <2>3. HandleFill(entry, w) /\ UNCHANGED <<inflight_tag_check, MSHR, reads>>
    BY <1>10 DEF FillFromWrites, counts
  <2> HIDE DEF entry
  <2>4. entry.block \in Blocks /\ entry.instr_depend_on_me = {}
    BY <2>2 DEF WriteEntries, TagEntries
  <2>5. /\ upper'.RQ = upper.RQ
        /\ \A i \in Nat : Count(upper'.returned, Holding(Responses, i))
             = Count(upper.returned, Holding(Responses, i)) + 0
    <3>1. entry.instr_depend_on_me \in SUBSET Nat /\ upper \in UpperChannels /\ Respond(entry)
      BY <1>1, <2>3, <2>4 DEF HandleFill, TypeOK
    <3>2. \A i \in Nat :
            (IF entry.to_return /\ i \in entry.instr_depend_on_me THEN 1 ELSE 0) = 0
      BY <2>4
    <3> QED BY <2>4, <3>1, <3>2, RespondEffect
  <2>6. \A i \in Nat : Count(upper.returned, Holding(Responses, i)) \in Nat
    BY <1>1, WaitsOnce
  <2> QED BY <1>2, <2>3, <2>5, <2>6 DEF PlacesOf
<1>11. ASSUME NEW queue \in {"WQ", "RQ", "PQ"}, InitiateTagCheck(queue)
       PROVE  Goal
  <2>1. reads' = reads
    BY <1>11 DEF InitiateTagCheck, counts
  <2> QED BY <1>1, <1>2, <1>11, <2>1, TagCheckKeepsPlaces
<1>12. ASSUME InitiatePrefetch
       PROVE  Goal
  <2> DEFINE PrefetchSet == [block : Blocks, skip_fill : BOOLEAN]
             e == TagEntry(Head(internal_PQ).block, "PREFETCH", Head(internal_PQ).skip_fill,
                           FALSE, {})
  <2>1. internal_PQ \in Seq(PrefetchSet) /\ internal_PQ # <<>>
        /\ inflight_tag_check \in Seq(TagEntries)
    BY <1>1, <1>12 DEF InitiatePrefetch, TypeOK
  <2>2. Head(internal_PQ) \in PrefetchSet
    BY <2>1, HeadOfSeq
  <2>3. e \in TagEntries /\ e.instr_depend_on_me = {}
    BY <2>2, BuildsTagEntries DEF TagEntry
  <2>4. /\ inflight_tag_check' = Append(inflight_tag_check, e)
        /\ UNCHANGED <<upper, MSHR, reads>>
    BY <1>12 DEF InitiatePrefetch, counts
  <2> HIDE DEF e
  <2>5. ASSUME NEW i \in Nat
        PROVE  Count(inflight_tag_check', Holding(TagEntries, i))
                 = Count(inflight_tag_check, Holding(TagEntries, i))
    <3>1. Count(inflight_tag_check', Holding(TagEntries, i))
            = Count(inflight_tag_check, Holding(TagEntries, i)) + One(e, Holding(TagEntries, i))
      BY <2>1, <2>3, <2>4, CountAppend
    <3>2. One(e, Holding(TagEntries, i)) = 0
      BY <2>3 DEF One, Holding
    <3>3. Count(inflight_tag_check, Holding(TagEntries, i)) \in Nat
      BY <1>1, WaitsOnce
    <3> QED BY <3>1, <3>2, <3>3
  <2> QED BY <1>2, <2>4, <2>5 DEF PlacesOf
<1>13. ASSUME NEW k \in TagChecks, TryHit(k)
       PROVE  Goal
  <2>1. reads' = reads
    BY <1>13 DEF TryHit, counts
  <2> QED BY <1>1, <1>2, <1>13, <2>1, HitKeepsPlaces
<1>14. ASSUME NEW k \in TagChecks, HandleWrite(k)
       PROVE  Goal
  <2> DEFINE entry == inflight_tag_check[k]
  <2>1. entry \in TagEntries /\ entry.type = "WRITE"
    BY <1>1, <1>14, TagsAt DEF HandleWrite, IsWriteback
  <2>2. inflight_tag_check' = OtherChecks(k) /\ UNCHANGED <<upper, MSHR, reads>>
    BY <1>14 DEF HandleWrite, counts
  <2>3. ASSUME NEW i \in Nat
        PROVE  Count(inflight_tag_check', Holding(TagEntries, i))
                 = Count(inflight_tag_check, Holding(TagEntries, i))
    <3>1. Count(inflight_tag_check', Holding(TagEntries, i))
            = Count(inflight_tag_check, Holding(TagEntries, i))
                - One(entry, Holding(TagEntries, i))
      BY <1>1, <2>2, TagsAt
    <3>2. One(entry, Holding(TagEntries, i)) = 0
      BY <2>1 DEF One, Holding, TagEntries
    <3>3. Count(inflight_tag_check, Holding(TagEntries, i)) \in Nat
      BY <1>1, WaitsOnce
    <3> QED BY <3>1, <3>2, <3>3
  <2> QED BY <1>2, <2>2, <2>3 DEF PlacesOf
<1>15. ASSUME NEW k \in TagChecks, MergeMiss(k)
       PROVE  Goal
  <2>1. reads' = reads
    BY <1>15 DEF MergeMiss, counts
  <2> QED BY <1>1, <1>2, <1>15, <2>1, MergeKeepsPlaces
<1>16. ASSUME NEW k \in TagChecks, HandleMiss(k)
       PROVE  Goal
  <2>1. reads' = reads
    BY <1>16 DEF HandleMiss, counts
  <2> QED BY <1>1, <1>2, <1>16, <2>1, MissKeepsPlaces
<1>17. ASSUME UNCHANGED <<upper, inflight_tag_check, MSHR, reads>>
       PROVE  Goal
  BY <1>3, <1>17
<1> HIDE DEF Goal
<1>18. Goal
  BY <1>4, <1>5, <1>6, <1>7, <1>8, <1>9, <1>10, <1>11, <1>12, <1>13, <1>14, <1>15, <1>16,
     <1>17
  DEF Next, Ask, Serve, PrefetchLine, LowerCheck, LowerTake, LowerAnswer, counts
<1> QED BY <1>18 DEF Goal

----------------------------------------------------------------------------
(* The blocks and what was written *)

\* A fill is into a way, and a written block is not passed over.
LEMMA VictimIsAWay ==
  ASSUME NEW type, NEW w \in Victims(type)
  PROVE  /\ w \in Ways \/ (w = Bypass /\ type # "WRITE")
         /\ Bypass \notin Ways
<1>1. NUM_WAY \in Nat
  BY CacheAssumption
<1>2. Bypass \notin Ways
  BY <1>1 DEF Bypass, Ways
<1> DEFINE invalid == {v \in Ways : block[v] = Invalid}
<1>3. CASE invalid # {}
  <2>1. invalid \in SUBSET (1..NUM_WAY)
    BY DEF Ways
  <2>2. First(invalid) \in invalid
    <3> HIDE DEF invalid
    <3> QED BY <1>1, <1>3, <2>1, FirstIndex
  <2>3. w = First(invalid)
    BY <1>3 DEF Victims
  <2> QED BY <1>2, <2>2, <2>3
<1>4. CASE invalid = {}
  BY <1>2, <1>4 DEF Victims
<1> QED BY <1>3, <1>4

\* The way that a lookup hits.
LEMMA HitWay ==
  ASSUME NEW b, WaysOf(b) # {}
  PROVE  /\ First(WaysOf(b)) \in Ways
         /\ block[First(WaysOf(b))] # Invalid /\ block[First(WaysOf(b))].block = b
<1>1. WaysOf(b) \in SUBSET (1..NUM_WAY) /\ NUM_WAY \in Nat
  BY CacheAssumption DEF WaysOf, Ways
<1>2. First(WaysOf(b)) \in WaysOf(b)
  BY <1>1, FirstIndex
<1> QED BY <1>2 DEF WaysOf

\* Which addresses are matched is fixed when the cache is built.
LEMMA OffsetsStay ==
  ASSUME Next
  PROVE  match_offset_bits' = match_offset_bits
BY DEF Next, Ask, Serve, IssueRead, IssueWrite, IssuePrefetch, PrefetchLine, CheckCollision,
       FinishPacket, FillFromMSHR, FillFromWrites, InitiateTagCheck, InitiatePrefetch, TryHit,
       HandleWrite, MergeMiss, HandleMiss, LowerCheck, LowerTake, LowerAnswer

\* An answer moves entries of the MSHRs, and keeps their blocks and their types.
LEMMA FinishKeepsBlocks ==
  ASSUME TypeOK, InOrder(MSHR), AnswersDue(lower, serving, MSHR), FinishPacket
  PROVE  \A j \in 1..Len(MSHR') : \E k \in 1..Len(MSHR) :
           MSHR'[j].block = MSHR[k].block /\ MSHR'[j].type = MSHR[k].type
<1>1. MSHR \in Seq(MshrEntries)
  BY DEF TypeOK
<1>2. PICK m, f \in 1..Len(MSHR) : MSHR' = Swapped(MSHR, m, f)
  BY FinishEffect
<1>3. Len(MSHR') = Len(MSHR)
  BY <1>1, <1>2, SwapKeeps
<1>4. \A k \in 1..Len(MSHR) :
        MSHR'[k] = IF k = f THEN Finished(MSHR[m]) ELSE IF k = m THEN MSHR[f] ELSE MSHR[k]
  <2>1. \A k \in 1..Len(MSHR) :
           Swapped(MSHR, m, f)[k] = IF k = f THEN Finished(MSHR[m])
                                    ELSE IF k = m THEN MSHR[f] ELSE MSHR[k]
    BY <1>1, SwapKeeps
  <2> QED BY <1>2, <2>1
<1>5. Finished(MSHR[m]).block = MSHR[m].block /\ Finished(MSHR[m]).type = MSHR[m].type
  BY <1>1, SwapKeeps
<1> QED BY <1>3, <1>4, <1>5

\* A merge changes one entry: not its block, and its type to that of the miss.
LEMMA MergeKeepsBlocks ==
  ASSUME TypeOK, NEW k \in TagChecks, MergeMiss(k)
  PROVE  /\ Len(MSHR') = Len(MSHR)
         /\ \A j \in 1..Len(MSHR) :
              /\ MSHR'[j].block = MSHR[j].block
              /\ MSHR'[j].type \in {MSHR[j].type, inflight_tag_check[k].type}
<1> DEFINE entry == inflight_tag_check[k]
           m == First(EntriesFor(entry.block))
           merged == MergeMSHR(MSHR[m], MshrEntry(entry))
<1>1. MSHR' = [MSHR EXCEPT ![m] = merged] /\ EntriesFor(entry.block) # {}
  BY DEF MergeMiss, NeedsMSHR
<1>2. m \in 1..Len(MSHR) /\ MSHR[m] \in MshrEntries
  BY <1>1, EntryAt
<1>3. merged.block = MSHR[m].block /\ merged.type \in {MSHR[m].type, entry.type}
  BY <1>2, TagsAt, BuildsMshrEntries
<1>4. Len(MSHR') = Len(MSHR) /\ DOMAIN MSHR = 1..Len(MSHR)
  <2> HIDE DEF m, merged
  <2> QED BY <1>1, LenProperties DEF TypeOK
<1> HIDE DEF m, merged
<1> QED BY <1>1, <1>3, <1>4

\* A miss adds at most one entry, of its block and type.
LEMMA MissAddsOne ==
  ASSUME TypeOK, NEW k \in TagChecks, HandleMiss(k)
  PROVE  \A j \in 1..Len(MSHR') :
           \/ j \in 1..Len(MSHR) /\ MSHR'[j] = MSHR[j]
           \/ /\ MSHR'[j].block = inflight_tag_check[k].block
              /\ MSHR'[j].type = inflight_tag_check[k].type
<1> DEFINE entry == inflight_tag_check[k]
           added == MshrEntry(entry)
<1>1. /\ MSHR' = IF entry.skips_fill THEN MSHR ELSE Append(MSHR, added)
      /\ MSHR \in Seq(MshrEntries) /\ Len(MSHR) \in Nat
  BY LenProperties DEF HandleMiss, Allocates, TypeOK
<1>2. added \in MshrEntries /\ added.block = entry.block /\ added.type = entry.type
  BY TagsAt, BuildsMshrEntries
<1> HIDE DEF added, entry
<1>3. CASE entry.skips_fill
  BY <1>1, <1>3
<1>4. CASE ~entry.skips_fill
  <2>1. /\ Len(MSHR') = Len(MSHR) + 1 /\ MSHR'[Len(MSHR) + 1] = added
        /\ \A i \in 1..Len(MSHR) : MSHR'[i] = MSHR[i]
    BY <1>1, <1>2, <1>4, AppendProperties
  <2> QED BY <1>1, <1>2, <2>1 DEF entry
<1> QED BY <1>3, <1>4

\* No step brings a block of L1D into a second way.
LEMMA OneWayStep ==
  ASSUME IInv, Next, match_offset_bits
  PROVE  OneWay(block', MSHR', inflight_writes')
<1> DEFINE Goal == OneWay(block', MSHR', inflight_writes')
<1>1. /\ TypeOK /\ InOrder(MSHR) /\ OneWay(block, MSHR, inflight_writes)
      /\ AnswersDue(lower, serving, MSHR)
      /\ MSHR \in Seq(MshrEntries) /\ Len(MSHR) \in Nat
  BY LenProperties DEF IInv, TypeOK
<1>2. ASSUME inflight_writes' = inflight_writes,
             \A w \in Ways : \A b : ValidIn(block', w, b) => ValidIn(block, w, b),
             \A j \in 1..Len(MSHR') : \A w \in Ways : ~ValidIn(block, w, MSHR'[j].block)
      PROVE  Goal
  BY <1>1, <1>2 DEF OneWay
<1>3. ASSUME UNCHANGED <<block, MSHR, inflight_writes>>
      PROVE  Goal
  BY <1>1, <1>3
<1>4. ASSUME FinishPacket
      PROVE  Goal
  <2>1. \A j \in 1..Len(MSHR') : \E k \in 1..Len(MSHR) : MSHR'[j].block = MSHR[k].block
    BY <1>1, <1>4, FinishKeepsBlocks
  <2>2. \A j \in 1..Len(MSHR') : \A w \in Ways : ~ValidIn(block, w, MSHR'[j].block)
    BY <1>1, <2>1 DEF OneWay
  <2>3. UNCHANGED <<block, inflight_writes>>
    BY <1>4 DEF FinishPacket
  <2> QED BY <1>2, <2>2, <2>3
<1>5. ASSUME NEW w \in 1..Bypass, FillFromMSHR(w)
      PROVE  Goal
  <2> DEFINE entry == Head(MSHR)
  <2>1. /\ MSHR # <<>> /\ MSHR' = Tail(MSHR) /\ inflight_writes' = inflight_writes
        /\ block' = IF w = Bypass THEN block ELSE [block EXCEPT ![w] = FillBlock(entry)]
        /\ w \in Victims(entry.type)
    BY <1>5 DEF FillFromMSHR, HandleFill
  <2>2. /\ entry = MSHR[1] /\ 1 \in 1..Len(MSHR)
        /\ Len(MSHR') = Len(MSHR) - 1
        /\ \A j \in 1..(Len(MSHR) - 1) : MSHR'[j] = MSHR[j + 1]
    BY <1>1, <2>1, HeadOfSeq
  <2>3. FillBlock(entry).block = entry.block
    BY DEF FillBlock
  <2>4. w \in Ways \/ w = Bypass
    BY <2>1, VictimIsAWay
  <2>5. \A v \in Ways : \A b : ValidIn(block', v, b) =>
          ValidIn(block, v, b) \/ (v = w /\ b = entry.block)
    <3> HIDE DEF entry
    <3> TAKE v \in Ways
    <3>1. CASE w = Bypass
      BY <2>1, <3>1
    <3>2. CASE w # Bypass /\ v = w
      <4>1. block'[v] = FillBlock(entry)
        BY <1>1, <2>1, <3>2 DEF TypeOK
      <4> QED BY <4>1, <2>3, <3>2 DEF ValidIn
    <3>3. CASE w # Bypass /\ v # w
      <4>1. block'[v] = block[v]
        BY <1>1, <2>1, <3>3 DEF TypeOK
      <4> QED BY <4>1 DEF ValidIn
    <3> QED BY <3>1, <3>2, <3>3
  <2>6. \A v \in Ways : ~ValidIn(block, v, entry.block)
    BY <1>1, <2>2 DEF OneWay
  <2>7. \A j \in 1..Len(MSHR') : \A v \in Ways : ~ValidIn(block', v, MSHR'[j].block)
    <3> TAKE j \in 1..Len(MSHR')
    <3>1. j + 1 \in 1..Len(MSHR) /\ 1 < j + 1 /\ MSHR'[j] = MSHR[j + 1]
      BY <1>1, <2>2
    <3>2. MSHR'[j].block # entry.block
      BY <1>1, <2>2, <3>1 DEF InOrder
    <3>3. \A v \in Ways : ~ValidIn(block, v, MSHR'[j].block)
      BY <1>1, <3>1 DEF OneWay
    <3> HIDE DEF entry
    <3> QED BY <2>5, <3>2, <3>3
  <2>8. \A b \in Blocks : \A u, v \in Ways :
          ValidIn(block', u, b) /\ ValidIn(block', v, b) => u = v
    <3> HIDE DEF entry
    <3> QED BY <1>1, <2>5, <2>6 DEF OneWay
  <2>9. inflight_writes' = <<>>
    BY <1>1, <2>1 DEF OneWay
  <2> QED BY <2>7, <2>8, <2>9 DEF OneWay
<1>6. ASSUME NEW k \in TagChecks, TryHit(k)
      PROVE  Goal
  <2> DEFINE entry == inflight_tag_check[k]
             w == First(WaysOf(entry.block))
             flag == block[w].dirty \/ entry.type = "WRITE"
             line == [block[w] EXCEPT !.dirty = flag]
  <2>1. block' = [block EXCEPT ![w] = line] /\ UNCHANGED <<MSHR, inflight_writes>>
    BY <1>6 DEF TryHit
  <2>2. w \in Ways /\ block[w] # Invalid
    BY <1>6, HitWay DEF TryHit, IsHit
  <2>3. line.block = block[w].block
    <3>1. block[w] \in [block : Blocks, dirty : BOOLEAN]
      BY <1>1, <2>2 DEF TypeOK
    <3> HIDE DEF flag, w
    <3> QED BY <3>1
  <2> HIDE DEF w, line
  <2>4. \A v \in Ways : \A b : ValidIn(block', v, b) => ValidIn(block, v, b)
    <3> TAKE v \in Ways
    <3>1. CASE v = w
      <4>1. block'[v] = line
        BY <1>1, <2>1, <2>2, <3>1 DEF TypeOK
      <4> QED BY <4>1, <2>2, <2>3, <3>1 DEF ValidIn
    <3>2. CASE v # w
      <4>1. block'[v] = block[v]
        BY <1>1, <2>1, <2>2, <3>2 DEF TypeOK
      <4> QED BY <4>1 DEF ValidIn
    <3> QED BY <3>1, <3>2
  <2>5. \A j \in 1..Len(MSHR') : \A v \in Ways : ~ValidIn(block, v, MSHR'[j].block)
    BY <1>1, <2>1 DEF OneWay
  <2> QED BY <1>2, <2>1, <2>4, <2>5
<1>7. ASSUME NEW k \in TagChecks, MergeMiss(k)
      PROVE  Goal
  <2>1. /\ Len(MSHR') = Len(MSHR)
        /\ \A j \in 1..Len(MSHR) : MSHR'[j].block = MSHR[j].block
    BY <1>1, <1>7, MergeKeepsBlocks
  <2>2. UNCHANGED <<block, inflight_writes>>
    BY <1>7 DEF MergeMiss
  <2>3. \A j \in 1..Len(MSHR') : \A v \in Ways : ~ValidIn(block, v, MSHR'[j].block)
    BY <1>1, <2>1 DEF OneWay
  <2> QED BY <1>2, <2>2, <2>3
<1>8. ASSUME NEW k \in TagChecks, HandleMiss(k)
      PROVE  Goal
  <2>1. \A j \in 1..Len(MSHR') :
          \/ j \in 1..Len(MSHR) /\ MSHR'[j].block = MSHR[j].block
          \/ MSHR'[j].block = inflight_tag_check[k].block
    BY <1>1, <1>8, MissAddsOne
  <2>2. UNCHANGED <<block, inflight_writes>>
    BY <1>8 DEF HandleMiss
  <2>3. \A v \in Ways : ~ValidIn(block, v, inflight_tag_check[k].block)
    BY <1>8 DEF HandleMiss, IsHit, WaysOf, ValidIn
  <2>4. \A j \in 1..Len(MSHR') : \A v \in Ways : ~ValidIn(block, v, MSHR'[j].block)
    BY <1>1, <2>1, <2>3 DEF OneWay
  <2> QED BY <1>2, <2>2, <2>4
<1>9. ASSUME NEW w \in 1..Bypass, FillFromWrites(w)
      PROVE  Goal
  BY <1>1, <1>9 DEF FillFromWrites, OneWay
<1>10. ASSUME NEW k \in TagChecks, HandleWrite(k)
       PROVE  Goal
  BY <1>10 DEF HandleWrite, IsWriteback
<1> HIDE DEF Goal
<1>11. Goal
  BY <1>3, <1>4, <1>5, <1>6, <1>7, <1>8, <1>9, <1>10
  DEF Next, Ask, Serve, IssueRead, IssueWrite, IssuePrefetch, PrefetchLine, CheckCollision,
      InitiateTagCheck, InitiatePrefetch, LowerCheck, LowerTake, LowerAnswer
<1> QED BY <1>11 DEF Goal

\* What a fill does to a cache that takes writebacks: only the block of the
\* victim is no longer kept, and it is no longer owed.
LEMMA FillKeepsWrites ==
  ASSUME TypeOK, NEW entry, NEW w \in Victims(entry.type), HandleFill(entry, w),
         NEW b \in unsaved'
  PROVE  /\ b \in unsaved
         /\ \A v \in Ways : block[v].dirty /\ block[v].block = b =>
              block'[v].dirty /\ block'[v].block = b
         /\ entry.type = "WRITE" => \E v \in Ways : block'[v].dirty /\ block'[v].block = entry.block
<1>1. /\ w \in Ways \/ (w = Bypass /\ entry.type # "WRITE")
      /\ Bypass \notin Ways
      /\ block \in [Ways -> {Invalid} \cup [block : Blocks, dirty : BOOLEAN]]
  BY VictimIsAWay DEF TypeOK
<1>2. /\ unsaved' = IF WritesBack(w) THEN unsaved \ {block[w].block} ELSE unsaved
      /\ block' = IF w = Bypass THEN block ELSE [block EXCEPT ![w] = FillBlock(entry)]
  BY DEF HandleFill
<1>3. b \in unsaved /\ (WritesBack(w) => b # block[w].block)
  BY <1>2
<1>4. ASSUME NEW v \in Ways, block[v].dirty, block[v].block = b
      PROVE  block'[v].dirty /\ block'[v].block = b
  <2>1. v # w
    BY <1>3, <1>4 DEF WritesBack
  <2> QED BY <1>1, <1>2, <1>4, <2>1
<1>5. ASSUME entry.type = "WRITE"
      PROVE  \E v \in Ways : block'[v].dirty /\ block'[v].block = entry.block
  <2>1. w \in Ways /\ block'[w] = FillBlock(entry)
    BY <1>1, <1>2, <1>5
  <2>2. FillBlock(entry).dirty /\ FillBlock(entry).block = entry.block
    BY <1>5 DEF FillBlock
  <2> QED BY <2>1, <2>2
<1> QED BY <1>3, <1>4, <1>5

\* A hit keeps the dirty blocks dirty, and a write makes its block dirty.
LEMMA HitKeepsWrites ==
  ASSUME TypeOK, NEW k \in TagChecks, TryHit(k)
  PROVE  /\ \A v \in Ways, b \in Blocks : block[v].dirty /\ block[v].block = b =>
              block'[v].dirty /\ block'[v].block = b
         /\ inflight_tag_check[k].type = "WRITE" =>
              \E v \in Ways : block'[v].dirty /\ block'[v].block = inflight_tag_check[k].block
<1> DEFINE entry == inflight_tag_check[k]
           w == First(WaysOf(entry.block))
           flag == block[w].dirty \/ entry.type = "WRITE"
           line == [block[w] EXCEPT !.dirty = flag]
<1>1. block' = [block EXCEPT ![w] = line]
  BY DEF TryHit
<1>2. w \in Ways /\ block[w] # Invalid /\ block[w].block = entry.block
  BY HitWay DEF TryHit, IsHit
<1>3. /\ line.block = block[w].block /\ line.dirty = flag
      /\ flag = (block[w].dirty \/ entry.type = "WRITE")
  <2>1. block[w] \in [block : Blocks, dirty : BOOLEAN]
    BY <1>2 DEF TypeOK
  <2> HIDE DEF flag, w
  <2>2. line.block = block[w].block /\ line.dirty = flag
    BY <2>1
  <2> QED BY <2>2 DEF flag
<1> HIDE DEF line, flag, w
<1>4. block'[w] = line /\ \A v \in Ways : v # w => block'[v] = block[v]
  BY <1>1, <1>2 DEF TypeOK
<1>5. ASSUME NEW v \in Ways, NEW b \in Blocks, block[v].dirty, block[v].block = b
      PROVE  block'[v].dirty /\ block'[v].block = b
  <2>1. CASE v = w
    BY <2>1, <1>3, <1>4, <1>5
  <2>2. CASE v # w
    BY <2>2, <1>4, <1>5
  <2> QED BY <2>1, <2>2
<1>6. ASSUME entry.type = "WRITE"
      PROVE  block'[w].dirty /\ block'[w].block = entry.block
  BY <1>2, <1>3, <1>4, <1>6
<1> QED BY <1>2, <1>5, <1>6 DEF entry

\* No step forgets a write.
LEMMA WritesKeptStep ==
  ASSUME IInv, Next, ~match_offset_bits
  PROVE  WritesKept(block', MSHR', inflight_writes', unsaved')
<1> DEFINE Goal == WritesKept(block', MSHR', inflight_writes', unsaved')
           Kept(b) == \/ \E v \in Ways : block'[v].dirty /\ block'[v].block = b
                      \/ \E j \in 1..Len(inflight_writes') : inflight_writes'[j].block = b
           NoWrites == \A j \in 1..Len(MSHR') : MSHR'[j].type # "WRITE"
<1>1. /\ TypeOK /\ InOrder(MSHR) /\ WritesKept(block, MSHR, inflight_writes, unsaved)
      /\ AnswersDue(lower, serving, MSHR) /\ unsaved \in SUBSET Blocks
      /\ MSHR \in Seq(MshrEntries) /\ Len(MSHR) \in Nat
  BY LenProperties DEF IInv, TypeOK
<1>2. /\ \A j \in 1..Len(MSHR) : MSHR[j].type # "WRITE"
      /\ \A b \in unsaved :
           \/ \E v \in Ways : block[v].dirty /\ block[v].block = b
           \/ \E j \in 1..Len(inflight_writes) : inflight_writes[j].block = b
  BY <1>1 DEF WritesKept
<1>3. ASSUME NoWrites, \A b \in unsaved' : Kept(b)
      PROVE  Goal
  BY <1>3 DEF WritesKept
<1>4. ASSUME UNCHANGED <<block, MSHR, inflight_writes, unsaved>>
      PROVE  Goal
  BY <1>1, <1>4
<1>5. ASSUME NoWrites, UNCHANGED <<block, inflight_writes, unsaved>>
      PROVE  Goal
  BY <1>2, <1>3, <1>5
<1>6. ASSUME FinishPacket
      PROVE  Goal
  <2>1. \A j \in 1..Len(MSHR') : \E k \in 1..Len(MSHR) : MSHR'[j].type = MSHR[k].type
    BY <1>1, <1>6, FinishKeepsBlocks
  <2>2. NoWrites
    BY <1>2, <2>1
  <2> HIDE DEF NoWrites
  <2> QED BY <1>5, <1>6, <2>2 DEF FinishPacket
<1>7. ASSUME NEW w \in 1..Bypass, FillFromMSHR(w)
      PROVE  Goal
  <2>1. /\ MSHR # <<>> /\ MSHR' = Tail(MSHR) /\ inflight_writes' = inflight_writes
        /\ w \in Victims(Head(MSHR).type) /\ HandleFill(Head(MSHR), w)
    BY <1>7 DEF FillFromMSHR
  <2>2. NoWrites
    <3>1. /\ Len(MSHR') = Len(MSHR) - 1
          /\ \A j \in 1..(Len(MSHR) - 1) : MSHR'[j] = MSHR[j + 1]
      BY <1>1, <2>1, HeadOfSeq
    <3> QED BY <1>1, <1>2, <3>1
  <2>3. ASSUME NEW b \in unsaved'
        PROVE  Kept(b)
    <3>1. /\ b \in unsaved
          /\ \A v \in Ways : block[v].dirty /\ block[v].block = b =>
               block'[v].dirty /\ block'[v].block = b
      BY <1>1, <2>1, FillKeepsWrites
    <3> QED BY <1>2, <2>1, <3>1
  <2> HIDE DEF NoWrites, Kept
  <2> QED BY <1>3, <2>2, <2>3
<1>8. ASSUME NEW w \in 1..Bypass, FillFromWrites(w)
      PROVE  Goal
  <2> DEFINE entry == Head(inflight_writes)
  <2>1. /\ inflight_writes \in Seq(WriteEntries) /\ inflight_writes # <<>>
        /\ inflight_writes' = Tail(inflight_writes) /\ MSHR' = MSHR
        /\ w \in Victims("WRITE") /\ HandleFill(entry, w)
    BY <1>1, <1>8 DEF FillFromWrites, TypeOK
  <2>2. /\ entry \in WriteEntries /\ entry = inflight_writes[1]
        /\ Len(inflight_writes) \in Nat
        /\ Len(inflight_writes') = Len(inflight_writes) - 1
        /\ \A j \in 1..(Len(inflight_writes) - 1) : inflight_writes'[j] = inflight_writes[j + 1]
    BY <2>1, HeadOfSeq
  <2>3. entry.type = "WRITE"
    BY <2>2 DEF WriteEntries
  <2> HIDE DEF entry
  <2>4. ASSUME NEW b \in unsaved'
        PROVE  Kept(b)
    <3>1. /\ b \in unsaved
          /\ \A v \in Ways : block[v].dirty /\ block[v].block = b =>
               block'[v].dirty /\ block'[v].block = b
          /\ \E v \in Ways : block'[v].dirty /\ block'[v].block = entry.block
      BY <1>1, <2>1, <2>3, FillKeepsWrites
    <3>2. CASE \E v \in Ways : block[v].dirty /\ block[v].block = b
      BY <3>1, <3>2
    <3>3. ASSUME NEW j \in 1..Len(inflight_writes), inflight_writes[j].block = b
          PROVE  Kept(b)
      <4>1. CASE j = 1
        BY <3>1, <3>3, <4>1, <2>2
      <4>2. CASE j # 1
        <5>1. j - 1 \in 1..(Len(inflight_writes) - 1) /\ (j - 1) + 1 = j
          BY <2>2, <4>2
        <5>2. j - 1 \in 1..Len(inflight_writes') /\ inflight_writes'[j - 1].block = b
          BY <2>2, <3>3, <5>1
        <5> QED BY <5>2
      <4> QED BY <4>1, <4>2
    <3> QED BY <1>2, <3>1, <3>2, <3>3
  <2>5. NoWrites
    BY <1>2, <2>1
  <2> HIDE DEF NoWrites, Kept
  <2> QED BY <1>3, <2>4, <2>5
<1>9. ASSUME NEW k \in TagChecks, TryHit(k)
      PROVE  Goal
  <2> DEFINE entry == inflight_tag_check[k]
  <2>1. /\ unsaved' = IF entry.type = "WRITE" THEN unsaved \cup {entry.block} ELSE unsaved
        /\ UNCHANGED <<MSHR, inflight_writes>>
    BY <1>9 DEF TryHit, Wrote
  <2>2. /\ \A v \in Ways, b \in Blocks : block[v].dirty /\ block[v].block = b =>
             block'[v].dirty /\ block'[v].block = b
        /\ entry.type = "WRITE" => \E v \in Ways : block'[v].dirty /\ block'[v].block = entry.block
    BY <1>1, <1>9, HitKeepsWrites
  <2> HIDE DEF entry
  <2>3. ASSUME NEW b \in unsaved'
        PROVE  Kept(b)
    <3>1. CASE b \in unsaved
      <4>1. b \in Blocks
        BY <1>1, <3>1
      <4> QED BY <1>2, <2>1, <2>2, <3>1, <4>1
    <3>2. CASE b \notin unsaved
      BY <2>1, <2>2, <3>2
    <3> QED BY <3>1, <3>2
  <2>4. NoWrites
    BY <1>2, <2>1
  <2> HIDE DEF NoWrites, Kept
  <2> QED BY <1>3, <2>3, <2>4
<1>10. ASSUME NEW k \in TagChecks, HandleWrite(k)
       PROVE  Goal
  <2> DEFINE entry == inflight_tag_check[k]
  <2>1. /\ unsaved' \subseteq unsaved \cup {entry.block}
        /\ inflight_writes' = Append(inflight_writes, entry)
        /\ UNCHANGED <<MSHR, block>> /\ entry.type = "WRITE"
    BY <1>10 DEF HandleWrite, Wrote, IsWriteback
  <2>2. entry \in WriteEntries /\ inflight_writes \in Seq(WriteEntries)
        /\ Len(inflight_writes) \in Nat
    BY <1>1, <2>1, TagsAt, LenProperties DEF WriteEntries, TypeOK
  <2> HIDE DEF entry
  <2>3. /\ Len(inflight_writes') = Len(inflight_writes) + 1
        /\ inflight_writes'[Len(inflight_writes) + 1] = entry
        /\ \A j \in 1..Len(inflight_writes) : inflight_writes'[j] = inflight_writes[j]
    BY <2>1, <2>2, AppendProperties
  <2>4. ASSUME NEW b \in unsaved'
        PROVE  Kept(b)
    <3>1. CASE b = entry.block
      <4>1. Len(inflight_writes) + 1 \in 1..Len(inflight_writes')
        BY <2>2, <2>3
      <4> QED BY <2>3, <3>1, <4>1
    <3>2. CASE b \in unsaved
      <4>1. 1..Len(inflight_writes) \subseteq 1..Len(inflight_writes')
        BY <2>2, <2>3
      <4> QED BY <1>2, <2>1, <2>3, <3>2, <4>1
    <3> QED BY <2>1, <3>1, <3>2
  <2>5. NoWrites
    BY <1>2, <2>1
  <2> HIDE DEF NoWrites, Kept
  <2> QED BY <1>3, <2>4, <2>5
<1>11. ASSUME NEW k \in TagChecks, MergeMiss(k)
       PROVE  Goal
  <2>1. /\ inflight_tag_check[k].type # "WRITE"
        /\ UNCHANGED <<block, inflight_writes, unsaved>>
    BY <1>11 DEF MergeMiss, IsWriteback, Wrote
  <2>2. NoWrites
    BY <1>1, <1>2, <1>11, <2>1, MergeKeepsBlocks
  <2> HIDE DEF NoWrites
  <2> QED BY <1>5, <2>1, <2>2
<1>12. ASSUME NEW k \in TagChecks, HandleMiss(k)
       PROVE  Goal
  <2>1. /\ inflight_tag_check[k].type # "WRITE"
        /\ UNCHANGED <<block, inflight_writes, unsaved>>
    BY <1>12 DEF HandleMiss, IsWriteback, Wrote
  <2>2. NoWrites
    BY <1>1, <1>2, <1>12, <2>1, MissAddsOne
  <2> HIDE DEF NoWrites
  <2> QED BY <1>5, <2>1, <2>2
<1> HIDE DEF Goal
<1>13. Goal
  BY <1>4, <1>6, <1>7, <1>8, <1>9, <1>10, <1>11, <1>12
  DEF Next, Ask, Serve, IssueRead, IssueWrite, IssuePrefetch, PrefetchLine, CheckCollision,
      InitiateTagCheck, InitiatePrefetch, LowerCheck, LowerTake, LowerAnswer
<1> QED BY <1>13 DEF Goal

----------------------------------------------------------------------------
(* The invariant *)

\* The invariant holds at first.
LEMMA InitInv ==
  Init => IInv
<1> SUFFICES ASSUME Init PROVE IInv
  OBVIOUS
<1>1. TypeOK
  <2>1. /\ upper \in UpperChannels /\ lower \in LowerChannels
    BY EmptySeq DEF Init, EmptyChannel, UpperChannels, LowerChannels
  <2>2. IsFiniteSet(serving)
    BY FS_EmptySet DEF Init
  <2> QED BY <2>1, <2>2, EmptySeq DEF Init, TypeOK
<1>2. Len(MSHR) = 0 /\ MSHR_SIZE \in Nat \ {0}
  BY EmptySeq, CacheAssumption DEF Init
<1>3. InOrder(MSHR)
  BY <1>2 DEF InOrder
<1>4. AnswersDue(lower, serving, MSHR)
  <2>1. ASSUME NEW b \in Blocks
        PROVE  Due(lower, serving, b) = Count(MSHR, WaitingFor(b))
    <3>1. Cardinality(serving \cap AnswersOf(b)) = 0
      <4>1. serving \cap AnswersOf(b) = {}
        BY DEF Init
      <4> QED BY <4>1, FS_EmptySet
    <3>2. /\ Count(lower.RQ, Wanting(b)) = 0 /\ Count(lower.PQ, Wanting(b)) = 0
          /\ Count(lower.returned, AnswersOf(b)) = 0 /\ Count(MSHR, WaitingFor(b)) = 0
      BY CountEmpty DEF Init, EmptyChannel
    <3> QED BY <3>1, <3>2 DEF Due
  <2> QED BY <2>1 DEF AnswersDue
<1>5. InOnePlace(upper, inflight_tag_check, MSHR, reads)
  <2>1. ASSUME NEW i \in Nat
        PROVE  PlacesOf(upper, inflight_tag_check, MSHR, i) = IF i \in 1..reads THEN 1 ELSE 0
    <3>1. /\ Count(upper.RQ, Holding(Reads, i)) = 0
          /\ Count(inflight_tag_check, Holding(TagEntries, i)) = 0
          /\ Count(MSHR, Holding(MshrEntries, i)) = 0
          /\ Count(upper.returned, Holding(Responses, i)) = 0
      BY CountEmpty DEF Init, EmptyChannel
    <3>2. i \notin 1..reads
      BY DEF Init
    <3> QED BY <3>1, <3>2 DEF PlacesOf
  <2> QED BY <2>1 DEF InOnePlace
<1>6. OneWay(block, MSHR, inflight_writes)
  BY <1>2 DEF OneWay, ValidIn, Init
<1>7. WritesKept(block, MSHR, inflight_writes, unsaved)
  BY <1>2 DEF WritesKept, Init
<1> QED BY <1>1, <1>3, <1>4, <1>5, <1>6, <1>7 DEF IInv

\* It is kept by every step.
LEMMA StepInv ==
  IInv /\ [Next]_vars => IInv'
<1>1. ASSUME IInv, Next
      PROVE  IInv'
  <2>1. TypeOK'
    BY <1>1, TypeStep
  <2>2. InOrder(MSHR)'
    BY <1>1, OrderStep
  <2>3. AnswersDue(lower, serving, MSHR)'
    BY <1>1, AnswersStep
  <2>4. InOnePlace(upper, inflight_tag_check, MSHR, reads)'
    BY <1>1, PlacesStep
  <2>5. match_offset_bits' => OneWay(block, MSHR, inflight_writes)'
    BY <1>1, OffsetsStay, OneWayStep
  <2>6. ~match_offset_bits' => WritesKept(block, MSHR, inflight_writes, unsaved)'
    BY <1>1, OffsetsStay, WritesKeptStep
  <2> QED BY <2>1, <2>2, <2>3, <2>4, <2>5, <2>6 DEF IInv
<1>2. ASSUME IInv, UNCHANGED vars
      PROVE  IInv'
  BY <1>2 DEF vars, counts, IInv, TypeOK, InOrder, AnswersDue, Due, InOnePlace, PlacesOf,
              OneWay, ValidIn, WritesKept, Ways
<1> QED BY <1>1, <1>2

\* The inductive invariant holds in every reachable state.
THEOREM Invariance ==
  Spec => []IInv
<1>1. Init => IInv
  BY InitInv
<1>2. IInv /\ [Next]_vars => IInv'
  BY StepInv
<1> QED BY <1>1, <1>2, PTL DEF Spec

\* What finish_packet (cache.cc) asserts and what its exchange of entries needs:
\* however requests are merged and forwarded on the way down, every answer that
\* is due finds one entry of its block, still waiting; no entry waits for
\* nothing; and the entries that have returned come first.
THEOREM EveryMissIsAnsweredOnce ==
  Spec => []OneAnswerPerMSHR
<1>1. ASSUME IInv
      PROVE  OneAnswerPerMSHR
  <2>1. /\ TypeOK /\ InOrder(MSHR) /\ AnswersDue(lower, serving, MSHR)
        /\ MSHR \in Seq(MshrEntries)
        /\ \A k \in 1..Len(MSHR) : MSHR[k] \in MshrEntries
        /\ lower.RQ \in Seq(ReadsBelow) /\ lower.PQ \in Seq(ReadsBelow)
        /\ lower.returned \in Seq(Responses) /\ serving \in SUBSET Responses
    BY <1>1, ElementOfSeq DEF IInv, TypeOK, LowerChannels
  <2>2. ASSUME NEW b \in Blocks
        PROVE  Expected(b) = Cardinality(EntriesFor(b) \cap Unreturned)
    <3>1. ASSUME NEW queue \in Seq(ReadsBelow)
          PROVE  {k \in 1..Len(queue) : Block(queue[k].address) = b
                                        /\ queue[k].response_requested}
                   = {k \in 1..Len(queue) : queue[k] \in Wanting(b)}
      <4>1. \A k \in 1..Len(queue) : queue[k] \in ReadsBelow
        BY ElementOfSeq
      <4> QED BY <4>1 DEF Wanting
    <3>2. {k \in 1..Len(lower.returned) : lower.returned[k].block = b}
            = {k \in 1..Len(lower.returned) : lower.returned[k] \in AnswersOf(b)}
      <4>1. \A k \in 1..Len(lower.returned) : lower.returned[k] \in Responses
        BY <2>1, ElementOfSeq
      <4> QED BY <4>1 DEF AnswersOf
    <3>3. {r \in serving : r.block = b} = serving \cap AnswersOf(b)
      BY <2>1 DEF AnswersOf
    <3>4. EntriesFor(b) \cap Unreturned = {k \in 1..Len(MSHR) : MSHR[k] \in WaitingFor(b)}
      BY <2>1 DEF EntriesFor, Unreturned, WaitingFor
    <3>5. Expected(b) = Due(lower, serving, b)
      BY <2>1, <3>1, <3>2, <3>3 DEF Expected, Due, Count
    <3> QED BY <2>1, <3>4, <3>5 DEF AnswersDue, Count
  <2>3. OneAnswerDue
    BY <2>2 DEF OneAnswerDue
  <2>4. ReturnedFirst
    BY <2>1 DEF ReturnedFirst, InOrder
  <2> QED BY <2>3, <2>4 DEF OneAnswerPerMSHR
<1> QED BY <1>1, Invariance, PTL

\* Every read that the level above has sent waits in one place: in its queue, at
\* the tags, in an MSHR that will answer it, or in an answer.  No merge, hit,
\* fill or forwarding (channel.cc, cache.cc) loses a read or answers it twice.
THEOREM ReadsAreAnsweredOnce ==
  Spec => []EveryReadAnsweredOnce
<1>1. ASSUME IInv
      PROVE  EveryReadAnsweredOnce
  <2>1. /\ TypeOK /\ InOnePlace(upper, inflight_tag_check, MSHR, reads)
        /\ reads \in Nat
        /\ upper.RQ \in Seq(Reads) /\ inflight_tag_check \in Seq(TagEntries)
        /\ MSHR \in Seq(MshrEntries) /\ upper.returned \in Seq(Responses)
    BY <1>1 DEF IInv, TypeOK, UpperChannels
  <2>2. ASSUME NEW S, NEW s \in Seq(S), NEW i
        PROVE  WaitsIn(s, i) = Count(s, Holding(S, i))
    <3>1. \A k \in 1..Len(s) : s[k] \in S
      BY ElementOfSeq
    <3>2. {k \in 1..Len(s) : i \in s[k].instr_depend_on_me}
            = {k \in 1..Len(s) : s[k] \in Holding(S, i)}
      BY <3>1 DEF Holding
    <3> QED BY <3>2 DEF WaitsIn, Count
  <2>3. ASSUME NEW i \in 1..reads
        PROVE  /\ WaitsIn(upper.RQ, i) + WaitsIn(inflight_tag_check, i) + WaitsIn(MSHR, i)
                    + WaitsIn(upper.returned, i) = 1
               /\ \A k \in 1..Len(MSHR) : i \in MSHR[k].instr_depend_on_me => MSHR[k].to_return
    <3>1. i \in Nat
      BY <2>1
    <3>2. PlacesOf(upper, inflight_tag_check, MSHR, i) = 1
      BY <2>1, <3>1 DEF InOnePlace
    <3>3. /\ WaitsIn(upper.RQ, i) = Count(upper.RQ, Holding(Reads, i))
          /\ WaitsIn(inflight_tag_check, i) = Count(inflight_tag_check, Holding(TagEntries, i))
          /\ WaitsIn(MSHR, i) = Count(MSHR, Holding(MshrEntries, i))
          /\ WaitsIn(upper.returned, i) = Count(upper.returned, Holding(Responses, i))
      BY <2>1, <2>2
    <3>4. \A k \in 1..Len(MSHR) : i \in MSHR[k].instr_depend_on_me => MSHR[k].to_return
      <4>1. \A k \in 1..Len(MSHR) : MSHR[k] \in MshrEntries
        BY <2>1, ElementOfSeq
      <4> QED BY <4>1 DEF MshrEntries
    <3> QED BY <3>2, <3>3, <3>4 DEF PlacesOf
  <2> QED BY <2>3 DEF EveryReadAnsweredOnce
<1> QED BY <1>1, Invariance, PTL

\* In a cache that takes writebacks, a block that was written and not written
\* back since is dirty in a way or on its way to one; in L1D a block is in one
\* way, so that a store and the reads after it find the same copy.
THEOREM WritesAreNotLost ==
  Spec => []WrittenBlocksAreDirty
<1>1. ASSUME IInv
      PROVE  WrittenBlocksAreDirty
  <2>1. TypeOK
    BY <1>1 DEF IInv
  <2>2. ASSUME ~match_offset_bits, NEW b \in unsaved
        PROVE  Saved(b)
    <3>1. \/ \E w \in Ways : block[w].dirty /\ block[w].block = b
          \/ \E k \in 1..Len(inflight_writes) : inflight_writes[k].block = b
      BY <1>1, <2>2 DEF IInv, WritesKept
    <3>2. \A w \in Ways : block[w].dirty => block[w] # Invalid
      BY DEF Invalid
    <3> QED BY <3>1, <3>2 DEF Saved, WaysOf
  <2>3. ASSUME match_offset_bits, NEW b \in Blocks
        PROVE  Cardinality(WaysOf(b)) <= 1
    <3>1. \A v, w \in WaysOf(b) : v = w
      BY <1>1, <2>3 DEF IInv, OneWay, ValidIn, WaysOf
    <3>2. CASE WaysOf(b) = {}
      BY <3>2, FS_EmptySet
    <3>3. CASE WaysOf(b) # {}
      <4>1. PICK v \in WaysOf(b) : TRUE
        BY <3>3
      <4>2. WaysOf(b) = {v}
        BY <3>1, <4>1
      <4>3. Cardinality({v}) = 1
        BY FS_Singleton
      <4> QED BY <4>2, <4>3
    <3> QED BY <3>2, <3>3
  <2> QED BY <2>2, <2>3 DEF WrittenBlocksAreDirty
<1> QED BY <1>1, Invariance, PTL
----------------------------------------------------------------------------
(* The replacement policies. *)

\* A policy has all of its fields, and these are what the victims depend on.
Fielded(p) ==
  p = [kind |-> p.kind, caller |-> p.caller, rand_sets |-> p.rand_sets, rrpv |-> p.rrpv,
       last_used |-> p.last_used, cycle |-> p.cycle, bip |-> p.bip, PSEL |-> p.PSEL,
       SHCT |-> p.SHCT, access_count |-> p.access_count, sampler |-> p.sampler,
       valid |-> p.valid, use |-> p.use, since |-> p.since, filled |-> p.filled]

UseKinds == {"none", "read", "written"}

PolicyTyped(p) ==
  /\ Fielded(p) /\ p.kind \in Kinds
  /\ p.rrpv \in [PolicySets -> [PolicyWays -> 0..maxRRPV]]
  /\ p.last_used \in [PolicySets -> [PolicyWays -> Nat]] /\ p.cycle \in Nat
  /\ p.valid \in [PolicySets -> SUBSET PolicyWays]
  /\ p.use \in [PolicySets -> [PolicyWays -> UseKinds]]
  /\ p.since \in [PolicySets -> [PolicyWays -> SUBSET PolicyWays]]

Rrip(p) == p.kind \in {"srrip", "drrip", "ship"}

\* A way that was read is at zero, and one that was filled or raised is above.
Stands(use, rrpv) == (use = "read" => rrpv = 0) /\ (use = "none" => rrpv > 0)
Standing(p) ==
  Rrip(p) => \A s \in PolicySets, w \in PolicyWays : Stands(p.use[s][w], p.rrpv[s][w])

\* The times of LRU are in the order of use.
LruOrder(p) ==
  p.kind = "lru" =>
    \A s \in PolicySets : \A w \in p.valid[s] :
      /\ p.last_used[s][w] < p.cycle
      /\ \A v \in p.valid[s] \ {w} :
           /\ p.last_used[s][v] # p.last_used[s][w]
           /\ w \in p.since[s][v] <=> p.last_used[s][v] < p.last_used[s][w]

PolicyInv(p) == PolicyTyped(p) /\ Standing(p) /\ LruOrder(p)

\* What an update may change is one counter, and what only the policy looks at.
Alike(p, q) ==
  /\ Fielded(q) /\ q.kind = p.kind /\ q.caller = p.caller /\ q.rand_sets = p.rand_sets
  /\ q.last_used = p.last_used /\ q.cycle = p.cycle
  /\ q.valid = p.valid /\ q.use = p.use /\ q.since = p.since
Rewritten(p, q, s, w, V) ==
  Alike(p, q) /\ \E v \in V : q.rrpv = [p.rrpv EXCEPT ![s][w] = v]

Quiet(p, q) == Alike(p, q) /\ q.rrpv = p.rrpv

LEMMA SetRewrites ==
  ASSUME NEW p, Fielded(p), NEW s, NEW w, NEW V, NEW v \in V
  PROVE  Rewritten(p, SetRRPV(p, s, w, v), s, w, V)
BY DEF Rewritten, Alike, Fielded, SetRRPV

LEMMA QuietChanges ==
  ASSUME NEW p, NEW q, Quiet(p, q), NEW x
  PROVE  /\ Quiet(p, [q EXCEPT !.PSEL = x]) /\ Quiet(p, [q EXCEPT !.SHCT = x])
         /\ Quiet(p, [q EXCEPT !.access_count = x]) /\ Quiet(p, [q EXCEPT !.sampler = x])
<1> USE DEF Quiet, Alike
<1>1. Quiet(p, [q EXCEPT !.PSEL = x])
  BY DEF Fielded
<1>2. Quiet(p, [q EXCEPT !.SHCT = x])
  BY DEF Fielded
<1>3. Quiet(p, [q EXCEPT !.access_count = x])
  BY DEF Fielded
<1>4. Quiet(p, [q EXCEPT !.sampler = x])
  BY DEF Fielded
<1> QED BY <1>1, <1>2, <1>3, <1>4

LEMMA BipRewrites ==
  ASSUME NEW p, Fielded(p), NEW s, NEW w
  PROVE  Rewritten(p, update_bip(p, s, w), s, w, 1..maxRRPV)
<1> USE ReplacementAssumption
<1> DEFINE q(v) == SetRRPV(p, s, w, v)
           A == [q(maxRRPV - 1) EXCEPT !.bip = 0]
           b == q(maxRRPV).bip
           B == [q(maxRRPV) EXCEPT !.bip = IF b < BIP_MAX THEN b + 1 ELSE b]
<1>1. maxRRPV \in 1..maxRRPV /\ maxRRPV - 1 \in 1..maxRRPV
  BY DEF ReplacementAssumption
<1>2. Rewritten(p, q(maxRRPV), s, w, 1..maxRRPV) /\ Rewritten(p, q(maxRRPV - 1), s, w, 1..maxRRPV)
  BY <1>1, SetRewrites
<1>3. ASSUME NEW r, Rewritten(p, r, s, w, 1..maxRRPV), NEW x
      PROVE  Rewritten(p, [r EXCEPT !.bip = x], s, w, 1..maxRRPV)
  BY <1>3 DEF Rewritten, Alike, Fielded
<1>4. update_bip(p, s, w) = A \/ update_bip(p, s, w) = B
  BY DEF update_bip
<1> HIDE DEF q, b
<1>5. Rewritten(p, A, s, w, 1..maxRRPV) /\ Rewritten(p, B, s, w, 1..maxRRPV)
  BY ONLY <1>2, <1>3
<1> HIDE DEF A, B
<1> QED BY <1>4, <1>5

LEMMA SrripRewrites ==
  ASSUME NEW p, Fielded(p), NEW s, NEW w
  PROVE  Rewritten(p, update_srrip(p, s, w), s, w, 1..maxRRPV)
<1> USE ReplacementAssumption
<1>1. maxRRPV - 1 \in 1..maxRRPV
  BY DEF ReplacementAssumption
<1> QED BY <1>1, SetRewrites DEF update_srrip

LEMMA RewrittenAfter ==
  ASSUME NEW p, NEW q, Alike(p, q), q.rrpv = p.rrpv, NEW r, NEW s, NEW w, NEW V,
         Rewritten(q, r, s, w, V)
  PROVE  Rewritten(p, r, s, w, V)
BY DEF Rewritten, Alike

\* A miss is inserted above zero, but where a set leads for nothing.
LEMMA DrripMisses ==
  ASSUME NEW p, Fielded(p), NEW s, NEW w
  PROVE  IF Idles(p, s) THEN DrripMiss(p, s, w) = p
         ELSE Rewritten(p, DrripMiss(p, s, w), s, w, 1..maxRRPV)
<1> USE ReplacementAssumption
<1>1. ASSUME NEW x
      PROVE  LET q == [p EXCEPT !.PSEL = x] IN Fielded(q) /\ Alike(p, q) /\ q.rrpv = p.rrpv
  BY DEF Alike, Fielded
<1>2. ASSUME NEW x
      PROVE  LET q == [p EXCEPT !.PSEL = x]
             IN  /\ Rewritten(p, update_bip(q, s, w), s, w, 1..maxRRPV)
                 /\ Rewritten(p, update_srrip(q, s, w), s, w, 1..maxRRPV)
  <2> DEFINE q == [p EXCEPT !.PSEL = x]
  <2>1. Fielded(q) /\ Alike(p, q) /\ q.rrpv = p.rrpv
    BY <1>1
  <2> HIDE DEF q
  <2>2. /\ Rewritten(q, update_bip(q, s, w), s, w, 1..maxRRPV)
        /\ Rewritten(q, update_srrip(q, s, w), s, w, 1..maxRRPV)
    BY <2>1, BipRewrites, SrripRewrites
  <2> QED BY <2>1, <2>2, RewrittenAfter DEF q
<1>3. CASE Leaders(p, s) = {}
  BY <1>3, BipRewrites, SrripRewrites DEF DrripMiss, Idles
<1>4. CASE Leaders(p, s) # {} /\ Idles(p, s)
  BY <1>4 DEF DrripMiss
<1>5. CASE Leaders(p, s) # {} /\ ~Idles(p, s)
  <2>1. DrripMiss(p, s, w) =
          IF Min(Leaders(p, s)) = 1
          THEN update_bip([p EXCEPT !.PSEL = Sub(@, 1, PSEL_MAX)], s, w)
          ELSE update_srrip([p EXCEPT !.PSEL = Add(@, 1, PSEL_MAX)], s, w)
    BY <1>5 DEF DrripMiss
  <2> QED BY <1>2, <1>5, <2>1
<1> QED BY <1>3, <1>4, <1>5

LEMMA SampledAlike ==
  ASSUME NEW p, Fielded(p), NEW s, NEW access
  PROVE  Quiet(p, Sampled(p, s, access))
<1> DEFINE q == [p EXCEPT !.access_count = @ + 1]
<1>1. Quiet(p, p) /\ Quiet(p, q)
  <2>1. Quiet(p, p)
    BY DEF Quiet, Alike
  <2> QED BY <2>1, QuietChanges
<1> HIDE DEF q
<1>2. ASSUME NEW x, NEW y PROVE Quiet(p, [q EXCEPT !.SHCT = x, !.sampler = y])
  BY <1>1, QuietChanges
<1>3. Sampled(p, s, access) = p \/
        \E x, y : Sampled(p, s, access) = [q EXCEPT !.SHCT = x, !.sampler = y]
  BY Zenon DEF Sampled, q
<1> DEFINE r == Sampled(p, s, access)
<1> HIDE DEF r
<1>4. r = p \/ \E x, y : r = [q EXCEPT !.SHCT = x, !.sampler = y]
  BY <1>3 DEF r
<1>5. Quiet(p, r)
  <2>1. CASE r = p
    BY <1>1, <2>1
  <2>2. CASE \E x, y : r = [q EXCEPT !.SHCT = x, !.sampler = y]
    <3>1. PICK x, y : r = [q EXCEPT !.SHCT = x, !.sampler = y]
      BY <2>2
    <3>2. Quiet(p, [q EXCEPT !.SHCT = x, !.sampler = y])
      BY <1>2
    <3> QED BY ONLY <3>1, <3>2, Zenon
  <2> QED BY <1>4, <2>1, <2>2
<1> QED BY <1>5 DEF r

LEMMA ShipRewrites ==
  ASSUME NEW p, PolicyTyped(p), NEW s \in PolicySets,
         NEW w \in PolicyWays, NEW access, NEW hit \in BOOLEAN
  PROVE  Rewritten(p, ShipUpdate(p, s, w, access, hit), s, w,
                   IF hit THEN IF access.type = "WRITE" THEN 0..maxRRPV ELSE {0}
                   ELSE 1..maxRRPV)
<1> USE ReplacementAssumption
<1>1. Fielded(p) /\ maxRRPV \in 1..maxRRPV /\ maxRRPV - 1 \in 1..maxRRPV
  BY DEF ReplacementAssumption, PolicyTyped
<1>2. Rewritten(p, p, s, w, 0..maxRRPV)
  <2>1. p.rrpv[s][w] \in 0..maxRRPV /\ p.rrpv = [p.rrpv EXCEPT ![s][w] = p.rrpv[s][w]]
    BY DEF PolicyTyped
  <2>2. Alike(p, p)
    BY DEF Alike, PolicyTyped
  <2> QED BY <2>1, <2>2 DEF Rewritten
<1>3. CASE access.type = "WRITE"
  BY <1>1, <1>2, <1>3, SetRewrites DEF ShipUpdate
<1>4. CASE access.type # "WRITE"
  <2> DEFINE q == Sampled(p, s, access)
             v == IF hit THEN 0 ELSE IF q.SHCT[access.ip] = SHCT_MAX THEN maxRRPV ELSE maxRRPV - 1
  <2>1. Fielded(q) /\ Alike(p, q) /\ q.rrpv = p.rrpv
    BY <1>1, SampledAlike DEF Quiet, Alike
  <2>2. ShipUpdate(p, s, w, access, hit) = SetRRPV(q, s, w, v)
    BY <1>4 DEF ShipUpdate
  <2>3. v \in IF hit THEN {0} ELSE 1..maxRRPV
    BY <1>1
  <2> HIDE DEF q, v
  <2>4. Rewritten(q, SetRRPV(q, s, w, v), s, w, IF hit THEN {0} ELSE 1..maxRRPV)
    BY <2>1, <2>3, SetRewrites
  <2> QED BY <1>4, <2>1, <2>2, <2>4, RewrittenAfter
<1> QED BY <1>3, <1>4

\* What a hit and a fill do to the counter of the way.
LEMMA UpdateRewrites ==
  ASSUME NEW p, PolicyTyped(p), Rrip(p), NEW s \in PolicySets,
         NEW w \in PolicyWays, NEW access, NEW hit \in BOOLEAN
  PROVE  LET q == update_replacement_state(p, s, w, access, hit)
         IN  IF hit THEN Rewritten(p, q, s, w, IF access.type = "WRITE" THEN 0..maxRRPV ELSE {0})
             ELSE IF p.kind = "drrip" /\ access.type # "WRITE" /\ Idles(p, s) THEN q = p
             ELSE Rewritten(p, q, s, w, 1..maxRRPV)
<1> USE ReplacementAssumption
<1> DEFINE q == update_replacement_state(p, s, w, access, hit)
           V == IF hit THEN IF access.type = "WRITE" THEN 0..maxRRPV ELSE {0} ELSE 1..maxRRPV
<1>1. /\ Fielded(p) /\ maxRRPV - 1 \in 1..maxRRPV /\ maxRRPV - 1 \in 0..maxRRPV
      /\ 0 \in 0..maxRRPV
  BY DEF ReplacementAssumption, PolicyTyped
<1>2. CASE p.kind = "srrip"
  <2>1. q = SetRRPV(p, s, w, IF hit THEN 0 ELSE maxRRPV - 1)
    BY <1>2 DEF update_replacement_state, HitRRPV
  <2>2. (IF hit THEN 0 ELSE maxRRPV - 1) \in V
    BY <1>1
  <2>3. Rewritten(p, q, s, w, V)
    BY ONLY <1>1, <2>1, <2>2, SetRewrites
  <2> QED BY <1>2, <2>3
<1>3. CASE p.kind = "drrip"
  <2>1. q = IF access.type = "WRITE" THEN SetRRPV(p, s, w, maxRRPV - 1)
            ELSE IF hit THEN SetRRPV(p, s, w, 0)
            ELSE DrripMiss(p, s, w)
    BY <1>3 DEF update_replacement_state, HitRRPV
  <2>2. CASE access.type = "WRITE"
    <3>1. maxRRPV - 1 \in V
      BY <1>1, <2>2
    <3>2. Rewritten(p, SetRRPV(p, s, w, maxRRPV - 1), s, w, V)
      BY ONLY <1>1, <3>1, SetRewrites
    <3> QED BY <2>1, <2>2, <3>2
  <2>3. CASE access.type # "WRITE" /\ hit
    <3>1. Rewritten(p, SetRRPV(p, s, w, 0), s, w, {0})
      BY <1>1, SetRewrites
    <3> QED BY <2>1, <2>3, <3>1
  <2>4. CASE access.type # "WRITE" /\ ~hit
    BY <1>1, <1>3, <2>1, <2>4, DrripMisses
  <2> QED BY <2>2, <2>3, <2>4
<1>4. CASE p.kind = "ship"
  <2>1. q = ShipUpdate(p, s, w, access, hit)
    BY <1>4 DEF update_replacement_state
  <2> QED BY <1>4, <2>1, ShipRewrites
<1> QED BY <1>2, <1>3, <1>4 DEF Rrip

\* The victim is a way, and the raise of the others keeps their standing.
LEMMA LeastIn ==
  ASSUME NEW S \in SUBSET Nat, S # {}
  PROVE  Min(S) \in S /\ \A y \in S : Min(S) <= y
<1>1. \E x \in S : \A y \in S : x <= y
  BY LeastExists
<1> QED BY <1>1 DEF Min

LEMMA Extremes ==
  ASSUME NEW f \in [PolicyWays -> Nat]
  PROVE  \E w \in PolicyWays : \A v \in PolicyWays : f[w] <= f[v]
<1> USE ReplacementAssumption
<1> DEFINE S == {f[w] : w \in PolicyWays}
<1>1. S \in SUBSET Nat /\ S # {}
  BY DEF ReplacementAssumption, PolicyWays
<1>2. PICK x \in S : \A y \in S : x <= y
  BY ONLY <1>1, LeastExists
<1> QED BY <1>2

LEMMA GreatestIn ==
  ASSUME NEW p, PolicyTyped(p), NEW s \in PolicySets
  PROVE  LET g == Min(Greatest(p, s))
         IN  g \in PolicyWays /\ \A v \in PolicyWays : p.rrpv[s][v] <= p.rrpv[s][g]
<1> USE ReplacementAssumption
<1> DEFINE f == [w \in PolicyWays |-> maxRRPV - p.rrpv[s][w]]
<1>1. \A w \in PolicyWays : p.rrpv[s][w] \in 0..maxRRPV
  BY DEF PolicyTyped
<1>2. f \in [PolicyWays -> Nat] /\ maxRRPV \in Nat
  BY <1>1 DEF ReplacementAssumption
<1>3. PICK w \in PolicyWays : \A v \in PolicyWays : f[w] <= f[v]
  BY <1>2, Extremes
<1>4. w \in Greatest(p, s)
  BY <1>1, <1>2, <1>3 DEF Greatest
<1>5. Greatest(p, s) \in SUBSET Nat
  BY DEF Greatest, PolicyWays
<1>6. Min(Greatest(p, s)) \in Greatest(p, s)
  BY <1>4, <1>5, LeastIn
<1> QED BY <1>6 DEF Greatest

LEMMA LruVictim ==
  ASSUME NEW p, PolicyTyped(p), NEW s \in PolicySets,
         NEW w \in PolicyVictims(p, s), p.kind = "lru"
  PROVE  w \in PolicyWays /\ \A v \in PolicyWays : p.last_used[s][w] <= p.last_used[s][v]
<1> USE ReplacementAssumption
<1> DEFINE S == {u \in PolicyWays : \A v \in PolicyWays : p.last_used[s][u] <= p.last_used[s][v]}
<1>1. p.last_used[s] \in [PolicyWays -> Nat]
  BY DEF PolicyTyped
<1>2. S # {}
  BY <1>1, Extremes
<1>3. S \in SUBSET Nat
  BY DEF PolicyWays
<1>4. w = Min(S)
  BY DEF PolicyVictims
<1>5. w \in S
  BY ONLY <1>2, <1>3, <1>4, LeastIn
<1> QED BY <1>5

LEMMA VictimIsWay ==
  ASSUME NEW p, PolicyTyped(p), NEW s \in PolicySets,
         NEW w \in PolicyVictims(p, s)
  PROVE  w \in PolicyWays
<1> USE ReplacementAssumption
<1>1. CASE p.kind = "lru"
  BY <1>1, LruVictim
<1>2. CASE p.kind = "random"
  <2>1. PolicyWays \in SUBSET Nat /\ PolicyWays # {}
    BY DEF PolicyWays, ReplacementAssumption
  <2>2. Min(PolicyWays) \in PolicyWays
    BY ONLY <2>1, LeastIn
  <2> QED BY <1>2, <2>2 DEF PolicyVictims, RandomVictims
<1>3. CASE p.kind \notin {"lru", "random"}
  BY <1>3, GreatestIn DEF PolicyVictims
<1> QED BY <1>1, <1>2, <1>3

LEMMA Rising ==
  ASSUME NEW p, PolicyInv(p), NEW s \in PolicySets
  PROVE  LET q == Raised(p, s)
         IN  /\ PolicyInv(q) /\ q.kind = p.kind /\ q.valid = p.valid
             /\ q.caller = p.caller /\ q.rand_sets = p.rand_sets
             /\ p.kind = "lru" => q = p
             /\ \A v, w \in PolicyWays :
                  q.rrpv[s][v] <= q.rrpv[s][w] <=> p.rrpv[s][v] <= p.rrpv[s][w]
<1> USE ReplacementAssumption
<1> DEFINE g == Min(Greatest(p, s))
           diff == maxRRPV - p.rrpv[s][g]
           q == [p EXCEPT !.rrpv[s] = [w \in PolicyWays |-> @[w] + diff],
                          !.use[s] = [w \in PolicyWays |-> "none"]]
<1>1. Raised(p, s) = IF p.kind \in {"lru", "random"} \/ diff = 0 THEN p ELSE q
  BY DEF Raised
<1>2. CASE p.kind \in {"lru", "random"} \/ diff = 0
  BY <1>1, <1>2
<1>3. CASE ~(p.kind \in {"lru", "random"} \/ diff = 0)
  <2>1. g \in PolicyWays /\ \A v \in PolicyWays : p.rrpv[s][v] <= p.rrpv[s][g]
    BY GreatestIn DEF PolicyInv
  <2>2. \A t \in PolicySets, v \in PolicyWays : p.rrpv[t][v] \in 0..maxRRPV
    BY DEF PolicyInv, PolicyTyped
  <2>3. diff \in Nat \ {0} /\ maxRRPV \in Nat
    BY <1>3, <2>1, <2>2 DEF ReplacementAssumption
  <2>4. \A v \in PolicyWays : p.rrpv[s][v] + diff \in 1..maxRRPV
    BY <2>1, <2>2, <2>3
  <2> HIDE DEF g
  <2> DEFINE a == [p EXCEPT !.rrpv[s] = [w \in PolicyWays |-> @[w] + diff]]
  <2>5. /\ Fielded(a)
        /\ a.rrpv = [p.rrpv EXCEPT ![s] = [w \in PolicyWays |-> p.rrpv[s][w] + diff]]
        /\ a.use = p.use /\ a.kind = p.kind /\ a.caller = p.caller /\ a.rand_sets = p.rand_sets
        /\ a.last_used = p.last_used /\ a.cycle = p.cycle /\ a.valid = p.valid
        /\ a.since = p.since
    <3>1. Fielded(p)
      BY DEF PolicyInv, PolicyTyped
    <3> HIDE DEF diff
    <3> QED BY ONLY <3>1 DEF Fielded, a
  <2>6. q = [a EXCEPT !.use[s] = [w \in PolicyWays |-> "none"]]
    OBVIOUS
  <2> HIDE DEF q, a, diff
  <2>7. /\ Fielded(q)
        /\ q.rrpv = [p.rrpv EXCEPT ![s] = [w \in PolicyWays |-> p.rrpv[s][w] + diff]]
        /\ q.use = [p.use EXCEPT ![s] = [w \in PolicyWays |-> "none"]]
        /\ q.kind = p.kind /\ q.caller = p.caller /\ q.rand_sets = p.rand_sets
        /\ q.last_used = p.last_used /\ q.cycle = p.cycle /\ q.valid = p.valid
        /\ q.since = p.since
    BY <2>5, <2>6 DEF Fielded
  <2>8. /\ q.rrpv \in [PolicySets -> [PolicyWays -> 0..maxRRPV]]
        /\ q.use \in [PolicySets -> [PolicyWays -> UseKinds]]
    <3>1. [w \in PolicyWays |-> p.rrpv[s][w] + diff] \in [PolicyWays -> 0..maxRRPV]
      BY <2>3, <2>4
    <3>2. [w \in PolicyWays |-> "none"] \in [PolicyWays -> UseKinds]
      BY DEF UseKinds
    <3> QED BY <2>7, <3>1, <3>2 DEF PolicyInv, PolicyTyped
  <2>9. PolicyTyped(q)
    BY <2>7, <2>8 DEF PolicyInv, PolicyTyped
  <2>10. ASSUME NEW t \in PolicySets, NEW w \in PolicyWays, Rrip(q)
        PROVE  Stands(q.use[t][w], q.rrpv[t][w])
    <3>1. CASE t = s
      <4>1. q.use[t][w] = "none" /\ q.rrpv[t][w] = p.rrpv[s][w] + diff
        BY <2>7, <3>1 DEF PolicyInv, PolicyTyped
      <4> QED BY <2>2, <2>3, <2>4, <4>1 DEF Stands
    <3>2. CASE t # s
      <4>1. q.use[t][w] = p.use[t][w] /\ q.rrpv[t][w] = p.rrpv[t][w]
        BY <2>7, <3>2 DEF PolicyInv, PolicyTyped
      <4> QED BY <2>7, <2>10, <4>1 DEF PolicyInv, Standing, Rrip
    <3> QED BY <3>1, <3>2
  <2>11. Standing(q) /\ LruOrder(q)
    BY <1>3, <2>7, <2>10 DEF Standing, LruOrder
  <2>12. ASSUME NEW v \in PolicyWays, NEW w \in PolicyWays
         PROVE  q.rrpv[s][v] <= q.rrpv[s][w] <=> p.rrpv[s][v] <= p.rrpv[s][w]
    <3>1. q.rrpv[s][v] = p.rrpv[s][v] + diff /\ q.rrpv[s][w] = p.rrpv[s][w] + diff
      BY <2>7 DEF PolicyInv, PolicyTyped
    <3>2. p.rrpv[s][v] \in Int /\ p.rrpv[s][w] \in Int /\ diff \in Int
      BY <2>2, <2>3
    <3> QED BY ONLY <3>1, <3>2
  <2> QED BY <1>1, <1>3, <2>7, <2>9, <2>11, <2>12 DEF PolicyInv
<1> QED BY <1>2, <1>3

CounterMoved(p, r, s, w, v, use) ==
  /\ Fielded(r) /\ r.kind = p.kind /\ r.last_used = p.last_used /\ r.cycle = p.cycle
  /\ r.since = p.since /\ r.valid \in [PolicySets -> SUBSET PolicyWays]
  /\ r.rrpv = [p.rrpv EXCEPT ![s][w] = v] /\ r.use = [p.use EXCEPT ![s][w] = use]
  /\ Rrip(p) => Stands(use, v)

\* A step of a policy without times that sets a counter and the history with it.
LEMMA CounterStep ==
  ASSUME NEW p, PolicyInv(p), p.kind # "lru", NEW s \in PolicySets, NEW w \in PolicyWays,
         NEW v \in 0..maxRRPV, NEW use \in UseKinds, NEW r, CounterMoved(p, r, s, w, v, use)
  PROVE  PolicyInv(r)
<1>1. /\ p.rrpv \in [PolicySets -> [PolicyWays -> 0..maxRRPV]]
      /\ p.use \in [PolicySets -> [PolicyWays -> UseKinds]]
  BY DEF PolicyInv, PolicyTyped
<1>2. /\ r.rrpv \in [PolicySets -> [PolicyWays -> 0..maxRRPV]]
      /\ r.use \in [PolicySets -> [PolicyWays -> UseKinds]]
  BY <1>1 DEF CounterMoved
<1>3. PolicyTyped(r)
  BY <1>2 DEF PolicyInv, PolicyTyped, CounterMoved
<1>4. ASSUME NEW t \in PolicySets, NEW u \in PolicyWays, Rrip(r)
      PROVE  Stands(r.use[t][u], r.rrpv[t][u])
  <2>1. /\ r.use[t][u] = IF t = s /\ u = w THEN use ELSE p.use[t][u]
        /\ r.rrpv[t][u] = IF t = s /\ u = w THEN v ELSE p.rrpv[t][u]
    BY <1>1 DEF CounterMoved
  <2>2. Rrip(p)
    BY <1>4 DEF Rrip, CounterMoved
  <2> QED BY <2>1, <2>2 DEF PolicyInv, Standing, CounterMoved
<1> QED BY <1>3, <1>4 DEF PolicyInv, Standing, LruOrder, CounterMoved

\* A use under LRU is later than all the others.
LEMMA LruStep ==
  ASSUME NEW p, PolicyInv(p), p.kind = "lru", NEW r, Fielded(r), r.kind = "lru",
         NEW s \in PolicySets, NEW w \in PolicyWays, r.rrpv = p.rrpv,
         r.use \in [PolicySets -> [PolicyWays -> UseKinds]],
         r.last_used = [p.last_used EXCEPT ![s][w] = p.cycle], r.cycle = p.cycle + 1,
         r.since = [p.since EXCEPT ![s] = [v \in PolicyWays |->
                      IF v = w THEN {} ELSE p.since[s][v] \cup {w}]],
         r.valid = [p.valid EXCEPT ![s] = @ \cup {w}]
  PROVE  PolicyInv(r)
<1>1. /\ p.last_used \in [PolicySets -> [PolicyWays -> Nat]] /\ p.cycle \in Nat
      /\ p.valid \in [PolicySets -> SUBSET PolicyWays]
      /\ p.since \in [PolicySets -> [PolicyWays -> SUBSET PolicyWays]]
  BY DEF PolicyInv, PolicyTyped
<1>2. /\ r.last_used \in [PolicySets -> [PolicyWays -> Nat]] /\ r.cycle \in Nat
      /\ r.valid \in [PolicySets -> SUBSET PolicyWays]
  BY <1>1
<1>3. r.since \in [PolicySets -> [PolicyWays -> SUBSET PolicyWays]]
  <2> DEFINE f == [v \in PolicyWays |-> IF v = w THEN {} ELSE p.since[s][v] \cup {w}]
  <2>1. f \in [PolicyWays -> SUBSET PolicyWays]
    BY <1>1
  <2> QED BY <1>1, <2>1
<1>4. PolicyTyped(r)
  BY <1>2, <1>3 DEF PolicyInv, PolicyTyped
<1>5. \A t \in PolicySets : \A v \in PolicyWays :
        /\ r.last_used[t][v] = IF t = s /\ v = w THEN p.cycle ELSE p.last_used[t][v]
        /\ r.since[t][v] = IF t # s THEN p.since[t][v] ELSE IF v = w THEN {}
                           ELSE p.since[s][v] \cup {w}
        /\ v \in r.valid[t] <=> (t = s /\ v = w) \/ v \in p.valid[t]
  BY <1>1
<1>6. \A t \in PolicySets : \A u \in p.valid[t] :
        /\ u \in PolicyWays /\ p.last_used[t][u] \in Nat
        /\ p.last_used[t][u] < p.cycle
        /\ \A v \in p.valid[t] \ {u} :
             /\ p.last_used[t][v] # p.last_used[t][u]
             /\ u \in p.since[t][v] <=> p.last_used[t][v] < p.last_used[t][u]
  BY <1>1 DEF PolicyInv, LruOrder
<1>7. ASSUME NEW t \in PolicySets, NEW u \in r.valid[t]
      PROVE  /\ r.last_used[t][u] < r.cycle
             /\ \A v \in r.valid[t] \ {u} :
                  /\ r.last_used[t][v] # r.last_used[t][u]
                  /\ u \in r.since[t][v] <=> r.last_used[t][v] < r.last_used[t][u]
  <2>1. u \in PolicyWays
    BY <1>2
  <2>2. r.last_used[t][u] < r.cycle
    BY <1>1, <1>5, <1>6, <2>1
  <2>3. ASSUME NEW v \in r.valid[t] \ {u}
        PROVE  /\ r.last_used[t][v] # r.last_used[t][u]
               /\ u \in r.since[t][v] <=> r.last_used[t][v] < r.last_used[t][u]
    <3>1. v \in PolicyWays
      BY <1>2
    <3>2. CASE t = s /\ u = w
      <4>0. v # w
        BY <2>3, <3>2
      <4>1. v \in p.valid[t] /\ r.last_used[t][u] = p.cycle
            /\ r.last_used[t][v] = p.last_used[t][v] /\ u \in r.since[t][v]
        <5>1. r.since[t][v] = p.since[s][v] \cup {w}
          BY <1>5, <3>1, <3>2, <4>0
        <5>2. v \in p.valid[t] /\ r.last_used[t][v] = p.last_used[t][v]
          BY <1>5, <2>3, <3>1, <4>0
        <5> QED BY <1>5, <2>1, <3>2, <5>1, <5>2
      <4> QED BY <1>1, <1>6, <4>1
    <3>3. CASE t = s /\ v = w
      <4>1. u \in p.valid[t] /\ r.last_used[t][v] = p.cycle
            /\ r.last_used[t][u] = p.last_used[t][u] /\ u \notin r.since[t][v]
        BY <1>5, <2>1, <2>3, <3>1, <3>3
      <4> QED BY <1>1, <1>6, <4>1
    <3>4. CASE ~(t = s /\ u = w) /\ ~(t = s /\ v = w)
      <4>1. /\ u \in p.valid[t] /\ v \in p.valid[t] /\ u # v
            /\ r.last_used[t][u] = p.last_used[t][u] /\ r.last_used[t][v] = p.last_used[t][v]
            /\ u \in r.since[t][v] <=> u \in p.since[t][v]
        BY <1>5, <2>1, <2>3, <3>1, <3>4
      <4> QED BY <1>6, <4>1
    <3> QED BY <3>2, <3>3, <3>4
  <2> QED BY <2>2, <2>3
<1> QED BY <1>4, <1>7 DEF PolicyInv, Standing, LruOrder, Rrip

LEMMA PolicyStarts ==
  ASSUME PolicyInit
  PROVE  PolicyInv(policy)
<1> USE ReplacementAssumption
<1>1. PICK kind \in Kinds, caller \in {"cache", "direct"}, bip \in 0..BIP_MAX,
           sets \in RandSets :
        policy =
         [kind |-> kind, caller |-> caller, rand_sets |-> sets,
          rrpv |-> [s \in PolicySets |-> [w \in PolicyWays |->
                      IF kind \in {"srrip", "ship"} THEN maxRRPV ELSE 0]],
          last_used |-> [s \in PolicySets |-> [w \in PolicyWays |-> 0]], cycle |-> 0,
          bip |-> bip, PSEL |-> 0,
          SHCT |-> [ip \in AccessIps |-> 0], access_count |-> 0,
          sampler |-> [k \in 1..(Len(sets) * POLICY_WAYS) |-> SamplerEntry],
          valid |-> [s \in PolicySets |-> {}],
          use |-> [s \in PolicySets |-> [w \in PolicyWays |->
                     IF kind = "drrip" THEN "read" ELSE "none"]],
          since |-> [s \in PolicySets |-> [w \in PolicyWays |-> {}]],
          filled |-> NoFill]
  BY ZenonT(60) DEF PolicyInit
<1>2. /\ Fielded(policy) /\ policy.kind = kind /\ policy.cycle = 0
      /\ policy.rrpv = [s \in PolicySets |-> [w \in PolicyWays |->
                          IF kind \in {"srrip", "ship"} THEN maxRRPV ELSE 0]]
      /\ policy.last_used = [s \in PolicySets |-> [w \in PolicyWays |-> 0]]
      /\ policy.valid = [s \in PolicySets |-> {}]
      /\ policy.use = [s \in PolicySets |-> [w \in PolicyWays |->
                         IF kind = "drrip" THEN "read" ELSE "none"]]
      /\ policy.since = [s \in PolicySets |-> [w \in PolicyWays |-> {}]]
  BY <1>1 DEF Fielded
<1>3. maxRRPV \in 0..maxRRPV /\ 0 \in 0..maxRRPV /\ maxRRPV > 0
  BY DEF ReplacementAssumption
<1>4. PolicyTyped(policy)
  BY <1>2, <1>3 DEF PolicyTyped, UseKinds
<1>5. Standing(policy)
  BY <1>2, <1>3 DEF Standing, Stands, Rrip
<1>6. LruOrder(policy)
  BY <1>2 DEF LruOrder
<1> QED BY <1>4, <1>5, <1>6 DEF PolicyInv

\* What a use changes, what a step notes of it, and what a fill does.
UsedAs(p, q, s, w) ==
  /\ Fielded(q) /\ q.kind = p.kind /\ q.rrpv = p.rrpv /\ q.use = p.use
  /\ q.valid = p.valid /\ q.caller = p.caller /\ q.rand_sets = p.rand_sets
  /\ q.last_used = [p.last_used EXCEPT ![s][w] = p.cycle] /\ q.cycle = p.cycle + 1
  /\ q.since = [p.since EXCEPT ![s] = [v \in PolicyWays |->
                   IF v = w THEN {} ELSE p.since[s][v] \cup {w}]]

NotedAs(q, r, s, w, use) ==
  /\ Fielded(r) /\ r.kind = q.kind /\ r.rrpv = q.rrpv
  /\ r.last_used = q.last_used /\ r.cycle = q.cycle /\ r.since = q.since
  /\ r.use = [q.use EXCEPT ![s][w] = use]
Noted(q, s, w, f, use) == [q EXCEPT !.filled = f, !.use[s][w] = use]
Filled(q, s, w, f, use) == [q EXCEPT !.valid[s] = @ \cup {w}, !.filled = f, !.use[s][w] = use]

LEMMA UsedNow ==
  ASSUME NEW p, Fielded(p), NEW s, NEW w
  PROVE  UsedAs(p, Use(p, s, w), s, w)
<1> DEFINE a == [p EXCEPT !.last_used[s][w] = p.cycle]
           b == [a EXCEPT !.cycle = @ + 1]
           c == [b EXCEPT !.since[s] = [v \in PolicyWays |-> IF v = w THEN {} ELSE @[v] \cup {w}]]
<1>1. Use(p, s, w) = c
  BY DEF Use
<1>2. /\ Fielded(a) /\ a.kind = p.kind /\ a.rrpv = p.rrpv /\ a.use = p.use
      /\ a.valid = p.valid /\ a.caller = p.caller /\ a.rand_sets = p.rand_sets
      /\ a.last_used = [p.last_used EXCEPT ![s][w] = p.cycle] /\ a.cycle = p.cycle
      /\ a.since = p.since
  BY DEF Fielded
<1> HIDE DEF a
<1>3. /\ Fielded(b) /\ b.kind = a.kind /\ b.rrpv = a.rrpv /\ b.use = a.use
      /\ b.valid = a.valid /\ b.caller = a.caller /\ b.rand_sets = a.rand_sets
      /\ b.last_used = a.last_used /\ b.cycle = a.cycle + 1 /\ b.since = a.since
  BY <1>2 DEF Fielded
<1> HIDE DEF b
<1>4. /\ Fielded(c) /\ c.kind = b.kind /\ c.rrpv = b.rrpv /\ c.use = b.use
      /\ c.valid = b.valid /\ c.caller = b.caller /\ c.rand_sets = b.rand_sets
      /\ c.last_used = b.last_used /\ c.cycle = b.cycle
      /\ c.since = [b.since EXCEPT ![s] = [v \in PolicyWays |->
                       IF v = w THEN {} ELSE b.since[s][v] \cup {w}]]
  <2> DEFINE since == [b.since EXCEPT ![s] = [v \in PolicyWays |->
                         IF v = w THEN {} ELSE b.since[s][v] \cup {w}]]
             d == [b EXCEPT !.since = since]
  <2>1. c = d
    OBVIOUS
  <2> HIDE DEF since, c
  <2>2. /\ Fielded(d) /\ d.kind = b.kind /\ d.rrpv = b.rrpv /\ d.use = b.use
        /\ d.valid = b.valid /\ d.caller = b.caller /\ d.rand_sets = b.rand_sets
        /\ d.last_used = b.last_used /\ d.cycle = b.cycle /\ d.since = since
    BY ONLY <1>3, SMTT(60) DEF Fielded
  <2> HIDE DEF d
  <2> QED BY ONLY <2>1, <2>2 DEF since
<1> HIDE DEF c
<1> QED BY <1>1, <1>2, <1>3, <1>4 DEF UsedAs

LEMMA NotedNow ==
  ASSUME NEW q, Fielded(q), NEW s, NEW w, NEW f, NEW use
  PROVE  /\ NotedAs(q, Noted(q, s, w, f, use), s, w, use)
         /\ Noted(q, s, w, f, use).valid = q.valid
<1> DEFINE a == [q EXCEPT !.filled = f]
           r == [a EXCEPT !.use[s][w] = use]
<1>1. /\ Fielded(a) /\ a.kind = q.kind /\ a.rrpv = q.rrpv /\ a.valid = q.valid
      /\ a.last_used = q.last_used /\ a.cycle = q.cycle /\ a.since = q.since /\ a.use = q.use
  BY DEF Fielded
<1> HIDE DEF a
<1>2. /\ Fielded(r) /\ r.kind = q.kind /\ r.rrpv = q.rrpv /\ r.valid = q.valid
      /\ r.last_used = q.last_used /\ r.cycle = q.cycle /\ r.since = q.since
      /\ r.use = [q.use EXCEPT ![s][w] = use]
  BY <1>1 DEF Fielded
<1>3. r = Noted(q, s, w, f, use)
  BY DEF a, Noted
<1> HIDE DEF r
<1> QED BY <1>2, <1>3 DEF NotedAs

FilledAs(q, r, s, w, use) ==
  NotedAs(q, r, s, w, use) /\ r.valid = [q.valid EXCEPT ![s] = @ \cup {w}]

LEMMA FilledNow ==
  ASSUME NEW q, Fielded(q), NEW s, NEW w, NEW f, NEW use
  PROVE  FilledAs(q, Filled(q, s, w, f, use), s, w, use)
<1> DEFINE a == [q EXCEPT !.valid[s] = @ \cup {w}]
           r == Noted(a, s, w, f, use)
<1>1. /\ Fielded(a) /\ a.kind = q.kind /\ a.rrpv = q.rrpv
      /\ a.valid = [q.valid EXCEPT ![s] = @ \cup {w}]
      /\ a.last_used = q.last_used /\ a.cycle = q.cycle /\ a.since = q.since /\ a.use = q.use
  BY DEF Fielded
<1>2. r = Filled(q, s, w, f, use)
  BY DEF Noted, Filled
<1> HIDE DEF a
<1>3. NotedAs(a, r, s, w, use) /\ r.valid = a.valid
  BY <1>1, NotedNow
<1> HIDE DEF r
<1> QED BY <1>1, <1>2, <1>3 DEF NotedAs, FilledAs

LEMMA KindsOfPolicy ==
  ASSUME NEW p, PolicyTyped(p)
  PROVE  \/ p.kind = "lru" \/ p.kind = "random" \/ Rrip(p)
BY DEF PolicyTyped, Kinds, Rrip

\* The way's own values, as those of a step that leaves them.
Own(p, s, w) ==
  /\ p.rrpv[s][w] \in 0..maxRRPV /\ p.use[s][w] \in UseKinds
  /\ p.rrpv = [p.rrpv EXCEPT ![s][w] = p.rrpv[s][w]]
  /\ p.use = [p.use EXCEPT ![s][w] = p.use[s][w]]
  /\ p.valid \in [PolicySets -> SUBSET PolicyWays]
  /\ Rrip(p) => Stands(p.use[s][w], p.rrpv[s][w])

LEMMA OwnValues ==
  ASSUME NEW p, PolicyInv(p), NEW s \in PolicySets, NEW w \in PolicyWays
  PROVE  Own(p, s, w)
<1>1. /\ p.rrpv \in [PolicySets -> [PolicyWays -> 0..maxRRPV]]
      /\ p.use \in [PolicySets -> [PolicyWays -> UseKinds]]
      /\ p.valid \in [PolicySets -> SUBSET PolicyWays]
  BY DEF PolicyInv, PolicyTyped
<1>2. Rrip(p) => Stands(p.use[s][w], p.rrpv[s][w])
  BY DEF PolicyInv, Standing
<1> QED BY <1>1, <1>2 DEF Own

LEMMA HitStep ==
  ASSUME PolicyInv(policy), NEW s \in PolicySets,
         NEW w \in policy.valid[s], NEW access \in Accesses, Hit(s, w, access)
  PROVE  PolicyInv(policy')
<1> USE ReplacementAssumption
<1> DEFINE q == update_replacement_state(policy, s, w, access, TRUE)
           use == IF access.type = "LOAD" THEN "read" ELSE "written"
           r == Noted(q, s, w, NoFill, use)
<1>1. policy' = r
  BY DEF Hit, impl_update_replacement_state, IsReported, Noted
<1>2. w \in PolicyWays /\ PolicyTyped(policy) /\ Fielded(policy)
  BY DEF PolicyInv, PolicyTyped
<1>3. use \in UseKinds /\ access.type \in {"LOAD", "WRITE"}
  BY DEF UseKinds, Accesses
<1> HIDE DEF use
<1>4. CASE policy.kind = "lru"
  <2>1. q = IF access.type # "WRITE" THEN Use(policy, s, w) ELSE policy
    BY <1>4 DEF update_replacement_state
  <2> HIDE DEF q
  <2>2. Fielded(q) /\ q.use = policy.use
    <3>1. UsedAs(policy, Use(policy, s, w), s, w)
      BY <1>2, UsedNow
    <3> QED BY ONLY <1>2, <2>1, <3>1 DEF UsedAs
  <2>3. NotedAs(q, r, s, w, use) /\ r.valid = q.valid
    BY <2>2, NotedNow
  <2> HIDE DEF r
  <2>4. r.use \in [PolicySets -> [PolicyWays -> UseKinds]]
    <3>1. policy.use \in [PolicySets -> [PolicyWays -> UseKinds]]
      BY <1>2 DEF PolicyTyped
    <3> QED BY <1>2, <1>3, <2>2, <2>3, <3>1 DEF NotedAs
  <2>5. CASE access.type = "WRITE"
    BY <1>1, <1>4, <2>1, <2>3, <2>4, <2>5
       DEF NotedAs, PolicyInv, PolicyTyped, Standing, LruOrder, Rrip
  <2>6. CASE access.type # "WRITE"
    <3>1. policy.valid = [policy.valid EXCEPT ![s] = @ \cup {w}]
      <4>1. policy.valid \in [PolicySets -> SUBSET PolicyWays] /\ policy.valid[s] \cup {w} = policy.valid[s]
        BY <1>2 DEF PolicyTyped
      <4> QED BY <4>1
    <3>2. UsedAs(policy, q, s, w)
      BY <1>2, <2>1, <2>6, UsedNow
    <3>3. PolicyInv(r)
      BY <1>2, <1>4, <2>3, <2>4, <3>1, <3>2, LruStep DEF NotedAs, UsedAs
    <3> QED BY <1>1, <3>3
  <2> QED BY <2>5, <2>6
<1>5. CASE policy.kind = "random"
  <2>1. q = policy
    BY <1>5 DEF update_replacement_state
  <2> HIDE DEF q
  <2>2. NotedAs(q, r, s, w, use) /\ r.valid = q.valid
    BY <1>2, <2>1, NotedNow
  <2> HIDE DEF r
  <2>3. PolicyInv(r)
    <3>1. ~Rrip(policy)
      BY <1>5 DEF Rrip
    <3>2. policy.kind # "lru"
      BY <1>5
    <3>3. /\ policy.rrpv[s][w] \in 0..maxRRPV
          /\ policy.rrpv = [policy.rrpv EXCEPT ![s][w] = policy.rrpv[s][w]]
          /\ policy.valid \in [PolicySets -> SUBSET PolicyWays]
      <4>1. Own(policy, s, w)
        BY <1>2, OwnValues
      <4> QED BY <4>1 DEF Own
    <3>4. CounterMoved(policy, r, s, w, policy.rrpv[s][w], use)
      BY <1>2, <2>1, <2>2, <3>1, <3>3 DEF NotedAs, CounterMoved
    <3> QED BY <1>2, <1>3, <3>2, <3>3, <3>4, CounterStep
  <2> QED BY <1>1, <2>3
<1>6. CASE Rrip(policy)
  <2>1. Rewritten(policy, q, s, w, IF access.type = "WRITE" THEN 0..maxRRPV ELSE {0})
    BY <1>2, <1>6, UpdateRewrites
  <2> HIDE DEF q
  <2>2. PICK v \in (IF access.type = "WRITE" THEN 0..maxRRPV ELSE {0}) :
          q.rrpv = [policy.rrpv EXCEPT ![s][w] = v]
    BY <2>1 DEF Rewritten
  <2>3. v \in 0..maxRRPV /\ Stands(use, v)
    BY <1>3, <2>2 DEF use, Stands, ReplacementAssumption
  <2>4. /\ Fielded(q) /\ q.kind = policy.kind /\ q.valid = policy.valid /\ q.use = policy.use
        /\ q.last_used = policy.last_used /\ q.cycle = policy.cycle /\ q.since = policy.since
    BY <2>1 DEF Rewritten, Alike
  <2>5. NotedAs(q, r, s, w, use) /\ r.valid = q.valid
    BY <2>4, NotedNow
  <2> HIDE DEF r
  <2>6. policy.kind # "lru" /\ policy.valid \in [PolicySets -> SUBSET PolicyWays]
    BY <1>2, <1>6 DEF Rrip, PolicyTyped
  <2>7. PolicyInv(r)
    <3>1. CounterMoved(policy, r, s, w, v, use)
      BY <2>2, <2>3, <2>4, <2>5, <2>6 DEF NotedAs, CounterMoved
    <3> QED BY <1>2, <1>3, <2>3, <2>6, <3>1, CounterStep
  <2> QED BY <1>1, <2>7
<1> QED BY <1>2, <1>4, <1>5, <1>6, KindsOfPolicy

\* A fill of a way, in a policy whose counters may have been raised for it.
LEMMA FillRewrites ==
  ASSUME NEW p, PolicyInv(p), Rrip(p), NEW s \in PolicySets,
         NEW w \in PolicyWays, NEW access
  PROVE  LET q == impl_replacement_cache_fill(p, s, w, access)
         IN  IF Notices(p, s, access) THEN Rewritten(p, q, s, w, 1..maxRRPV) ELSE q = p
<1> USE ReplacementAssumption
<1> DEFINE q == impl_replacement_cache_fill(p, s, w, access)
           u == update_replacement_state(p, s, w, access, FALSE)
<1>1. q = IF IsReported(p, FALSE) THEN u ELSE p
  BY DEF Rrip, impl_replacement_cache_fill, has_cache_fill,
         impl_update_replacement_state
<1>2. IF p.kind = "drrip" /\ access.type # "WRITE" /\ Idles(p, s) THEN u = p
      ELSE Rewritten(p, u, s, w, 1..maxRRPV)
  BY UpdateRewrites DEF PolicyInv
<1> HIDE DEF q, u
<1>3. Notices(p, s, access) <=>
        IsReported(p, FALSE) /\ ~(p.kind = "drrip" /\ access.type # "WRITE" /\ Idles(p, s))
  BY DEF Notices
<1>4. IF Notices(p, s, access) THEN Rewritten(p, q, s, w, 1..maxRRPV) ELSE q = p
  BY ONLY <1>1, <1>2, <1>3
<1> QED BY <1>4 DEF q

LEMMA WayFilled ==
  ASSUME NEW p, PolicyInv(p), NEW s \in PolicySets,
         NEW w \in PolicyWays, NEW access, NEW f
  PROVE  LET q == impl_replacement_cache_fill(p, s, w, access)
             use == IF Notices(q, s, access) THEN "none" ELSE q.use[s][w]
         IN  PolicyInv(Filled(q, s, w, f, use))
<1> USE ReplacementAssumption
<1> DEFINE q == impl_replacement_cache_fill(p, s, w, access)
           use == IF Notices(q, s, access) THEN "none" ELSE q.use[s][w]
           r == Filled(q, s, w, f, use)
<1>1. PolicyTyped(p) /\ Fielded(p)
  BY DEF PolicyInv, PolicyTyped
<1>2. /\ p.rrpv[s][w] \in 0..maxRRPV /\ p.use[s][w] \in UseKinds
      /\ p.rrpv = [p.rrpv EXCEPT ![s][w] = p.rrpv[s][w]]
      /\ p.valid \in [PolicySets -> SUBSET PolicyWays]
      /\ Rrip(p) => Stands(p.use[s][w], p.rrpv[s][w])
  <2>1. Own(p, s, w)
    BY OwnValues
  <2> QED BY <2>1 DEF Own
<1>3. "none" \in UseKinds /\ [p.valid EXCEPT ![s] = @ \cup {w}] \in [PolicySets -> SUBSET PolicyWays]
  BY <1>2 DEF UseKinds
<1> HIDE DEF q, use, r
<1>4. CASE p.kind = "lru"
  <2>1. q = Use(p, s, w)
    BY <1>4 DEF q, impl_replacement_cache_fill, has_cache_fill
  <2>2. UsedAs(p, q, s, w)
    BY <1>1, <2>1, UsedNow
  <2>3. Fielded(q)
    BY <2>2 DEF UsedAs
  <2>4. NotedAs(q, r, s, w, use) /\ r.valid = [q.valid EXCEPT ![s] = @ \cup {w}]
    <3>1. FilledAs(q, Filled(q, s, w, f, use), s, w, use)
      BY ONLY <2>3, FilledNow
    <3> QED BY ONLY <3>1 DEF r, FilledAs
  <2>5. r.use \in [PolicySets -> [PolicyWays -> UseKinds]]
    <3>1. p.use \in [PolicySets -> [PolicyWays -> UseKinds]] /\ q.use = p.use
      BY <1>1, <2>2 DEF PolicyTyped, UsedAs
    <3>2. use \in UseKinds
      BY <1>2, <1>3, <3>1 DEF use
    <3> QED BY <2>4, <3>1, <3>2 DEF NotedAs
  <2>6. /\ Fielded(r) /\ r.kind = "lru" /\ r.rrpv = p.rrpv
        /\ r.last_used = [p.last_used EXCEPT ![s][w] = p.cycle] /\ r.cycle = p.cycle + 1
        /\ r.since = [p.since EXCEPT ![s] = [v \in PolicyWays |->
                        IF v = w THEN {} ELSE p.since[s][v] \cup {w}]]
    BY ONLY <1>4, <2>2, <2>4 DEF UsedAs, NotedAs
  <2>7. r.valid = [p.valid EXCEPT ![s] = @ \cup {w}]
    BY ONLY <2>2, <2>4 DEF UsedAs
  <2>8. PolicyInv(p) /\ s \in PolicySets /\ w \in PolicyWays
    OBVIOUS
  <2>9. PolicyInv(r)
    BY ONLY <1>4, <2>5, <2>6, <2>7, <2>8, LruStep
  <2> QED BY <2>9 DEF r, use, q
<1>5. ASSUME q = p, p.kind # "lru", Rrip(p) => ~Notices(p, s, access)
      PROVE  PolicyInv(r)
  <2>1. NotedAs(q, r, s, w, use) /\ r.valid = [q.valid EXCEPT ![s] = @ \cup {w}]
    <3>1. Fielded(q)
      BY <1>1, <1>5
    <3>2. FilledAs(q, Filled(q, s, w, f, use), s, w, use)
      BY ONLY <3>1, FilledNow
    <3> QED BY ONLY <3>2 DEF r, FilledAs
  <2>2. use \in UseKinds /\ (Rrip(p) => use = p.use[s][w])
    BY <1>2, <1>3, <1>5 DEF use
  <2>3. Rrip(p) => Stands(use, p.rrpv[s][w])
    BY <1>2, <2>2
  <2>4. CounterMoved(p, r, s, w, p.rrpv[s][w], use)
    BY <1>2, <1>3, <1>5, <2>1, <2>3 DEF NotedAs, CounterMoved
  <2> QED BY <1>2, <1>5, <2>2, <2>4, CounterStep
<1>6. CASE p.kind = "random"
  <2>1. q = p /\ ~Rrip(p)
    BY <1>6 DEF q, Rrip, impl_replacement_cache_fill, has_cache_fill,
                impl_update_replacement_state, update_replacement_state
  <2> QED BY <1>5, <1>6, <2>1 DEF r, use, q
<1>7. CASE Rrip(p)
  <2>1. IF Notices(p, s, access) THEN Rewritten(p, q, s, w, 1..maxRRPV) ELSE q = p
    BY <1>7, FillRewrites DEF q
  <2>2. CASE ~Notices(p, s, access)
    BY <1>5, <1>7, <2>1, <2>2 DEF Rrip, r, use, q
  <2>3. CASE Notices(p, s, access)
    <3>1. Alike(p, q) /\ Fielded(q) /\ q.kind = p.kind /\ q.caller = p.caller
          /\ q.rand_sets = p.rand_sets
      BY <2>1, <2>3 DEF Rewritten, Alike
    <3>2. PICK v \in 1..maxRRPV : q.rrpv = [p.rrpv EXCEPT ![s][w] = v]
      BY <2>1, <2>3 DEF Rewritten
    <3>3. Notices(q, s, access)
      <4>1. Notices(q, s, access) = Notices(p, s, access)
        BY <3>1 DEF Notices, IsReported, has_cache_fill, Idles, Leaders
      <4> QED BY <2>3, <4>1
    <3>4. use = "none"
      BY <3>3 DEF use
    <3>5. v \in 0..maxRRPV /\ Stands(use, v)
      BY <3>2, <3>4 DEF Stands, ReplacementAssumption
    <3>6. NotedAs(q, r, s, w, use) /\ r.valid = [q.valid EXCEPT ![s] = @ \cup {w}]
      <4>1. FilledAs(q, Filled(q, s, w, f, use), s, w, use)
        BY ONLY <3>1, FilledNow
      <4> QED BY ONLY <4>1 DEF r, FilledAs
    <3>7. use \in UseKinds /\ p.kind # "lru"
      BY <1>3, <1>7, <3>4 DEF Rrip
    <3>8. PolicyInv(r)
      <4>1. CounterMoved(p, r, s, w, v, use)
        BY <1>3, <3>1, <3>2, <3>5, <3>6 DEF NotedAs, CounterMoved, Alike
      <4> QED BY <3>5, <3>7, <4>1, CounterStep
    <3> QED BY <3>8 DEF r, use, q
  <2> QED BY <2>2, <2>3
<1> QED BY <1>1, <1>4, <1>6, <1>7, KindsOfPolicy

LEMMA FillStep ==
  ASSUME PolicyInv(policy), NEW s \in PolicySets,
         NEW access \in Accesses, Fill(s, access)
  PROVE  PolicyInv(policy')
<1> USE ReplacementAssumption
<1> DEFINE found == IF IsFull(s) THEN Raised(policy, s) ELSE policy
<1>1. PICK w \in (IF IsFull(s) THEN PolicyVictims(policy, s)
                  ELSE {Min(PolicyWays \ policy.valid[s])}) :
        LET p == impl_replacement_cache_fill(found, s, w, access)
        IN  policy' = [p EXCEPT !.valid[s] = @ \cup {w}, !.filled = <<s, w>>,
                         !.use[s][w] = IF Notices(p, s, access) THEN "none" ELSE @]
  BY DEF Fill
<1>2. PolicyInv(found)
  BY Rising
<1>3. w \in PolicyWays
  <2>1. CASE IsFull(s)
    BY <1>1, <2>1, VictimIsWay DEF PolicyInv
  <2>2. CASE ~IsFull(s)
    <3> DEFINE S == PolicyWays \ policy.valid[s]
    <3>1. S \in SUBSET Nat /\ S # {}
      <4>1. policy.valid[s] \subseteq PolicyWays
        BY DEF PolicyInv, PolicyTyped
      <4>2. policy.valid[s] # PolicyWays
        BY <2>2 DEF IsFull
      <4>3. S # {}
        BY <4>1, <4>2
      <4>4. S \in SUBSET Nat
        BY DEF PolicyWays
      <4> QED BY <4>3, <4>4
    <3>2. Min(S) \in S
      BY ONLY <3>1, LeastIn
    <3> QED BY <1>1, <2>2, <3>2
  <2> QED BY <2>1, <2>2
<1> HIDE DEF found
<1> DEFINE p == impl_replacement_cache_fill(found, s, w, access)
           use == IF Notices(p, s, access) THEN "none" ELSE p.use[s][w]
<1>4. policy' = Filled(p, s, w, <<s, w>>, use)
  BY <1>1 DEF Filled
<1>5. PolicyInv(Filled(p, s, w, <<s, w>>, use))
  BY ONLY <1>2, <1>3, s \in PolicySets, ReplacementAssumption, WayFilled
<1> QED BY <1>4, <1>5

LEMMA PolicySteps ==
  ASSUME PolicyInv(policy), [PolicyNext]_policy
  PROVE  PolicyInv(policy')
<1> USE ReplacementAssumption
<1>1. ASSUME NEW s \in PolicySets, FailedFill(s)
      PROVE  PolicyInv(policy')
  <2> DEFINE q == Raised(policy, s)
  <2>1. PolicyInv(q)
    BY Rising
  <2>2. policy' = [q EXCEPT !.filled = NoFill]
    BY <1>1 DEF FailedFill
  <2> HIDE DEF q
  <2>3. /\ Fielded(policy') /\ policy'.kind = q.kind /\ policy'.rrpv = q.rrpv
        /\ policy'.valid = q.valid /\ policy'.use = q.use /\ policy'.last_used = q.last_used
        /\ policy'.cycle = q.cycle /\ policy'.since = q.since
    <3>1. Fielded(q)
      BY <2>1 DEF PolicyInv, PolicyTyped
    <3> QED BY <2>2, <3>1 DEF Fielded
  <2> QED BY <2>1, <2>3 DEF PolicyInv, PolicyTyped, Standing, LruOrder, Rrip
<1>2. CASE UNCHANGED policy
  BY <1>2
<1>3. CASE PolicyNext
  BY <1>1, <1>3, FillStep, HitStep DEF PolicyNext
<1> QED BY <1>2, <1>3

LEMMA VictimsStand ==
  ASSUME PolicyInv(policy)
  PROVE  UsedBlocksStay
<1> USE ReplacementAssumption
<1> SUFFICES ASSUME NEW s \in PolicySets, IsFull(s), NEW w \in PolicyVictims(policy, s)
             PROVE  CASE policy.kind = "lru" -> PolicyWays \ {w} \subseteq policy.since[s][w]
                      [] policy.kind = "random" -> TRUE
                      [] OTHER -> policy.use[s][w] = "read" =>
                                    \A v \in PolicyWays : policy.use[s][v] # "none"
  BY DEF UsedBlocksStay
<1>1. PolicyTyped(policy) /\ w \in PolicyWays
  BY VictimIsWay DEF PolicyInv
<1>2. CASE policy.kind = "lru"
  <2>1. \A v \in PolicyWays : policy.last_used[s][w] <= policy.last_used[s][v]
    BY <1>1, <1>2, LruVictim
  <2>2. ASSUME NEW v \in PolicyWays, v # w PROVE v \in policy.since[s][w]
    <3>1. /\ policy.last_used[s][w] # policy.last_used[s][v]
          /\ v \in policy.since[s][w] <=> policy.last_used[s][w] < policy.last_used[s][v]
      BY <1>1, <1>2, <2>2 DEF PolicyInv, LruOrder, IsFull
    <3>2. policy.last_used[s][w] \in Nat /\ policy.last_used[s][v] \in Nat
      BY <1>1 DEF PolicyTyped
    <3> QED BY <2>1, <3>1, <3>2
  <2> QED BY <1>2, <2>2
<1>3. CASE Rrip(policy)
  <2>1. \A v \in PolicyWays : policy.rrpv[s][v] <= policy.rrpv[s][w]
    BY <1>1, <1>3, GreatestIn DEF Rrip, PolicyVictims
  <2>2. ASSUME policy.use[s][w] = "read", NEW v \in PolicyWays
        PROVE  policy.use[s][v] # "none"
    <3>1. Stands(policy.use[s][w], policy.rrpv[s][w]) /\ Stands(policy.use[s][v], policy.rrpv[s][v])
      BY <1>1, <1>3 DEF PolicyInv, Standing
    <3> QED BY <1>1, <2>1, <2>2, <3>1 DEF Stands, PolicyTyped
  <2> QED BY <1>3, <2>2 DEF Rrip
<1>4. CASE policy.kind = "random"
  BY <1>4
<1> QED BY <1>1, <1>2, <1>3, <1>4, KindsOfPolicy

\* Whatever the sets, ways and counters: under LRU the victim is the block whose last
\* use lies furthest back, and SRRIP, DRRIP and SHiP replace a block that was read only
\* when all were used, driven by a cache or directly, fills that are refused included
\* (find_victim and update_replacement_state, replacement/).
THEOREM VictimsAreUnused ==
  PolicySpec => []UsedBlocksStay
<1> USE ReplacementAssumption
<1>1. PolicyInit => PolicyInv(policy)
  BY PolicyStarts
<1>2. PolicyInv(policy) /\ [PolicyNext]_policy => PolicyInv(policy)'
  BY PolicySteps DEF PolicyInv, PolicyTyped, Fielded, Standing, LruOrder, Rrip
<1>3. PolicyInv(policy) => UsedBlocksStay
  BY VictimsStand
<1> QED BY <1>1, <1>2, <1>3, PTL DEF PolicySpec

\* Raising the counters of a set leaves its victim.
LEMMA VictimsOfRaised ==
  ASSUME NEW p, PolicyInv(p), NEW s \in PolicySets, NEW r,
         r = [Raised(p, s) EXCEPT !.filled = NoFill]
  PROVE  PolicyVictims(r, s) = PolicyVictims(p, s)
<1> DEFINE q == Raised(p, s)
<1>1. /\ PolicyInv(q) /\ q.kind = p.kind /\ q.caller = p.caller
      /\ p.kind = "lru" => q = p
      /\ \A v, w \in PolicyWays :
           q.rrpv[s][v] <= q.rrpv[s][w] <=> p.rrpv[s][v] <= p.rrpv[s][w]
  BY Rising
<1> HIDE DEF q
<1>2. /\ r.kind = q.kind /\ r.caller = q.caller /\ r.rrpv = q.rrpv
      /\ r.last_used = q.last_used
  <2>1. r = [q EXCEPT !.filled = NoFill] /\ Fielded(q)
    BY <1>1 DEF q, PolicyInv, PolicyTyped
  <2> QED BY ONLY <2>1 DEF Fielded
<1>3. Greatest(r, s) = Greatest(p, s)
  BY <1>1, <1>2 DEF Greatest
<1>4. CASE p.kind = "lru"
  BY <1>1, <1>2, <1>4 DEF PolicyVictims
<1>5. CASE p.kind = "random"
  BY <1>1, <1>2, <1>5 DEF PolicyVictims, RandomVictims
<1>6. CASE p.kind \notin {"lru", "random"}
  BY <1>1, <1>2, <1>3, <1>6 DEF PolicyVictims
<1> QED BY <1>4, <1>5, <1>6

\* For every geometry and width of the counters, a fill that is refused for want of
\* room below and tried again finds the same victim (find_victim in srrip.cc, drrip.cc
\* and ship.cc raises the counters of the whole set each time it is called).
THEOREM RetriesAgree ==
  PolicySpec => RetriesFindTheSameVictim
<1> USE ReplacementAssumption
<1>1. PolicyInit => PolicyInv(policy)
  BY PolicyStarts
<1>2. PolicyInv(policy) /\ [PolicyNext]_policy => PolicyInv(policy)'
  BY PolicySteps DEF PolicyInv, PolicyTyped, Fielded, Standing, LruOrder, Rrip
<1>3. PolicyInv(policy) /\ [PolicyNext]_policy =>
        [\A s \in PolicySets :
           FailedFill(s) => PolicyVictims(policy', s) = PolicyVictims(policy, s)]_policy
  BY VictimsOfRaised DEF FailedFill
<1> QED BY <1>1, <1>2, <1>3, PTL DEF PolicySpec, RetriesFindTheSameVictim

----------------------------------------------------------------------------
(* The tables of the signature path prefetcher *)

PtWays == 1..PT_WAY

\* The counts of the deltas of a signature, and their uses, as a set.
CountsOf(set) == [w \in PtWays |-> set.way[w].c_delta]
UsesOf(seen) == {u \in PtWays \X (Nat \ {0}) : u[2] <= seen[u[1]]}
Total(seen) == Cardinality(UsesOf(seen))

\* A half, rounded down.
LEMMA HalfIs ==
  ASSUME NEW n \in Nat
  PROVE  n \div 2 \in Nat /\ 2 * (n \div 2) <= n /\ n <= 2 * (n \div 2) + 1
OBVIOUS

LEMMA UsesFinite ==
  ASSUME NEW most \in Nat, NEW seen \in [PtWays -> 0..most]
  PROVE  IsFiniteSet(UsesOf(seen)) /\ Total(seen) \in Nat
<1> USE SppAssumption
<1> DEFINE all == PtWays \X (1..most)
<1>1. IsFiniteSet(all)
  <2>1. PT_WAY \in Nat
    BY DEF SppAssumption
  <2>2. IsFiniteSet(PtWays) /\ IsFiniteSet(1..most)
    BY <2>1, FS_Interval DEF PtWays
  <2> QED BY <2>2, FS_Product
<1>2. UsesOf(seen) \subseteq all
  <2> SUFFICES ASSUME NEW u \in UsesOf(seen)
               PROVE  u \in all
    OBVIOUS
  <2>1. u = <<u[1], u[2]>> /\ u[1] \in PtWays /\ u[2] \in Nat \ {0} /\ u[2] <= seen[u[1]]
    BY DEF UsesOf
  <2>2. seen[u[1]] \in 0..most
    BY <2>1
  <2>3. u[2] \in 1..most
    BY <2>1, <2>2
  <2> QED BY <2>1, <2>3
<1> HIDE DEF all
<1> QED BY <1>1, <1>2, FS_Subset, FS_CardinalityType DEF Total

\* One count is no more than all.
LEMMA OneOfTotal ==
  ASSUME NEW most \in Nat, NEW seen \in [PtWays -> 0..most],
         NEW w \in PtWays
  PROVE  seen[w] <= Total(seen)
<1> USE SppAssumption
<1> DEFINE own == {w} \X (1..seen[w])
<1>1. seen[w] \in Nat
  OBVIOUS
<1>2. own \subseteq UsesOf(seen)
  BY <1>1 DEF UsesOf
<1>3. IsFiniteSet(own) /\ Cardinality(own) = seen[w]
  <2>1. IsFiniteSet(1..seen[w]) /\ Cardinality(1..seen[w]) = seen[w]
    BY <1>1, FS_Interval
  <2>2. IsFiniteSet({w}) /\ Cardinality({w}) = 1
    BY FS_Singleton
  <2>3. Cardinality(own) = 1 * seen[w] /\ IsFiniteSet(own)
    BY <2>1, <2>2, FS_Product
  <2> QED BY <1>1, <2>3
<1> HIDE DEF own
<1> QED BY <1>2, <1>3, UsesFinite, FS_Subset DEF Total

\* Lower counts are fewer uses.
LEMMA LessUses ==
  ASSUME NEW most \in Nat, NEW seen \in [PtWays -> 0..most],
         NEW less \in [PtWays -> 0..most], \A w \in PtWays : less[w] <= seen[w]
  PROVE  Total(less) <= Total(seen)
<1> USE SppAssumption
<1>1. UsesOf(less) \subseteq UsesOf(seen)
  <2> SUFFICES ASSUME NEW u \in UsesOf(less)
               PROVE  u \in UsesOf(seen)
    OBVIOUS
  <2>1. u \in PtWays \X (Nat \ {0}) /\ u[1] \in PtWays /\ u[2] \in Nat /\ u[2] <= less[u[1]]
    BY DEF UsesOf
  <2>2. less[u[1]] \in Nat /\ seen[u[1]] \in Nat /\ less[u[1]] <= seen[u[1]]
    BY <2>1
  <2> QED BY <2>1, <2>2 DEF UsesOf
<1> QED BY <1>1, UsesFinite, FS_Subset DEF Total

\* One delta counted once more.
LEMMA OneMoreUse ==
  ASSUME NEW most \in Nat, NEW seen \in [PtWays -> 0..most],
         NEW w \in PtWays, NEW more, more = [seen EXCEPT ![w] = @ + 1]
  PROVE  Total(more) <= Total(seen) + 1
<1> USE SppAssumption
<1> DEFINE new == <<w, seen[w] + 1>>
<1>1. UsesOf(more) \subseteq UsesOf(seen) \cup {new}
  <2> SUFFICES ASSUME NEW u \in UsesOf(more)
               PROVE  u \in UsesOf(seen) \cup {new}
    OBVIOUS
  <2>1. u \in PtWays \X (Nat \ {0}) /\ u = <<u[1], u[2]>> /\ u[1] \in PtWays
        /\ u[2] \in Nat /\ u[2] <= more[u[1]]
    BY DEF UsesOf
  <2>2. CASE u[1] # w
    <3>1. more[u[1]] = seen[u[1]]
      BY <2>1, <2>2
    <3> QED BY <2>1, <3>1 DEF UsesOf
  <2>3. CASE u[1] = w
    <3>1. more[w] = seen[w] + 1 /\ seen[w] \in Nat
      OBVIOUS
    <3>2. u[2] = seen[w] + 1 \/ u[2] <= seen[w]
      BY <2>1, <2>3, <3>1
    <3>3. u[2] = seen[w] + 1 => u = new
      BY <2>1, <2>3
    <3>4. u[2] <= seen[u[1]] => u \in UsesOf(seen)
      BY <2>1 DEF UsesOf
    <3> QED BY <2>3, <3>2, <3>3, <3>4
  <2> QED BY <2>2, <2>3
<1> HIDE DEF new
<1>2. IsFiniteSet(UsesOf(seen)) /\ Total(seen) \in Nat
  BY UsesFinite
<1>3. IsFiniteSet(UsesOf(seen) \cup {new})
      /\ Cardinality(UsesOf(seen) \cup {new}) <= Total(seen) + 1
  <2> DEFINE S == UsesOf(seen)
             n == Cardinality(S)
  <2>1. IsFiniteSet(S) /\ n \in Nat /\ Total(seen) = n
    BY <1>2 DEF Total
  <2> HIDE DEF S
  <2>2. /\ IsFiniteSet(S \cup {new})
        /\ Cardinality(S \cup {new}) = IF new \in S THEN n ELSE n + 1
    BY <2>1, FS_AddElement
  <2> HIDE DEF n
  <2>3. Cardinality(S \cup {new}) <= n + 1
    BY <2>1, <2>2
  <2> QED BY <2>1, <2>2, <2>3 DEF S
<1>4. Cardinality(UsesOf(more)) <= Cardinality(UsesOf(seen) \cup {new})
      /\ Cardinality(UsesOf(seen) \cup {new}) \in Nat /\ Cardinality(UsesOf(more)) \in Nat
  BY <1>1, <1>3, FS_Subset, FS_CardinalityType
<1> QED BY <1>2, <1>3, <1>4 DEF Total

\* Halved, every use that is left stands for two.
LEMMA TwoCopies ==
  ASSUME NEW S, NEW T, IsFiniteSet(S), IsFiniteSet(T), NEW f \in Injection(S, T),
         NEW g \in Injection(S, T), \A x, y \in S : f[x] # g[y]
  PROVE  2 * Cardinality(S) <= Cardinality(T)
<1> DEFINE A == {f[x] : x \in S}
           B == {g[x] : x \in S}
<1>1. f \in Bijection(S, A) /\ g \in Bijection(S, B)
  BY DEF Bijection, Injection, Surjection
<1>2. A \cap B = {} /\ A \subseteq T /\ B \subseteq T
  BY DEF Injection
<1> HIDE DEF A, B
<1>3. ExistsBijection(S, A) /\ ExistsBijection(S, B)
  BY <1>1 DEF ExistsBijection
<1>4. /\ IsFiniteSet(A) /\ Cardinality(A) = Cardinality(S)
      /\ IsFiniteSet(B) /\ Cardinality(B) = Cardinality(S)
  BY <1>3, FS_Bijection
<1>5. Cardinality(S) \in Nat /\ Cardinality(T) \in Nat /\ Cardinality(A \cap B) = 0
  BY <1>2, FS_CardinalityType, FS_EmptySet
<1>6. Cardinality(A \cup B) = Cardinality(A) + Cardinality(B) - Cardinality(A \cap B)
  BY <1>4, FS_Union
<1>7. Cardinality(A \cup B) <= Cardinality(T)
  <2>1. A \cup B \subseteq T
    BY <1>2
  <2> QED BY <2>1, FS_Subset
<1> QED BY <1>4, <1>5, <1>6, <1>7

\* All counts halved.
LEMMA HalvesLess ==
  ASSUME NEW most \in Nat, NEW seen \in [PtWays -> 0..most],
         NEW halves \in [PtWays -> 0..most],
         \A w \in PtWays : halves[w] = seen[w] \div 2
  PROVE  2 * Total(halves) <= Total(seen)
<1> USE SppAssumption
<1> DEFINE f == [u \in UsesOf(halves) |-> <<u[1], 2 * u[2]>>]
           g == [u \in UsesOf(halves) |-> <<u[1], 2 * u[2] - 1>>]
<1>1. ASSUME NEW u \in UsesOf(halves)
      PROVE  /\ u = <<u[1], u[2]>> /\ u[1] \in PtWays /\ u[2] \in Nat \ {0}
             /\ <<u[1], 2 * u[2]>> \in UsesOf(seen)
             /\ <<u[1], 2 * u[2] - 1>> \in UsesOf(seen)
  <2>1. u = <<u[1], u[2]>> /\ u[1] \in PtWays /\ u[2] \in Nat \ {0} /\ u[2] <= halves[u[1]]
    BY DEF UsesOf
  <2> DEFINE c == seen[u[1]]
             h == halves[u[1]]
  <2>2. c \in Nat /\ h = c \div 2
    BY <2>1
  <2> HIDE DEF c, h
  <2>3. h \in Nat /\ 2 * h <= c
    BY <2>2, HalfIs
  <2>4. u[2] <= h
    BY <2>1 DEF h
  <2>5. 2 * u[2] \in Nat \ {0} /\ 2 * u[2] - 1 \in Nat \ {0} /\ 2 * u[2] <= c /\ 2 * u[2] - 1 <= c
    BY ONLY <2>1, <2>2, <2>3, <2>4
  <2> QED BY <2>1, <2>5 DEF UsesOf, c
<1>2. f \in Injection(UsesOf(halves), UsesOf(seen))
  <2>1. f \in [UsesOf(halves) -> UsesOf(seen)]
    BY <1>1
  <2>2. ASSUME NEW u \in UsesOf(halves), NEW v \in UsesOf(halves), f[u] = f[v]
        PROVE  u = v
    <3>1. u[1] = v[1] /\ 2 * u[2] = 2 * v[2]
      BY <2>2
    <3>2. u = <<u[1], u[2]>> /\ v = <<v[1], v[2]>> /\ u[2] \in Nat /\ v[2] \in Nat
      BY <1>1
    <3>3. u[2] = v[2]
      BY ONLY <3>1, <3>2
    <3> QED BY ONLY <3>1, <3>2, <3>3
  <2>3. \A u, v \in UsesOf(halves) : f[u] = f[v] => u = v
    BY <2>2
  <2> HIDE DEF f
  <2> QED BY ONLY <2>1, <2>3 DEF Injection, IsInjective
<1>3. g \in Injection(UsesOf(halves), UsesOf(seen))
  <2>1. g \in [UsesOf(halves) -> UsesOf(seen)]
    BY <1>1
  <2>2. ASSUME NEW u \in UsesOf(halves), NEW v \in UsesOf(halves), g[u] = g[v]
        PROVE  u = v
    <3>1. u[1] = v[1] /\ 2 * u[2] - 1 = 2 * v[2] - 1
      BY <2>2
    <3>2. u = <<u[1], u[2]>> /\ v = <<v[1], v[2]>> /\ u[2] \in Nat /\ v[2] \in Nat
      BY <1>1
    <3>3. u[2] = v[2]
      BY ONLY <3>1, <3>2
    <3> QED BY ONLY <3>1, <3>2, <3>3
  <2>3. \A u, v \in UsesOf(halves) : g[u] = g[v] => u = v
    BY <2>2
  <2> HIDE DEF g
  <2> QED BY ONLY <2>1, <2>3 DEF Injection, IsInjective
<1>4. ASSUME NEW u \in UsesOf(halves), NEW v \in UsesOf(halves)
      PROVE  f[u] # g[v]
  <2>1. 2 * u[2] # 2 * v[2] - 1
    <3>1. u[2] \in Nat /\ v[2] \in Nat
      BY <1>1
    <3> QED BY ONLY <3>1
  <2> QED BY <2>1
<1> HIDE DEF f, g
<1>5. IsFiniteSet(UsesOf(halves)) /\ IsFiniteSet(UsesOf(seen))
  BY UsesFinite
<1> QED BY <1>2, <1>3, <1>4, <1>5, TwoCopies DEF Total


\* A set of the pattern table: nothing was seen, or its deltas less often than it.
SetTyped(set, most) ==
  /\ set = [c_sig |-> set.c_sig, way |-> set.way] /\ set.c_sig \in 0..most
  /\ set.way = [w \in PtWays |-> set.way[w]] /\ CountsOf(set) \in [PtWays -> 0..most]
  /\ \A w \in PtWays : set.way[w] = [delta |-> set.way[w].delta, c_delta |-> set.way[w].c_delta]

Below(set) ==
  IF set.c_sig = 0 THEN \A w \in PtWays : set.way[w].delta = 0 /\ set.way[w].c_delta = 0
  ELSE Total(CountsOf(set)) < set.c_sig

\* The number after an odd one is even.
LEMMA EvenHalf ==
  ASSUME NEW n \in Nat, n % 2 = 1
  PROVE  (n + 1) \div 2 \in 1..n /\ n + 1 = 2 * ((n + 1) \div 2)
OBVIOUS

\* A set that is halved keeps its deltas below itself.
LEMMA HalvedIs ==
  ASSUME NEW set, SetTyped(set, C_SIG_MAX + 1), set.c_sig > 0, Below(set)
  PROVE  SetTyped(Halved(set), C_SIG_MAX) /\ Below(Halved(set))
<1> USE SppAssumption
<1> DEFINE most == C_SIG_MAX + 1
           seen == CountsOf(set)
<1>1. C_SIG_MAX \in Nat /\ C_SIG_MAX % 2 = 1
  BY DEF SppAssumption
<1>2. /\ set = [c_sig |-> set.c_sig, way |-> set.way] /\ set.c_sig \in 0..most
      /\ set.way = [w \in PtWays |-> set.way[w]] /\ seen \in [PtWays -> 0..most]
      /\ \A w \in PtWays : set.way[w] = [delta |-> set.way[w].delta, c_delta |-> seen[w]]
  BY DEF SetTyped, CountsOf
<1>3. most \in Nat /\ Total(seen) < set.c_sig
  BY <1>1, <1>2 DEF Below
<1> HIDE DEF most
<1>4. seen \in [PtWays -> 0..most]
  BY <1>2
<1> HIDE DEF seen
<1>5. Total(seen) \in Nat /\ \A w \in PtWays : seen[w] \in Nat /\ seen[w] <= Total(seen)
  BY <1>3, <1>4, UsesFinite, OneOfTotal
<1>6. \A w \in PtWays : seen[w] \in 0..C_SIG_MAX
  <2> SUFFICES ASSUME NEW w \in PtWays
               PROVE  seen[w] \in 0..C_SIG_MAX
    OBVIOUS
  <2>1. seen[w] \in Nat /\ seen[w] <= Total(seen)
    BY <1>5
  <2> QED BY <1>1, <1>2, <1>3, <1>5, <2>1 DEF most
<1>7. CASE ~(set.c_sig > C_SIG_MAX)
  <2>1. Halved(set) = set
    BY <1>7 DEF Halved
  <2>2. set.c_sig \in 0..C_SIG_MAX
    BY <1>1, <1>2, <1>7 DEF most
  <2>3. CountsOf(set) \in [PtWays -> 0..C_SIG_MAX]
    BY <1>4, <1>6 DEF seen
  <2> QED BY <1>2, <2>1, <2>2, <2>3 DEF SetTyped, seen
<1>8. CASE set.c_sig > C_SIG_MAX
  <2> DEFINE half == set.c_sig \div 2
             less == Halved(set)
             halves == CountsOf(less)
  <2>1. set.c_sig = most /\ half \in 0..C_SIG_MAX /\ half > 0 /\ set.c_sig = 2 * half
    <3>1. set.c_sig = C_SIG_MAX + 1
      BY <1>1, <1>2, <1>8 DEF most
    <3>2. half = (C_SIG_MAX + 1) \div 2
      BY <3>1
    <3> HIDE DEF half
    <3>3. half \in 1..C_SIG_MAX /\ C_SIG_MAX + 1 = 2 * half
      BY ONLY <1>1, <3>2, EvenHalf
    <3> QED BY ONLY <1>1, <3>1, <3>3 DEF most
  <2>2. less = [c_sig |-> half,
                way |-> [w \in PtWays |-> [set.way[w] EXCEPT !.c_delta = @ \div 2]]]
    <3>1. DOMAIN set.way = PtWays
      BY <1>2
    <3> QED BY <1>8, <3>1 DEF Halved
  <2> HIDE DEF less, half
  <2>3. /\ less.c_sig = half /\ less = [c_sig |-> less.c_sig, way |-> less.way]
        /\ less.way = [w \in PtWays |-> less.way[w]]
    BY <2>2
  <2>4. ASSUME NEW w \in PtWays
        PROVE  less.way[w] = [delta |-> set.way[w].delta, c_delta |-> seen[w] \div 2]
    <3>1. less.way[w] = [set.way[w] EXCEPT !.c_delta = @ \div 2]
      BY <2>2
    <3>2. set.way[w] = [delta |-> set.way[w].delta, c_delta |-> seen[w]]
      BY <1>2
    <3> QED BY <3>1, <3>2
  <2>5. \A w \in PtWays : seen[w] \div 2 \in 0..C_SIG_MAX /\ seen[w] \div 2 \in 0..most
    <3> SUFFICES ASSUME NEW w \in PtWays
                 PROVE  seen[w] \div 2 \in 0..C_SIG_MAX /\ seen[w] \div 2 \in 0..most
      OBVIOUS
    <3> DEFINE c == seen[w]
    <3>1. c \in 0..C_SIG_MAX
      BY <1>6
    <3> HIDE DEF c
    <3>2. c \div 2 \in Nat /\ 2 * (c \div 2) <= c
      BY <1>1, <3>1, HalfIs
    <3>3. c \div 2 \in 0..C_SIG_MAX /\ c \div 2 \in 0..(C_SIG_MAX + 1)
      BY <1>1, <3>1, <3>2
    <3> QED BY <3>3 DEF c, most
  <2>6. halves = [w \in PtWays |-> seen[w] \div 2]
    <3>1. ASSUME NEW w \in PtWays
          PROVE  less.way[w].c_delta = seen[w] \div 2
      <4>1. less.way[w] = [delta |-> set.way[w].delta, c_delta |-> seen[w] \div 2]
        BY <2>4
      <4> QED BY ONLY <4>1
    <3> QED BY <3>1 DEF CountsOf
  <2>7. /\ halves \in [PtWays -> 0..C_SIG_MAX] /\ halves \in [PtWays -> 0..most]
        /\ \A w \in PtWays : halves[w] = seen[w] \div 2
    BY <2>5, <2>6
  <2> HIDE DEF halves
  <2>8. SetTyped(less, C_SIG_MAX)
    <3>1. ASSUME NEW w \in PtWays
          PROVE  less.way[w] = [delta |-> less.way[w].delta, c_delta |-> less.way[w].c_delta]
      <4>1. less.way[w] = [delta |-> set.way[w].delta, c_delta |-> seen[w] \div 2]
        BY <2>4
      <4> QED BY ONLY <4>1
    <3>2. less.c_sig \in 0..C_SIG_MAX
      BY <2>1, <2>3
    <3> QED BY ONLY <2>3, <2>7, <3>1, <3>2 DEF SetTyped, halves
  <2>9. 2 * Total(halves) <= Total(seen) /\ Total(halves) \in Nat
    BY <1>3, <1>4, <2>7, HalvesLess, UsesFinite
  <2>10. Total(halves) < half
    BY <1>1, <1>3, <1>5, <2>1, <2>9
  <2>11. Below(less)
    BY <2>1, <2>3, <2>10 DEF Below, halves
  <2> QED BY <2>8, <2>11 DEF less
<1> QED BY <1>7, <1>8

\* A set whose deltas have been seen less often than the set.
PatternInv(set) == SetTyped(set, C_SIG_MAX) /\ Below(set)

\* What the two ways of counting a delta do to the counts.
LEMMA CountedMore ==
  ASSUME NEW set, SetTyped(set, C_SIG_MAX), NEW first \in PtWays, NEW more,
         more = [c_sig |-> set.c_sig + 1,
                 way |-> [w \in PtWays |->
                            IF w = first
                            THEN [delta |-> set.way[w].delta, c_delta |-> set.way[w].c_delta + 1]
                            ELSE set.way[w]]]
  PROVE  /\ SetTyped(more, C_SIG_MAX + 1) /\ more.c_sig = set.c_sig + 1
         /\ CountsOf(more) = [CountsOf(set) EXCEPT ![first] = @ + 1]
<1> USE SppAssumption
<1>1. C_SIG_MAX \in Nat
  BY DEF SppAssumption
<1>2. /\ set.c_sig \in 0..C_SIG_MAX /\ CountsOf(set) \in [PtWays -> 0..C_SIG_MAX]
      /\ \A w \in PtWays : set.way[w] = [delta |-> set.way[w].delta, c_delta |-> set.way[w].c_delta]
      /\ \A w \in PtWays : CountsOf(set)[w] = set.way[w].c_delta
  BY DEF SetTyped, CountsOf
<1>3. more.c_sig = set.c_sig + 1 /\ more = [c_sig |-> more.c_sig, way |-> more.way]
      /\ more.way = [w \in PtWays |-> more.way[w]]
  OBVIOUS
<1>4. ASSUME NEW w \in PtWays
      PROVE  more.way[w] = IF w = first
                           THEN [delta |-> set.way[w].delta, c_delta |-> set.way[w].c_delta + 1]
                           ELSE set.way[w]
  OBVIOUS
<1>5. ASSUME NEW w \in PtWays
      PROVE  /\ more.way[w] = [delta |-> more.way[w].delta, c_delta |-> more.way[w].c_delta]
             /\ more.way[w].c_delta = IF w = first THEN CountsOf(set)[w] + 1 ELSE CountsOf(set)[w]
  <2>1. /\ set.way[w] = [delta |-> set.way[w].delta, c_delta |-> set.way[w].c_delta]
        /\ CountsOf(set)[w] = set.way[w].c_delta
    BY <1>2
  <2> QED BY <1>4, <2>1
<1>6. ASSUME NEW w \in PtWays
      PROVE  CountsOf(set)[w] \in 0..(C_SIG_MAX + 1) /\ CountsOf(set)[w] + 1 \in 0..(C_SIG_MAX + 1)
  <2>1. CountsOf(set)[w] \in 0..C_SIG_MAX
    BY <1>2
  <2> QED BY <1>1, <2>1
<1>7. CountsOf(more) = [w \in PtWays |->
                          IF w = first THEN CountsOf(set)[w] + 1 ELSE CountsOf(set)[w]]
  <2>1. CountsOf(more) = [w \in PtWays |-> more.way[w].c_delta]
    BY DEF CountsOf
  <2> QED BY ONLY <1>5, <2>1
<1>8. CountsOf(more) \in [PtWays -> 0..(C_SIG_MAX + 1)]
  BY ONLY <1>6, <1>7
<1>9. set.c_sig + 1 \in 0..(C_SIG_MAX + 1)
  BY <1>1, <1>2
<1>10. CountsOf(more) = [CountsOf(set) EXCEPT ![first] = @ + 1]
  BY ONLY <1>2, <1>7
<1> QED BY ONLY <1>3, <1>5, <1>8, <1>9, <1>10 DEF SetTyped

\* The least counted delta gives its way to a new one.
Displaced(set, rarest, delta) ==
  [c_sig |-> set.c_sig + 1,
   way |-> [w \in PtWays |->
              IF w = rarest THEN [delta |-> delta, c_delta |-> 0] ELSE set.way[w]]]

LEMMA CountedOther ==
  ASSUME NEW set, SetTyped(set, C_SIG_MAX), NEW rarest, NEW delta, NEW more,
         more = Displaced(set, rarest, delta)
  PROVE  /\ SetTyped(more, C_SIG_MAX + 1) /\ more.c_sig = set.c_sig + 1
         /\ \A w \in PtWays : CountsOf(more)[w] <= CountsOf(set)[w]
<1> USE SppAssumption DEF Displaced
<1>1. C_SIG_MAX \in Nat
  BY DEF SppAssumption
<1>2. /\ set.c_sig \in 0..C_SIG_MAX /\ CountsOf(set) \in [PtWays -> 0..C_SIG_MAX]
      /\ \A w \in PtWays : set.way[w] = [delta |-> set.way[w].delta, c_delta |-> set.way[w].c_delta]
      /\ \A w \in PtWays : CountsOf(set)[w] = set.way[w].c_delta
  BY DEF SetTyped, CountsOf
<1>3. more.c_sig = set.c_sig + 1 /\ more = [c_sig |-> more.c_sig, way |-> more.way]
      /\ more.way = [w \in PtWays |-> more.way[w]]
  OBVIOUS
<1>4. ASSUME NEW w \in PtWays
      PROVE  more.way[w] = IF w = rarest THEN [delta |-> delta, c_delta |-> 0] ELSE set.way[w]
  OBVIOUS
<1>5. ASSUME NEW w \in PtWays
      PROVE  /\ more.way[w] = [delta |-> more.way[w].delta, c_delta |-> more.way[w].c_delta]
             /\ more.way[w].c_delta = IF w = rarest THEN 0 ELSE CountsOf(set)[w]
  <2>1. /\ set.way[w] = [delta |-> set.way[w].delta, c_delta |-> set.way[w].c_delta]
        /\ CountsOf(set)[w] = set.way[w].c_delta
    BY <1>2
  <2> QED BY <1>4, <2>1
<1>6. ASSUME NEW w \in PtWays
      PROVE  CountsOf(set)[w] \in 0..(C_SIG_MAX + 1) /\ 0 \in 0..(C_SIG_MAX + 1)
             /\ CountsOf(set)[w] <= CountsOf(set)[w] /\ 0 <= CountsOf(set)[w]
  <2>1. CountsOf(set)[w] \in 0..C_SIG_MAX
    BY <1>2
  <2> QED BY <1>1, <2>1
<1>7. CountsOf(more) = [w \in PtWays |-> IF w = rarest THEN 0 ELSE CountsOf(set)[w]]
  <2>1. CountsOf(more) = [w \in PtWays |-> more.way[w].c_delta]
    BY DEF CountsOf
  <2> QED BY ONLY <1>5, <2>1
<1>8. CountsOf(more) \in [PtWays -> 0..(C_SIG_MAX + 1)]
      /\ \A w \in PtWays : CountsOf(more)[w] <= CountsOf(set)[w]
  BY ONLY <1>6, <1>7
<1>9. set.c_sig + 1 \in 0..(C_SIG_MAX + 1)
  BY <1>1, <1>2
<1> QED BY ONLY <1>3, <1>5, <1>8, <1>9 DEF SetTyped

\* Counting a delta, old or new, keeps a set of the pattern table.
LEMMA UpdateKeeps ==
  ASSUME NEW set, PatternInv(set), NEW delta, delta # 0
  PROVE  PatternInv(update_pattern(set, delta))
<1> USE SppAssumption
<1> DEFINE most == C_SIG_MAX + 1
           seen == CountsOf(set)
           same == {w \in PtWays : set.way[w].delta = delta}
           rare == {w \in PtWays : \A v \in PtWays : set.way[w].c_delta <= set.way[v].c_delta}
           counted == [set EXCEPT !.c_sig = @ + 1]
           first == Min(same)
           rarest == Min(rare)
           more == [counted EXCEPT !.way[first].c_delta = @ + 1]
           other == [counted EXCEPT !.way[rarest] = [delta |-> delta, c_delta |-> 0]]
<1>1. C_SIG_MAX \in Nat /\ most \in Nat
  BY DEF SppAssumption
<1>2. SetTyped(set, C_SIG_MAX) /\ Below(set)
  BY DEF PatternInv
<1>3. update_pattern(set, delta) = Halved(IF same # {} THEN more ELSE other)
  BY DEF update_pattern, PtWays
<1>4. /\ set = [c_sig |-> set.c_sig, way |-> set.way] /\ set.c_sig \in 0..C_SIG_MAX
      /\ set.way = [w \in PtWays |-> set.way[w]] /\ seen \in [PtWays -> 0..C_SIG_MAX]
      /\ \A w \in PtWays : set.way[w] = [delta |-> set.way[w].delta, c_delta |-> set.way[w].c_delta]
  BY <1>2 DEF SetTyped
<1> HIDE DEF seen
<1>5. seen \in [PtWays -> 0..most] /\ Total(seen) \in Nat
  <2>1. \A n \in 0..C_SIG_MAX : n \in 0..most
    BY <1>1
  <2>2. seen \in [PtWays -> 0..most]
    BY <1>4, <2>1
  <2> HIDE DEF most
  <2> QED BY <1>1, <2>2, UsesFinite
<1>6. same # {} => first \in same
  <2>1. same \in SUBSET Nat
    BY DEF PtWays
  <2> HIDE DEF same
  <2>2. same # {} => \E x \in same : \A y \in same : x <= y
    BY <2>1, LeastExists
  <2> QED BY <2>2 DEF Min
<1>7. counted = [c_sig |-> set.c_sig + 1, way |-> set.way]
  BY <1>4
<1> HIDE DEF first, rarest, counted
<1>8. CASE same # {}
  <2>1. first \in PtWays /\ set.way[first].delta = delta
    BY <1>6, <1>8
  <2>2. set.c_sig # 0 /\ Total(seen) < set.c_sig
    BY <1>2, <2>1 DEF Below, seen
  <2>3. more.c_sig = set.c_sig + 1 /\ DOMAIN more = {"c_sig", "way"}
        /\ more.way = [set.way EXCEPT ![first].c_delta = @ + 1]
    BY <1>7
  <2>4. ASSUME NEW w \in PtWays
        PROVE  more.way[w] = IF w = first
                             THEN [delta |-> set.way[w].delta, c_delta |-> set.way[w].c_delta + 1]
                             ELSE set.way[w]
    <3>1. set.way[w] = [delta |-> set.way[w].delta, c_delta |-> set.way[w].c_delta]
      BY <1>4
    <3> QED BY <1>4, <2>1, <2>3, <3>1
  <2>5. more = [c_sig |-> set.c_sig + 1,
                way |-> [w \in PtWays |->
                           IF w = first
                           THEN [delta |-> set.way[w].delta, c_delta |-> set.way[w].c_delta + 1]
                           ELSE set.way[w]]]
    <3>1. more.way = [w \in PtWays |-> more.way[w]]
      BY <1>4, <2>3
    <3>2. more = [c_sig |-> more.c_sig, way |-> more.way]
      BY <1>7
    <3> QED BY ONLY <2>3, <2>4, <3>1, <3>2
  <2> HIDE DEF more, same
  <2>6. /\ SetTyped(more, most) /\ more.c_sig = set.c_sig + 1
        /\ CountsOf(more) = [seen EXCEPT ![first] = @ + 1]
    BY <1>2, <2>1, <2>5, CountedMore DEF seen
  <2>7. Total(CountsOf(more)) <= Total(seen) + 1
    <3> HIDE DEF most
    <3> QED BY <1>1, <1>5, <2>1, <2>6, OneMoreUse
  <2>8. Total(CountsOf(more)) \in Nat
    <3>1. CountsOf(more) \in [PtWays -> 0..most]
      BY <2>6 DEF SetTyped
    <3> HIDE DEF most
    <3> QED BY <1>1, <3>1, UsesFinite
  <2>9. more.c_sig > 0 /\ Total(CountsOf(more)) < more.c_sig
    <3>1. set.c_sig \in Nat
      BY <1>1, <1>4
    <3> QED BY ONLY <1>5, <2>2, <2>6, <2>7, <2>8, <3>1
  <2>10. Below(more)
    BY <2>9 DEF Below
  <2>11. PatternInv(Halved(more))
    BY <2>6, <2>9, <2>10, HalvedIs DEF PatternInv
  <2> QED BY <1>3, <1>8, <2>11
<1>9. CASE same = {}
  <2>1. other.c_sig = set.c_sig + 1 /\ DOMAIN other = {"c_sig", "way"}
        /\ other.way = [set.way EXCEPT ![rarest] = [delta |-> delta, c_delta |-> 0]]
    BY <1>7
  <2>2. ASSUME NEW w \in PtWays
        PROVE  other.way[w] = IF w = rarest THEN [delta |-> delta, c_delta |-> 0] ELSE set.way[w]
    BY <1>4, <2>1
  <2>3. other = Displaced(set, rarest, delta)
    <3>1. other.way = [w \in PtWays |-> other.way[w]]
      BY <1>4, <2>1
    <3>2. other = [c_sig |-> other.c_sig, way |-> other.way]
      BY <1>7
    <3> QED BY ONLY <2>1, <2>2, <3>1, <3>2 DEF Displaced
  <2> HIDE DEF other, same
  <2>4. /\ SetTyped(other, most) /\ other.c_sig = set.c_sig + 1
        /\ \A w \in PtWays : CountsOf(other)[w] <= seen[w]
    <3>1. C_SIG_MAX + 1 = most
      OBVIOUS
    <3> HIDE DEF most, rare, more
    <3>2. /\ SetTyped(other, C_SIG_MAX + 1) /\ other.c_sig = set.c_sig + 1
          /\ \A w \in PtWays : CountsOf(other)[w] <= CountsOf(set)[w]
      <4>1. SetTyped(set, C_SIG_MAX)
        BY <1>2
      <4> QED BY ONLY <4>1, <2>3, CountedOther
    <3> QED BY ONLY <3>1, <3>2 DEF seen
  <2>5. CountsOf(other) \in [PtWays -> 0..most]
    BY <2>4 DEF SetTyped
  <2>6. Total(CountsOf(other)) <= Total(seen) /\ Total(CountsOf(other)) \in Nat
    <3> HIDE DEF most
    <3> QED BY <1>1, <1>5, <2>4, <2>5, LessUses, UsesFinite
  <2>7. Total(seen) <= set.c_sig
    <3>1. CASE set.c_sig # 0
      <4>1. Total(seen) < set.c_sig
        BY <1>2, <3>1 DEF Below, seen
      <4> QED BY <1>1, <1>4, <1>5, <4>1
    <3>2. CASE set.c_sig = 0
      <4>1. \A w \in PtWays : seen[w] = 0
        BY <1>2, <3>2 DEF Below, seen, CountsOf
      <4>2. UsesOf(seen) = {}
        BY <4>1 DEF UsesOf
      <4>3. Total(seen) = 0
        BY <4>2, FS_EmptySet DEF Total
      <4> QED BY <3>2, <4>3
    <3> QED BY <3>1, <3>2
  <2>8. other.c_sig > 0 /\ Total(CountsOf(other)) < other.c_sig
    <3>1. set.c_sig \in Nat
      BY <1>1, <1>4
    <3> QED BY ONLY <1>5, <2>4, <2>6, <2>7, <3>1
  <2>9. Below(other)
    BY <2>8 DEF Below
  <2>10. PatternInv(Halved(other))
    BY <2>4, <2>8, <2>9, HalvedIs DEF PatternInv
  <2> QED BY <1>3, <1>9, <2>10
<1> QED BY <1>8, <1>9

\* The pages: their ages a permutation of the ways, no page in two of them.
StWays == 0..(ST_WAY - 1)

PagesInv(ST) ==
  /\ ST = [w \in StWays |-> ST[w]]
  /\ \A w \in StWays : {"valid", "tag", "lru"} \subseteq DOMAIN ST[w]
  /\ \A w \in StWays : ST[w].lru \in StWays
  /\ \A v, w \in StWays : ST[v].lru = ST[w].lru => v = w
  /\ \A age \in StWays : \E w \in StWays : ST[w].lru = age
  /\ \A v, w \in StWays : (ST[v].valid /\ ST[w].valid /\ ST[v].tag = ST[w].tag) => v = w

\* A way that is moved to the front leaves a permutation.
LEMMA PromotedKeeps ==
  ASSUME NEW ST, PagesInv(ST), NEW m \in StWays
  PROVE  PagesInv(Promoted(ST, m))
<1> USE SppAssumption
<1> DEFINE next == Promoted(ST, m)
<1>1. ST_WAY \in Nat \ {0}
  BY DEF SppAssumption
<1>2. DOMAIN ST = StWays /\ ST[m].lru \in StWays
  BY DEF PagesInv
<1>3. next = [w \in StWays |-> IF w = m THEN [ST[w] EXCEPT !.lru = 0]
                               ELSE IF ST[w].lru < ST[m].lru THEN [ST[w] EXCEPT !.lru = ST[w].lru + 1]
                               ELSE ST[w]]
  BY <1>2 DEF Promoted
<1> HIDE DEF next
<1>4. ASSUME NEW w \in StWays
      PROVE  /\ {"valid", "tag", "lru"} \subseteq DOMAIN next[w]
             /\ next[w].valid = ST[w].valid /\ next[w].tag = ST[w].tag
             /\ next[w].lru = IF w = m THEN 0
                              ELSE IF ST[w].lru < ST[m].lru THEN ST[w].lru + 1 ELSE ST[w].lru
  <2>1. {"valid", "tag", "lru"} \subseteq DOMAIN ST[w]
    BY DEF PagesInv
  <2>2. next[w] = IF w = m THEN [ST[w] EXCEPT !.lru = 0]
                  ELSE IF ST[w].lru < ST[m].lru THEN [ST[w] EXCEPT !.lru = ST[w].lru + 1]
                  ELSE ST[w]
    BY <1>3
  <2> QED BY ONLY <2>1, <2>2
<1>5. \A w \in StWays : ST[w].lru \in Int /\ 0 <= ST[w].lru /\ ST[w].lru <= ST_WAY - 1
  BY <1>1 DEF PagesInv, StWays
<1>6. next = [w \in StWays |-> next[w]]
  BY <1>3
<1>7. ASSUME NEW w \in StWays
      PROVE  next[w].lru \in StWays
  <2>1. next[w].lru \in Int /\ 0 <= next[w].lru /\ next[w].lru <= ST_WAY - 1
    BY ONLY <1>1, <1>4, <1>5, m \in StWays, w \in StWays
  <2> QED BY <1>1, <2>1 DEF StWays
<1>8. ASSUME NEW v \in StWays, NEW w \in StWays, next[v].lru = next[w].lru
      PROVE  v = w
  <2>1. ST[v].lru = ST[w].lru => v = w
    BY DEF PagesInv
  <2>2. (ST[v].lru = ST[m].lru => v = m) /\ (ST[w].lru = ST[m].lru => w = m)
    BY DEF PagesInv
  <2> QED BY <1>4, <1>5, <1>8, <2>1, <2>2
<1>9. ASSUME NEW age \in StWays
      PROVE  \E w \in StWays : next[w].lru = age
  <2>1. age \in Int /\ 0 <= age /\ age <= ST_WAY - 1
    BY <1>1 DEF StWays
  <2>2. CASE age = 0
    BY <1>4, <2>2
  <2>3. CASE age # 0 /\ age <= ST[m].lru
    <3>1. age - 1 \in StWays
      BY <1>1, <2>1, <2>3 DEF StWays
    <3>2. PICK w \in StWays : ST[w].lru = age - 1
      BY <3>1 DEF PagesInv
    <3>3. w # m /\ ST[w].lru < ST[m].lru
      <4>1. ST[m].lru \in Int /\ ST[w].lru \in Int
        BY <1>5
      <4> QED BY ONLY <2>1, <2>3, <3>2, <4>1
    <3>4. next[w].lru = age
      BY <1>4, <2>1, <3>2, <3>3
    <3> QED BY <3>4
  <2>4. CASE age > ST[m].lru
    <3>1. PICK w \in StWays : ST[w].lru = age
      BY DEF PagesInv
    <3>2. w # m /\ ~(ST[w].lru < ST[m].lru)
      <4>1. ST[m].lru \in Int /\ ST[w].lru \in Int
        BY <1>5
      <4> QED BY ONLY <2>1, <2>4, <3>1, <4>1
    <3>3. next[w].lru = age
      BY <1>4, <3>1, <3>2
    <3> QED BY <3>3
  <2>5. age = 0 \/ (age # 0 /\ age <= ST[m].lru) \/ age > ST[m].lru
    <3>1. ST[m].lru \in Int
      BY <1>5
    <3> QED BY ONLY <2>1, <3>1
  <2> QED BY ONLY <2>2, <2>3, <2>4, <2>5
<1>10. \A v, w \in StWays : (next[v].valid /\ next[w].valid /\ next[v].tag = next[w].tag) => v = w
  BY <1>4 DEF PagesInv
<1>11. PagesInv(next)
  BY ONLY <1>4, <1>6, <1>7, <1>8, <1>9, <1>10 DEF PagesInv
<1> QED BY <1>11 DEF next

\* The way of a page exists, and is the page's own if the page has one.
LEMMA WayFound ==
  ASSUME NEW ST, PagesInv(ST), NEW page
  PROVE  /\ StWay(ST, page) \in StWays
         /\ \A v \in StWays : (ST[v].valid /\ ST[v].tag = page) => v = StWay(ST, page)
<1> USE SppAssumption
<1> DEFINE own == {w \in StWays : ST[w].valid /\ ST[w].tag = page}
           unused == {w \in StWays : ~ST[w].valid}
           oldest == {w \in StWays : ST[w].lru = ST_WAY - 1}
           way == StWay(ST, page)
<1>1. DOMAIN ST = StWays
  BY DEF PagesInv
<1>2. way = IF own # {} THEN Min(own) ELSE IF unused # {} THEN Min(unused)
            ELSE Min(oldest)
  BY <1>1 DEF StWay
<1>3. oldest # {}
  <2>1. ST_WAY - 1 \in StWays
    BY DEF SppAssumption, StWays
  <2> QED BY <2>1 DEF PagesInv
<1>4. own \in SUBSET StWays /\ unused \in SUBSET StWays /\ oldest \in SUBSET StWays
  OBVIOUS
<1>5. ASSUME NEW ways \in SUBSET StWays, ways # {}
      PROVE  Min(ways) \in ways
  <2>1. ways \in SUBSET Nat
    BY DEF StWays
  <2>2. \E x \in ways : \A y \in ways : x <= y
    BY <1>5, <2>1, LeastExists
  <2> QED BY <2>2 DEF Min
<1>6. \A v \in own : \A w \in own : v = w
  BY DEF PagesInv
<1> HIDE DEF way
<1>7. own # {} => way \in own
  <2> HIDE DEF own, unused, oldest
  <2> QED BY <1>2, <1>4, <1>5
<1>8. way \in StWays
  <2> HIDE DEF own, unused, oldest
  <2> QED BY <1>2, <1>3, <1>4, <1>5
<1>9. \A v \in StWays : (ST[v].valid /\ ST[v].tag = page) => v \in own
  OBVIOUS
<1> HIDE DEF own
<1> QED BY <1>6, <1>7, <1>8, <1>9 DEF way

\* A page in its way, in place of another.
LEMMA PageEnters ==
  ASSUME NEW ST, PagesInv(ST), NEW w \in StWays, NEW page, NEW found,
         \A v \in StWays : (ST[v].valid /\ ST[v].tag = page) => v = w,
         {"valid", "tag", "lru"} \subseteq DOMAIN found, found.lru = ST[w].lru, found.tag = page
  PROVE  PagesInv([ST EXCEPT ![w] = found])
<1> DEFINE next == [ST EXCEPT ![w] = found]
<1>1. DOMAIN ST = StWays
  BY DEF PagesInv
<1>2. /\ next = [v \in StWays |-> next[v]]
      /\ \A v \in StWays : next[v] = IF v = w THEN found ELSE ST[v]
  BY <1>1
<1> HIDE DEF next
<1>3. \A v \in StWays : next[v].lru = ST[v].lru /\ {"valid", "tag", "lru"} \subseteq DOMAIN next[v]
  BY <1>2 DEF PagesInv
<1>4. ASSUME NEW u \in StWays, NEW v \in StWays,
             next[u].valid, next[v].valid, next[u].tag = next[v].tag
      PROVE  u = v
  <2>1. CASE u # w /\ v # w
    BY <1>2, <1>4, <2>1 DEF PagesInv
  <2>2. CASE u = w \/ v = w
    BY <1>2, <1>4, <2>2
  <2> QED BY <2>1, <2>2
<1>5. PagesInv(next)
  <2>1. /\ \A v \in StWays : ST[v].lru \in StWays
        /\ \A u, v \in StWays : ST[u].lru = ST[v].lru => u = v
        /\ \A age \in StWays : \E v \in StWays : ST[v].lru = age
    BY DEF PagesInv
  <2>2. /\ \A v \in StWays : next[v].lru \in StWays
        /\ \A u, v \in StWays : next[u].lru = next[v].lru => u = v
        /\ \A age \in StWays : \E v \in StWays : next[v].lru = age
    BY ONLY <1>3, <2>1
  <2> QED BY ONLY <1>2, <1>3, <1>4, <2>2 DEF PagesInv
<1> QED BY <1>5 DEF next

\* The state's two path tables, and what leaves them alone.
PathInv ==
  /\ {"ST", "PT"} \subseteq DOMAIN spp /\ DOMAIN spp.PT = 0..(PT_SET - 1)
  /\ \A s \in 0..(PT_SET - 1) : PatternInv(spp.PT[s])
  /\ PagesInv(spp.ST)

TablesKept(p, q) == {"ST", "PT"} \subseteq DOMAIN q /\ q.ST = p.ST /\ q.PT = p.PT

\* A step that leaves the tables alone.
LEMMA KeptTables ==
  ASSUME PathInv, TablesKept(spp, spp')
  PROVE  PathInv'
<1>1. {"ST", "PT"} \subseteq DOMAIN spp' /\ spp'.ST = spp.ST /\ spp'.PT = spp.PT
  BY DEF TablesKept
<1> QED BY <1>1 DEF PathInv, PatternInv, SetTyped, Below, PagesInv

\* Everything but a demand leaves the tables alone.
LEMMA OtherActionsKeep ==
  ASSUME {"ST", "PT"} \subseteq DOMAIN spp,
         (\E number \in PathBlocks : Evict(number)) \/ ReadPattern \/ IssueCandidate
           \/ EndRound
  PROVE  TablesKept(spp, spp')
<1>1. ASSUME NEW number \in PathBlocks, Evict(number)
      PROVE  TablesKept(spp, spp')
  BY <1>1 DEF Evict, TablesKept
<1>2. CASE ReadPattern
  BY <1>2, ZenonT(60) DEF ReadPattern, TablesKept
<1>3. CASE IssueCandidate
  <2> DEFINE next == [spp EXCEPT !.look.at = @ + 1]
             taken == [next EXCEPT !.look.again = TRUE, !.look.head = @ + 1]
  <2>1. TablesKept(spp, next) /\ TablesKept(spp, taken)
    BY DEF TablesKept
  <2> HIDE DEF next, taken
  <2>2. ASSUME NEW p, TablesKept(spp, p), NEW sig, NEW confidence, NEW offset, NEW delta
        PROVE  TablesKept(spp, update_entry(p, sig, confidence, offset, delta))
    BY <2>2 DEF TablesKept, update_entry
  <2>3. ASSUME NEW p, TablesKept(spp, p), NEW number, NEW here
        PROVE  TablesKept(spp, CheckPrefetch(p, number, here))
    BY <2>3 DEF TablesKept, CheckPrefetch
  <2>4. ASSUME NEW p, TablesKept(spp, p)
        PROVE  TablesKept(spp, Counted(p))
    BY <2>4 DEF TablesKept, Counted
  <2> DEFINE l == spp.look
             c == l.queue[l.at]
             number == l.base + c.delta
             here == c.confidence >= FILL_THRESHOLD
  <2>5. spp' = IF c.confidence < PF_THRESHOLD THEN next
               ELSE IF PageOf(number) # l.page
               THEN update_entry(taken, l.sig, c.confidence, OffsetOf(number), c.delta)
               ELSE IF here /\ ~InFilter(spp, number)
               THEN Counted(CheckPrefetch(taken, number, TRUE))
               ELSE CheckPrefetch(taken, number, here)
    BY <1>3 DEF IssueCandidate, next, taken
  <2> HIDE DEF l, c, number, here
  <2> QED BY <2>1, <2>2, <2>3, <2>4, <2>5
<1>4. CASE EndRound
  BY <1>4 DEF EndRound, TablesKept
<1> QED BY <1>1, <1>2, <1>3, <1>4

\* A demand moves its page to the front and counts its delta.
LEMMA DemandKeeps ==
  ASSUME PathInv, NEW number \in PathBlocks, Demand(number)
  PROVE  PathInv'
<1> USE SppAssumption
<1> DEFINE page == PageOf(number)
           r == ReadAndUpdate(spp, number)
           w == StWay(spp.ST, page)
           s == CheckDemand(r.state, number)
           set == r.last_sig % PT_SET
<1>1. PagesInv(spp.ST) /\ {"ST", "PT"} \subseteq DOMAIN spp /\ DOMAIN spp.PT = 0..(PT_SET - 1)
  BY DEF PathInv
<1>2. w \in StWays /\ \A v \in StWays : (spp.ST[v].valid /\ spp.ST[v].tag = page) => v = w
  BY <1>1, WayFound
<1>3. PICK found, last_sig, curr_sig, delta :
        /\ found.lru = spp.ST[w].lru /\ found.tag = page
        /\ {"valid", "tag", "lru"} \subseteq DOMAIN found
        /\ r.state = [spp EXCEPT !.ST = Promoted([spp.ST EXCEPT ![w] = found], w)]
        /\ r.last_sig = last_sig /\ r.curr_sig = curr_sig /\ r.delta = delta
        /\ last_sig # 0 => delta # 0
  <2> DEFINE entry == spp.ST[w]
             hit == entry.valid /\ entry.tag = page
             delta == IF hit THEN OffsetOf(number) - entry.last_offset ELSE 0
             sig == IF ~hit THEN FreshSignature(spp, OffsetOf(number))
                    ELSE IF delta # 0 THEN NextSignature(entry.sig, delta) ELSE entry.sig
             found == [entry EXCEPT !.valid = TRUE, !.tag = page, !.sig = sig,
                                    !.last_offset = OffsetOf(number)]
             last_sig == IF hit /\ delta # 0 THEN entry.sig ELSE 0
             curr_sig == IF hit /\ delta = 0 THEN 0 ELSE sig
  <2>1. {"valid", "tag", "lru"} \subseteq DOMAIN entry
    BY <1>1, <1>2 DEF PagesInv
  <2>2. r = [state |-> [spp EXCEPT !.ST = Promoted([spp.ST EXCEPT ![w] = found], w)],
             last_sig |-> last_sig, curr_sig |-> curr_sig, delta |-> delta]
    BY DEF ReadAndUpdate
  <2>3. last_sig # 0 => delta # 0
    OBVIOUS
  <2> HIDE DEF entry, sig, last_sig, curr_sig, delta, hit, page, r
  <2>4. found.lru = entry.lru /\ found.tag = page /\ {"valid", "tag", "lru"} \subseteq DOMAIN found
    BY <2>1
  <2> HIDE DEF found, w
  <2>5. /\ r.state = [spp EXCEPT !.ST = Promoted([spp.ST EXCEPT ![w] = found], w)]
        /\ r.last_sig = last_sig /\ r.curr_sig = curr_sig /\ r.delta = delta
    BY ONLY <2>2
  <2>6. found.lru = spp.ST[w].lru
    BY <2>4 DEF entry
  <2> QED BY <2>3, <2>4, <2>5, <2>6
<1> DEFINE pages == Promoted([spp.ST EXCEPT ![w] = found], w)
<1>4. PagesInv(pages)
  <2> HIDE DEF w, page
  <2>1. PagesInv([spp.ST EXCEPT ![w] = found])
    BY <1>1, <1>2, <1>3, PageEnters
  <2> QED BY <1>2, <2>1, PromotedKeeps
<1>5. {"ST", "PT"} \subseteq DOMAIN r.state /\ r.state.ST = pages /\ r.state.PT = spp.PT
  <2> HIDE DEF pages, r
  <2>1. r.state = [spp EXCEPT !.ST = pages]
    BY <1>3 DEF pages
  <2> QED BY <1>1, <2>1
<1> HIDE DEF pages, r
<1>6. {"ST", "PT"} \subseteq DOMAIN s /\ s.ST = pages /\ s.PT = spp.PT
  <2>1. ASSUME NEW p, {"ST", "PT"} \subseteq DOMAIN p, NEW q, q = CheckDemand(p, number)
        PROVE  {"ST", "PT"} \subseteq DOMAIN q /\ q.ST = p.ST /\ q.PT = p.PT
    BY <2>1 DEF CheckDemand
  <2> QED BY <1>5, <2>1
<1> HIDE DEF s
<1>7. PICK accuracy, look :
        spp' = [s EXCEPT !.demands = s.demands + 1, !.stage = "read", !.global_accuracy = accuracy,
                         !.PT[set] = IF r.last_sig # 0 THEN update_pattern(s.PT[set], r.delta)
                                     ELSE s.PT[set],
                         !.look = look]
  BY DEF Demand, r, s
<1> HIDE DEF set
<1>8. {"ST", "PT"} \subseteq DOMAIN spp' /\ spp'.ST = pages
      /\ spp'.PT = [spp.PT EXCEPT ![set] = IF r.last_sig # 0
                                           THEN update_pattern(spp.PT[set], r.delta)
                                           ELSE spp.PT[set]]
  BY <1>6, <1>7
<1>9. ASSUME NEW n \in 0..(PT_SET - 1)
      PROVE  PatternInv(spp'.PT[n])
  <2>1. PatternInv(spp.PT[n])
    BY DEF PathInv
  <2>2. CASE n = set /\ r.last_sig # 0
    <3>1. spp'.PT[n] = update_pattern(spp.PT[n], r.delta) /\ r.delta # 0
      BY <1>1, <1>3, <1>8, <2>2
    <3>2. PatternInv(update_pattern(spp.PT[n], r.delta))
      BY <2>1, <3>1, UpdateKeeps
    <3> QED BY <3>1, <3>2
  <2>3. CASE ~(n = set /\ r.last_sig # 0)
    <3>1. spp'.PT[n] = spp.PT[n]
      BY <1>1, <1>8, <2>3
    <3> QED BY <2>1, <3>1
  <2> QED BY <2>2, <2>3
<1>10. DOMAIN spp'.PT = 0..(PT_SET - 1)
  BY <1>1, <1>8
<1>11. PagesInv(spp'.ST)
  BY <1>4, <1>8
<1> QED BY <1>8, <1>9, <1>10, <1>11 DEF PathInv

\* The uses of a set's deltas, as the property counts them.
LEMMA UsesAre ==
  ASSUME NEW most \in Nat, NEW set, SetTyped(set, most)
  PROVE  Uses(set) = UsesOf(CountsOf(set))
<1>1. ASSUME NEW w \in PtWays
      PROVE  CountsOf(set)[w] = set.way[w].c_delta /\ CountsOf(set)[w] \in Nat
  BY DEF SetTyped, CountsOf
<1>2. Uses(set) = UNION {{w} \X (1..CountsOf(set)[w]) : w \in PtWays}
  BY DEF Uses, PtWays, CountsOf
<1> DEFINE seen == CountsOf(set)
<1>3. \A w \in PtWays : seen[w] \in Nat
  BY <1>1
<1> HIDE DEF seen
<1>4. UNION {{w} \X (1..seen[w]) : w \in PtWays} = UsesOf(seen)
  BY <1>3 DEF UsesOf
<1> QED BY <1>2, <1>4 DEF seen

\* The property, of the stronger invariant.
LEMMA PathProperty ==
  ASSUME PathInv
  PROVE  PathTablesConsistent
<1> USE SppAssumption
<1>1. DeltasBelowSignature
  <2> SUFFICES ASSUME NEW s \in 0..(PT_SET - 1)
               PROVE  LET set == spp.PT[s]
                          sum == Cardinality(Uses(set))
                      IN  /\ set.c_sig <= C_SIG_MAX
                          /\ IF set.c_sig = 0 THEN sum = 0 ELSE sum < set.c_sig
    BY DEF DeltasBelowSignature, PathInv
  <2> DEFINE set == spp.PT[s]
  <2>1. SetTyped(set, C_SIG_MAX) /\ Below(set) /\ C_SIG_MAX \in Nat
    BY DEF PathInv, PatternInv, SppAssumption
  <2> HIDE DEF set
  <2>2. Cardinality(Uses(set)) = Total(CountsOf(set))
    BY <2>1, UsesAre DEF Total
  <2>3. set.c_sig \in 0..C_SIG_MAX
    BY <2>1 DEF SetTyped
  <2>4. CASE set.c_sig = 0
    <3>1. \A w \in PtWays : CountsOf(set)[w] = 0
      BY <2>1, <2>4 DEF Below, CountsOf
    <3>2. UsesOf(CountsOf(set)) = {}
      BY <3>1 DEF UsesOf
    <3>3. Total(CountsOf(set)) = 0
      BY <3>2, FS_EmptySet DEF Total
    <3> QED BY <2>1, <2>2, <2>3, <2>4, <3>3 DEF set
  <2>5. CASE set.c_sig # 0
    <3>1. Total(CountsOf(set)) < set.c_sig
      BY <2>1, <2>5 DEF Below
    <3> QED BY <2>1, <2>2, <2>3, <2>5, <3>1 DEF set
  <2> QED BY <2>4, <2>5
<1>2. PagesAged
  <2>1. PagesInv(spp.ST)
    BY DEF PathInv
  <2>2. DOMAIN spp.ST = StWays
    BY <2>1 DEF PagesInv
  <2>3. {spp.ST[w].lru : w \in StWays} = StWays
    BY <2>1 DEF PagesInv
  <2> QED BY <2>1, <2>2, <2>3 DEF PagesAged, PagesInv, StWays
<1> QED BY <1>1, <1>2 DEF PathTablesConsistent

\* The tables start with nothing seen.
LEMMA PathStarts ==
  ASSUME PathInit
  PROVE  PathInv
<1> USE SppAssumption
<1>1. /\ {"ST", "PT"} \subseteq DOMAIN spp
      /\ spp.ST = [w \in StWays |->
                     [valid |-> FALSE, tag |-> 0, last_offset |-> 0, sig |-> 0, lru |-> w]]
      /\ spp.PT = [s \in 0..(PT_SET - 1) |->
                     [c_sig |-> 0, way |-> [w \in PtWays |-> [delta |-> 0, c_delta |-> 0]]]]
  BY DEF PathInit, StWays, PtWays
<1>2. PagesInv(spp.ST)
  BY <1>1 DEF PagesInv
<1>3. ASSUME NEW s \in 0..(PT_SET - 1)
      PROVE  PatternInv(spp.PT[s])
  <2> DEFINE set == spp.PT[s]
  <2>1. set = [c_sig |-> 0, way |-> [w \in PtWays |-> [delta |-> 0, c_delta |-> 0]]]
    BY <1>1
  <2> HIDE DEF set
  <2>2. C_SIG_MAX \in Nat
    BY DEF SppAssumption
  <2>3. CountsOf(set) = [w \in PtWays |-> 0]
    BY <2>1 DEF CountsOf
  <2>4. CountsOf(set) \in [PtWays -> 0..C_SIG_MAX] /\ 0 \in 0..C_SIG_MAX
    BY <2>2, <2>3
  <2>5. SetTyped(set, C_SIG_MAX)
    BY <2>1, <2>4 DEF SetTyped
  <2>6. Below(set)
    BY <2>1 DEF Below
  <2> QED BY <2>5, <2>6 DEF PatternInv, set
<1> QED BY <1>1, <1>2, <1>3 DEF PathInv

\* Whatever is demanded and evicted, and however the prefetcher looks ahead, the
\* counts of a signature's deltas stay below the count of the signature, so that a
\* victim exists and no delta is certain; the ages of the pages stay a permutation,
\* so that a least recent one is always found; and no page has two ways
\* (read_and_update_sig, update_pattern).
THEOREM PathTablesStayConsistent ==
  PathSpec => []PathTablesConsistent
<1> USE SppAssumption
<1>1. PathInit => PathInv
  BY PathStarts
<1>2. ASSUME PathInv, [PathNext]_spp
      PROVE  PathInv'
  <2>1. ASSUME NEW number \in PathBlocks, Demand(number)
        PROVE  PathInv'
    BY <1>2, <2>1, DemandKeeps
  <2>2. CASE (\E number \in PathBlocks : Evict(number)) \/ ReadPattern
             \/ IssueCandidate \/ EndRound
    <3>1. {"ST", "PT"} \subseteq DOMAIN spp
      BY <1>2 DEF PathInv
    <3>2. TablesKept(spp, spp')
      BY <2>2, <3>1, OtherActionsKeep
    <3> QED BY <1>2, <3>2, KeptTables
  <2>3. CASE UNCHANGED spp
    BY <1>2, <2>3 DEF PathInv, PatternInv, SetTyped, Below, PagesInv
  <2> QED BY <1>2, <2>1, <2>2, <2>3 DEF PathNext
<1>3. PathInv => PathTablesConsistent
  BY PathProperty
<1> QED BY <1>1, <1>2, <1>3, PTL DEF PathSpec

----------------------------------------------------------------------------
(* The small prefetchers *)

SmallFields ==
  {"kind", "virtual_prefetch", "demands", "table", "active_lookahead", "regions", "seen", "origin",
   "ahead", "sent", "repeated"}
TrackerTags == {ip \div 4 : ip \in DemandIps}

\* What the tracker of an instruction knows of its demands.
Trackers(seen) ==
  {e \in [tag : TrackerTags, last_cl_addr : Int, last_stride : Int] :
     LET s == seen[e.tag]
     IN  /\ Len(s) >= 1 /\ s[Len(s)] = e.last_cl_addr
         /\ e.last_stride # 0 =>
              Len(s) >= 2 /\ s[Len(s) - 1] = e.last_cl_addr - e.last_stride}

\* Three demands of an instruction in a row, the last of them here.
Followed(seen, origin, stride) ==
  \E tag \in TrackerTags : \E k \in 3..Len(seen[tag]) :
    /\ seen[tag][k] = origin /\ seen[tag][k - 1] = origin - stride
    /\ seen[tag][k - 2] = origin - 2 * stride

\* What was prefetched continues them.
Continued(p, stride) ==
  /\ stride \in Int /\ Followed(p.seen, p.origin, stride) /\ Len(p.ahead) <= STRIDE_DEGREE
  /\ \A k \in 1..Len(p.ahead) :
       /\ p.ahead[k] = p.origin + k * stride
       /\ ~p.virtual_prefetch => PageAt(p.ahead[k]) = PageAt(p.origin)

\* The lookahead stands behind what it has prefetched.
LooksAhead(p) ==
  LET l == p.active_lookahead
  IN  /\ l = [active |-> TRUE, address |-> l.address, stride |-> l.stride, degree |-> l.degree]
      /\ Continued(p, l.stride) /\ l.degree \in 1..STRIDE_DEGREE
      /\ l.degree + Len(p.ahead) = STRIDE_DEGREE
      /\ l.address = p.origin + Len(p.ahead) * l.stride
      /\ ~p.virtual_prefetch => PageAt(l.address) = PageAt(p.origin)

SeenTyped(seen) == seen = [tag \in TrackerTags |-> seen[tag]] /\ \A tag \in TrackerTags : seen[tag] \in Seq(Int)

StrideInv(p) ==
  /\ p.origin \in Int /\ p.ahead \in Seq(Int) /\ SeenTyped(p.seen)
  /\ p.table \in Seq(Trackers(p.seen))
  /\ p.ahead # <<>> => \E stride : Continued(p, stride)
  /\ p.active_lookahead = Idle \/ LooksAhead(p)

NotedIn(seen, tag, number, more) == more = [seen EXCEPT ![tag] = Append(@, number)]

\* A demand more is a demand of the same instructions.
LEMMA SeenMore ==
  ASSUME NEW seen, SeenTyped(seen), NEW tag \in TrackerTags, NEW number \in Int, NEW more,
         NotedIn(seen, tag, number, more)
  PROVE  /\ SeenTyped(more) /\ \A other \in TrackerTags : other # tag => more[other] = seen[other]
         /\ Len(more[tag]) = Len(seen[tag]) + 1 /\ more[tag][Len(seen[tag]) + 1] = number
         /\ \A k \in 1..Len(seen[tag]) : more[tag][k] = seen[tag][k]
         /\ \A e \in Trackers(seen) : e.tag # tag => e \in Trackers(more)
         /\ \A origin, stride : Followed(seen, origin, stride) => Followed(more, origin, stride)
<1>1. seen[tag] \in Seq(Int) /\ DOMAIN seen = TrackerTags
  BY DEF SeenTyped
<1> DEFINE new == Append(seen[tag], number)
<1>2. /\ new \in Seq(Int) /\ Len(new) = Len(seen[tag]) + 1 /\ new[Len(seen[tag]) + 1] = number
      /\ \A k \in 1..Len(seen[tag]) : new[k] = seen[tag][k]
  BY <1>1, AppendIs
<1>3. /\ more = [other \in TrackerTags |-> more[other]] /\ more[tag] = new
      /\ \A other \in TrackerTags : other # tag => more[other] = seen[other]
  BY <1>1 DEF NotedIn
<1> HIDE DEF new
<1>4. SeenTyped(more)
  BY <1>2, <1>3 DEF SeenTyped
<1>5. ASSUME NEW e \in Trackers(seen), e.tag # tag
      PROVE  e \in Trackers(more)
  <2>1. e.tag \in TrackerTags /\ more[e.tag] = seen[e.tag]
    BY <1>3, <1>5 DEF Trackers
  <2> QED BY <2>1 DEF Trackers
<1>6. ASSUME NEW origin, NEW stride, Followed(seen, origin, stride)
      PROVE  Followed(more, origin, stride)
  <2>1. PICK other \in TrackerTags : \E k \in 3..Len(seen[other]) :
          /\ seen[other][k] = origin /\ seen[other][k - 1] = origin - stride
          /\ seen[other][k - 2] = origin - 2 * stride
    BY <1>6 DEF Followed
  <2>2. PICK k \in 3..Len(seen[other]) :
          /\ seen[other][k] = origin /\ seen[other][k - 1] = origin - stride
          /\ seen[other][k - 2] = origin - 2 * stride
    BY <2>1
  <2>3. seen[other] \in Seq(Int)
    BY DEF SeenTyped
  <2>4. /\ Len(seen[other]) \in Nat
        /\ k \in 1..Len(seen[other]) /\ k - 1 \in 1..Len(seen[other]) /\ k - 2 \in 1..Len(seen[other])
    BY <2>3
  <2>5. k \in 3..Len(more[other]) /\ more[other][k] = seen[other][k]
        /\ more[other][k - 1] = seen[other][k - 1] /\ more[other][k - 2] = seen[other][k - 2]
    <3>1. CASE other = tag
      BY <1>2, <1>3, <2>4, <3>1
    <3>2. CASE other # tag
      BY <1>3, <2>4, <3>2
    <3> QED BY <3>1, <3>2
  <2> QED BY <2>2, <2>5 DEF Followed
<1> QED BY <1>2, <1>3, <1>4, <1>5, <1>6

\* What an instruction demands next, after a tracker that was confirmed.
LEMMA ConfirmedFollows ==
  ASSUME NEW seen, SeenTyped(seen), NEW number \in Int, NEW e \in Trackers(seen), NEW more,
         NotedIn(seen, e.tag, number, more),
         number - e.last_cl_addr = e.last_stride, e.last_stride # 0
  PROVE  Followed(more, number, e.last_stride)
<1> DEFINE tag == e.tag
           n == Len(seen[tag])
           stride == e.last_stride
<1>1. /\ tag \in TrackerTags /\ n >= 2 /\ seen[tag][n] = number - stride
      /\ seen[tag][n - 1] = number - 2 * stride /\ stride \in Int
  BY DEF Trackers
<1>2. n \in Nat
  BY <1>1 DEF SeenTyped
<1>3. /\ Len(more[tag]) = n + 1 /\ more[tag][n + 1] = number
      /\ \A k \in 1..n : more[tag][k] = seen[tag][k]
  <2>1. SeenTyped(seen) /\ tag \in TrackerTags /\ NotedIn(seen, tag, number, more)
    BY <1>1
  <2> HIDE DEF tag
  <2>2. /\ Len(more[tag]) = Len(seen[tag]) + 1 /\ more[tag][Len(seen[tag]) + 1] = number
        /\ \A k \in 1..Len(seen[tag]) : more[tag][k] = seen[tag][k]
    BY <2>1, SeenMore
  <2> QED BY <2>2
<1> HIDE DEF n, tag, stride
<1>4. n + 1 \in 3..Len(more[tag]) /\ n \in 1..n /\ n - 1 \in 1..n
  BY <1>1, <1>2, <1>3
<1>5. /\ more[tag][n + 1] = number /\ more[tag][(n + 1) - 1] = number - stride
      /\ more[tag][(n + 1) - 2] = number - 2 * stride
  <2>1. (n + 1) - 1 = n /\ (n + 1) - 2 = n - 1
    BY <1>2
  <2> QED BY <1>1, <1>3, <1>4, <2>1
<1> QED BY <1>1, <1>4, <1>5 DEF Followed, stride

\* What the parameters are.
LEMMA DivType ==
  /\ \A ip \in DemandIps : ip \div 4 \in TrackerTags
         /\ STRIDE_DEGREE \in Nat \ {0} /\ TRACKER_WAYS \in Nat \ {0} /\ DemandLines \subseteq Int
BY PrefetchersAssumption DEF PrefetchersAssumption, TrackerTags

\* What stands for a lookahead after a demand of another instruction.
LEMMA DemandContinues ==
  ASSUME NEW p, StrideInv(p), NEW q,
         q.origin = p.origin, q.ahead = p.ahead, q.virtual_prefetch = p.virtual_prefetch,
         q.active_lookahead = p.active_lookahead, SeenTyped(q.seen),
         \A origin, stride : Followed(p.seen, origin, stride) => Followed(q.seen, origin, stride),
         q.table \in Seq(Trackers(q.seen))
  PROVE  StrideInv(q)
<1>1. \A stride : Continued(p, stride) => Continued(q, stride)
  BY DEF Continued
<1>2. LooksAhead(p) => LooksAhead(q)
  BY <1>1 DEF LooksAhead
<1> QED BY <1>1, <1>2 DEF StrideInv

\* A demand trains the tracker of its instruction, and may start a lookahead.
LEMMA StrideOperateKeeps ==
  ASSUME SmallFields \subseteq DOMAIN pf, StrideInv(pf),
         NEW ip \in DemandIps, NEW number \in DemandLines, StrideOperate(ip, number)
  PROVE  StrideInv(pf')
<1> USE PrefetchersAssumption
<1> DEFINE tag == ip \div 4
           hit == IsIn(pf.table, tag)
           found == ElementOf(pf.table, tag)
           stride == IF hit THEN number - found.last_cl_addr ELSE 0
           tracker == Tracker(ip, number, stride)
           seen == [pf.seen EXCEPT ![tag] = Append(@, number)]
           table == Insert(pf.table, tracker, TRACKER_WAYS)
           p == [Demanded(ip, number) EXCEPT !.table = table]
           confirmed == hit /\ Confirmed(stride, found)
           lookahead == Lookahead(number, stride, STRIDE_DEGREE)
<1>1. tag \in TrackerTags /\ number \in Int /\ STRIDE_DEGREE \in Nat \ {0} /\ TRACKER_WAYS \in Nat
  BY DivType
<1>2. SeenTyped(pf.seen) /\ pf.table \in Seq(Trackers(pf.seen))
  BY DEF StrideInv
<1>3. /\ SeenTyped(seen) /\ \A other \in TrackerTags : other # tag => seen[other] = pf.seen[other]
      /\ Len(seen[tag]) = Len(pf.seen[tag]) + 1 /\ seen[tag][Len(pf.seen[tag]) + 1] = number
      /\ \A k \in 1..Len(pf.seen[tag]) : seen[tag][k] = pf.seen[tag][k]
      /\ \A e \in Trackers(pf.seen) : e.tag # tag => e \in Trackers(seen)
      /\ \A origin, step : Followed(pf.seen, origin, step) => Followed(seen, origin, step)
  <2>1. NotedIn(pf.seen, tag, number, seen) /\ SeenTyped(pf.seen)
    BY <1>2 DEF NotedIn
  <2> HIDE DEF tag, seen
  <2> QED BY ONLY <1>1, <2>1, SeenMore
<1>4. /\ p.table = table /\ p.seen = seen /\ p.origin = pf.origin /\ p.ahead = pf.ahead
      /\ p.virtual_prefetch = pf.virtual_prefetch /\ p.active_lookahead = pf.active_lookahead
      /\ SmallFields \subseteq DOMAIN p
  <2> HIDE DEF table
  <2> QED BY DEF Demanded, SmallFields
<1>5. pf' = IF confirmed
            THEN [p EXCEPT !.active_lookahead = lookahead, !.origin = number, !.ahead = <<>>] ELSE p
  <2>1. Demanded(ip, number).table = pf.table
    BY DEF Demanded, SmallFields
  <2>2. [Demanded(ip, number) EXCEPT
           !.table = Insert(@, tracker, TRACKER_WAYS)] = p
    BY <2>1
  <2> HIDE DEF p
  <2> QED BY <2>2 DEF StrideOperate
<1>6. hit => found \in Trackers(pf.seen) /\ found.tag = tag
  <2> HIDE DEF tag
  <2> QED BY <1>2, FoundIn
<1>7. stride \in Int
  <2>1. hit => found.last_cl_addr \in Int
    BY <1>6 DEF Trackers
  <2> HIDE DEF hit, found
  <2> QED BY <1>1, <2>1
<1>8. hit => /\ Len(pf.seen[tag]) \in Nat /\ Len(pf.seen[tag]) >= 1
             /\ pf.seen[tag][Len(pf.seen[tag])] = number - stride
  <2>1. hit => Len(pf.seen[tag]) >= 1 /\ pf.seen[tag][Len(pf.seen[tag])] = found.last_cl_addr
               /\ found.last_cl_addr \in Int
    BY <1>6 DEF Trackers
  <2>2. pf.seen[tag] \in Seq(Int)
    BY <1>1, <1>2 DEF SeenTyped
  <2>3. hit => number - stride = found.last_cl_addr
    <3> HIDE DEF hit, found
    <3> QED BY <1>1, <2>1
  <2> QED BY <2>1, <2>2, <2>3
<1> HIDE DEF hit, found, seen
<1>9. tracker \in Trackers(seen)
  <2>1. tracker = [tag |-> tag, last_cl_addr |-> number, last_stride |-> stride]
    BY DEF Tracker
  <2>2. pf.seen[tag] \in Seq(Int)
    BY <1>1, <1>2 DEF SeenTyped
  <2> DEFINE n == Len(pf.seen[tag])
  <2>3. n \in Nat /\ Len(seen[tag]) = n + 1 /\ seen[tag][n + 1] = number
    BY <1>3, <2>2
  <2>4. stride # 0 => n >= 1 /\ seen[tag][n] = number - stride
    <3>1. stride # 0 => hit
      OBVIOUS
    <3>2. hit => n \in 1..n
      BY <1>8
    <3> QED BY <1>3, <1>8, <3>1, <3>2
  <2> HIDE DEF n, stride, tracker
  <2>5. Len(seen[tag]) >= 1 /\ seen[tag][Len(seen[tag])] = number
        /\ (stride # 0 => Len(seen[tag]) >= 2 /\ seen[tag][Len(seen[tag]) - 1] = number - stride)
    <3>1. Len(seen[tag]) - 1 = n
      BY <2>3
    <3> QED BY <2>3, <2>4, <3>1
  <2> HIDE DEF tag
  <2>6. tracker \in [tag : TrackerTags, last_cl_addr : Int, last_stride : Int]
    BY <1>1, <1>7, <2>1
  <2> QED BY <2>1, <2>5, <2>6 DEF Trackers
<1>10. table \in Seq(Trackers(seen))
  <2>1. tracker.tag = tag
    BY DEF Tracker
  <2>2. \A e \in Trackers(pf.seen) : e.tag # tracker.tag => e \in Trackers(seen)
    BY <1>3, <2>1
  <2> HIDE DEF tracker
  <2>3. Insert(pf.table, tracker, TRACKER_WAYS) \in Seq(Trackers(seen))
    BY <1>1, <1>2, <1>9, <2>2, InsertKeeps
  <2> QED BY <2>3
<1> HIDE DEF table, p, tag, stride, tracker
<1>11. StrideInv(p)
  <2>1. p.table \in Seq(Trackers(p.seen)) /\ SeenTyped(p.seen)
    BY <1>3, <1>4, <1>10
  <2> QED BY <1>3, <1>4, <2>1, DemandContinues
<1>12. CASE ~confirmed
  <2> HIDE DEF confirmed
  <2> QED BY <1>5, <1>11, <1>12
<1>13. CASE confirmed
  <2> DEFINE q == [p EXCEPT !.active_lookahead = lookahead, !.origin = number, !.ahead = <<>>]
  <2>1. pf' = q
    BY <1>5, <1>13
  <2>2. /\ q.active_lookahead = lookahead /\ q.origin = number /\ q.ahead = <<>>
        /\ q.seen = seen /\ q.table = table /\ q.virtual_prefetch = pf.virtual_prefetch
    <3> HIDE DEF lookahead
    <3> QED BY <1>4 DEF SmallFields
  <2> HIDE DEF q
  <2>3. Followed(seen, number, stride)
    <3>1. stride # 0 /\ stride = found.last_stride /\ hit
      BY <1>13 DEF Confirmed
    <3>2. found \in Trackers(pf.seen) /\ found.tag = tag
      BY <1>6, <3>1
    <3>3. number - found.last_cl_addr = found.last_stride
      BY <3>1 DEF stride
    <3>4. NotedIn(pf.seen, found.tag, number, seen)
      BY <3>2 DEF seen, NotedIn
    <3> QED BY <1>1, <1>2, <3>1, <3>2, <3>3, <3>4, ConfirmedFollows
  <2>4. Len(<<>>) = 0 /\ <<>> \in Seq(Int)
    OBVIOUS
  <2>5. Continued(q, stride)
    BY <1>1, <1>7, <2>2, <2>3, <2>4 DEF Continued
  <2>6. number = number + Len(<<>>) * stride /\ STRIDE_DEGREE + Len(<<>>) = STRIDE_DEGREE
    <3>1. 0 * stride = 0
      BY <1>7
    <3> QED BY <1>1, <2>4, <3>1
  <2>7. LooksAhead(q)
    <3>1. lookahead = [active |-> TRUE, address |-> number, stride |-> stride,
                       degree |-> STRIDE_DEGREE]
      BY DEF Lookahead
    <3> QED BY <1>1, <2>2, <2>5, <2>6, <3>1 DEF LooksAhead
  <2> QED BY <1>1, <1>3, <1>10, <2>1, <2>2, <2>4, <2>7 DEF StrideInv
<1> QED BY <1>12, <1>13

\* A step of the lookahead is one more of what it follows.
LEMMA StrideCycleKeeps ==
  ASSUME SmallFields \subseteq DOMAIN pf, StrideInv(pf),
         NEW success \in BOOLEAN, StrideCycle(success)
  PROVE  StrideInv(pf')
<1> USE PrefetchersAssumption
<1> DEFINE l == pf.active_lookahead
           next == l.address + l.stride
           stepped == Lookahead(next, l.stride, l.degree - 1)
           n == Len(pf.ahead)
<1>1. l.active /\ LooksAhead(pf)
  <2>1. l.active
    BY DEF StrideCycle
  <2>2. l # Idle
    BY <2>1 DEF Idle
  <2> QED BY <2>1, <2>2 DEF StrideInv
<1>2. /\ pf.origin \in Int /\ pf.ahead \in Seq(Int) /\ n \in Nat /\ SeenTyped(pf.seen)
      /\ pf.table \in Seq(Trackers(pf.seen)) /\ (pf.ahead # <<>> => \E stride : Continued(pf, stride))
  BY DEF StrideInv
<1>3. /\ l = [active |-> TRUE, address |-> l.address, stride |-> l.stride, degree |-> l.degree]
      /\ Continued(pf, l.stride) /\ l.degree \in 1..STRIDE_DEGREE /\ l.degree + n = STRIDE_DEGREE
      /\ l.address = pf.origin + n * l.stride /\ l.stride \in Int
      /\ ~pf.virtual_prefetch => PageAt(l.address) = PageAt(pf.origin)
  BY <1>1 DEF LooksAhead, Continued
<1>4. STRIDE_DEGREE \in Nat \ {0}
  BY DivType
<1>5. next = pf.origin + (n + 1) * l.stride /\ next \in Int
  <2> DEFINE s == l.stride
  <2>1. s \in Int /\ (n + 1) * s = n * s + s
    BY <1>2, <1>3
  <2>2. n * s \in Int
    BY <1>2, <1>3
  <2>3. l.address = pf.origin + n * s
    BY <1>3
  <2> DEFINE m == n * s
             o == pf.origin
  <2>4. o \in Int /\ m \in Int /\ l.address = o + m /\ (n + 1) * s = m + s
    BY <1>2, <2>1, <2>2, <2>3
  <2> HIDE DEF s, m, o
  <2>5. l.address + s = o + (n + 1) * s /\ l.address + s \in Int
    BY ONLY <2>1, <2>4
  <2> QED BY <2>5 DEF s, o
<1>6. stepped = [active |-> TRUE, address |-> next, stride |-> l.stride, degree |-> l.degree - 1]
  BY DEF Lookahead
<1>7. pf' = IF ~(pf.virtual_prefetch \/ PageAt(next) = PageAt(l.address))
            THEN [pf EXCEPT !.active_lookahead = Idle]
            ELSE IF ~success THEN pf
            ELSE [pf EXCEPT !.ahead = Append(@, next),
                            !.active_lookahead = IF l.degree = 1 THEN Idle ELSE stepped]
  BY DEF StrideCycle
<1> HIDE DEF next, l, n, stepped
<1>8. CASE ~(pf.virtual_prefetch \/ PageAt(next) = PageAt(l.address))
  <2> DEFINE q == [pf EXCEPT !.active_lookahead = Idle]
  <2>1. pf' = q
    BY <1>7, <1>8
  <2>2. /\ q.active_lookahead = Idle /\ q.origin = pf.origin /\ q.ahead = pf.ahead
        /\ q.seen = pf.seen /\ q.table = pf.table /\ q.virtual_prefetch = pf.virtual_prefetch
    BY DEF SmallFields
  <2> HIDE DEF q
  <2>3. \A stride : Continued(pf, stride) => Continued(q, stride)
    BY <2>2 DEF Continued
  <2> QED BY <1>2, <2>1, <2>2, <2>3 DEF StrideInv
<1>9. CASE (pf.virtual_prefetch \/ PageAt(next) = PageAt(l.address)) /\ ~success
  BY <1>7, <1>9
<1>10. CASE (pf.virtual_prefetch \/ PageAt(next) = PageAt(l.address)) /\ success
  <2> DEFINE to == IF l.degree = 1 THEN Idle ELSE stepped
             more == Append(pf.ahead, next)
             q == [pf EXCEPT !.ahead = more, !.active_lookahead = to]
  <2>1. pf' = q
    BY <1>7, <1>10
  <2>2. /\ more \in Seq(Int) /\ Len(more) = n + 1 /\ more[n + 1] = next
        /\ \A k \in 1..n : more[k] = pf.ahead[k]
    BY <1>2, <1>5, AppendIs DEF n
  <2> HIDE DEF to, more
  <2>3. /\ q.active_lookahead = to /\ q.origin = pf.origin /\ q.ahead = more
        /\ q.seen = pf.seen /\ q.table = pf.table /\ q.virtual_prefetch = pf.virtual_prefetch
    BY DEF SmallFields
  <2> HIDE DEF q
  <2>4. Continued(q, l.stride)
    <3>1. n + 1 <= STRIDE_DEGREE
      BY <1>2, <1>3, <1>4
    <3>2. ASSUME NEW k \in 1..(n + 1)
          PROVE  /\ more[k] = pf.origin + k * l.stride
                 /\ ~pf.virtual_prefetch => PageAt(more[k]) = PageAt(pf.origin)
      <4>1. CASE k = n + 1
        BY <1>3, <1>5, <1>10, <2>2, <4>1
      <4>2. CASE k # n + 1
        <5>1. k \in 1..n
          BY <1>2, <4>2
        <5>2. /\ pf.ahead[k] = pf.origin + k * l.stride
              /\ ~pf.virtual_prefetch => PageAt(pf.ahead[k]) = PageAt(pf.origin)
          BY <1>3, <5>1 DEF Continued, n
        <5> QED BY <2>2, <5>1, <5>2
      <4> QED BY <4>1, <4>2
    <3>3. l.stride \in Int /\ Followed(pf.seen, pf.origin, l.stride)
      BY <1>3 DEF Continued
    <3> QED BY <2>2, <2>3, <3>1, <3>2, <3>3 DEF Continued
  <2>5. to = Idle \/ LooksAhead(q)
    <3>1. CASE l.degree # 1
      <4>1. /\ to = [active |-> TRUE, address |-> next, stride |-> l.stride, degree |-> l.degree - 1]
            /\ l.degree - 1 \in 1..STRIDE_DEGREE /\ (l.degree - 1) + (n + 1) = STRIDE_DEGREE
        BY <1>2, <1>3, <1>4, <1>6, <3>1 DEF to
      <4>2. ~pf.virtual_prefetch => PageAt(next) = PageAt(pf.origin)
        BY <1>3, <1>10
      <4> QED BY <1>5, <2>2, <2>3, <2>4, <4>1, <4>2 DEF LooksAhead
    <3> QED BY <3>1 DEF to
  <2> QED BY <1>2, <2>1, <2>2, <2>3, <2>4, <2>5 DEF StrideInv
<1> QED BY <1>8, <1>9, <1>10

\* The regions of a set that have a block marked.
RegionsHeld == [tag : Int, access_map : SUBSET Int, prefetch_map : SUBSET Int]
Marking(number) ==
  {r \in RegionsHeld : r.tag = PageAt(number) => OffsetAt(number) \in r.prefetch_map}

\* What was prefetched into the regions is marked there.
AllMarked(regions, sent) ==
  /\ sent \in SUBSET Int /\ regions \in Seq(RegionsHeld)
  /\ \A number \in sent : IsIn(regions, PageAt(number)) /\ regions \in Seq(Marking(number))

\* The page and the place of a block.
LEMMA PageTypes ==
  ASSUME NEW number \in Int
  PROVE  PageAt(number) \in Int /\ OffsetAt(number) \in Int
<1> USE PrefetchersAssumption
<1>1. PAGE_LINES \in Nat \ {0}
  BY DEF PrefetchersAssumption
<1> QED BY <1>1 DEF PageAt, OffsetAt

\* The most recent element is in the set, and all others of other tags stay.
LEMMA HeadIsIn ==
  ASSUME NEW X, NEW element \in X, NEW rest \in Seq(X)
  PROVE  IsIn(<<element>> \o rest, element.tag)
<1>1. Len(<<element>> \o rest) >= 1 /\ (<<element>> \o rest)[1] = element
      /\ Len(<<element>> \o rest) \in Nat
  OBVIOUS
<1>2. 1 \in Matching(<<element>> \o rest, element.tag)
  <2> DEFINE all == <<element>> \o rest
  <2>1. Len(all) >= 1 /\ all[1] = element /\ Len(all) \in Nat
    BY <1>1
  <2> HIDE DEF all
  <2> QED BY <2>1 DEF Matching, all
<1> QED BY <1>2 DEF IsIn

\* A use drops nothing.
LEMMA TouchIsIn ==
  ASSUME NEW X, NEW set \in Seq(X), NEW tag, NEW t, IsIn(set, t)
  PROVE  IsIn(Touch(set, tag), t)
<1>1. CASE ~IsIn(set, tag)
  BY <1>1 DEF Touch
<1>2. CASE IsIn(set, tag)
  <2> DEFINE e == ElementOf(set, tag)
             rest == Without(set, tag)
             all == <<e>> \o rest
  <2>1. e \in X /\ e.tag = tag
    BY <1>2, FoundIn
  <2>2. rest \in Seq(X)
    BY WithoutKeeps
  <2>3. Touch(set, tag) = all
    BY <1>2 DEF Touch
  <2> HIDE DEF e
  <2>4. CASE t = tag
    <3> HIDE DEF rest
    <3> QED BY <2>1, <2>2, <2>3, <2>4, HeadIsIn
  <2>5. CASE t # tag
    <3>1. PICK k \in 1..Len(set) : set[k].tag = t
      BY DEF IsIn, Matching
    <3> DEFINE positions == (1..Len(set)) \ Matching(set, tag)
    <3>2. k \in positions
      BY <2>5, <3>1 DEF Matching
    <3>3. rest = Selected(set, positions)
      BY DEF Without
    <3>4. PICK j \in 1..Len(rest) : rest[j] = set[k]
      <4> HIDE DEF positions, rest
      <4> QED BY <3>1, <3>2, <3>3, SelectedIs
    <3> HIDE DEF rest, positions
    <3>5. j + 1 \in 1..Len(all) /\ all[j + 1] = set[k]
      BY <2>1, <2>2, <3>4
    <3> HIDE DEF all
    <3> QED BY <2>3, <3>1, <3>5 DEF IsIn, Matching
  <2> QED BY <2>4, <2>5
<1> QED BY <1>1, <1>2

\* What is filled is in the set.
LEMMA InsertIsIn ==
  ASSUME NEW X, NEW set \in Seq(X), NEW element \in X, NEW ways \in Nat \ {0}
  PROVE  IsIn(Insert(set, element, ways), element.tag)
<1> DEFINE rest == Without(set, element.tag)
           all == <<element>> \o rest
           n == Lesser(Len(all), ways)
<1>1. rest \in Seq(X)
  BY WithoutKeeps
<1> HIDE DEF rest
<1>2. all \in Seq(X) /\ Len(all) \in Nat /\ Len(all) >= 1 /\ all[1] = element
  BY <1>1
<1>3. Insert(set, element, ways) = SubSeq(all, 1, n)
  BY DEF Insert, rest
<1> HIDE DEF all
<1>4. n \in Nat /\ n >= 1 /\ n <= Len(all)
  BY <1>2 DEF Lesser
<1> HIDE DEF n
<1> DEFINE sub == SubSeq(all, 1, n)
<1>5. Len(sub) = n /\ sub[1] = element
  BY <1>2, <1>4
<1> HIDE DEF sub
<1>6. 1 \in Matching(sub, element.tag)
  BY <1>4, <1>5 DEF Matching
<1> QED BY <1>3, <1>6 DEF IsIn, sub

\* A lookup moves a region and changes none.
LEMMA TouchMarked ==
  ASSUME NEW regions, NEW sent, AllMarked(regions, sent), NEW page
  PROVE  AllMarked(Touch(regions, page), sent)
<1> DEFINE next == Touch(regions, page)
<1>1. regions \in Seq(RegionsHeld) /\ sent \in SUBSET Int
  BY DEF AllMarked
<1>2. next \in Seq(RegionsHeld)
  BY <1>1, TouchKeeps
<1>3. ASSUME NEW number \in sent
      PROVE  IsIn(next, PageAt(number)) /\ next \in Seq(Marking(number))
  <2>1. IsIn(regions, PageAt(number)) /\ regions \in Seq(Marking(number))
    BY DEF AllMarked
  <2> QED BY <1>1, <2>1, TouchIsIn, TouchKeeps
<1> HIDE DEF next
<1>4. AllMarked(next, sent)
  BY <1>1, <1>2, <1>3 DEF AllMarked
<1> QED BY <1>4 DEF next

\* A region that is filled with more than it had, and what is then left of the others.
LEMMA InsertMarked ==
  ASSUME NEW regions, NEW sent, AllMarked(regions, sent),
         NEW element \in RegionsHeld,
         \A number \in sent : element.tag = PageAt(number) =>
           RegionOf(regions, element.tag).prefetch_map \subseteq element.prefetch_map,
         NEW next, next = Insert(regions, element, REGION_WAYS)
  PROVE  /\ AllMarked(next, {b \in sent : IsIn(next, PageAt(b))})
         /\ IsIn(next, element.tag)
<1> USE PrefetchersAssumption
<1> DEFINE left == {b \in sent : IsIn(next, PageAt(b))}
<1>1. REGION_WAYS \in Nat \ {0}
  BY DEF PrefetchersAssumption
<1>2. regions \in Seq(RegionsHeld) /\ sent \in SUBSET Int
  BY DEF AllMarked
<1>3. next = Insert(regions, element, REGION_WAYS)
  OBVIOUS
<1>4. next \in Seq(RegionsHeld)
  BY <1>1, <1>2, <1>3, InsertKeeps
<1>5. IsIn(next, element.tag)
  BY <1>1, <1>2, <1>3, InsertIsIn
<1>6. ASSUME NEW number \in sent
      PROVE  next \in Seq(Marking(number))
  <2>1. IsIn(regions, PageAt(number)) /\ regions \in Seq(Marking(number))
    BY DEF AllMarked
  <2>2. element \in Marking(number)
    <3>1. CASE element.tag = PageAt(number)
      <4> DEFINE found == ElementOf(regions, element.tag)
      <4>1. RegionOf(regions, element.tag) = found
        BY <2>1, <3>1 DEF RegionOf
      <4>2. found \in Marking(number) /\ found.tag = element.tag
        <5> HIDE DEF found
        <5>1. IsIn(regions, element.tag)
          BY <2>1, <3>1
        <5> QED BY <2>1, <5>1, FoundIn DEF found
      <4> HIDE DEF found
      <4>3. OffsetAt(number) \in found.prefetch_map
        BY <3>1, <4>2 DEF Marking
      <4>4. OffsetAt(number) \in element.prefetch_map
        BY <3>1, <4>1, <4>3
      <4> QED BY <4>4 DEF Marking
    <3>2. CASE element.tag # PageAt(number)
      BY <3>2 DEF Marking
    <3> QED BY <3>1, <3>2
  <2> QED BY <1>1, <1>3, <2>1, <2>2, InsertKeeps
<1>7. AllMarked(next, left)
  <2>1. left \in SUBSET Int
    BY <1>2
  <2>2. \A number \in left : number \in sent /\ IsIn(next, PageAt(number))
    OBVIOUS
  <2> HIDE DEF left
  <2> QED BY <1>4, <1>6, <2>1, <2>2 DEF AllMarked
<1> QED BY <1>5, <1>7

\* The maps as the prefetcher reads them.
LEMMA MarkedIsSeen ==
  ASSUME NEW regions, NEW sent, AllMarked(regions, sent), NEW number \in sent
  PROVE  check_cl_prefetch(regions, number)
<1> DEFINE page == PageAt(number)
           found == ElementOf(regions, page)
<1>1. IsIn(regions, page) /\ regions \in Seq(Marking(number))
  BY DEF AllMarked
<1>2. found \in Marking(number) /\ found.tag = page
  <2> HIDE DEF page
  <2> QED BY <1>1, FoundIn
<1>3. RegionOf(regions, page) = found
  BY <1>1 DEF RegionOf
<1> HIDE DEF found
<1> QED BY <1>2, <1>3 DEF check_cl_prefetch, Marking

\* The region of a page, tracked or new.
LEMMA RegionHeld ==
  ASSUME NEW regions \in Seq(RegionsHeld), NEW page \in Int
  PROVE  RegionOf(regions, page) \in RegionsHeld /\ RegionOf(regions, page).tag = page
<1>1. CASE IsIn(regions, page)
  <2>1. ElementOf(regions, page) \in RegionsHeld /\ ElementOf(regions, page).tag = page
    BY <1>1, FoundIn
  <2> QED BY <1>1, <2>1 DEF RegionOf
<1>2. CASE ~IsIn(regions, page)
  <2>1. RegionOf(regions, page) = [tag |-> page, access_map |-> {}, prefetch_map |-> {}]
    BY <1>2 DEF RegionOf, Region
  <2> QED BY <2>1 DEF RegionsHeld
<1> QED BY <1>1, <1>2

\* The state of a search: what it has sent is marked, and nothing was sent twice.
SearchFields == {"regions", "issued", "room", "sent", "repeated"}
SearchOk(s) == SearchFields \subseteq DOMAIN s /\ ~s.repeated /\ AllMarked(s.regions, s.sent)

\* A block that is not marked is sent, and marked.
LEMMA IssuedKeeps ==
  ASSUME NEW s, SearchOk(s), NEW direction, NEW number \in Int,
         number \notin s.sent
  PROVE  SearchOk(PrefetchIssued(s, direction, number))
<1> USE PrefetchersAssumption
<1> DEFINE page == PageAt(number)
           offset == OffsetAt(number)
           region == RegionOf(s.regions, page)
           element == [region EXCEPT !.prefetch_map = region.prefetch_map \cup {offset}]
           next == MarkedPrefetch(s.regions, number)
           left == {b \in s.sent : IsIn(next, PageAt(b))}
           t == PrefetchIssued(s, direction, number)
<1>1. page \in Int /\ offset \in Int /\ REGION_WAYS \in Nat \ {0}
  BY PageTypes DEF PrefetchersAssumption
<1>2. AllMarked(s.regions, s.sent) /\ s.regions \in Seq(RegionsHeld) /\ s.sent \in SUBSET Int
  BY DEF SearchOk, AllMarked
<1>3. next = Insert(s.regions, element, REGION_WAYS)
  BY DEF MarkedPrefetch
<1>4. /\ t.regions = next /\ t.sent = left \cup {number} /\ SearchFields \subseteq DOMAIN t
      /\ t.repeated = (s.repeated \/ number \in s.sent)
  <2> HIDE DEF next
  <2>1. SearchFields \subseteq DOMAIN s
    BY DEF SearchOk
  <2> QED BY <2>1 DEF PrefetchIssued, SearchFields, next
<1> HIDE DEF page, offset, next
<1>5. region \in RegionsHeld /\ region.tag = page
  BY <1>1, <1>2, RegionHeld
<1>6. element \in RegionsHeld /\ element.tag = page /\ element.prefetch_map = region.prefetch_map \cup {offset}
  <2> HIDE DEF region
  <2> QED BY <1>1, <1>5 DEF RegionsHeld
<1> HIDE DEF element
<1>7. AllMarked(next, left) /\ IsIn(next, element.tag)
  <2>1. \A b \in s.sent : element.tag = PageAt(b) =>
          RegionOf(s.regions, element.tag).prefetch_map \subseteq element.prefetch_map
    BY <1>6
  <2> HIDE DEF region
  <2>2. element \in RegionsHeld /\ AllMarked(s.regions, s.sent)
    BY <1>2, <1>6
  <2> QED BY ONLY <1>3, <2>1, <2>2, InsertMarked
<1>8. next \in Seq(Marking(number)) /\ IsIn(next, page)
  <2>1. element \in Marking(number)
    BY <1>6 DEF Marking, offset
  <2>2. \A r \in RegionsHeld : r.tag # element.tag => r \in Marking(number)
    BY <1>6 DEF Marking, page
  <2>3. Insert(s.regions, element, REGION_WAYS) \in Seq(Marking(number))
    BY <1>1, <1>2, <2>1, <2>2, InsertKeeps
  <2> QED BY <1>3, <1>6, <1>7, <2>3
<1> HIDE DEF left
<1>9. AllMarked(next, left \cup {number})
  BY <1>7, <1>8 DEF AllMarked, page
<1>10. ~t.repeated
  BY <1>4 DEF SearchOk
<1> HIDE DEF t
<1>11. SearchOk(t)
  BY <1>4, <1>9, <1>10 DEF SearchOk
<1> QED BY <1>11 DEF t

\* A step of the search keeps what it relies on.
LEMMA SearchedKeeps ==
  ASSUME NEW s, SearchOk(s), NEW number \in Int,
         NEW direction \in {-1, 1}, NEW distance \in Nat
  PROVE  SearchOk(Searched(s, number, direction, distance))
<1> USE PrefetchersAssumption
<1> DEFINE ahead == number + direction * distance
           back == number - direction * distance
           further == number - direction * 2 * distance
           behind == check_cl_access(s.regions, back)
           pattern == behind /\ check_cl_access(s.regions, further)
           once == Touch(s.regions, PageAt(back))
           twice == IF behind THEN Touch(once, PageAt(further)) ELSE once
           last == IF pattern THEN Touch(twice, PageAt(ahead)) ELSE twice
           looked == [s EXCEPT !.regions = last]
           new == /\ pattern /\ s.room > 0
                  /\ ~check_cl_access(s.regions, ahead) /\ ~check_cl_prefetch(s.regions, ahead)
<1>1. Searched(s, number, direction, distance) =
        IF s.issued[direction] = AMPM_DEGREE THEN s
        ELSE IF new THEN PrefetchIssued(looked, direction, ahead) ELSE looked
  BY DEF Searched
<1>2. ahead \in Int
  OBVIOUS
<1> HIDE DEF ahead, back, further, behind, pattern, once, twice, last
<1>3. AllMarked(s.regions, s.sent) /\ SearchFields \subseteq DOMAIN s /\ ~s.repeated
  BY DEF SearchOk
<1>4. AllMarked(last, s.sent)
  <2>1. AllMarked(once, s.sent)
    BY <1>3, TouchMarked DEF once
  <2>2. AllMarked(twice, s.sent)
    BY <2>1, TouchMarked DEF twice
  <2> QED BY <2>2, TouchMarked DEF last
<1>5. SearchOk(looked) /\ looked.sent = s.sent
  <2>1. /\ looked.regions = last /\ looked.sent = s.sent /\ looked.repeated = s.repeated
        /\ SearchFields \subseteq DOMAIN looked
    BY <1>3 DEF SearchFields
  <2> HIDE DEF looked
  <2> QED BY <1>3, <1>4, <2>1 DEF SearchOk
<1> HIDE DEF looked
<1>6. new => ahead \notin looked.sent
  <2>1. ahead \in s.sent => check_cl_prefetch(s.regions, ahead)
    BY <1>3, MarkedIsSeen
  <2> QED BY <1>5, <2>1
<1>7. new => SearchOk(PrefetchIssued(looked, direction, ahead))
  <2> HIDE DEF new
  <2> QED BY <1>2, <1>5, <1>6, IssuedKeeps
<1> HIDE DEF new
<1> QED BY <1>1, <1>5, <1>7

\* The states after the distances of a search.
IsSearch(after, s, number, direction, n) ==
  after = [distance \in 0..n |->
             IF distance = 0 THEN s
             ELSE Searched(after[distance - 1], number, direction, distance)]

\* The recursive function of SearchAlong exists.
LEMMA SearchExists ==
  ASSUME NEW s, NEW number, NEW direction
  PROVE  \A n \in Nat : \E after : IsSearch(after, s, number, direction, n)
<1> DEFINE Bad == {n \in Nat : ~\E after : IsSearch(after, s, number, direction, n)}
<1> SUFFICES ASSUME Bad # {}
             PROVE  FALSE
  OBVIOUS
<1>1. PICK n \in Bad : \A m \in Bad : n <= m
  <2>1. Bad \in SUBSET Nat
    OBVIOUS
  <2> HIDE DEF Bad
  <2> QED BY <2>1, LeastExists
<1>2. n # 0
  <2>1. IsSearch([distance \in 0..0 |-> s], s, number, direction, 0)
    BY DEF IsSearch
  <2> QED BY <2>1
<1>3. n \in Nat /\ n - 1 \in Nat /\ n - 1 \notin Bad
  BY <1>1, <1>2
<1>4. PICK after : IsSearch(after, s, number, direction, n - 1)
  BY <1>3
<1> DEFINE Step(before, d) == Searched(before, number, direction, d)
<1> HIDE DEF Step
<1> DEFINE next == [d \in 0..n |-> IF d = n THEN Step(after[n - 1], n) ELSE after[d]]
<1>5. \A d \in 0..(n - 1) : after[d] = IF d = 0 THEN s ELSE Step(after[d - 1], d)
  BY <1>4 DEF IsSearch, Step
<1>6. \A d \in 0..(n - 1) : next[d] = after[d]
  BY <1>3
<1>7. next[n] = Step(next[n - 1], n)
  BY <1>2, <1>3, <1>6
<1>8. \A d \in 0..n : next[d] = IF d = 0 THEN s ELSE Step(next[d - 1], d)
  <2> SUFFICES ASSUME NEW d \in 0..n
               PROVE  next[d] = IF d = 0 THEN s ELSE Step(next[d - 1], d)
    OBVIOUS
  <2>1. CASE d = n
    BY <1>2, <1>7, <2>1
  <2>2. CASE d # n
    <3>1. d \in 0..(n - 1) /\ (d # 0 => d - 1 \in 0..(n - 1))
      BY <1>3, <2>2
    <3>2. next[d] = after[d] /\ (d # 0 => next[d - 1] = after[d - 1])
      BY <1>6, <3>1
    <3> HIDE DEF next
    <3> QED BY <1>5, <3>1, <3>2
  <2> QED BY <2>1, <2>2
<1>9. IsSearch(next, s, number, direction, n)
  <2>1. next = [d \in 0..n |-> next[d]]
    OBVIOUS
  <2> HIDE DEF next
  <2>2. next = [d \in 0..n |-> IF d = 0 THEN s ELSE Step(next[d - 1], d)]
    BY <1>8, <2>1
  <2> QED BY <2>2 DEF IsSearch, Step
<1> QED BY <1>1, <1>9

\* So does a search in one direction.
LEMMA SearchAlongKeeps ==
  ASSUME NEW s, SearchOk(s), NEW number \in Int,
         NEW direction \in {-1, 1}
  PROVE  SearchOk(SearchAlong(s, number, direction))
<1> USE PrefetchersAssumption
<1> DEFINE most == MAX_DISTANCE
<1>1. MAX_DISTANCE \in Nat
  BY DEF PrefetchersAssumption
<1>2. PICK after : /\ IsSearch(after, s, number, direction, MAX_DISTANCE)
                   /\ SearchAlong(s, number, direction) = after[MAX_DISTANCE]
  <2>1. \E after : IsSearch(after, s, number, direction, MAX_DISTANCE)
    BY <1>1, SearchExists
  <2> QED BY <2>1 DEF SearchAlong, IsSearch
<1> DEFINE Step(before, d) == Searched(before, number, direction, d)
<1>3. \A d \in 0..MAX_DISTANCE : after[d] = IF d = 0 THEN s ELSE Step(after[d - 1], d)
  BY <1>2 DEF IsSearch
<1> HIDE DEF Step
<1>4. \A d \in 0..MAX_DISTANCE : SearchOk(after[d])
  <2> DEFINE Bad == {d \in 0..MAX_DISTANCE : ~SearchOk(after[d])}
  <2> SUFFICES ASSUME Bad # {}
               PROVE  FALSE
    OBVIOUS
  <2>1. PICK d \in Bad : \A m \in Bad : d <= m
    <3>1. Bad \in SUBSET Nat
      BY <1>1
    <3> HIDE DEF Bad
    <3> QED BY <3>1, LeastExists
  <2>2. d # 0
    BY <1>1, <1>3
  <2>3. d \in 0..MAX_DISTANCE /\ d \in Nat /\ d - 1 \in 0..MAX_DISTANCE /\ d - 1 \notin Bad
    BY <1>1, <2>1, <2>2
  <2>4. SearchOk(after[d - 1])
    BY <2>3
  <2>5. SearchOk(Step(after[d - 1], d))
    BY <2>3, <2>4, SearchedKeeps DEF Step
  <2>6. SearchOk(after[d])
    BY <1>3, <2>2, <2>3, <2>5
  <2> QED BY <2>1, <2>6
<1>5. SearchOk(after[MAX_DISTANCE])
  BY <1>1, <1>4
<1> QED BY <1>2, <1>5

\* A demand marks its block, and searches around it.
LEMMA AmpmKeeps ==
  ASSUME SmallFields \subseteq DOMAIN pf, ~pf.repeated,
         AllMarked(pf.regions, pf.sent),
         NEW number \in DemandLines, NEW room, AmpmOperate(number, room)
  PROVE  ~pf'.repeated /\ AllMarked(pf'.regions, pf'.sent)
<1> USE PrefetchersAssumption
<1> DEFINE page == PageAt(number)
           offset == OffsetAt(number)
           region == RegionOf(pf.regions, page)
           hit == IsIn(pf.regions, page)
           element == [region EXCEPT !.access_map = IF hit THEN region.access_map \cup {offset}
                                                    ELSE region.access_map]
           marked == Insert(pf.regions, element, REGION_WAYS)
           left == {b \in pf.sent : IsIn(marked, PageAt(b))}
           s == [regions |-> marked, issued |-> [d \in {-1, 1} |-> 0], room |-> room,
                 sent |-> left, repeated |-> FALSE]
           done == IF hit THEN Search(s, number) ELSE s
<1>1. number \in Int /\ page \in Int /\ offset \in Int
  <2>1. number \in Int
    BY DEF PrefetchersAssumption
  <2> QED BY <2>1, PageTypes
<1>2. pf.regions \in Seq(RegionsHeld)
  BY DEF AllMarked
<1>3. pf' = [pf EXCEPT !.demands = @ + 1, !.regions = done.regions, !.sent = done.sent,
                       !.repeated = @ \/ done.repeated]
  BY DEF AmpmOperate
<1> HIDE DEF page, offset, done
<1>4. region \in RegionsHeld /\ region.tag = page
  BY <1>1, <1>2, RegionHeld
<1>5. element \in RegionsHeld /\ element.tag = page /\ element.prefetch_map = region.prefetch_map
  <2> HIDE DEF region, hit
  <2> QED BY <1>1, <1>4 DEF RegionsHeld
<1>6. AllMarked(marked, left)
  <2>1. \A b \in pf.sent : element.tag = PageAt(b) =>
          RegionOf(pf.regions, element.tag).prefetch_map \subseteq element.prefetch_map
    BY <1>5
  <2> HIDE DEF region, element
  <2> QED BY <1>5, <2>1, InsertMarked
<1> HIDE DEF marked, left
<1>7. SearchOk(s)
  BY <1>6 DEF SearchOk, SearchFields
<1> HIDE DEF s
<1>8. SearchOk(done)
  <2>1. SearchOk(SearchAlong(s, number, 1))
    BY <1>1, <1>7, SearchAlongKeeps
  <2>2. SearchOk(Search(s, number))
    BY <1>1, <2>1, SearchAlongKeeps DEF Search
  <2> QED BY <1>7, <2>2 DEF done
<1>9. pf'.regions = done.regions /\ pf'.sent = done.sent /\ pf'.repeated = (pf.repeated \/ done.repeated)
  BY <1>3 DEF SmallFields
<1> QED BY <1>8, <1>9 DEF SearchOk

\* Only ip_stride follows strides; every kind keeps its regions marked.
SmallInv ==
  /\ SmallFields \subseteq DOMAIN pf
  /\ pf.kind = "ip_stride" => StrideInv(pf)
  /\ ~pf.repeated /\ AllMarked(pf.regions, pf.sent)

\* Nothing is tracked at first.
LEMMA SmallStarts ==
  ASSUME PrefetchInit
  PROVE  SmallInv
<1> USE PrefetchersAssumption
<1>1. PICK kind \in {"next_line", "ip_stride", "va_ampm_lite"}, virtual \in BOOLEAN :
        pf = [kind |-> kind, virtual_prefetch |-> virtual, demands |-> 0,
              table |-> <<>>, active_lookahead |-> Idle, regions |-> <<>>,
              seen |-> [tag \in TrackerTags |-> <<>>],
              origin |-> 0, ahead |-> <<>>, sent |-> {}, repeated |-> FALSE]
  BY DEF PrefetchInit, TrackerTags
<1>2. /\ SmallFields \subseteq DOMAIN pf /\ pf.table = <<>> /\ pf.active_lookahead = Idle
      /\ pf.regions = <<>> /\ pf.seen = [tag \in TrackerTags |-> <<>>] /\ pf.origin = 0
      /\ pf.ahead = <<>> /\ pf.sent = {} /\ pf.repeated = FALSE
  <2> HIDE DEF Idle
  <2> QED BY <1>1 DEF SmallFields
<1>3. SeenTyped(pf.seen)
  BY <1>2 DEF SeenTyped
<1>4. StrideInv(pf)
  BY <1>2, <1>3 DEF StrideInv
<1>5. AllMarked(pf.regions, pf.sent)
  BY <1>2 DEF AllMarked
<1> QED BY <1>2, <1>4, <1>5 DEF SmallInv

\* Every operation of the three kinds.
LEMMA SmallStep ==
  ASSUME SmallInv, [PrefetchNext]_pf
  PROVE  SmallInv'
<1> USE PrefetchersAssumption
<1>1. SmallFields \subseteq DOMAIN pf /\ ~pf.repeated /\ AllMarked(pf.regions, pf.sent)
  BY DEF SmallInv
<1>2. ASSUME NEW number \in DemandLines, NextLine(number)
      PROVE  SmallInv'
  <2>1. pf.kind = "next_line"
    BY <1>2 DEF NextLine, MayDemand
  <2>2. /\ pf'.kind = pf.kind /\ pf'.repeated = pf.repeated /\ pf'.regions = pf.regions
        /\ pf'.sent = pf.sent /\ SmallFields \subseteq DOMAIN pf'
    BY <1>1, <1>2 DEF NextLine, SmallFields
  <2> QED BY <1>1, <2>1, <2>2 DEF SmallInv
<1>3. ASSUME NEW number \in DemandLines, NEW ip \in DemandIps, StrideOperate(ip, number)
      PROVE  SmallInv'
  <2>1. pf.kind = "ip_stride" /\ StrideInv(pf)
    BY <1>3 DEF StrideOperate, MayDemand, SmallInv
  <2>2. StrideInv(pf')
    BY <1>1, <1>3, <2>1, StrideOperateKeeps
  <2>3. /\ pf'.kind = pf.kind /\ pf'.repeated = pf.repeated /\ pf'.regions = pf.regions
        /\ pf'.sent = pf.sent /\ SmallFields \subseteq DOMAIN pf'
    <3> DEFINE p == Demanded(ip, number)
    <3>1. /\ p.kind = pf.kind /\ p.repeated = pf.repeated /\ p.regions = pf.regions
          /\ p.sent = pf.sent /\ SmallFields \subseteq DOMAIN p
      BY <1>1 DEF Demanded, SmallFields
    <3> HIDE DEF p
    <3>2. PICK table, lookahead :
            \/ pf' = [[p EXCEPT !.table = table] EXCEPT
                        !.active_lookahead = lookahead, !.origin = number, !.ahead = <<>>]
            \/ pf' = [p EXCEPT !.table = table]
      BY <1>3 DEF StrideOperate, p
    <3> QED BY <3>1, <3>2 DEF SmallFields
  <2> QED BY <1>1, <2>1, <2>2, <2>3 DEF SmallInv
<1>4. ASSUME NEW number \in DemandLines, NEW room, AmpmOperate(number, room)
      PROVE  SmallInv'
  <2>1. pf.kind = "va_ampm_lite"
    BY <1>4 DEF AmpmOperate, MayDemand
  <2>2. ~pf'.repeated /\ AllMarked(pf'.regions, pf'.sent)
    BY <1>1, <1>4, AmpmKeeps
  <2>3. pf'.kind = pf.kind /\ SmallFields \subseteq DOMAIN pf'
    BY <1>1, <1>4 DEF AmpmOperate, SmallFields
  <2> QED BY <2>1, <2>2, <2>3 DEF SmallInv
<1>5. ASSUME NEW success \in BOOLEAN, StrideCycle(success)
      PROVE  SmallInv'
  <2>1. pf.kind = "ip_stride" /\ StrideInv(pf)
    BY <1>5 DEF StrideCycle, SmallInv
  <2>2. StrideInv(pf')
    BY <1>1, <1>5, <2>1, StrideCycleKeeps
  <2>3. /\ pf'.kind = pf.kind /\ pf'.repeated = pf.repeated /\ pf'.regions = pf.regions
        /\ pf'.sent = pf.sent /\ SmallFields \subseteq DOMAIN pf'
    BY <1>1, <1>5 DEF StrideCycle, SmallFields
  <2> QED BY <1>1, <2>1, <2>2, <2>3 DEF SmallInv
<1>6. CASE UNCHANGED pf
  BY ONLY <1>6, SmallInv DEF SmallInv
<1>7. CASE PrefetchNext
  <2>1. \/ \E number \in DemandLines : NextLine(number)
        \/ \E number \in DemandLines, ip \in DemandIps : StrideOperate(ip, number)
        \/ \E number \in DemandLines : \E room : AmpmOperate(number, room)
        \/ \E success \in BOOLEAN : StrideCycle(success)
    BY ONLY <1>7 DEF PrefetchNext
  <2> QED BY ONLY <1>2, <1>3, <1>4, <1>5, <2>1
<1> QED BY ONLY <1>6, <1>7, [PrefetchNext]_pf

\* The property, of the stronger invariant.
LEMMA SmallProperty ==
  ASSUME SmallInv
  PROVE  PrefetchesAreNew
<1> USE PrefetchersAssumption
<1>1. NothingTwice
  BY MarkedIsSeen DEF SmallInv, NothingTwice
<1>2. ASSUME pf.kind = "ip_stride", pf.ahead # <<>>
      PROVE  LET stride == pf.ahead[1] - pf.origin
             IN  /\ Len(pf.ahead) <= STRIDE_DEGREE
                 /\ \A k \in 1..Len(pf.ahead) :
                      /\ pf.ahead[k] = pf.origin + k * stride
                      /\ ~pf.virtual_prefetch => PageAt(pf.ahead[k]) = PageAt(pf.origin)
                 /\ \E tag \in DOMAIN pf.seen : \E k \in 3..Len(pf.seen[tag]) :
                      /\ pf.seen[tag][k] = pf.origin
                      /\ pf.seen[tag][k - 1] = pf.origin - stride
                      /\ pf.seen[tag][k - 2] = pf.origin - 2 * stride
  <2>1. /\ pf.origin \in Int /\ pf.ahead \in Seq(Int) /\ SeenTyped(pf.seen)
        /\ \E stride : Continued(pf, stride)
    BY <1>2 DEF SmallInv, StrideInv
  <2>2. PICK stride : Continued(pf, stride)
    BY <2>1
  <2>3. pf.ahead[1] = pf.origin + 1 * stride /\ stride \in Int
    <3>1. 1 \in 1..Len(pf.ahead)
      BY <1>2, <2>1
    <3> QED BY <2>2, <3>1 DEF Continued
  <2>4. pf.ahead[1] - pf.origin = stride
    BY <2>1, <2>3
  <2>5. DOMAIN pf.seen = TrackerTags
    BY <2>1 DEF SeenTyped
  <2> QED BY <2>2, <2>4, <2>5 DEF Continued, Followed
<1>3. StrideContinues
  BY <1>2 DEF StrideContinues
<1> QED BY <1>1, <1>3 DEF PrefetchesAreNew

\* Whatever instructions share the trackers, and however often the queue refuses,
\* ip_stride only continues three demands of one instruction, up to its degree and
\* in a physical cache within their page; and va_ampm_lite prefetches no block
\* of a region twice while it tracks it, also when its own prefetches push regions
\* out in the middle of a search.
THEOREM SmallPrefetchersKeepTheirWord ==
  PrefetchSpec => []PrefetchesAreNew
<1> USE PrefetchersAssumption
<1>1. PrefetchInit => SmallInv
  BY SmallStarts
<1>2. SmallInv /\ [PrefetchNext]_pf => SmallInv'
  BY SmallStep
<1>3. SmallInv => PrefetchesAreNew
  BY SmallProperty
<1> QED BY <1>1, <1>2, <1>3, PTL DEF PrefetchSpec
==============================================================================
