-------------------------- MODULE TranslationProofs --------------------------
(***************************************************************************)
(* Proofs about the translation of addresses: the pages that the virtual   *)
(* memory gives out are distinct, every request goes on with its own page, *)
(* and every walk that waits has a read below.                             *)
(*                                                                         *)
(* finish_packet works through the walks that it has an answer for; what   *)
(* holds of each of them holds of the loop by induction, which is done     *)
(* here with the least counterexample.                                     *)
(*                                                                         *)
(* The last section is about the LRU table under the page structure        *)
(* caches, the BTB and the DIB, which are modelled on top of its promise.  *)
(***************************************************************************)
EXTENDS Translation, LruTable, SequenceTheorems, FiniteSetTheorems, CommonFacts

----------------------------------------------------------------------------
(* Arrangements *)

\* Whatever the order, what is arranged is what stands at the positions.
LEMMA ArrangementIs ==
  ASSUME NEW X, NEW seq \in Seq(X), NEW positions \in SUBSET (1..Len(seq)),
         NEW arranged \in Arrangements(seq, positions)
  PROVE  /\ arranged \in Seq(X)
         /\ \A j \in 1..Len(arranged) : \E k \in positions : arranged[j] = seq[k]
         /\ \A k \in positions : \E j \in 1..Len(arranged) : arranged[j] = seq[k]
<1> DEFINE n == Cardinality(positions)
<1>1. n \in Nat
  <2>1. IsFiniteSet(1..Len(seq))
    BY FS_Interval
  <2>2. IsFiniteSet(positions)
    BY <2>1, FS_Subset
  <2> QED BY <2>2, FS_CardinalityType
<1>2. PICK order \in [1..n -> positions] :
        /\ \A k \in positions : \E j \in 1..n : order[j] = k
        /\ arranged = [j \in 1..n |-> seq[order[j]]]
  BY DEF Arrangements
<1> HIDE DEF n
<1>3. \A j \in 1..n : order[j] \in positions /\ seq[order[j]] \in X
  <2>1. \A k \in positions : k \in 1..Len(seq)
    OBVIOUS
  <2>2. \A k \in 1..Len(seq) : seq[k] \in X
    OBVIOUS
  <2>3. \A j \in 1..n : order[j] \in positions
    BY <1>2
  <2> QED BY <2>1, <2>2, <2>3
<1>4. arranged \in Seq(X) /\ Len(arranged) = n
  <2>1. arranged \in [1..n -> X]
    BY <1>2, <1>3
  <2> QED BY <1>1, <1>2, <2>1
<1>5. \A j \in 1..n : arranged[j] = seq[order[j]]
  BY <1>2
<1> QED BY <1>2, <1>3, <1>4, <1>5

----------------------------------------------------------------------------
(* The virtual memory *)

\* The digits that are ever looked up, and the keys and addresses made of them.
Keys == {TableKey(vpage, level) : vpage \in VPages \cup {0}, level \in 1..RootLevel}
Offsets == {get_offset(vpage, level) : vpage \in VPages, level \in Levels}
PteAddresses == {PteAddress(page, offset) : page \in Nat \X Nat, offset \in Offsets}
PteBlocks == {Block(address) : address \in PteAddresses}
Slots == 0..(SLOTS - 1)

PartialMaps(K, V) == UNION {[D -> V] : D \in SUBSET K}

Memories ==
  [ppage_free_list : Seq(Nat) \ {<<>>},
   vpage_to_ppage_map : PartialMaps(VPages, Nat),
   page_table : PartialMaps(Keys, Nat \X Slots),
   active_pte_page : Nat, next_pte_page : Slots, refilled : BOOLEAN]

Increasing(list) == \A j, k \in 1..Len(list) : j < k => list[j] < list[k]

\* Until the list is filled again, what was taken from it is below what is left;
\* a page with room for a table is not mapped, and its slots are taken in order.
TakenFrom(first, map, table, active) ==
  /\ \A v \in DOMAIN map : map[v] < first
  /\ \A t \in DOMAIN table : table[t][1] < first
  /\ active < first

Apart(map, table) ==
  /\ \A v, w \in DOMAIN map : v # w => map[v] # map[w]
  /\ \A s, t \in DOMAIN table : s # t => table[s] # table[t]
  /\ \A v \in DOMAIN map, t \in DOMAIN table : map[v] # table[t][1]

RoomIn(map, table, active, next) ==
  next # 0 => /\ \A v \in DOMAIN map : map[v] # active
              /\ \A t \in DOMAIN table : table[t][1] = active => table[t][2] < next

Consistent(m) ==
  /\ m \in Memories
  /\ Increasing(m.ppage_free_list)
  /\ ~m.refilled =>
       /\ TakenFrom(Head(m.ppage_free_list), m.vpage_to_ppage_map, m.page_table,
                    m.active_pte_page)
       /\ Apart(m.vpage_to_ppage_map, m.page_table)
       /\ RoomIn(m.vpage_to_ppage_map, m.page_table, m.active_pte_page, m.next_pte_page)

\* What was mapped stays where it is.
Extends(m, n) ==
  /\ DOMAIN m.vpage_to_ppage_map \subseteq DOMAIN n.vpage_to_ppage_map
  /\ \A v \in DOMAIN m.vpage_to_ppage_map :
       n.vpage_to_ppage_map[v] = m.vpage_to_ppage_map[v]
  /\ DOMAIN m.page_table \subseteq DOMAIN n.page_table
  /\ \A t \in DOMAIN m.page_table : n.page_table[t] = m.page_table[t]

LEMMA PoolIs ==
  /\ populate_pages \in Seq(Nat) \ {<<>>}
  /\ Increasing(populate_pages)
<1>1. PPAGES \in Nat /\ PPAGES # 0
  BY VirtualMemoryAssumption
<1>2. populate_pages \in Seq(Nat) /\ Len(populate_pages) = PPAGES
      /\ \A k \in 1..PPAGES : populate_pages[k] = k
  BY <1>1 DEF populate_pages
<1>3. populate_pages # <<>>
  BY <1>1, <1>2
<1> QED BY <1>2, <1>3 DEF Increasing

\* Taking a page moves the front of the list up, or fills the list again.
LEMMA PopIs ==
  ASSUME NEW m \in Memories, Increasing(m.ppage_free_list)
  PROVE  \E list, again :
           /\ ppage_pop(m) = [m EXCEPT !.ppage_free_list = list, !.refilled = again]
           /\ list \in Seq(Nat) \ {<<>>} /\ Increasing(list) /\ again \in BOOLEAN
           /\ ~again => ~m.refilled /\ Head(m.ppage_free_list) < Head(list)
<1> DEFINE free == m.ppage_free_list
<1>1. free \in Seq(Nat) /\ free # <<>> /\ Len(free) \in Nat \ {0} /\ m.refilled \in BOOLEAN
  BY DEF Memories
<1>2. CASE Len(free) = 1
  <2>1. ppage_pop(m) = [m EXCEPT !.ppage_free_list = populate_pages, !.refilled = TRUE]
    BY <1>2 DEF ppage_pop
  <2> QED BY <2>1, PoolIs
<1>3. CASE Len(free) # 1
  <2>1. ppage_pop(m) = [m EXCEPT !.ppage_free_list = Tail(free)]
    BY <1>3 DEF ppage_pop
  <2>2. ppage_pop(m) = [m EXCEPT !.ppage_free_list = Tail(free), !.refilled = m.refilled]
    BY <2>1 DEF Memories
  <2>3. /\ Tail(free) \in Seq(Nat) /\ Len(Tail(free)) = Len(free) - 1
        /\ \A k \in 1..(Len(free) - 1) : Tail(free)[k] = free[k + 1]
    BY <1>1
  <2>4. Tail(free) # <<>>
    <3>1. Len(Tail(free)) # 0
      BY <1>1, <1>3, <2>3
    <3>2. Len(<<>>) = 0
      OBVIOUS
    <3> QED BY ONLY <3>1, <3>2
  <2>5. Increasing(free)
    OBVIOUS
  <2> HIDE DEF free
  <2>6. Increasing(Tail(free))
    BY <1>1, <2>3, <2>5 DEF Increasing
  <2>7. Head(free) = free[1] /\ Head(Tail(free)) = free[2] /\ free[1] < free[2]
    BY <1>1, <1>3, <2>3, <2>4, <2>5 DEF Increasing
  <2> QED BY <1>1, <2>2, <2>3, <2>4, <2>6, <2>7 DEF free
<1> QED BY <1>2, <1>3

\* A map of a kind with another key.
LEMMA EmplacedIs ==
  ASSUME NEW K, NEW V, NEW map \in PartialMaps(K, V), NEW key \in K, NEW value \in V
  PROVE  /\ Emplaced(map, key, value) \in PartialMaps(K, V)
         /\ DOMAIN Emplaced(map, key, value) = DOMAIN map \cup {key}
         /\ \A k \in DOMAIN map : Emplaced(map, key, value)[k] = map[k]
         /\ key \notin DOMAIN map => Emplaced(map, key, value)[key] = value
         /\ key \in DOMAIN map => Emplaced(map, key, value) = map
<1>1. PICK D \in SUBSET K : map \in [D -> V]
  BY DEF PartialMaps
<1>2. Emplaced(map, key, value) \in [D \cup {key} -> V]
  BY <1>1 DEF Emplaced
<1>3. D \cup {key} \in SUBSET K
  OBVIOUS
<1>4. Emplaced(map, key, value) \in PartialMaps(K, V)
  BY <1>2, <1>3 DEF PartialMaps
<1>5. key \in DOMAIN map => Emplaced(map, key, value) = map
  <2> SUFFICES ASSUME key \in D
               PROVE  Emplaced(map, key, value) = map
    BY <1>1
  <2>1. D \cup {key} = D
    OBVIOUS
  <2> QED BY <1>1, <2>1 DEF Emplaced
<1> QED BY <1>1, <1>2, <1>4, <1>5 DEF Emplaced

\* va_to_pa: the page is there afterwards, and what was there stays.
LEMMA MapPageIs ==
  ASSUME NEW m, Consistent(m), NEW vpage \in VPages
  PROVE  /\ Consistent(MapPage(m, vpage)) /\ Extends(m, MapPage(m, vpage))
         /\ vpage \in DOMAIN MapPage(m, vpage).vpage_to_ppage_map
<1> DEFINE map == m.vpage_to_ppage_map
           free == m.ppage_free_list
           map2 == Emplaced(map, vpage, Head(free))
<1>1. /\ m \in Memories /\ map \in PartialMaps(VPages, Nat)
      /\ free \in Seq(Nat) /\ free # <<>> /\ Head(free) \in Nat
      /\ m.page_table \in PartialMaps(Keys, Nat \X Slots)
      /\ m.active_pte_page \in Nat
  <2>1. m \in Memories
    BY DEF Consistent
  <2> QED BY <2>1 DEF Memories
<1>2. /\ map2 \in PartialMaps(VPages, Nat)
      /\ DOMAIN map2 = DOMAIN map \cup {vpage}
      /\ \A v \in DOMAIN map : map2[v] = map[v]
      /\ vpage \notin DOMAIN map => map2[vpage] = Head(free)
      /\ vpage \in DOMAIN map => map2 = map
  <2> HIDE DEF map, free
  <2>1. map \in PartialMaps(VPages, Nat) /\ Head(free) \in Nat
    BY <1>1
  <2> QED BY <2>1, EmplacedIs
<1> DEFINE mapped == [m EXCEPT !.vpage_to_ppage_map = map2]
<1>3. MapPage(m, vpage) = IF vpage \in DOMAIN map THEN mapped ELSE ppage_pop(mapped)
  BY DEF MapPage, ppage_front
<1>4. CASE vpage \in DOMAIN map
  <2>1. MapPage(m, vpage) = m
    BY <1>1, <1>2, <1>3, <1>4 DEF Memories
  <2> QED BY <1>4, <2>1 DEF Extends
<1>5. CASE vpage \notin DOMAIN map
  <2>1. mapped \in Memories /\ mapped.ppage_free_list = free /\ mapped.refilled = m.refilled
    <3> HIDE DEF map2, map
    <3> QED BY <1>1, <1>2 DEF Memories
  <2>2. Increasing(mapped.ppage_free_list)
    BY <2>1 DEF Consistent
  <2>3. PICK list, again :
           /\ ppage_pop(mapped) = [mapped EXCEPT !.ppage_free_list = list, !.refilled = again]
           /\ list \in Seq(Nat) \ {<<>>} /\ Increasing(list) /\ again \in BOOLEAN
           /\ ~again => ~m.refilled /\ Head(free) < Head(list)
    <3> HIDE DEF mapped
    <3>1. \E list, again :
           /\ ppage_pop(mapped) = [mapped EXCEPT !.ppage_free_list = list, !.refilled = again]
           /\ list \in Seq(Nat) \ {<<>>} /\ Increasing(list) /\ again \in BOOLEAN
           /\ ~again => ~mapped.refilled /\ Head(mapped.ppage_free_list) < Head(list)
      BY <2>1, <2>2, PopIs
    <3> QED BY <2>1, <3>1
  <2> DEFINE n == MapPage(m, vpage)
  <2>4. /\ n \in Memories /\ n.ppage_free_list = list /\ n.refilled = again
        /\ n.vpage_to_ppage_map = map2 /\ n.page_table = m.page_table
        /\ n.active_pte_page = m.active_pte_page /\ n.next_pte_page = m.next_pte_page
    <3>1. n = [m EXCEPT !.vpage_to_ppage_map = map2, !.ppage_free_list = list, !.refilled = again]
      BY <1>3, <1>5, <2>3
    <3> HIDE DEF n, map2
    <3> QED BY <1>1, <1>2, <2>3, <3>1 DEF Memories
  <2> HIDE DEF n, mapped, map2
  <2>5. ASSUME ~again
        PROVE  /\ TakenFrom(Head(list), map2, m.page_table, m.active_pte_page)
               /\ Apart(map2, m.page_table)
               /\ RoomIn(map2, m.page_table, m.active_pte_page, m.next_pte_page)
    <3>1. /\ TakenFrom(Head(free), map, m.page_table, m.active_pte_page)
          /\ Apart(map, m.page_table)
          /\ RoomIn(map, m.page_table, m.active_pte_page, m.next_pte_page)
      BY <2>3, <2>5 DEF Consistent
    <3>2. Head(free) \in Nat /\ Head(list) \in Nat /\ Head(free) < Head(list)
      BY <1>1, <2>3, <2>5
    <3>3. /\ \A v \in DOMAIN map : map[v] \in Nat
          /\ \A t \in DOMAIN m.page_table : m.page_table[t][1] \in Nat
      <4>1. \A v \in DOMAIN map : map[v] \in Nat
        BY <1>1 DEF PartialMaps
      <4>2. \A t \in DOMAIN m.page_table : m.page_table[t] \in Nat \X Slots
        BY <1>1 DEF PartialMaps
      <4> QED BY <4>1, <4>2
    <3> HIDE DEF map, free
    <3>4. TakenFrom(Head(list), map2, m.page_table, m.active_pte_page)
      BY <1>1, <1>2, <1>5, <3>1, <3>2, <3>3 DEF TakenFrom
    <3>5. Apart(map2, m.page_table)
      BY <1>2, <1>5, <3>1, <3>2, <3>3 DEF Apart, TakenFrom
    <3>6. RoomIn(map2, m.page_table, m.active_pte_page, m.next_pte_page)
      BY <1>1, <1>2, <1>5, <3>1, <3>2, <3>3 DEF RoomIn, TakenFrom
    <3> QED BY <3>4, <3>5, <3>6
  <2>6. Consistent(n)
    BY <2>3, <2>4, <2>5 DEF Consistent
  <2>7. Extends(m, n) /\ vpage \in DOMAIN n.vpage_to_ppage_map
    BY <1>2, <2>4 DEF Extends
  <2> QED BY <2>6, <2>7 DEF n
<1> QED BY <1>4, <1>5

LEMMA NextSlotNumber ==
  ASSUME NEW k \in Slots
  PROVE  /\ (k + 1) % SLOTS \in Slots
         /\ (k + 1) % SLOTS # 0 => (k + 1) % SLOTS = k + 1
<1>1. SLOTS \in Nat /\ SLOTS > 0
  BY VirtualMemoryAssumption
<1>2. CASE k + 1 < SLOTS
  <2>1. k + 1 \in Nat /\ (k + 1) % SLOTS = k + 1
    BY <1>1, <1>2 DEF Slots
  <2> QED BY <1>1, <1>2, <2>1 DEF Slots
<1>3. CASE k + 1 = SLOTS
  <2>1. (k + 1) % SLOTS = 0
    BY <1>1, <1>3
  <2> QED BY <1>1, <2>1 DEF Slots
<1> QED BY <1>1, <1>2, <1>3 DEF Slots

\* A slot is free in the page that NextSlot leaves active, and no page is mapped there.
Roomy(m) ==
  ~m.refilled =>
    /\ \A v \in DOMAIN m.vpage_to_ppage_map : m.vpage_to_ppage_map[v] # m.active_pte_page
    /\ \A t \in DOMAIN m.page_table :
         m.page_table[t][1] = m.active_pte_page => m.page_table[t][2] < m.next_pte_page

LEMMA NextSlotIs ==
  ASSUME NEW m, Consistent(m)
  PROVE  /\ Consistent(NextSlot(m)) /\ Roomy(NextSlot(m))
         /\ NextSlot(m).vpage_to_ppage_map = m.vpage_to_ppage_map
         /\ NextSlot(m).page_table = m.page_table
<1> DEFINE free == m.ppage_free_list
           map == m.vpage_to_ppage_map
           table == m.page_table
<1>1. /\ m \in Memories /\ map \in PartialMaps(VPages, Nat)
      /\ free \in Seq(Nat) /\ free # <<>> /\ Head(free) \in Nat
      /\ table \in PartialMaps(Keys, Nat \X Slots)
      /\ m.active_pte_page \in Nat /\ m.next_pte_page \in Slots
  <2>1. m \in Memories
    BY DEF Consistent
  <2> QED BY <2>1 DEF Memories
<1>2. CASE m.next_pte_page # 0
  <2>1. NextSlot(m) = m
    BY <1>2 DEF NextSlot
  <2> QED BY <1>2, <2>1 DEF Consistent, Roomy, RoomIn
<1>3. CASE m.next_pte_page = 0
  <2> DEFINE taken == [m EXCEPT !.active_pte_page = Head(free)]
  <2>1. NextSlot(m) = ppage_pop(taken)
    BY <1>3 DEF NextSlot, ppage_front
  <2>2. /\ taken \in Memories /\ taken.ppage_free_list = free /\ taken.refilled = m.refilled
        /\ Increasing(taken.ppage_free_list)
    BY <1>1 DEF Memories, Consistent
  <2>3. PICK list, again :
           /\ ppage_pop(taken) = [taken EXCEPT !.ppage_free_list = list, !.refilled = again]
           /\ list \in Seq(Nat) \ {<<>>} /\ Increasing(list) /\ again \in BOOLEAN
           /\ ~again => ~m.refilled /\ Head(free) < Head(list)
    <3> HIDE DEF taken
    <3>1. \E list, again :
           /\ ppage_pop(taken) = [taken EXCEPT !.ppage_free_list = list, !.refilled = again]
           /\ list \in Seq(Nat) \ {<<>>} /\ Increasing(list) /\ again \in BOOLEAN
           /\ ~again => ~taken.refilled /\ Head(taken.ppage_free_list) < Head(list)
      BY <2>2, PopIs
    <3> QED BY <2>2, <3>1
  <2> DEFINE n == NextSlot(m)
  <2>4. /\ n \in Memories /\ n.ppage_free_list = list /\ n.refilled = again
        /\ n.vpage_to_ppage_map = map /\ n.page_table = table
        /\ n.active_pte_page = Head(free) /\ n.next_pte_page = 0
    <3>1. n = [m EXCEPT !.active_pte_page = Head(free), !.ppage_free_list = list,
                        !.refilled = again]
      BY <2>1, <2>3
    <3> HIDE DEF n
    <3> QED BY <1>1, <1>3, <2>3, <3>1 DEF Memories
  <2> HIDE DEF n, taken
  <2>5. ASSUME ~again
        PROVE  /\ TakenFrom(Head(list), map, table, Head(free)) /\ Apart(map, table)
               /\ RoomIn(map, table, Head(free), 0)
               /\ \A v \in DOMAIN map : map[v] # Head(free)
               /\ \A t \in DOMAIN table : table[t][1] # Head(free)
    <3>1. /\ TakenFrom(Head(free), map, table, m.active_pte_page) /\ Apart(map, table)
      BY <2>3, <2>5 DEF Consistent
    <3>2. Head(free) \in Nat /\ Head(list) \in Nat /\ Head(free) < Head(list)
      BY <1>1, <2>3, <2>5
    <3>3. \A v \in DOMAIN map : map[v] \in Nat
      BY <1>1 DEF PartialMaps
    <3>4. \A t \in DOMAIN table : table[t][1] \in Nat
      <4>1. \A t \in DOMAIN table : table[t] \in Nat \X Slots
        BY <1>1 DEF PartialMaps
      <4> QED BY <4>1
    <3> HIDE DEF map, free, table
    <3> QED BY <3>1, <3>2, <3>3, <3>4 DEF TakenFrom, RoomIn
  <2>6. Consistent(n)
    BY <2>3, <2>4, <2>5 DEF Consistent
  <2>7. Roomy(n)
    BY <2>4, <2>5 DEF Roomy
  <2> QED BY <2>4, <2>6, <2>7 DEF n
<1> QED BY <1>2, <1>3

\* get_pte_pa: the table is there afterwards, and what was there stays.
LEMMA MapTableIs ==
  ASSUME NEW m, Consistent(m), NEW vpage, NEW level, TableKey(vpage, level) \in Keys
  PROVE  /\ Consistent(MapTable(m, vpage, level)) /\ Extends(m, MapTable(m, vpage, level))
         /\ TableKey(vpage, level) \in DOMAIN MapTable(m, vpage, level).page_table
<1> DEFINE ready == NextSlot(m)
           key == TableKey(vpage, level)
           table == ready.page_table
           map == ready.vpage_to_ppage_map
           active == ready.active_pte_page
           next == ready.next_pte_page
           first == Head(ready.ppage_free_list)
           n == MapTable(m, vpage, level)
<1>1. /\ Consistent(ready) /\ Roomy(ready)
      /\ map = m.vpage_to_ppage_map /\ table = m.page_table
  BY NextSlotIs
<1> HIDE DEF ready
<1>2. /\ ready \in Memories /\ table \in PartialMaps(Keys, Nat \X Slots)
      /\ active \in Nat /\ next \in Slots
  <2>1. ready \in Memories
    BY <1>1 DEF Consistent
  <2> QED BY <2>1 DEF Memories
<1>3. CASE key \in DOMAIN table
  <2>1. n = ready
    BY <1>3 DEF MapTable, ready
  <2> QED BY <1>1, <1>3, <2>1 DEF Extends
<1>4. CASE key \notin DOMAIN table
  <2> DEFINE table2 == Emplaced(table, key, <<active, next>>)
             next2 == (next + 1) % SLOTS
  <2>1. n = [ready EXCEPT !.page_table = table2, !.next_pte_page = next2]
    BY <1>4 DEF MapTable, ready
  <2>2. /\ table2 \in PartialMaps(Keys, Nat \X Slots)
        /\ DOMAIN table2 = DOMAIN table \cup {key}
        /\ \A t \in DOMAIN table : table2[t] = table[t]
        /\ table2[key] = <<active, next>>
    <3>1. <<active, next>> \in Nat \X Slots
      BY <1>2
    <3> HIDE DEF table, key, active, next
    <3> QED BY <1>2, <1>4, <3>1, EmplacedIs, SMTT(60) DEF key
  <2>3. next2 \in Slots /\ (next2 # 0 => next2 = next + 1)
    <3> HIDE DEF next
    <3> QED BY <1>2, NextSlotNumber
  <2> HIDE DEF table2, next2, n
  <2>4. /\ n \in Memories /\ n.ppage_free_list = ready.ppage_free_list
        /\ n.refilled = ready.refilled /\ n.vpage_to_ppage_map = map /\ n.page_table = table2
        /\ n.active_pte_page = active /\ n.next_pte_page = next2
    BY <1>2, <2>1, <2>2, <2>3 DEF Memories
  <2>5. ASSUME ~ready.refilled
        PROVE  /\ TakenFrom(first, map, table2, active) /\ Apart(map, table2)
               /\ RoomIn(map, table2, active, next2)
    <3>1. TakenFrom(first, map, table, active) /\ Apart(map, table)
      BY <1>1, <2>5 DEF Consistent
    <3>2. /\ \A v \in DOMAIN map : map[v] # active
          /\ \A t \in DOMAIN table : table[t][1] = active => table[t][2] < next
      BY <1>1, <2>5 DEF Roomy
    <3>3. /\ \A t \in DOMAIN table : table[t][1] \in Nat /\ table[t][2] \in Int
          /\ \A t \in DOMAIN table : table[t] = <<table[t][1], table[t][2]>>
      <4>1. \A t \in DOMAIN table : table[t] \in Nat \X Slots
        BY <1>2 DEF PartialMaps
      <4>2. \A k \in Slots : k \in Int
        BY DEF Slots
      <4> SUFFICES ASSUME NEW t \in DOMAIN table
                   PROVE  /\ table[t][1] \in Nat /\ table[t][2] \in Int
                          /\ table[t] = <<table[t][1], table[t][2]>>
        OBVIOUS
      <4>3. PICK p \in Nat, k \in Slots : table[t] = <<p, k>>
        BY <4>1
      <4> HIDE DEF table
      <4> QED BY <4>2, <4>3
    <3>4. next \in Int
      BY <1>2 DEF Slots
    <3> HIDE DEF map, table, active, next, first, key
    <3>5. TakenFrom(first, map, table2, active)
      BY <2>2, <3>1 DEF TakenFrom
    <3>6. \A t \in DOMAIN table : table[t] # <<active, next>>
      BY <3>2, <3>3, <3>4
    <3>7. Apart(map, table2)
      <4>1. \A s, t \in DOMAIN table2 : s # t => table2[s] # table2[t]
        BY <2>2, <3>1, <3>6 DEF Apart
      <4>2. table2[key][1] = active
        BY <2>2
      <4>3. \A v \in DOMAIN map, t \in DOMAIN table2 : map[v] # table2[t][1]
        BY <2>2, <3>1, <3>2, <4>2 DEF Apart
      <4> QED BY <3>1, <4>1, <4>3 DEF Apart
    <3>8. RoomIn(map, table2, active, next2)
      BY <2>2, <2>3, <3>2, <3>3, <3>4 DEF RoomIn
    <3> QED BY <3>5, <3>7, <3>8
  <2>6. Consistent(n)
    BY <1>1, <2>4, <2>5 DEF Consistent
  <2>7. Extends(m, n) /\ key \in DOMAIN n.page_table
    BY <1>1, <2>2, <2>4 DEF Extends
  <2> QED BY <2>6, <2>7 DEF n
<1> QED BY <1>3, <1>4

----------------------------------------------------------------------------
(* The loop of finish_packet *)

Walks == [v_address : VPages, address : PteAddresses, level : 0..LEVELS]

\* The memory has what the walk looks for.
Has(m, walk) ==
  IF walk.level > 0 THEN TableKey(walk.v_address, walk.level) \in DOMAIN m.page_table
  ELSE walk.v_address \in DOMAIN m.vpage_to_ppage_map

LEMMA ExtendsIsTransitive ==
  ASSUME NEW l, NEW m, NEW n, Extends(l, m), Extends(m, n)
  PROVE  Extends(l, n)
BY DEF Extends

LEMMA KeyIs ==
  ASSUME NEW walk \in Walks
  PROVE  /\ walk.level > 0 => /\ TableKey(walk.v_address, walk.level) \in Keys
                              /\ get_offset(walk.v_address, walk.level) \in Offsets
                              /\ walk.level \in Levels
         /\ walk.level \in 0..LEVELS /\ walk.v_address \in VPages
         /\ walk.level # 0 => walk.level > 0
         /\ walk.address \in PteAddresses
<1>1. /\ walk.v_address \in VPages /\ walk.v_address \in VPages \cup {0}
      /\ walk.level \in 0..LEVELS /\ walk.address \in PteAddresses
  BY DEF Walks
<1>2. LEVELS \in Nat
  BY WalkerAssumption
<1>3. /\ walk.level # 0 => walk.level > 0
      /\ walk.level > 0 => walk.level \in 1..RootLevel /\ walk.level \in Levels
  BY <1>1, <1>2 DEF RootLevel, Levels
<1> QED BY <1>1, <1>3 DEF Keys, Offsets

LEMMA MappedIs ==
  ASSUME NEW m, Consistent(m), NEW walk \in Walks
  PROVE  /\ Consistent(Mapped(m, walk)) /\ Extends(m, Mapped(m, walk))
         /\ Has(Mapped(m, walk), walk)
<1>1. CASE walk.level > 0
  <2>1. Mapped(m, walk) = MapTable(m, walk.v_address, walk.level)
    BY <1>1 DEF Mapped
  <2>2. TableKey(walk.v_address, walk.level) \in Keys
    BY <1>1, KeyIs
  <2> QED BY <1>1, <2>1, <2>2, MapTableIs DEF Has
<1>2. CASE ~(walk.level > 0)
  <2>1. Mapped(m, walk) = MapPage(m, walk.v_address)
    BY <1>2 DEF Mapped
  <2>2. walk.v_address \in VPages
    BY KeyIs
  <2> QED BY <1>2, <2>1, <2>2, MapPageIs DEF Has
<1> QED BY <1>1, <1>2

\* The memories that the loop goes through.
IsMapping(after, m, steps, n) ==
  after = [k \in 0..n |-> IF k = 0 THEN m ELSE Mapped(after[k - 1], steps[k])]

LEMMA MappingExists ==
  ASSUME NEW m, NEW steps \in Seq(Walks)
  PROVE  \A n \in 0..Len(steps) : \E after : IsMapping(after, m, steps, n)
<1> DEFINE Bad == {n \in 0..Len(steps) : ~\E after : IsMapping(after, m, steps, n)}
<1> SUFFICES ASSUME Bad # {}
             PROVE  FALSE
  OBVIOUS
<1>1. PICK n \in Bad : \A j \in Bad : n <= j
  <2>1. Bad \in SUBSET Nat
    OBVIOUS
  <2> HIDE DEF Bad
  <2> QED BY <2>1, LeastExists
<1>2. n # 0
  <2>1. IsMapping([k \in 0..0 |-> m], m, steps, 0)
    BY DEF IsMapping
  <2> QED BY <2>1
<1>3. n \in Nat /\ n - 1 \in 0..Len(steps) /\ n - 1 \notin Bad
  BY <1>1, <1>2
<1>4. PICK after : IsMapping(after, m, steps, n - 1)
  BY <1>3
<1> DEFINE next == [k \in 0..n |-> IF k = n THEN Mapped(after[n - 1], steps[n]) ELSE after[k]]
<1>5. \A k \in 0..(n - 1) : after[k] = IF k = 0 THEN m ELSE Mapped(after[k - 1], steps[k])
  BY <1>4 DEF IsMapping
<1>6. \A k \in 0..(n - 1) : next[k] = after[k]
  BY <1>3
<1>7. next[n] = Mapped(next[n - 1], steps[n])
  BY <1>2, <1>3, <1>6
<1>8. \A k \in 0..n : next[k] = IF k = 0 THEN m ELSE Mapped(next[k - 1], steps[k])
  <2> SUFFICES ASSUME NEW k \in 0..n
               PROVE  next[k] = IF k = 0 THEN m ELSE Mapped(next[k - 1], steps[k])
    OBVIOUS
  <2>1. CASE k = n
    BY <1>2, <1>7, <2>1
  <2>2. CASE k # n
    <3>1. k \in 0..(n - 1) /\ (k # 0 => k - 1 \in 0..(n - 1))
      BY <1>3, <2>2
    <3>2. next[k] = after[k] /\ (k # 0 => next[k - 1] = after[k - 1])
      BY <1>6, <3>1
    <3> HIDE DEF next
    <3> QED BY <1>5, <3>1, <3>2
  <2> QED BY <2>1, <2>2
<1>9. IsMapping(next, m, steps, n)
  <2>1. next = [k \in 0..n |-> next[k]]
    OBVIOUS
  <2> HIDE DEF next
  <2> QED BY <1>8, <2>1 DEF IsMapping
<1> QED BY <1>1, <1>9

\* Every walk of the loop has what it looks for in the memory that all leave.
LEMMA AllMappedIs ==
  ASSUME NEW m, Consistent(m), NEW steps \in Seq(Walks)
  PROVE  /\ Consistent(AllMapped(m, steps)) /\ Extends(m, AllMapped(m, steps))
         /\ \A k \in 1..Len(steps) : Has(AllMapped(m, steps), steps[k])
<1> DEFINE n == Len(steps)
<1>1. n \in Nat
  OBVIOUS
<1>2. PICK after : IsMapping(after, m, steps, n) /\ AllMapped(m, steps) = after[n]
  <2>1. \E after : IsMapping(after, m, steps, n)
    <3>1. \A i \in 0..Len(steps) : \E after : IsMapping(after, m, steps, i)
      BY MappingExists
    <3>2. Len(steps) \in 0..Len(steps)
      BY <1>1
    <3> QED BY <3>1, <3>2
  <2> QED BY <2>1 DEF AllMapped, IsMapping
<1> DEFINE Good(k) == /\ Consistent(after[k]) /\ Extends(m, after[k])
                      /\ \A i \in 1..k : Has(after[k], steps[i])
<1>3. \A k \in 0..n : Good(k)
  <2> DEFINE Bad == {k \in 0..n : ~Good(k)}
  <2> HIDE DEF Good
  <2> SUFFICES ASSUME Bad # {}
               PROVE  FALSE
    OBVIOUS
  <2>1. PICK k \in Bad : \A j \in Bad : k <= j
    <3>1. Bad \in SUBSET Nat
      BY <1>1
    <3> HIDE DEF Bad
    <3> QED BY <3>1, LeastExists
  <2>2. \A j \in 0..n : after[j] = IF j = 0 THEN m ELSE Mapped(after[j - 1], steps[j])
    BY <1>2 DEF IsMapping
  <2>3. k # 0
    <3>1. after[0] = m
      BY <1>1, <2>2
    <3>2. Good(0)
      BY <3>1 DEF Good, Extends
    <3> QED BY <3>2
  <2>4. k \in 1..n /\ Good(k - 1) /\ k \in Nat
    BY <1>1, <2>1, <2>3
  <2>5. after[k] = Mapped(after[k - 1], steps[k]) /\ steps[k] \in Walks
    BY <1>1, <2>2, <2>4
  <2> DEFINE before == after[k - 1]
             now == after[k]
  <2>6. /\ Consistent(before) /\ Extends(m, before)
        /\ \A i \in 1..(k - 1) : Has(before, steps[i])
    BY <2>4 DEF Good
  <2> HIDE DEF before
  <2>7. /\ Consistent(now) /\ Extends(before, now) /\ Has(now, steps[k])
    BY <2>5, <2>6, MappedIs DEF before
  <2> HIDE DEF now
  <2>8. Extends(m, now)
    BY <2>6, <2>7, ExtendsIsTransitive
  <2>9. \A i \in 1..k : Has(now, steps[i])
    <3> SUFFICES ASSUME NEW i \in 1..k
                 PROVE  Has(now, steps[i])
      OBVIOUS
    <3>1. CASE i = k
      BY <2>7, <3>1
    <3>2. CASE i # k
      <4>1. i \in 1..(k - 1)
        BY <2>4, <3>2
      <4>2. Has(before, steps[i])
        BY <2>6, <4>1
      <4> QED BY <2>7, <4>2 DEF Has, Extends
    <3> QED BY <3>1, <3>2
  <2>10. Good(k)
    BY <2>7, <2>8, <2>9 DEF Good, now
  <2> QED BY <2>1, <2>10
<1>4. Good(n)
  BY <1>1, <1>3
<1> QED BY <1>2, <1>4

----------------------------------------------------------------------------
(* Queues as sets of their elements *)

LEMMA ToSetIs ==
  ASSUME NEW X, NEW seq \in Seq(X)
  PROVE  /\ ToSet(seq) = {seq[k] : k \in 1..Len(seq)}
         /\ ToSet(seq) \subseteq X
BY DEF ToSet

LEMMA EmptyToSet == ToSet(<<>>) = {}
BY DEF ToSet

LEMMA AppendToSet ==
  ASSUME NEW X, NEW seq \in Seq(X), NEW x \in X
  PROVE  Append(seq, x) \in Seq(X) /\ ToSet(Append(seq, x)) = ToSet(seq) \cup {x}
<1>1. /\ Append(seq, x) \in Seq(X) /\ Len(Append(seq, x)) = Len(seq) + 1 /\ Len(seq) \in Nat
      /\ \A k \in 1..Len(seq) : Append(seq, x)[k] = seq[k]
      /\ Append(seq, x)[Len(seq) + 1] = x
  OBVIOUS
<1>2. \A k \in 1..(Len(seq) + 1) : k \in 1..Len(seq) \/ k = Len(seq) + 1
  BY <1>1
<1>3. (\A k \in 1..Len(seq) : k \in 1..(Len(seq) + 1)) /\ Len(seq) + 1 \in 1..(Len(seq) + 1)
  BY <1>1
<1>4. /\ ToSet(seq) = {seq[k] : k \in 1..Len(seq)}
      /\ ToSet(Append(seq, x)) = {Append(seq, x)[k] : k \in 1..(Len(seq) + 1)}
  BY <1>1, ToSetIs
<1> QED BY <1>1, <1>2, <1>3, <1>4

LEMMA TailToSet ==
  ASSUME NEW X, NEW seq \in Seq(X), seq # <<>>
  PROVE  /\ Tail(seq) \in Seq(X) /\ Head(seq) \in X
         /\ ToSet(seq) = ToSet(Tail(seq)) \cup {Head(seq)}
<1>1. /\ Tail(seq) \in Seq(X) /\ Len(Tail(seq)) = Len(seq) - 1 /\ Len(seq) \in Nat \ {0}
      /\ \A k \in 1..(Len(seq) - 1) : Tail(seq)[k] = seq[k + 1]
      /\ Head(seq) = seq[1] /\ Head(seq) \in X
  OBVIOUS
<1>2. \A k \in 1..Len(seq) : k = 1 \/ (k - 1 \in 1..(Len(seq) - 1) /\ (k - 1) + 1 = k)
  BY <1>1
<1>3. (\A k \in 1..(Len(seq) - 1) : k + 1 \in 1..Len(seq)) /\ 1 \in 1..Len(seq)
  BY <1>1
<1>4. /\ ToSet(seq) = {seq[k] : k \in 1..Len(seq)}
      /\ ToSet(Tail(seq)) = {Tail(seq)[k] : k \in 1..(Len(seq) - 1)}
  BY <1>1, ToSetIs
<1>5. ASSUME NEW k \in 1..Len(seq)
      PROVE  seq[k] \in ToSet(Tail(seq)) \cup {Head(seq)}
  <2>1. CASE k = 1
    BY <1>1, <2>1
  <2>2. CASE k - 1 \in 1..(Len(seq) - 1) /\ (k - 1) + 1 = k
    <3>1. Tail(seq)[k - 1] = seq[k]
      BY <1>1, <2>2
    <3> QED BY ONLY <1>4, <2>2, <3>1
  <2> QED BY <1>2, <2>1, <2>2
<1>6. ASSUME NEW k \in 1..(Len(seq) - 1)
      PROVE  Tail(seq)[k] \in ToSet(seq)
  <2>1. Tail(seq)[k] = seq[k + 1] /\ k + 1 \in 1..Len(seq)
    BY <1>1, <1>3
  <2> QED BY ONLY <1>4, <2>1
<1>7. Head(seq) \in ToSet(seq)
  BY ONLY <1>1, <1>3, <1>4
<1>8. ToSet(seq) = ToSet(Tail(seq)) \cup {Head(seq)}
  BY ONLY <1>4, <1>5, <1>6, <1>7
<1> QED BY ONLY <1>1, <1>8

LEMMA RemoveToSet ==
  ASSUME NEW X, NEW seq \in Seq(X), NEW k \in 1..Len(seq)
  PROVE  /\ RemoveAt(seq, k) \in Seq(X) /\ seq[k] \in X
         /\ ToSet(seq) = ToSet(RemoveAt(seq, k)) \cup {seq[k]}
<1> DEFINE rest == RemoveAt(seq, k)
<1>1. /\ rest \in Seq(X) /\ Len(rest) = Len(seq) - 1 /\ Len(seq) \in Nat
      /\ \A i \in 1..(Len(seq) - 1) : rest[i] = IF i < k THEN seq[i] ELSE seq[i + 1]
  <2>1. /\ rest \in Seq(X) /\ Len(rest) = Len(seq) - 1
        /\ \A i \in 1..(Len(seq) - 1) : rest[i] = IF i < k THEN seq[i] ELSE seq[i + 1]
    BY ONLY seq \in Seq(X), k \in 1..Len(seq), RemoveAtProperties
  <2>2. Len(seq) \in Nat
    OBVIOUS
  <2> QED BY ONLY <2>1, <2>2
<1> HIDE DEF rest
<1>2. /\ ToSet(seq) = {seq[i] : i \in 1..Len(seq)}
      /\ ToSet(rest) = {rest[i] : i \in 1..(Len(seq) - 1)}
  BY <1>1, ToSetIs
<1>3. ASSUME NEW i \in 1..(Len(seq) - 1)
      PROVE  rest[i] \in ToSet(seq)
  <2>1. i \in 1..Len(seq) /\ i + 1 \in 1..Len(seq)
    BY <1>1
  <2> QED BY <1>1, <1>2, <2>1
<1>4. ASSUME NEW i \in 1..Len(seq), i # k
      PROVE  seq[i] \in ToSet(rest)
  <2>1. CASE i < k
    <3>1. i \in 1..(Len(seq) - 1)
      BY <1>1, <2>1
    <3>2. rest[i] = seq[i]
      BY <1>1, <2>1, <3>1
    <3> QED BY <1>2, <3>1, <3>2
  <2>2. CASE ~(i < k)
    <3>1. i - 1 \in 1..(Len(seq) - 1) /\ ~(i - 1 < k) /\ (i - 1) + 1 = i
      BY <1>1, <1>4, <2>2
    <3>2. rest[i - 1] = seq[i]
      BY <1>1, <3>1
    <3> QED BY <1>2, <3>1, <3>2
  <2> QED BY <2>1, <2>2
<1>5. seq[k] \in X /\ seq[k] \in ToSet(seq)
  BY <1>2
<1> QED BY <1>1, <1>2, <1>3, <1>4, <1>5 DEF rest

LEMMA ConcatToSet ==
  ASSUME NEW X, NEW a \in Seq(X), NEW b \in Seq(X)
  PROVE  a \o b \in Seq(X) /\ ToSet(a \o b) = ToSet(a) \cup ToSet(b)
<1> DEFINE c == a \o b
<1>1. /\ c \in Seq(X) /\ Len(c) = Len(a) + Len(b) /\ Len(a) \in Nat /\ Len(b) \in Nat
      /\ \A k \in 1..(Len(a) + Len(b)) : c[k] = IF k <= Len(a) THEN a[k] ELSE b[k - Len(a)]
  BY ConcatProperties
<1> HIDE DEF c
<1>2. /\ ToSet(a) = {a[k] : k \in 1..Len(a)} /\ ToSet(b) = {b[k] : k \in 1..Len(b)}
      /\ ToSet(c) = {c[k] : k \in 1..(Len(a) + Len(b))}
  BY <1>1, ToSetIs
<1>3. ASSUME NEW k \in 1..(Len(a) + Len(b))
      PROVE  c[k] \in ToSet(a) \cup ToSet(b)
  <2>1. k <= Len(a) => k \in 1..Len(a)
    BY <1>1
  <2>2. ~(k <= Len(a)) => k - Len(a) \in 1..Len(b)
    BY <1>1
  <2> QED BY <1>1, <1>2, <2>1, <2>2
<1>4. ASSUME NEW k \in 1..Len(a)
      PROVE  a[k] \in ToSet(c)
  <2>1. k \in 1..(Len(a) + Len(b)) /\ k <= Len(a)
    BY <1>1
  <2> QED BY <1>1, <1>2, <2>1
<1>5. ASSUME NEW k \in 1..Len(b)
      PROVE  b[k] \in ToSet(c)
  <2>1. Len(a) + k \in 1..(Len(a) + Len(b)) /\ ~(Len(a) + k <= Len(a)) /\ (Len(a) + k) - Len(a) = k
    BY <1>1
  <2>2. c[Len(a) + k] = b[k]
    BY <1>1, <2>1
  <2> QED BY <1>2, <2>1, <2>2
<1> QED BY <1>1, <1>2, <1>3, <1>4, <1>5, ZenonT(60) DEF c

LEMMA SelectedToSet ==
  ASSUME NEW X, NEW seq \in Seq(X), NEW positions
  PROVE  /\ Selected(seq, positions) \in Seq(X)
         /\ \A x \in ToSet(Selected(seq, positions)) :
              \E k \in 1..Len(seq) : k \in positions /\ x = seq[k]
         /\ \A k \in 1..Len(seq) : k \in positions => seq[k] \in ToSet(Selected(seq, positions))
<1> DEFINE kept == Selected(seq, positions)
<1>1. /\ kept \in Seq(X)
      /\ \A j \in 1..Len(kept) : \E k \in 1..Len(seq) : k \in positions /\ kept[j] = seq[k]
      /\ \A k \in 1..Len(seq) : k \in positions => \E j \in 1..Len(kept) : kept[j] = seq[k]
  BY SelectedIs
<1> HIDE DEF kept
<1>2. ToSet(kept) = {kept[j] : j \in 1..Len(kept)}
  BY <1>1, ToSetIs
<1> QED BY <1>1, <1>2, ZenonT(60) DEF kept

LEMMA FirstIsIn ==
  ASSUME NEW n \in Nat, NEW S \in SUBSET (1..n), S # {}
  PROVE  First(S) \in S /\ First(S) \in 1..n /\ \A j \in S : First(S) <= j
<1>1. S \in SUBSET Nat
  OBVIOUS
<1> QED BY <1>1, LeastExists DEF First

----------------------------------------------------------------------------
(* The inductive invariant *)

PageTags == {PsclTag(vpage, level) : vpage \in VPages, level \in Levels}
PsclEntries == [tag : PageTags, ptw_addr : PteAddresses]

\* The walker only reads, for itself: nothing waits with a request, and its
\* channel has no writes and no prefetches.
Requests == [address : PteAddresses, type : {"TRANSLATION"}, forward_checked : BOOLEAN,
             response_requested : BOOLEAN, instr_depend_on_me : {{}}]
Responses == [block : PteBlocks, instr_depend_on_me : {{}}]
Channels == [RQ : Seq(Requests), WQ : {<<>>}, PQ : {<<>>}, returned : Seq(Responses)]

Steps == [v_address : VPages, level : Levels, data : PteAddresses]
Translations == [v_address : VPages, level : {0}, data : Nat]

CoreRequests == [id : Nat \ {0}, vpage : VPages]
WalkEntries == [id : {0}, v_address : {0}, address : PteBlocks, is_translated : {TRUE},
                translate_issued : BOOLEAN]
CoreEntries == [id : Nat \ {0}, v_address : VPages, address : Nat, is_translated : BOOLEAN,
                translate_issued : BOOLEAN]
EntryStates == WalkEntries \cup CoreEntries

TypeOK ==
  /\ walkRQ \in Seq(VPages) /\ walkReturned \in Seq(Translations)
  /\ walks \in Seq(Walks) /\ finished \in Seq(Steps) /\ completed \in Seq(Translations)
  /\ pscl \in [Levels -> Seq(PsclEntries)]
  /\ Consistent(vm)
  /\ lower \in Channels
  /\ coreRQ \in Seq(CoreRequests)
  /\ inflight_tag_check \in Seq(EntryStates) /\ translation_stash \in Seq(EntryStates)
  /\ missing \in SUBSET PteBlocks /\ asked \in Nat

\* Translations on their way, and those that have arrived, are of the page they are for.
AnswersOwn(packets, map) ==
  \A p \in packets : p.v_address \in DOMAIN map /\ p.data = map[p.v_address]
EntriesOwn(entries, map) ==
  \A e \in entries : (e.id > 0 /\ e.is_translated) =>
    e.v_address \in DOMAIN map /\ e.address = map[e.v_address]

OwnPages ==
  /\ AnswersOwn(ToSet(completed), vm.vpage_to_ppage_map)
  /\ AnswersOwn(ToSet(walkReturned), vm.vpage_to_ppage_map)
  /\ EntriesOwn(ToSet(inflight_tag_check), vm.vpage_to_ppage_map)
  /\ EntriesOwn(ToSet(translation_stash), vm.vpage_to_ppage_map)

\* Where the read of a block can be, from the request to the answer.
Asked(block, requests) == \E r \in requests : Block(r.address) = block
Looked(block, entries) == \E e \in entries : e.id = 0 /\ e.address = block
Answered(block, responses) == \E r \in responses : r.block = block

UnderWay(block, requests, entries, blocks, responses) ==
  \/ Asked(block, requests) \/ Looked(block, entries) \/ block \in blocks
  \/ Answered(block, responses)

WalksServed ==
  \A walk \in ToSet(walks) :
    UnderWay(Block(walk.address), ToSet(lower.RQ),
             ToSet(inflight_tag_check) \cup ToSet(translation_stash), missing,
             ToSet(lower.returned))

IInv == TypeOK /\ OwnPages /\ TranslatedFirst /\ WalksServed

----------------------------------------------------------------------------
(* What the parts of the actions do to requests and entries *)

LEMMA EntryIs ==
  ASSUME NEW e \in EntryStates
  PROVE  /\ e.id \in Nat /\ e.is_translated \in BOOLEAN /\ e.translate_issued \in BOOLEAN
         /\ e.id = 0 => e \in WalkEntries /\ e.is_translated /\ e.address \in PteBlocks
         /\ e.id # 0 => e \in CoreEntries /\ e.id > 0 /\ e.v_address \in VPages
<1>1. CASE e \in WalkEntries
  <2>1. /\ e.id = 0 /\ e.address \in PteBlocks /\ e.is_translated = TRUE
        /\ e.translate_issued \in BOOLEAN
    BY <1>1 DEF WalkEntries
  <2>2. e.is_translated
    BY <2>1, Zenon
  <2>3. e.is_translated \in BOOLEAN
    BY <2>1, Zenon
  <2> QED BY <1>1, <2>1, <2>2, <2>3
<1>2. CASE e \in CoreEntries
  BY <1>2 DEF CoreEntries
<1> QED BY <1>1, <1>2 DEF EntryStates

LEMMA TranslationIs ==
  ASSUME NEW p \in Translations
  PROVE  p.v_address \in VPages /\ p.data \in Nat
BY DEF Translations

\* finish_translation, for one entry.
Mark(e, p) == IF MatchesVpage(e, p) THEN Translated(e, p) ELSE e

LEMMA MarkIs ==
  ASSUME NEW e \in EntryStates, NEW p \in Translations
  PROVE  /\ Mark(e, p) \in EntryStates
         /\ e.id = 0 => Mark(e, p) = e
         /\ Mark(e, p) # e => /\ Mark(e, p).v_address = p.v_address
                              /\ Mark(e, p).address = p.data
<1>1. CASE MatchesVpage(e, p)
  <2>1. e.id # 0
    BY <1>1, EntryIs DEF MatchesVpage
  <2>2. e \in CoreEntries
    BY <2>1, EntryIs
  <2>3. /\ Translated(e, p) \in CoreEntries
        /\ Translated(e, p).v_address = e.v_address /\ Translated(e, p).address = p.data
    BY <2>2, TranslationIs DEF Translated, CoreEntries
  <2>4. e.v_address = p.v_address
    BY <1>1 DEF MatchesVpage
  <2> QED BY <1>1, <2>1, <2>3, <2>4 DEF Mark, EntryStates
<1>2. CASE ~MatchesVpage(e, p)
  BY <1>2 DEF Mark
<1> QED BY <1>1, <1>2

LEMMA MarkAllIs ==
  ASSUME NEW seq \in Seq(EntryStates), NEW p \in Translations, NEW map,
         EntriesOwn(ToSet(seq), map), AnswersOwn({p}, map)
  PROVE  /\ MarkAll(seq, p) \in Seq(EntryStates) /\ Len(MarkAll(seq, p)) = Len(seq)
         /\ EntriesOwn(ToSet(MarkAll(seq, p)), map)
         /\ \A block : Looked(block, ToSet(seq)) => Looked(block, ToSet(MarkAll(seq, p)))
<1> DEFINE marked == MarkAll(seq, p)
<1>1. \A k \in 1..Len(seq) : seq[k] \in EntryStates
  OBVIOUS
<1>2. marked = [k \in 1..Len(seq) |-> Mark(seq[k], p)]
  BY DEF MarkAll, Mark
<1>3. \A k \in 1..Len(seq) : Mark(seq[k], p) \in EntryStates
  BY <1>1, MarkIs
<1> HIDE DEF marked
<1>4. /\ marked \in Seq(EntryStates) /\ Len(marked) = Len(seq)
      /\ \A k \in 1..Len(seq) : marked[k] = Mark(seq[k], p)
  <2>1. Len(seq) \in Nat
    OBVIOUS
  <2>2. marked \in [1..Len(seq) -> EntryStates]
    BY <1>2, <1>3
  <2> QED BY <1>2, <2>1, <2>2
<1>5. /\ ToSet(seq) = {seq[k] : k \in 1..Len(seq)}
      /\ ToSet(marked) = {marked[k] : k \in 1..Len(seq)}
  BY <1>4, ToSetIs
<1>6. ASSUME NEW e \in ToSet(marked), e.id > 0, e.is_translated
      PROVE  e.v_address \in DOMAIN map /\ e.address = map[e.v_address]
  <2>1. PICK k \in 1..Len(seq) : e = Mark(seq[k], p)
    BY <1>4, <1>5
  <2>2. CASE e = seq[k]
    BY <1>5, <1>6, <2>2 DEF EntriesOwn
  <2>3. CASE e # seq[k]
    <3>1. e.v_address = p.v_address /\ e.address = p.data
      BY <1>1, <2>1, <2>3, MarkIs
    <3> QED BY <3>1 DEF AnswersOwn
  <2> QED BY <2>2, <2>3
<1>7. ASSUME NEW block, Looked(block, ToSet(seq))
      PROVE  Looked(block, ToSet(marked))
  <2>1. PICK e \in ToSet(seq) : e.id = 0 /\ e.address = block
    BY <1>7 DEF Looked
  <2>2. PICK k \in 1..Len(seq) : e = seq[k]
    BY <1>5, <2>1
  <2>3. marked[k] = e
    BY <1>1, <1>4, <2>1, <2>2, MarkIs
  <2>4. e \in ToSet(marked)
    BY <1>5, <2>3
  <2> QED BY <2>1, <2>4 DEF Looked
<1> QED BY <1>4, <1>6, <1>7 DEF marked, EntriesOwn

\* finish_translation, for the stash: the translated ones come to the front.
LEMMA RestartedIs ==
  ASSUME NEW stash \in Seq(EntryStates), NEW p \in Translations, NEW map,
         EntriesOwn(ToSet(stash), map), AnswersOwn({p}, map)
  PROVE  /\ Restarted(stash, p) \in Seq(EntryStates)
         /\ EntriesOwn(ToSet(Restarted(stash, p)), map)
         /\ \A block : Looked(block, ToSet(stash)) => Looked(block, ToSet(Restarted(stash, p)))
         /\ \A j, k \in 1..Len(Restarted(stash, p)) :
              j < k /\ Restarted(stash, p)[k].is_translated => Restarted(stash, p)[j].is_translated
<1> DEFINE marked == MarkAll(stash, p)
           front == Selected(marked, Ready(marked))
           back == Selected(marked, DOMAIN marked \ Ready(marked))
<1>1. /\ marked \in Seq(EntryStates) /\ EntriesOwn(ToSet(marked), map)
      /\ \A block : Looked(block, ToSet(stash)) => Looked(block, ToSet(marked))
  BY MarkAllIs
<1>2. Restarted(stash, p) = front \o back
  BY DEF Restarted
<1> HIDE DEF marked
<1>3. /\ front \in Seq(EntryStates)
      /\ \A x \in ToSet(front) : \E k \in 1..Len(marked) : k \in Ready(marked) /\ x = marked[k]
      /\ \A k \in 1..Len(marked) : k \in Ready(marked) => marked[k] \in ToSet(front)
  BY <1>1, SelectedToSet
<1>4. /\ back \in Seq(EntryStates)
      /\ \A x \in ToSet(back) :
           \E k \in 1..Len(marked) : k \in DOMAIN marked \ Ready(marked) /\ x = marked[k]
      /\ \A k \in 1..Len(marked) : k \in DOMAIN marked \ Ready(marked) => marked[k] \in ToSet(back)
  BY <1>1, SelectedToSet
<1>5. DOMAIN marked = 1..Len(marked) /\ ToSet(marked) = {marked[k] : k \in 1..Len(marked)}
  BY <1>1, ToSetIs
<1> HIDE DEF front, back
<1>6. front \o back \in Seq(EntryStates) /\ ToSet(front \o back) = ToSet(front) \cup ToSet(back)
  BY <1>3, <1>4, ConcatToSet
<1>7. ToSet(front) \cup ToSet(back) = ToSet(marked)
  BY <1>3, <1>4, <1>5
<1>8. /\ \A x \in ToSet(front) : x.is_translated
      /\ \A x \in ToSet(back) : ~x.is_translated
  BY <1>3, <1>4 DEF Ready
<1>9. ASSUME NEW j \in 1..Len(front \o back), NEW k \in 1..Len(front \o back), j < k,
             (front \o back)[k].is_translated
      PROVE  (front \o back)[j].is_translated
  <2>1. /\ Len(front \o back) = Len(front) + Len(back) /\ Len(front) \in Nat /\ Len(back) \in Nat
        /\ \A i \in 1..(Len(front) + Len(back)) :
             (front \o back)[i] = IF i <= Len(front) THEN front[i] ELSE back[i - Len(front)]
    BY <1>3, <1>4, ConcatProperties
  <2>2. /\ ToSet(front) = {front[i] : i \in 1..Len(front)}
        /\ ToSet(back) = {back[i] : i \in 1..Len(back)}
    BY <1>3, <1>4, ToSetIs
  <2>3. k <= Len(front)
    <3> SUFFICES ASSUME ~(k <= Len(front))
                 PROVE  FALSE
      OBVIOUS
    <3>1. k - Len(front) \in 1..Len(back) /\ (front \o back)[k] = back[k - Len(front)]
      BY <2>1
    <3> QED BY <1>8, <1>9, <2>2, <3>1
  <2>4. j \in 1..Len(front) /\ (front \o back)[j] = front[j]
    BY <1>9, <2>1, <2>3
  <2> QED BY <1>8, <2>2, <2>4
<1> QED BY <1>1, <1>2, <1>6, <1>7, <1>9

\* A read that joins an earlier one is for the same block.
LEMMA MergeOrStayIs ==
  ASSUME NEW rq \in Seq(Requests), NEW k \in 1..Len(rq)
  PROVE  /\ MergeOrStay(rq, k, FALSE) \in Seq(Requests)
         /\ \A block : Asked(block, ToSet(rq)) => Asked(block, ToSet(MergeOrStay(rq, k, FALSE)))
<1> DEFINE earlier == {j \in Collisions(rq, rq[k], FALSE) : j < k}
           m == First(earlier)
<1>1. /\ rq[k] \in Requests /\ Len(rq) \in Nat /\ \A i \in 1..Len(rq) : rq[i] \in Requests
      /\ ToSet(rq) = {rq[i] : i \in 1..Len(rq)}
  BY ToSetIs
<1>2. CASE earlier = {}
  <2> DEFINE checked == [rq EXCEPT ![k] = Checked(@)]
  <2>1. MergeOrStay(rq, k, FALSE) = checked
    BY <1>2 DEF MergeOrStay
  <2>2. Checked(rq[k]) \in Requests /\ Checked(rq[k]).address = rq[k].address
    BY <1>1 DEF Checked, Requests
  <2>3. /\ checked \in Seq(Requests) /\ Len(checked) = Len(rq)
        /\ \A i \in 1..Len(rq) : checked[i].address = rq[i].address
    BY <1>1, <2>2
  <2> HIDE DEF checked
  <2>4. ToSet(checked) = {checked[i] : i \in 1..Len(rq)}
    BY <2>3, ToSetIs
  <2>5. ASSUME NEW block, Asked(block, ToSet(rq))
        PROVE  Asked(block, ToSet(checked))
    <3>1. PICK i \in 1..Len(rq) : Block(rq[i].address) = block
      BY <1>1, <2>5 DEF Asked
    <3>2. checked[i] \in ToSet(checked) /\ Block(checked[i].address) = block
      BY <2>3, <2>4, <3>1
    <3> QED BY <3>2 DEF Asked
  <2> QED BY <2>1, <2>3, <2>5
<1>3. CASE earlier # {}
  <2>1. earlier \in SUBSET (1..Len(rq))
    BY DEF Collisions
  <2>2. m \in earlier /\ m \in 1..Len(rq) /\ m < k /\ Block(rq[m].address) = Block(rq[k].address)
    <3>1. First(earlier) \in earlier
      <4> HIDE DEF earlier, m
      <4> QED BY <1>1, <1>3, <2>1, FirstIsIn
    <3> QED BY <3>1 DEF Collisions, Same
  <2> DEFINE merged == [rq EXCEPT ![m] = Merge(rq[k], @)]
             rest == RemoveAt(merged, k)
  <2>3. MergeOrStay(rq, k, FALSE) = rest
    BY <1>3 DEF MergeOrStay
  <2> HIDE DEF m
  <2>4. rq[m] \in Requests
    BY <1>1, <2>2
  <2>5. /\ Merge(rq[k], rq[m]) \in Requests
        /\ Merge(rq[k], rq[m]).address = rq[m].address
    BY <1>1, <2>4 DEF Merge, Requests
  <2>6. /\ merged \in Seq(Requests) /\ Len(merged) = Len(rq)
        /\ \A i \in 1..Len(rq) : merged[i].address = rq[i].address
    BY <1>1, <2>2, <2>5
  <2> HIDE DEF merged
  <2>7. rest \in Seq(Requests) /\ ToSet(merged) = ToSet(rest) \cup {merged[k]}
    BY <2>6, RemoveToSet
  <2>8. /\ Len(rest) = Len(merged) - 1
        /\ \A i \in 1..(Len(merged) - 1) : rest[i] = IF i < k THEN merged[i] ELSE merged[i + 1]
    BY <2>6, RemoveAtProperties
  <2> HIDE DEF rest
  <2>9. ToSet(merged) = {merged[i] : i \in 1..Len(rq)} /\ ToSet(rest) = {rest[i] : i \in 1..Len(rest)}
    BY <2>6, <2>7, ToSetIs
  <2>10. merged[m] \in ToSet(rest)
    <3>1. m \in 1..(Len(merged) - 1) /\ m < k
      BY <1>1, <2>2, <2>6
    <3>2. rest[m] = merged[m]
      BY <2>8, <3>1
    <3> QED BY <2>8, <2>9, <3>1, <3>2
  <2>11. ASSUME NEW block, Asked(block, ToSet(rq))
         PROVE  Asked(block, ToSet(rest))
    <3>1. PICK i \in 1..Len(rq) : Block(rq[i].address) = block
      BY <1>1, <2>11 DEF Asked
    <3>2. Block(merged[i].address) = block /\ merged[i] \in ToSet(merged)
      BY <2>6, <2>9, <3>1
    <3>3. CASE merged[i] \in ToSet(rest)
      BY <3>2, <3>3 DEF Asked
    <3>4. CASE merged[i] = merged[k]
      <4>1. Block(merged[m].address) = block
        BY <2>2, <2>6, <3>2, <3>4
      <4> QED BY <2>10, <4>1 DEF Asked
    <3> QED BY <2>7, <3>2, <3>3, <3>4
  <2> QED BY <2>3, <2>7, <2>11
<1> QED BY <1>2, <1>3

LEMMA ChannelIs ==
  ASSUME NEW c \in Channels
  PROVE  /\ c.RQ \in Seq(Requests) /\ c.WQ = <<>> /\ c.PQ = <<>> /\ c.returned \in Seq(Responses)
         /\ \A rq \in Seq(Requests) :
              /\ [c EXCEPT !.RQ = rq] \in Channels /\ [c EXCEPT !.RQ = rq].RQ = rq
              /\ [c EXCEPT !.RQ = rq].returned = c.returned
         /\ \A returned \in Seq(Responses) :
              /\ [c EXCEPT !.returned = returned] \in Channels
              /\ [c EXCEPT !.returned = returned].RQ = c.RQ
              /\ [c EXCEPT !.returned = returned].returned = returned
BY DEF Channels

\* A turn of check_collision in the channel of the walker.
LEMMA CollisionIs ==
  ASSUME NEW c \in Channels, ~AllChecked(c)
  PROVE  /\ check_collision(c, FALSE) \in Channels
         /\ check_collision(c, FALSE).returned = c.returned
         /\ \A block : Asked(block, ToSet(c.RQ)) => Asked(block, ToSet(check_collision(c, FALSE).RQ))
<1> DEFINE k == First(Unchecked(c.RQ))
           rq == MergeOrStay(c.RQ, k, FALSE)
<1>1. c.RQ \in Seq(Requests) /\ c.WQ = <<>> /\ c.PQ = <<>> /\ Len(c.RQ) \in Nat
  BY ChannelIs
<1>2. Unchecked(<<>>) = {} /\ \A request : Collisions(<<>>, request, FALSE) = {}
  BY DEF Unchecked, Collisions
<1>3. Unchecked(c.RQ) # {}
  BY <1>1, <1>2 DEF AllChecked
<1>4. check_collision(c, FALSE) = [c EXCEPT !.RQ = rq]
  <2>1. check_collision(c, FALSE) = CheckRead(c, "RQ", FALSE)
    BY <1>1, <1>2, <1>3 DEF check_collision
  <2>2. c["RQ"] = c.RQ
    OBVIOUS
  <2> QED BY <1>1, <1>2, <2>1, <2>2 DEF CheckRead
<1>5. k \in 1..Len(c.RQ)
  <2>1. Unchecked(c.RQ) \in SUBSET (1..Len(c.RQ))
    BY DEF Unchecked
  <2> QED BY <1>1, <1>3, <2>1, FirstIsIn
<1> HIDE DEF k
<1>6. /\ rq \in Seq(Requests)
      /\ \A block : Asked(block, ToSet(c.RQ)) => Asked(block, ToSet(rq))
  BY <1>1, <1>5, MergeOrStayIs
<1> HIDE DEF rq
<1>7. /\ [c EXCEPT !.RQ = rq] \in Channels /\ [c EXCEPT !.RQ = rq].RQ = rq
      /\ [c EXCEPT !.RQ = rq].returned = c.returned
  BY <1>6, ChannelIs
<1> QED BY <1>4, <1>6, <1>7

----------------------------------------------------------------------------
(* The actions of the cache *)

LEMMA Parts ==
  ASSUME TypeOK
  PROVE  /\ lower.RQ \in Seq(Requests) /\ lower.returned \in Seq(Responses)
         /\ lower \in Channels
         /\ inflight_tag_check \in Seq(EntryStates) /\ translation_stash \in Seq(EntryStates)
         /\ \A k \in 1..Len(inflight_tag_check) : inflight_tag_check[k] \in EntryStates
         /\ \A k \in 1..Len(translation_stash) : translation_stash[k] \in EntryStates
         /\ Len(inflight_tag_check) \in Nat /\ Len(translation_stash) \in Nat
         /\ walks \in Seq(Walks) /\ missing \in SUBSET PteBlocks /\ asked \in Nat
BY ChannelIs DEF TypeOK

\* The walks that wait are the same, and every read is still somewhere.
LEMMA ReadsMove ==
  ASSUME WalksServed, walks' = walks,
         \A block :
           UnderWay(block, ToSet(lower.RQ),
                    ToSet(inflight_tag_check) \cup ToSet(translation_stash), missing,
                    ToSet(lower.returned))
           => UnderWay(block, ToSet(lower'.RQ),
                       ToSet(inflight_tag_check') \cup ToSet(translation_stash'), missing',
                       ToSet(lower'.returned))
  PROVE  WalksServed'
BY DEF WalksServed

LEMMA AskKeeps ==
  ASSUME IInv, NEW vpage \in VPages, Ask(vpage)
  PROVE  IInv'
<1>1. TypeOK'
  <2>1. asked' \in Nat \ {0} /\ [id |-> asked', vpage |-> vpage] \in CoreRequests
    BY Parts DEF IInv, Ask, CoreRequests
  <2>2. coreRQ' \in Seq(CoreRequests)
    BY <2>1 DEF IInv, TypeOK, Ask
  <2> QED BY <2>1, <2>2 DEF IInv, TypeOK, Ask, walkerVars
<1> QED BY <1>1 DEF IInv, Ask, walkerVars, OwnPages, TranslatedFirst, WalksServed

LEMMA CheckCollisionKeeps ==
  ASSUME IInv, CheckCollision
  PROVE  IInv'
<1>1. /\ lower' \in Channels /\ lower'.returned = lower.returned
      /\ \A block : Asked(block, ToSet(lower.RQ)) => Asked(block, ToSet(lower'.RQ))
  BY Parts, CollisionIs DEF IInv, CheckCollision
<1>2. TypeOK'
  BY <1>1 DEF IInv, TypeOK, CheckCollision, cacheVars
<1>3. WalksServed'
  BY <1>1, ReadsMove DEF IInv, CheckCollision, cacheVars, UnderWay
<1> QED BY <1>2, <1>3 DEF IInv, CheckCollision, cacheVars, OwnPages, TranslatedFirst

LEMMA FinishTranslationKeeps ==
  ASSUME IInv, FinishTranslation
  PROVE  IInv'
<1> DEFINE p == Head(walkReturned)
           map == vm.vpage_to_ppage_map
<1>1. /\ walkReturned \in Seq(Translations) /\ walkReturned # <<>> /\ TypeOK /\ OwnPages
      /\ inflight_tag_check \in Seq(EntryStates) /\ translation_stash \in Seq(EntryStates)
  BY DEF IInv, TypeOK, FinishTranslation
<1>2. /\ walkReturned' \in Seq(Translations) /\ p \in Translations
      /\ ToSet(walkReturned) = ToSet(walkReturned') \cup {p}
  BY <1>1, TailToSet DEF FinishTranslation
<1>3. /\ AnswersOwn({p}, map) /\ AnswersOwn(ToSet(walkReturned'), map)
      /\ EntriesOwn(ToSet(inflight_tag_check), map) /\ EntriesOwn(ToSet(translation_stash), map)
  BY <1>1, <1>2 DEF OwnPages, AnswersOwn
<1>4. /\ inflight_tag_check' = MarkAll(inflight_tag_check, p)
      /\ translation_stash' = Restarted(translation_stash, p)
  BY DEF FinishTranslation
<1> HIDE DEF p, map
<1>5. /\ inflight_tag_check' \in Seq(EntryStates) /\ EntriesOwn(ToSet(inflight_tag_check'), map)
      /\ \A block : Looked(block, ToSet(inflight_tag_check))
                      => Looked(block, ToSet(inflight_tag_check'))
  BY <1>1, <1>2, <1>3, <1>4, MarkAllIs
<1>6. /\ translation_stash' \in Seq(EntryStates) /\ EntriesOwn(ToSet(translation_stash'), map)
      /\ \A block : Looked(block, ToSet(translation_stash))
                      => Looked(block, ToSet(translation_stash'))
      /\ TranslatedFirst'
  BY <1>1, <1>2, <1>3, <1>4, RestartedIs DEF TranslatedFirst
<1>7. TypeOK'
  BY <1>1, <1>2, <1>5, <1>6 DEF TypeOK, FinishTranslation
<1>8. OwnPages'
  BY <1>1, <1>3, <1>5, <1>6 DEF OwnPages, FinishTranslation, map
<1>9. WalksServed'
  BY <1>5, <1>6, ReadsMove DEF IInv, FinishTranslation, UnderWay, Looked
<1> QED BY <1>6, <1>7, <1>8, <1>9 DEF IInv

LEMMA FromStashKeeps ==
  ASSUME IInv, FromStash
  PROVE  IInv'
<1> DEFINE e == Head(translation_stash)
<1>1. /\ TypeOK /\ OwnPages /\ TranslatedFirst /\ WalksServed /\ translation_stash # <<>>
      /\ inflight_tag_check \in Seq(EntryStates) /\ translation_stash \in Seq(EntryStates)
  BY DEF IInv, TypeOK, FromStash, StashReady
<1>2. /\ translation_stash' \in Seq(EntryStates) /\ e \in EntryStates
      /\ ToSet(translation_stash) = ToSet(translation_stash') \cup {e}
  BY <1>1, TailToSet DEF FromStash
<1>3. /\ inflight_tag_check' \in Seq(EntryStates)
      /\ ToSet(inflight_tag_check') = ToSet(inflight_tag_check) \cup {e}
  BY <1>1, <1>2, AppendToSet DEF FromStash
<1>4. TypeOK'
  BY <1>1, <1>2, <1>3 DEF TypeOK, FromStash, walkerVars
<1>5. OwnPages'
  BY <1>1, <1>2, <1>3 DEF OwnPages, EntriesOwn, FromStash, walkerVars
<1>6. TranslatedFirst'
  <2>1. /\ translation_stash' = Tail(translation_stash)
        /\ Len(translation_stash') = Len(translation_stash) - 1 /\ Len(translation_stash) \in Nat
        /\ \A k \in 1..(Len(translation_stash) - 1) :
             translation_stash'[k] = translation_stash[k + 1]
    BY <1>1 DEF FromStash
  <2> QED BY <1>1, <2>1 DEF TranslatedFirst
<1>7. WalksServed'
  BY <1>1, <1>2, <1>3, ReadsMove DEF FromStash, walkerVars, UnderWay, Looked
<1> QED BY <1>4, <1>5, <1>6, <1>7 DEF IInv

LEMMA FromCoreKeeps ==
  ASSUME IInv, FromCore
  PROVE  IInv'
<1> DEFINE r == Head(coreRQ)
           e == CoreEntry(r)
<1>1. /\ TypeOK /\ OwnPages /\ TranslatedFirst /\ WalksServed /\ coreRQ # <<>>
      /\ inflight_tag_check \in Seq(EntryStates) /\ coreRQ \in Seq(CoreRequests)
  BY DEF IInv, TypeOK, FromCore
<1>2. coreRQ' \in Seq(CoreRequests) /\ r \in CoreRequests
  BY <1>1, TailToSet DEF FromCore
<1>3. e \in EntryStates /\ ~e.is_translated
  BY <1>2 DEF CoreEntry, CoreRequests, EntryStates, CoreEntries
<1>4. /\ inflight_tag_check' \in Seq(EntryStates)
      /\ ToSet(inflight_tag_check') = ToSet(inflight_tag_check) \cup {e}
  BY <1>1, <1>3, AppendToSet DEF FromCore
<1> HIDE DEF e
<1>5. TypeOK'
  BY <1>1, <1>2, <1>4 DEF TypeOK, FromCore, walkerVars
<1>6. OwnPages'
  BY <1>1, <1>3, <1>4 DEF OwnPages, EntriesOwn, FromCore, walkerVars
<1>7. TranslatedFirst'
  BY <1>1 DEF TranslatedFirst, FromCore
<1>8. WalksServed'
  BY <1>1, <1>4, ReadsMove DEF FromCore, walkerVars, UnderWay, Looked
<1> QED BY <1>5, <1>6, <1>7, <1>8 DEF IInv

LEMMA FromWalkerKeeps ==
  ASSUME IInv, FromWalker
  PROVE  IInv'
<1> DEFINE r == Head(lower.RQ)
           e == WalkEntry(Block(r.address))
<1>1. /\ TypeOK /\ OwnPages /\ TranslatedFirst /\ WalksServed /\ lower.RQ # <<>>
      /\ inflight_tag_check \in Seq(EntryStates) /\ lower \in Channels
      /\ lower.RQ \in Seq(Requests)
  BY Parts DEF IInv, TypeOK, FromWalker
<1>2. /\ Tail(lower.RQ) \in Seq(Requests) /\ r \in Requests
      /\ ToSet(lower.RQ) = ToSet(Tail(lower.RQ)) \cup {r}
  BY <1>1, TailToSet
<1>3. Block(r.address) \in PteBlocks
  BY <1>2 DEF Requests, PteBlocks
<1>4. e \in EntryStates /\ e.id = 0 /\ e.address = Block(r.address)
  BY <1>3 DEF WalkEntry, EntryStates, WalkEntries
<1>5. /\ inflight_tag_check' \in Seq(EntryStates)
      /\ ToSet(inflight_tag_check') = ToSet(inflight_tag_check) \cup {e}
  BY <1>1, <1>4, AppendToSet DEF FromWalker
<1>6. lower' \in Channels /\ lower'.RQ = Tail(lower.RQ) /\ lower'.returned = lower.returned
  BY <1>1, <1>2, ChannelIs DEF FromWalker
<1> HIDE DEF e, r
<1>7. TypeOK'
  BY <1>1, <1>5, <1>6 DEF TypeOK, FromWalker
<1>8. OwnPages'
  BY <1>1, <1>4, <1>5 DEF OwnPages, EntriesOwn, FromWalker
<1>9. TranslatedFirst'
  BY <1>1 DEF TranslatedFirst, FromWalker
<1>10. WalksServed'
  <2>1. \A block : Asked(block, ToSet(lower.RQ)) =>
                     \/ Asked(block, ToSet(lower'.RQ))
                     \/ Looked(block, ToSet(inflight_tag_check'))
    BY <1>2, <1>4, <1>5, <1>6 DEF Asked, Looked
  <2>2. \A block, entries : Looked(block, ToSet(inflight_tag_check) \cup entries)
                              => Looked(block, ToSet(inflight_tag_check') \cup entries)
    BY <1>5 DEF Looked
  <2>3. \A block, entries : Looked(block, ToSet(inflight_tag_check'))
                              => Looked(block, ToSet(inflight_tag_check') \cup entries)
    BY DEF Looked
  <2> QED BY <1>1, <1>6, <2>1, <2>2, <2>3, ReadsMove DEF FromWalker, UnderWay
<1> QED BY <1>7, <1>8, <1>9, <1>10 DEF IInv

\* issue_translation: an entry of a queue remembers that its page was asked for.
LEMMA IssuedIs ==
  ASSUME NEW seq \in Seq(EntryStates), Unissued(seq) # {}
  PROVE  /\ seq[First(Unissued(seq))].v_address \in VPages
         /\ Issued(seq) \in Seq(EntryStates) /\ Len(Issued(seq)) = Len(seq)
         /\ \A k \in 1..Len(seq) : /\ Issued(seq)[k].id = seq[k].id
                                   /\ Issued(seq)[k].v_address = seq[k].v_address
                                   /\ Issued(seq)[k].address = seq[k].address
                                   /\ Issued(seq)[k].is_translated <=> seq[k].is_translated
         /\ \A map : EntriesOwn(ToSet(seq), map) => EntriesOwn(ToSet(Issued(seq)), map)
         /\ \A block : Looked(block, ToSet(seq)) => Looked(block, ToSet(Issued(seq)))
<1> DEFINE n == First(Unissued(seq))
           e == seq[n]
           e2 == [e EXCEPT !.translate_issued = TRUE]
           issued == Issued(seq)
<1>1. n \in 1..Len(seq) /\ n \in Unissued(seq) /\ Len(seq) \in Nat
  <2>1. Len(seq) \in Nat /\ Unissued(seq) \in SUBSET (1..Len(seq))
    BY DEF Unissued
  <2> QED BY <2>1, FirstIsIn
<1>2. e \in EntryStates /\ ~e.is_translated
  BY <1>1 DEF Unissued
<1>3. e \in CoreEntries
  BY <1>2, EntryIs
<1>4. issued = [seq EXCEPT ![n] = e2]
  BY DEF Issued
<1> HIDE DEF n, issued
<1>5. /\ e2 \in CoreEntries /\ e2.id = e.id /\ e2.v_address = e.v_address
      /\ e2.address = e.address /\ (e2.is_translated <=> e.is_translated)
      /\ e.v_address \in VPages
  BY <1>3 DEF CoreEntries
<1>6. e2 \in EntryStates
  BY <1>5 DEF EntryStates
<1>7. /\ issued \in Seq(EntryStates) /\ Len(issued) = Len(seq)
      /\ \A k \in 1..Len(seq) : issued[k] = IF k = n THEN e2 ELSE seq[k]
  <2> HIDE DEF e2
  <2> QED BY <1>1, <1>4, <1>6
<1>8. \A k \in 1..Len(seq) : /\ issued[k].id = seq[k].id
                             /\ issued[k].v_address = seq[k].v_address
                             /\ issued[k].address = seq[k].address
                             /\ issued[k].is_translated <=> seq[k].is_translated
  <2> HIDE DEF e2
  <2> QED BY <1>5, <1>7
<1>9. /\ ToSet(seq) = {seq[k] : k \in 1..Len(seq)}
      /\ ToSet(issued) = {issued[k] : k \in 1..Len(seq)}
  BY <1>7, ToSetIs
<1>10. \A map : EntriesOwn(ToSet(seq), map) => EntriesOwn(ToSet(issued), map)
  BY <1>8, <1>9 DEF EntriesOwn
<1>11. ASSUME NEW block, Looked(block, ToSet(seq))
       PROVE  Looked(block, ToSet(issued))
  <2>1. PICK k \in 1..Len(seq) : seq[k].id = 0 /\ seq[k].address = block
    BY <1>9, <1>11 DEF Looked
  <2>2. issued[k] \in ToSet(issued)
    BY <1>9
  <2> QED BY <1>8, <2>1, <2>2 DEF Looked
<1> QED BY <1>5, <1>7, <1>8, <1>10, <1>11 DEF issued, n

LEMMA IssueTranslationKeeps ==
  ASSUME IInv, IssueTranslation
  PROVE  IInv'
<1>1. /\ TypeOK /\ OwnPages /\ TranslatedFirst /\ WalksServed
      /\ inflight_tag_check \in Seq(EntryStates) /\ translation_stash \in Seq(EntryStates)
      /\ walkRQ \in Seq(VPages)
  BY DEF IInv, TypeOK
<1>2. CASE /\ Unissued(inflight_tag_check) # {}
           /\ AsksFor(inflight_tag_check)
           /\ inflight_tag_check' = Issued(inflight_tag_check)
           /\ UNCHANGED translation_stash
  <2>1. walkRQ' \in Seq(VPages)
    BY <1>1, <1>2, IssuedIs DEF AsksFor
  <2>2. /\ inflight_tag_check' \in Seq(EntryStates)
        /\ \A map : EntriesOwn(ToSet(inflight_tag_check), map)
                      => EntriesOwn(ToSet(inflight_tag_check'), map)
        /\ \A block : Looked(block, ToSet(inflight_tag_check))
                        => Looked(block, ToSet(inflight_tag_check'))
    BY <1>1, <1>2, IssuedIs
  <2>3. TypeOK'
    BY <1>1, <1>2, <2>1, <2>2 DEF TypeOK, IssueTranslation
  <2>4. OwnPages'
    BY <1>1, <1>2, <2>2 DEF OwnPages, IssueTranslation
  <2>5. TranslatedFirst'
    BY <1>1, <1>2 DEF TranslatedFirst
  <2>6. WalksServed'
    BY <1>1, <1>2, <2>2, ReadsMove DEF IssueTranslation, UnderWay, Looked
  <2> QED BY <2>3, <2>4, <2>5, <2>6 DEF IInv
<1>3. CASE /\ Unissued(translation_stash) # {}
           /\ AsksFor(translation_stash)
           /\ translation_stash' = Issued(translation_stash)
           /\ UNCHANGED inflight_tag_check
  <2>1. walkRQ' \in Seq(VPages)
    BY <1>1, <1>3, IssuedIs DEF AsksFor
  <2>2. /\ translation_stash' \in Seq(EntryStates)
        /\ Len(translation_stash') = Len(translation_stash)
        /\ \A k \in 1..Len(translation_stash) :
             translation_stash'[k].is_translated <=> translation_stash[k].is_translated
        /\ \A map : EntriesOwn(ToSet(translation_stash), map)
                      => EntriesOwn(ToSet(translation_stash'), map)
        /\ \A block : Looked(block, ToSet(translation_stash))
                        => Looked(block, ToSet(translation_stash'))
    BY <1>1, <1>3, IssuedIs
  <2>3. TypeOK'
    BY <1>1, <1>3, <2>1, <2>2 DEF TypeOK, IssueTranslation
  <2>4. OwnPages'
    BY <1>1, <1>3, <2>2 DEF OwnPages, IssueTranslation
  <2>5. TranslatedFirst'
    BY <1>1, <2>2 DEF TranslatedFirst
  <2>6. WalksServed'
    BY <1>1, <1>3, <2>2, ReadsMove DEF IssueTranslation, UnderWay, Looked
  <2> QED BY <2>3, <2>4, <2>5, <2>6 DEF IInv
<1> QED BY <1>2, <1>3 DEF IssueTranslation

LEMMA MoveToStashKeeps ==
  ASSUME IInv, MoveToStash
  PROVE  IInv'
<1> DEFINE n == First(Untranslated)
           e == inflight_tag_check[n]
<1>1. /\ TypeOK /\ OwnPages /\ TranslatedFirst /\ WalksServed
      /\ inflight_tag_check \in Seq(EntryStates) /\ translation_stash \in Seq(EntryStates)
      /\ Len(inflight_tag_check) \in Nat
  BY Parts DEF IInv
<1>2. n \in 1..Len(inflight_tag_check) /\ ~e.is_translated
  <2>1. Untranslated \in SUBSET (1..Len(inflight_tag_check)) /\ Untranslated # {}
    BY DEF Untranslated, MoveToStash
  <2>2. n \in Untranslated
    BY <1>1, <2>1, FirstIsIn
  <2> QED BY <2>2 DEF Untranslated
<1>3. /\ inflight_tag_check' = RemoveAt(inflight_tag_check, n)
      /\ translation_stash' = Append(translation_stash, e)
  BY DEF MoveToStash
<1> HIDE DEF n
<1>4. /\ inflight_tag_check' \in Seq(EntryStates) /\ e \in EntryStates
      /\ ToSet(inflight_tag_check) = ToSet(inflight_tag_check') \cup {e}
  BY <1>1, <1>2, <1>3, RemoveToSet
<1> HIDE DEF e
<1>5. /\ translation_stash' \in Seq(EntryStates)
      /\ ToSet(translation_stash') = ToSet(translation_stash) \cup {e}
  BY <1>1, <1>3, <1>4, AppendToSet
<1>6. TypeOK'
  BY <1>1, <1>4, <1>5 DEF TypeOK, MoveToStash, walkerVars
<1>7. OwnPages'
  BY <1>1, <1>2, <1>4, <1>5 DEF OwnPages, EntriesOwn, MoveToStash, walkerVars
<1>8. TranslatedFirst'
  <2>1. /\ Len(translation_stash') = Len(translation_stash) + 1 /\ Len(translation_stash) \in Nat
        /\ \A k \in 1..Len(translation_stash) : translation_stash'[k] = translation_stash[k]
        /\ translation_stash'[Len(translation_stash) + 1] = e
    BY <1>1, <1>3, <1>4
  <2> QED BY <1>1, <1>2, <2>1 DEF TranslatedFirst
<1>9. WalksServed'
  BY <1>1, <1>4, <1>5, ReadsMove DEF MoveToStash, walkerVars, UnderWay, Looked
<1> QED BY <1>6, <1>7, <1>8, <1>9 DEF IInv

\* The cache answers a read of the page table.
Answering(c, block) == [c EXCEPT !.returned = Append(c.returned, Response(block, {}))]

LEMMA AnswerIs ==
  ASSUME NEW c \in Channels, NEW block \in PteBlocks
  PROVE  /\ Answering(c, block) \in Channels /\ Answering(c, block).RQ = c.RQ
         /\ Answered(block, ToSet(Answering(c, block).returned))
         /\ \A b : Answered(b, ToSet(c.returned))
                     => Answered(b, ToSet(Answering(c, block).returned))
<1> DEFINE r == Response(block, {})
           returned == Append(c.returned, r)
<1>1. r \in Responses /\ r.block = block
  BY DEF Response, Responses
<1>2. c.returned \in Seq(Responses)
  BY ChannelIs
<1>3. Answering(c, block) = [c EXCEPT !.returned = returned]
  BY DEF Answering
<1> HIDE DEF r
<1>4. returned \in Seq(Responses) /\ ToSet(returned) = ToSet(c.returned) \cup {r}
  BY <1>1, <1>2, AppendToSet
<1> HIDE DEF returned
<1>5. /\ [c EXCEPT !.returned = returned] \in Channels
      /\ [c EXCEPT !.returned = returned].RQ = c.RQ
      /\ [c EXCEPT !.returned = returned].returned = returned
  BY <1>4, ChannelIs
<1>6. Answering(c, block) \in Channels /\ Answering(c, block).RQ = c.RQ
      /\ Answering(c, block).returned = returned
  BY <1>3, <1>5
<1>7. Answered(block, ToSet(returned))
  BY <1>1, <1>4 DEF Answered
<1>8. \A b : Answered(b, ToSet(c.returned)) => Answered(b, ToSet(returned))
  BY <1>4 DEF Answered
<1> QED BY <1>6, <1>7, <1>8

LEMMA AnswerMissKeeps ==
  ASSUME IInv, NEW block \in missing, AnswerMiss(block)
  PROVE  IInv'
<1>1. TypeOK /\ lower \in Channels /\ block \in PteBlocks
  BY Parts DEF IInv
<1>2. lower' = Answering(lower, block)
  BY DEF AnswerMiss, Answering
<1>3. /\ lower' \in Channels /\ lower'.RQ = lower.RQ /\ Answered(block, ToSet(lower'.returned))
      /\ \A b : Answered(b, ToSet(lower.returned)) => Answered(b, ToSet(lower'.returned))
  BY <1>1, <1>2, AnswerIs
<1>4. TypeOK'
  BY <1>1, <1>3 DEF TypeOK, AnswerMiss
<1>5. WalksServed'
  BY <1>3, ReadsMove DEF IInv, AnswerMiss, UnderWay
<1> QED BY <1>4, <1>5 DEF IInv, AnswerMiss, OwnPages, TranslatedFirst

LEMMA CheckTagsKeeps ==
  ASSUME IInv, NEW k \in 1..TAG_DEPTH, CheckTags(k)
  PROVE  IInv'
<1> DEFINE e == inflight_tag_check[k]
           tags == inflight_tag_check'
<1>1. /\ TypeOK /\ OwnPages /\ TranslatedFirst /\ WalksServed /\ lower \in Channels
      /\ inflight_tag_check \in Seq(EntryStates) /\ Len(inflight_tag_check) \in Nat
      /\ k \in 1..Len(inflight_tag_check)
  BY Parts DEF IInv, CheckTags, AtTags
<1>2. tags = RemoveAt(inflight_tag_check, k)
  BY DEF CheckTags
<1>3. /\ tags \in Seq(EntryStates) /\ e \in EntryStates
      /\ ToSet(inflight_tag_check) = ToSet(tags) \cup {e}
  BY <1>1, <1>2, RemoveToSet
<1> HIDE DEF e
<1>4. \/ e.id > 0 /\ lower' = lower /\ missing' = missing
      \/ e.id = 0 /\ missing' = missing /\ lower' = Answering(lower, e.address)
      \/ e.id = 0 /\ lower' = lower /\ missing' = missing \cup {e.address}
  BY DEF CheckTags, Answering, e
<1>5. e.id = 0 => e.address \in PteBlocks
  BY <1>3, EntryIs
<1>6. /\ lower' \in Channels /\ lower'.RQ = lower.RQ /\ missing' \in SUBSET PteBlocks
      /\ missing \subseteq missing'
      /\ \A b : Answered(b, ToSet(lower.returned)) => Answered(b, ToSet(lower'.returned))
      /\ e.id = 0 => e.address \in missing' \/ Answered(e.address, ToSet(lower'.returned))
  <2>1. missing \in SUBSET PteBlocks
    BY <1>1 DEF TypeOK
  <2>2. CASE e.id > 0 /\ lower' = lower /\ missing' = missing
    BY <1>1, <2>1, <2>2
  <2>3. CASE e.id = 0 /\ missing' = missing /\ lower' = Answering(lower, e.address)
    BY <1>1, <1>5, <2>1, <2>3, AnswerIs
  <2>4. CASE e.id = 0 /\ lower' = lower /\ missing' = missing \cup {e.address}
    BY <1>1, <1>5, <2>1, <2>4
  <2> QED BY <1>4, <2>2, <2>3, <2>4
<1>7. TypeOK'
  BY <1>1, <1>3, <1>6 DEF TypeOK, CheckTags
<1>8. OwnPages'
  BY <1>1, <1>3 DEF OwnPages, EntriesOwn, CheckTags
<1>9. TranslatedFirst'
  BY <1>1 DEF TranslatedFirst, CheckTags
<1>10. WalksServed'
  <2>1. ASSUME NEW b, Looked(b, ToSet(inflight_tag_check) \cup ToSet(translation_stash))
        PROVE  \/ Looked(b, ToSet(tags) \cup ToSet(translation_stash))
               \/ b \in missing' \/ Answered(b, ToSet(lower'.returned))
    <3>1. PICK x \in ToSet(tags) \cup {e} \cup ToSet(translation_stash) : x.id = 0 /\ x.address = b
      BY <1>3, <2>1 DEF Looked
    <3>2. CASE x = e
      BY <1>6, <3>1, <3>2
    <3>3. CASE x # e
      BY <3>1, <3>3 DEF Looked
    <3> QED BY <3>2, <3>3
  <2> HIDE DEF tags
  <2>2. translation_stash' = translation_stash /\ walks' = walks
    BY DEF CheckTags
  <2> QED BY <1>1, <1>6, <2>1, <2>2, ReadsMove DEF UnderWay, tags
<1> QED BY <1>7, <1>8, <1>9, <1>10 DEF IInv

----------------------------------------------------------------------------
(* The actions of the walker *)

\* A step reads one more block below.
LEMMA StepTranslationIs ==
  ASSUME TypeOK, WalksServed, NEW walk \in Walks, StepTranslation(walk),
         inflight_tag_check' = inflight_tag_check, translation_stash' = translation_stash,
         missing' = missing
  PROVE  walks' \in Seq(Walks) /\ lower' \in Channels /\ WalksServed'
<1> DEFINE r == Request(walk.address, "TRANSLATION", TRUE, {})
           rq == Append(lower.RQ, r)
<1>1. /\ lower \in Channels /\ walks \in Seq(Walks) /\ lower.RQ \in Seq(Requests)
  BY Parts
<1>2. r \in Requests /\ r.address = walk.address
  BY KeyIs DEF Request, Requests
<1>3. lower' = [lower EXCEPT !.RQ = rq]
  BY DEF StepTranslation, AsksBelow
<1> HIDE DEF r
<1>4. rq \in Seq(Requests) /\ ToSet(rq) = ToSet(lower.RQ) \cup {r}
  BY <1>1, <1>2, AppendToSet
<1> HIDE DEF rq
<1>5. /\ [lower EXCEPT !.RQ = rq] \in Channels /\ [lower EXCEPT !.RQ = rq].RQ = rq
      /\ [lower EXCEPT !.RQ = rq].returned = lower.returned
  BY <1>1, <1>4, ChannelIs
<1>6. lower' \in Channels /\ lower'.RQ = rq /\ lower'.returned = lower.returned
  BY <1>3, <1>5
<1>7. walks' \in Seq(Walks) /\ ToSet(walks') = ToSet(walks) \cup {walk}
  BY <1>1, AppendToSet DEF StepTranslation
<1>8. /\ \A block : Asked(block, ToSet(lower.RQ)) => Asked(block, ToSet(rq))
      /\ Asked(Block(walk.address), ToSet(rq))
  BY <1>2, <1>4 DEF Asked
<1>9. WalksServed'
  BY <1>6, <1>7, <1>8 DEF WalksServed, UnderWay
<1> QED BY <1>6, <1>7, <1>9

\* A page structure cache is a set of such a table.
LEMMA SameTables ==
  \A set, tag :
    /\ R!IsIn(set, tag) = IsIn(set, tag)
    /\ R!ElementOf(set, tag) = ElementOf(set, tag)
    /\ R!Touch(set, tag) = Touch(set, tag)
    /\ \A element, ways : R!Insert(set, element, ways) = Insert(set, element, ways)
BY DEF R!IsIn, R!ElementOf, R!Touch, R!Insert, R!Matching, R!Without, R!Lesser, R!Selected,
       IsIn, ElementOf, Touch, Insert, Matching,
       Without, Lesser, Selected

LEMMA AddressIs ==
  ASSUME NEW address \in PteAddresses
  PROVE  address[1][1][1] \in Nat
<1>1. PICK page \in Nat \X Nat, offset \in Offsets : address = PteAddress(page, offset)
  BY DEF PteAddresses
<1>2. address[1][1] = page
  BY <1>1 DEF PteAddress
<1> QED BY <1>2

LEMMA PageAddressIs ==
  ASSUME NEW n \in Nat, NEW vpage \in VPages, NEW level \in Levels
  PROVE  PteAddress(<<n, 0>>, get_offset(vpage, level)) \in PteAddresses
<1>1. <<n, 0>> \in Nat \X Nat /\ get_offset(vpage, level) \in Offsets
  BY DEF Offsets
<1> QED BY <1>1 DEF PteAddresses

\* Where a walk starts is in a page table, whatever the caches hold.
LEMMA WalkStartIs ==
  ASSUME TypeOK, NEW vpage \in VPages
  PROVE  WalkStart(vpage) \in Walks
<1>1. LEVELS \in Nat \ {0} /\ Levels = 1..LEVELS
  BY WalkerAssumption DEF Levels
<1>2. CASE PsclHits(vpage) = {}
  <2> DEFINE address == PteAddress(<<CR3_addr[1][1][1], 0>>, get_offset(vpage, LEVELS))
  <2>1. CR3_addr[1][1][1] \in Nat /\ LEVELS \in Levels
    BY <1>1 DEF CR3_addr, PteAddress
  <2>2. address \in PteAddresses
    BY <2>1, PageAddressIs
  <2>3. WalkStart(vpage) = Walk(vpage, address, LEVELS)
    BY <1>2 DEF WalkStart
  <2> HIDE DEF address
  <2> QED BY <1>1, <2>2, <2>3 DEF Walk, Walks
<1>3. CASE PsclHits(vpage) # {}
  <2> DEFINE level == First(PsclHits(vpage))
             found == R!ElementOf(pscl[level], PsclTag(vpage, level)).ptw_addr
             address == PteAddress(<<found[1][1][1], 0>>, get_offset(vpage, level))
  <2>1. PsclHits(vpage) \in SUBSET (1..LEVELS)
    BY <1>1 DEF PsclHits
  <2>2. level \in PsclHits(vpage)
    BY <1>1, <1>3, <2>1, FirstIsIn
  <2>3. WalkStart(vpage) = Walk(vpage, address, level)
    BY <1>3 DEF WalkStart
  <2> HIDE DEF level
  <2>4. level \in Levels /\ R!IsIn(pscl[level], PsclTag(vpage, level))
    BY <2>2 DEF PsclHits
  <2>5. pscl[level] \in Seq(PsclEntries)
    BY <2>4 DEF TypeOK
  <2>6. R!ElementOf(pscl[level], PsclTag(vpage, level)) \in PsclEntries
    BY <2>4, <2>5, FoundIn, SameTables
  <2>7. found \in PteAddresses
    BY <2>6 DEF PsclEntries
  <2> HIDE DEF found
  <2>8. found[1][1][1] \in Nat
    BY <2>7, AddressIs
  <2>9. address \in PteAddresses
    BY <2>4, <2>8, PageAddressIs
  <2> HIDE DEF address
  <2> QED BY <1>1, <2>3, <2>4, <2>9 DEF Walk, Walks
<1> QED BY <1>2, <1>3

LEMMA HandleReadKeeps ==
  ASSUME IInv, HandleRead, UNCHANGED cacheVars
  PROVE  IInv'
<1> DEFINE vpage == Head(walkRQ)
<1>1. /\ TypeOK /\ OwnPages /\ TranslatedFirst /\ WalksServed
      /\ walkRQ \in Seq(VPages) /\ walkRQ # <<>> /\ pscl \in [Levels -> Seq(PsclEntries)]
  BY DEF IInv, TypeOK, HandleRead
<1>2. vpage \in VPages /\ Tail(walkRQ) \in Seq(VPages)
  BY <1>1
<1>3. pscl' = TouchedPscl(vpage)
  BY DEF HandleRead
<1> HIDE DEF vpage
<1>4. \A level \in Levels : R!Touch(pscl[level], PsclTag(vpage, level)) \in Seq(PsclEntries)
  BY <1>1, TouchKeeps, SameTables
<1>5. pscl' \in [Levels -> Seq(PsclEntries)]
  BY <1>3, <1>4 DEF TouchedPscl
<1>6. walks' \in Seq(Walks) /\ lower' \in Channels /\ walkRQ' \in Seq(VPages) /\ WalksServed'
  <2>1. CASE HasRoom
    <3>1. StepTranslation(WalkStart(vpage)) /\ walkRQ' = Tail(walkRQ)
      BY <2>1 DEF HandleRead, vpage
    <3>2. WalkStart(vpage) \in Walks
      BY <1>1, <1>2, WalkStartIs
    <3> QED BY <1>1, <1>2, <3>1, <3>2, StepTranslationIs DEF cacheVars
  <2>2. CASE ~HasRoom
    <3>1. walks' = walks /\ lower' = lower /\ walkRQ' = walkRQ
      BY <2>2 DEF HandleRead
    <3>2. walks \in Seq(Walks) /\ lower \in Channels
      BY <1>1 DEF TypeOK
    <3>3. WalksServed'
      BY <1>1, <3>1 DEF WalksServed, cacheVars
    <3> QED BY <1>1, <3>1, <3>2, <3>3
  <2> QED BY <2>1, <2>2
<1>7. TypeOK'
  BY <1>1, <1>5, <1>6 DEF TypeOK, HandleRead, cacheVars
<1>8. OwnPages' /\ TranslatedFirst'
  BY <1>1 DEF OwnPages, TranslatedFirst, HandleRead, cacheVars
<1> QED BY <1>6, <1>7, <1>8 DEF IInv

LEMMA HandleFillKeeps ==
  ASSUME IInv, HandleFill, UNCHANGED cacheVars
  PROVE  IInv'
<1> DEFINE step == Head(finished)
           element == [tag |-> PsclTag(step.v_address, step.level), ptw_addr |-> step.data]
           walk == Walk(step.v_address, step.data, step.level - 1)
<1>1. /\ TypeOK /\ OwnPages /\ TranslatedFirst /\ WalksServed
      /\ finished \in Seq(Steps) /\ finished # <<>> /\ pscl \in [Levels -> Seq(PsclEntries)]
  BY DEF IInv, TypeOK, HandleFill
<1>2. step \in Steps /\ Tail(finished) \in Seq(Steps)
  BY <1>1
<1>3. /\ pscl' = [pscl EXCEPT ![step.level] =
                    R!Insert(pscl[step.level], element, PSCL_WAYS)]
      /\ IF HasRoom THEN StepTranslation(walk) /\ finished' = Tail(finished)
         ELSE UNCHANGED <<walks, lower, finished>>
  BY DEF HandleFill
<1> HIDE DEF step
<1>4. step.v_address \in VPages /\ step.level \in Levels /\ step.data \in PteAddresses
  BY <1>2 DEF Steps
<1>5. element \in PsclEntries
  BY <1>4 DEF PsclEntries, PageTags
<1>6. walk \in Walks
  <2>1. step.level - 1 \in 0..LEVELS
    BY <1>4, WalkerAssumption DEF Levels
  <2> QED BY <1>4, <2>1 DEF Walk, Walks
<1> HIDE DEF element, walk
<1>7. R!Insert(pscl[step.level], element, PSCL_WAYS) \in Seq(PsclEntries)
  <2>1. pscl[step.level] \in Seq(PsclEntries) /\ PSCL_WAYS \in Nat
    BY <1>1, <1>4, WalkerAssumption
  <2>2. Insert(pscl[step.level], element, PSCL_WAYS) \in Seq(PsclEntries)
    BY ONLY <1>5, <2>1, InsertKeeps
  <2> QED BY <2>2, SameTables
<1>8. pscl' \in [Levels -> Seq(PsclEntries)]
  BY <1>1, <1>3, <1>7
<1>9. walks' \in Seq(Walks) /\ lower' \in Channels /\ finished' \in Seq(Steps) /\ WalksServed'
  <2>1. CASE HasRoom
    <3>1. StepTranslation(walk) /\ finished' = Tail(finished)
      BY <1>3, <2>1
    <3> QED BY <1>1, <1>2, <1>6, <3>1, StepTranslationIs DEF cacheVars
  <2>2. CASE ~HasRoom
    <3>1. walks' = walks /\ lower' = lower /\ finished' = finished
      BY <1>3, <2>2
    <3>2. walks \in Seq(Walks) /\ lower \in Channels
      BY <1>1 DEF TypeOK
    <3>3. WalksServed'
      BY <1>1, <3>1 DEF WalksServed, cacheVars
    <3> QED BY <1>1, <3>1, <3>2, <3>3
  <2> QED BY <2>1, <2>2
<1>10. TypeOK'
  BY <1>1, <1>8, <1>9 DEF TypeOK, HandleFill, cacheVars
<1>11. OwnPages' /\ TranslatedFirst'
  BY <1>1 DEF OwnPages, TranslatedFirst, HandleFill, cacheVars
<1> QED BY <1>9, <1>10, <1>11 DEF IInv

\* What a walk finds in a memory that has it.
LEMMA FoundIs ==
  ASSUME NEW m, Consistent(m), NEW walk \in Walks, Has(m, walk)
  PROVE  /\ walk.level # 0 => Found(m, walk) \in Steps
         /\ walk.level = 0 => /\ Found(m, walk) \in Translations
                              /\ AnswersOwn({Found(m, walk)}, m.vpage_to_ppage_map)
<1>1. /\ m.page_table \in PartialMaps(Keys, Nat \X Slots)
      /\ m.vpage_to_ppage_map \in PartialMaps(VPages, Nat)
  BY DEF Consistent, Memories
<1>2. CASE walk.level # 0
  <2> DEFINE key == TableKey(walk.v_address, walk.level)
             slot == m.page_table[key]
             address == PteAddress(slot, get_offset(walk.v_address, walk.level))
  <2>1. walk.level > 0 /\ walk.level \in Levels /\ walk.v_address \in VPages
        /\ get_offset(walk.v_address, walk.level) \in Offsets
    BY <1>2, KeyIs
  <2>2. slot \in Nat \X Slots
    <3>1. key \in DOMAIN m.page_table
      BY <2>1 DEF Has
    <3> HIDE DEF key
    <3> QED BY <1>1, <3>1 DEF PartialMaps
  <2>3. Found(m, walk) = [v_address |-> walk.v_address, level |-> walk.level, data |-> address]
    BY <2>1 DEF Found, get_pte_pa
  <2> HIDE DEF slot
  <2>4. slot \in Nat \X Nat
    BY <2>2 DEF Slots
  <2>5. address \in PteAddresses
    BY <2>1, <2>4 DEF PteAddresses
  <2> HIDE DEF address
  <2> QED BY <1>2, <2>1, <2>3, <2>5 DEF Steps
<1>3. CASE walk.level = 0
  <2> DEFINE page == m.vpage_to_ppage_map[walk.v_address]
  <2>1. walk.v_address \in VPages /\ walk.v_address \in DOMAIN m.vpage_to_ppage_map
    BY <1>3, KeyIs DEF Has
  <2>2. page \in Nat
    BY <1>1, <2>1 DEF PartialMaps
  <2>3. Found(m, walk) = [v_address |-> walk.v_address, level |-> 0, data |-> page]
    BY <1>3 DEF Found, va_to_pa
  <2> QED BY <1>3, <2>1, <2>2, <2>3 DEF Translations, AnswersOwn
<1> QED BY <1>2, <1>3

LEMMA AllFoundIs ==
  ASSUME NEW m, NEW steps \in Seq(Walks)
  PROVE  /\ \A S : (\A k \in 1..Len(steps) : Found(m, steps[k]) \in S)
                    => AllFound(m, steps) \in Seq(S)
         /\ \A x \in ToSet(AllFound(m, steps)) : \E k \in 1..Len(steps) : x = Found(m, steps[k])
<1> DEFINE found == AllFound(m, steps)
<1>1. found = [k \in 1..Len(steps) |-> Found(m, steps[k])] /\ Len(steps) \in Nat
  BY DEF AllFound
<1> HIDE DEF found
<1>2. /\ Len(found) = Len(steps) /\ DOMAIN found = 1..Len(steps)
      /\ \A k \in 1..Len(steps) : found[k] = Found(m, steps[k])
  BY <1>1
<1>3. ASSUME NEW S, \A k \in 1..Len(steps) : Found(m, steps[k]) \in S
      PROVE  found \in Seq(S)
  <2>1. found \in [1..Len(steps) -> S]
    BY <1>1, <1>3
  <2> QED BY <1>1, <2>1
<1>4. \A x \in ToSet(found) : \E k \in 1..Len(steps) : x = found[k]
  BY <1>2 DEF ToSet
<1> QED BY <1>2, <1>3, <1>4 DEF found

\* finish_packet: one answer, and what it does to the walks that wait for it.
LEMMA FinishPacketKeeps ==
  ASSUME IInv, FinishPacket, UNCHANGED cacheVars
  PROVE  IInv'
<1> DEFINE response == Head(lower.returned)
           done == Waiting(response.block)
           map == vm.vpage_to_ppage_map
           map2 == vm'.vpage_to_ppage_map
<1>1. /\ TypeOK /\ OwnPages /\ TranslatedFirst /\ WalksServed
      /\ lower \in Channels /\ lower.returned \in Seq(Responses) /\ lower.returned # <<>>
      /\ walks \in Seq(Walks) /\ finished \in Seq(Steps) /\ completed \in Seq(Translations)
      /\ Consistent(vm)
  BY Parts DEF IInv, TypeOK, FinishPacket
<1>2. PICK steps \in Arrangements(walks, done), rest \in Arrangements(walks, DOMAIN walks \ done) :
        /\ vm' = AllMapped(vm, steps)
        /\ finished' = finished \o AllFound(vm', Selected(steps, DOMAIN steps \ LastSteps(steps)))
        /\ completed' = completed \o AllFound(vm', Selected(steps, LastSteps(steps)))
        /\ walks' = rest
  BY DEF FinishPacket
<1> DEFINE further == DOMAIN steps \ LastSteps(steps)
           onward == Selected(steps, further)
           last == Selected(steps, LastSteps(steps))
           left == DOMAIN walks \ done
<1>3. /\ \A k \in 1..Len(walks) : walks[k] \in Walks
      /\ DOMAIN walks = 1..Len(walks) /\ ToSet(walks) = {walks[k] : k \in 1..Len(walks)}
  BY <1>1, ToSetIs
<1>4. /\ done \in SUBSET (1..Len(walks)) /\ DOMAIN walks \ done \in SUBSET (1..Len(walks))
      /\ \A k \in 1..Len(walks) : k \in done <=> Block(walks[k].address) = response.block
  BY <1>3 DEF Waiting
<1> HIDE DEF done
<1>5. steps \in Seq(Walks)
  BY <1>1, <1>2, <1>4, ArrangementIs
<1>6. DOMAIN steps = 1..Len(steps) /\ \A i \in 1..Len(steps) : steps[i] \in Walks
  BY <1>5
<1>7. /\ onward \in Seq(Walks)
      /\ \A i \in 1..Len(onward) : \E k \in 1..Len(steps) :
            k \in further /\ onward[i] = steps[k]
  <2> HIDE DEF further
  <2> QED BY <1>5, SelectedIs
<1>8. /\ last \in Seq(Walks)
      /\ \A i \in 1..Len(last) : \E k \in 1..Len(steps) :
            k \in LastSteps(steps) /\ last[i] = steps[k]
  BY <1>5, SelectedIs
<1>9. /\ rest \in Seq(Walks)
      /\ \A j \in 1..Len(rest) : \E k \in left : rest[j] = walks[k]
  <2>1. left \in SUBSET (1..Len(walks)) /\ rest \in Arrangements(walks, left)
    BY <1>2, <1>4
  <2> HIDE DEF left
  <2> QED BY <1>1, <2>1, ArrangementIs
<1> HIDE DEF onward, last, response
<1>10. /\ Consistent(vm') /\ Extends(vm, vm')
       /\ \A k \in 1..Len(steps) : Has(vm', steps[k])
  BY <1>1, <1>2, <1>5, AllMappedIs
<1>11. finished' \in Seq(Steps)
  <2>1. ASSUME NEW i \in 1..Len(onward)
        PROVE  Found(vm', onward[i]) \in Steps
    <3>1. PICK k \in 1..Len(steps) : k \in further /\ onward[i] = steps[k]
      BY <1>7
    <3>2. steps[k] \in Walks /\ steps[k].level # 0 /\ Has(vm', steps[k])
      BY <1>6, <1>10, <3>1 DEF LastSteps
    <3> QED BY <1>10, <3>1, <3>2, FoundIs
  <2>2. AllFound(vm', onward) \in Seq(Steps)
    BY <1>7, <2>1, AllFoundIs
  <2> QED BY <1>1, <1>2, <2>2, ConcatProperties DEF onward
<1>12. completed' \in Seq(Translations) /\ AnswersOwn(ToSet(completed'), map2)
  <2>1. ASSUME NEW i \in 1..Len(last)
        PROVE  Found(vm', last[i]) \in Translations /\ AnswersOwn({Found(vm', last[i])}, map2)
    <3>1. PICK k \in 1..Len(steps) : k \in LastSteps(steps) /\ last[i] = steps[k]
      BY <1>8
    <3>2. steps[k] \in Walks /\ steps[k].level = 0 /\ Has(vm', steps[k])
      BY <1>6, <1>10, <3>1 DEF LastSteps
    <3> QED BY <1>10, <3>1, <3>2, FoundIs
  <2>2. /\ AllFound(vm', last) \in Seq(Translations)
        /\ \A x \in ToSet(AllFound(vm', last)) :
             \E k \in 1..Len(last) : x = Found(vm', last[k])
    <3>1. last \in Seq(Walks) /\ \A i \in 1..Len(last) : Found(vm', last[i]) \in Translations
      BY <1>8, <2>1
    <3>2. AllFound(vm', last) \in Seq(Translations)
      BY <3>1, AllFoundIs
    <3>3. \A x \in ToSet(AllFound(vm', last)) :
            \E k \in 1..Len(last) : x = Found(vm', last[k])
      BY <3>1, AllFoundIs
    <3> QED BY <3>2, <3>3
  <2>3. /\ completed' \in Seq(Translations)
        /\ ToSet(completed') = ToSet(completed) \cup ToSet(AllFound(vm', last))
    BY <1>1, <1>2, <2>2, ConcatToSet DEF last
  <2>4. AnswersOwn(ToSet(AllFound(vm', last)), map2)
    BY <2>1, <2>2 DEF AnswersOwn
  <2>5. AnswersOwn(ToSet(completed), map2)
    BY <1>1, <1>10 DEF OwnPages, AnswersOwn, Extends
  <2> QED BY <2>3, <2>4, <2>5 DEF AnswersOwn
<1>13. /\ Tail(lower.returned) \in Seq(Responses) /\ response \in Responses
       /\ ToSet(lower.returned) = ToSet(Tail(lower.returned)) \cup {response}
  BY <1>1, TailToSet DEF response
<1>14. lower' \in Channels /\ lower'.RQ = lower.RQ /\ lower'.returned = Tail(lower.returned)
  <2>1. lower' = [lower EXCEPT !.returned = Tail(lower.returned)]
    BY DEF FinishPacket
  <2> QED BY <1>1, <1>13, <2>1, ChannelIs
<1>15. TypeOK'
  BY <1>1, <1>2, <1>9, <1>10, <1>11, <1>12, <1>14 DEF TypeOK, FinishPacket, cacheVars
<1>16. OwnPages'
  <2>1. walkReturned' = walkReturned /\ UNCHANGED <<inflight_tag_check, translation_stash>>
    BY DEF FinishPacket, cacheVars
  <2>2. AnswersOwn(ToSet(walkReturned), map2)
    BY <1>1, <1>10 DEF OwnPages, AnswersOwn, Extends
  <2>3. EntriesOwn(ToSet(inflight_tag_check), map2)
    BY <1>1, <1>10 DEF OwnPages, EntriesOwn, Extends
  <2>4. EntriesOwn(ToSet(translation_stash), map2)
    BY <1>1, <1>10 DEF OwnPages, EntriesOwn, Extends
  <2> QED BY <1>12, <2>1, <2>2, <2>3, <2>4 DEF OwnPages
<1>17. TranslatedFirst'
  BY <1>1 DEF TranslatedFirst, cacheVars
<1>18. WalksServed'
  <2>1. ASSUME NEW walk \in ToSet(rest)
        PROVE  walk \in ToSet(walks) /\ Block(walk.address) # response.block
    <3>1. PICK j \in 1..Len(rest) : walk = rest[j]
      BY <1>9, ToSetIs
    <3>2. PICK k \in left : rest[j] = walks[k]
      BY <1>9
    <3> QED BY <1>3, <1>4, <3>1, <3>2
  <2>2. \A block : block # response.block /\ Answered(block, ToSet(lower.returned))
                     => Answered(block, ToSet(lower'.returned))
    BY <1>13, <1>14 DEF Answered
  <2> QED BY <1>1, <1>2, <1>14, <2>1, <2>2 DEF WalksServed, UnderWay, cacheVars
<1> QED BY <1>15, <1>16, <1>17, <1>18 DEF IInv

LEMMA CompleteKeeps ==
  ASSUME IInv, Complete, UNCHANGED cacheVars
  PROVE  IInv'
<1> DEFINE p == Head(completed)
<1>1. /\ TypeOK /\ OwnPages /\ completed \in Seq(Translations) /\ completed # <<>>
      /\ walkReturned \in Seq(Translations)
  BY DEF IInv, TypeOK, Complete
<1>2. /\ completed' \in Seq(Translations) /\ p \in Translations
      /\ ToSet(completed) = ToSet(completed') \cup {p}
  BY <1>1, TailToSet DEF Complete
<1>3. /\ walkReturned' \in Seq(Translations)
      /\ ToSet(walkReturned') = ToSet(walkReturned) \cup {p}
  BY <1>1, <1>2, AppendToSet DEF Complete
<1>4. TypeOK'
  BY <1>1, <1>2, <1>3 DEF TypeOK, Complete, cacheVars
<1>5. OwnPages'
  BY <1>1, <1>2, <1>3 DEF OwnPages, AnswersOwn, Complete, cacheVars
<1> QED BY <1>4, <1>5 DEF IInv, TranslatedFirst, WalksServed, Complete, cacheVars

----------------------------------------------------------------------------
(* The theorems *)

LEMMA InitLemma == Init => IInv
<1> SUFFICES ASSUME Init
             PROVE  IInv
  OBVIOUS
<1>1. Consistent(EmptyMemory)
  <2>1. SLOTS \in Nat /\ SLOTS # 0 /\ 0 \in Slots
    BY VirtualMemoryAssumption DEF Slots
  <2>2. /\ <<>> \in PartialMaps(VPages, Nat) /\ <<>> \in PartialMaps(Keys, Nat \X Slots)
        /\ DOMAIN <<>> = {}
    <3>1. \A S : <<>> \in [{} -> S]
      OBVIOUS
    <3> QED BY <3>1 DEF PartialMaps
  <2>3. EmptyMemory \in Memories
    BY <2>1, <2>2, PoolIs DEF EmptyMemory, Memories
  <2>4. Head(populate_pages) = 1
    BY VirtualMemoryAssumption DEF populate_pages
  <2> QED BY <2>2, <2>3, <2>4, PoolIs
      DEF Consistent, EmptyMemory, TakenFrom, Apart, RoomIn
<1>2. Consistent(vm)
  <2>1. TableKey(0, RootLevel) \in Keys
    BY WalkerAssumption DEF Keys, RootLevel
  <2> QED BY <1>1, <2>1, MapTableIs DEF Init, WalkerInit
<1>3. EmptyChannel \in Channels
  BY DEF EmptyChannel, Channels
<1>4. TypeOK
  BY <1>2, <1>3 DEF TypeOK, Init, WalkerInit
<1>5. OwnPages
  BY EmptyToSet DEF OwnPages, AnswersOwn, EntriesOwn, Init, WalkerInit
<1>6. TranslatedFirst
  BY DEF TranslatedFirst, Init
<1>7. WalksServed
  BY EmptyToSet DEF WalksServed, Init, WalkerInit
<1> QED BY <1>4, <1>5, <1>6, <1>7 DEF IInv

LEMMA StepKeeps == IInv /\ [Next]_vars => IInv'
<1> SUFFICES ASSUME IInv, [Next]_vars
             PROVE  IInv'
  OBVIOUS
<1>1. CASE \E vpage \in VPages : Ask(vpage)
  BY <1>1, AskKeeps
<1>2. CASE WalkerStep
  <2>1. UNCHANGED cacheVars
    BY <1>2 DEF WalkerStep
  <2>2. CASE HandleRead
    BY <2>1, <2>2, HandleReadKeeps
  <2>3. CASE HandleFill
    BY <2>1, <2>3, HandleFillKeeps
  <2>4. CASE FinishPacket
    BY <2>1, <2>4, FinishPacketKeeps
  <2>5. CASE Complete
    BY <2>1, <2>5, CompleteKeeps
  <2> QED BY <1>2, <2>2, <2>3, <2>4, <2>5 DEF WalkerStep, WalkerNext
<1>3. CASE CacheNext
  <2>1. CASE CheckCollision
    BY <2>1, CheckCollisionKeeps
  <2>2. CASE FinishTranslation
    BY <2>2, FinishTranslationKeeps
  <2>3. CASE FromStash
    BY <2>3, FromStashKeeps
  <2>4. CASE FromCore
    BY <2>4, FromCoreKeeps
  <2>5. CASE FromWalker
    BY <2>5, FromWalkerKeeps
  <2>6. CASE IssueTranslation
    BY <2>6, IssueTranslationKeeps
  <2>7. CASE MoveToStash
    BY <2>7, MoveToStashKeeps
  <2>8. CASE \E k \in 1..TAG_DEPTH : CheckTags(k)
    BY <2>8, CheckTagsKeeps
  <2>9. CASE \E block \in missing : AnswerMiss(block)
    BY <2>9, AnswerMissKeeps
  <2> QED BY <1>3, <2>1, <2>2, <2>3, <2>4, <2>5, <2>6, <2>7, <2>8, <2>9 DEF CacheNext
<1>4. CASE UNCHANGED vars
  BY <1>4 DEF vars, walkerVars, cacheVars, IInv, TypeOK, OwnPages, TranslatedFirst, WalksServed
<1> QED BY <1>1, <1>2, <1>3, <1>4 DEF Next

\* The queues, caches, walks and tables keep their kinds; the memory gives out
\* its pages in order; what is known of a page is of that page; and every walk
\* has a read below (step_translation to finish_packet, src/ptw.cc).
THEOREM Invariance == Spec => []IInv
<1>1. Init => IInv
  BY InitLemma
<1>2. IInv /\ [Next]_vars => IInv'
  BY StepKeeps
<1> QED BY <1>1, <1>2, PTL DEF Spec

\* The entries, as their set.
LEMMA EntriesAre ==
  ASSUME IInv
  PROVE  /\ Entries \in Seq(EntryStates)
         /\ ToSet(Entries) = ToSet(inflight_tag_check) \cup ToSet(translation_stash)
BY Parts, ConcatToSet DEF IInv, Entries

\* A request of the core goes on with the physical page of its own virtual page,
\* and the translated entries of the stash are in front (finish_translation,
\* src/cache.cc): whatever the sizes, the number of requests and of levels.
THEOREM RequestsGoOnWithOwnPage == Spec => []TranslatedToOwnPage
<1>1. IInv => TranslatedToOwnPage
  <2> SUFFICES ASSUME IInv
               PROVE  TranslatedToOwnPage
    OBVIOUS
  <2>1. OwnPage
    <3> SUFFICES ASSUME NEW k \in 1..Len(Entries), Entries[k].id > 0, Entries[k].is_translated
                 PROVE  /\ Entries[k].v_address \in DOMAIN vm.vpage_to_ppage_map
                        /\ Entries[k].address = va_to_pa(vm, Entries[k].v_address)
      BY DEF OwnPage
    <3> DEFINE e == Entries[k]
    <3>1. e \in ToSet(inflight_tag_check) \cup ToSet(translation_stash)
      BY EntriesAre, ToSetIs
    <3>2. e.id > 0 /\ e.is_translated
      OBVIOUS
    <3> HIDE DEF e
    <3>3. e.v_address \in DOMAIN vm.vpage_to_ppage_map
          /\ e.address = vm.vpage_to_ppage_map[e.v_address]
      BY <3>1, <3>2 DEF IInv, OwnPages, EntriesOwn
    <3> QED BY <3>3 DEF e, va_to_pa
  <2> QED BY <2>1 DEF IInv, TranslatedToOwnPage
<1> QED BY <1>1, Invariance, PTL

\* As long as the list of free pages has not been filled again, no page is given
\* out twice: not to two virtual pages, not to a virtual page and a page table,
\* and no slot to two page tables (va_to_pa and get_pte_pa, src/vmem.cc).
THEOREM PagesStayDistinct == Spec => []PagesDistinct
<1>1. IInv => PagesDistinct
  BY DEF IInv, TypeOK, Consistent, Apart, PagesDistinct, va_to_pa
<1> QED BY <1>1, Invariance, PTL

\* Every walk that waits has a read of its block on its way (finish_packet,
\* src/ptw.cc, which answers all walks of a block at once).
THEOREM WalksAreServed == Spec => []EveryWalkIsServed
<1>1. IInv => EveryWalkIsServed
  <2> SUFFICES ASSUME IInv, NEW k \in 1..Len(walks)
               PROVE  LET block == Block(walks[k].address)
                      IN  \/ \E j \in 1..Len(lower.RQ) : Block(lower.RQ[j].address) = block
                          \/ \E j \in 1..Len(Entries) :
                               Entries[j].id = 0 /\ Entries[j].address = block
                          \/ block \in missing
                          \/ \E j \in 1..Len(lower.returned) : lower.returned[j].block = block
    BY DEF EveryWalkIsServed
  <2> DEFINE block == Block(walks[k].address)
  <2>1. /\ walks \in Seq(Walks) /\ lower.RQ \in Seq(Requests) /\ lower.returned \in Seq(Responses)
    BY Parts DEF IInv
  <2>2. /\ walks[k] \in ToSet(walks)
        /\ ToSet(lower.RQ) = {lower.RQ[j] : j \in 1..Len(lower.RQ)}
        /\ ToSet(lower.returned) = {lower.returned[j] : j \in 1..Len(lower.returned)}
        /\ ToSet(Entries) = {Entries[j] : j \in 1..Len(Entries)}
    <3>1. walks[k] \in ToSet(walks)
      BY <2>1, ToSetIs
    <3>2. ToSet(lower.RQ) = {lower.RQ[j] : j \in 1..Len(lower.RQ)}
      BY <2>1, ToSetIs
    <3>3. ToSet(lower.returned) = {lower.returned[j] : j \in 1..Len(lower.returned)}
      BY <2>1, ToSetIs
    <3>4. ToSet(Entries) = {Entries[j] : j \in 1..Len(Entries)}
      BY EntriesAre, ToSetIs
    <3> QED BY <3>1, <3>2, <3>3, <3>4
  <2>3. UnderWay(block, ToSet(lower.RQ), ToSet(Entries), missing, ToSet(lower.returned))
    BY <2>2, EntriesAre DEF IInv, WalksServed
  <2> HIDE DEF block
  <2>4. \/ \E j \in 1..Len(lower.RQ) : Block(lower.RQ[j].address) = block
        \/ \E j \in 1..Len(Entries) : Entries[j].id = 0 /\ Entries[j].address = block
        \/ block \in missing
        \/ \E j \in 1..Len(lower.returned) : lower.returned[j].block = block
    BY <2>2, <2>3 DEF UnderWay, Asked, Looked, Answered
  <2> QED BY <2>4 DEF block
<1> QED BY <1>1, Invariance, PTL

----------------------------------------------------------------------------
(***************************************************************************)
(* The LRU table.                                                          *)
(*                                                                         *)
(* A table that works as LruTable says implements the promise that the     *)
(* page structure caches are modelled by.  There is only one order of the  *)
(* ways in use that their counts agree with, so the abstraction's choice   *)
(* is determined; every operation is one element that goes out, and one    *)
(* that comes in as the most recent.                                       *)
(***************************************************************************)

AllTags == Tags \cup {"none"}
AllValues == Values \cup {"none"}
Elements(count) == [last_used : 0..count, tag : AllTags, value : AllValues]
Plain == [tag : AllTags, value : AllValues]
PlainOf(element) == [tag |-> element.tag, value |-> element.value]

Used(block) == {w \in Ways : block[w].last_used > 0}

\* The ways in use, the most recent first.
Ordered(block, order, n) ==
  /\ n = Cardinality(Used(block)) /\ order \in [1..n -> Used(block)]
  /\ \A w \in Used(block) : \E k \in 1..n : order[k] = w
  /\ \A j, k \in 1..n : j < k => block[order[k]].last_used < block[order[j]].last_used

WellUsed(block, count) ==
  /\ block \in [Ways -> Elements(count)]
  /\ \A v, w \in Used(block) : block[v].tag = block[w].tag => v = w
  /\ \E order : Ordered(block, order, Cardinality(Used(block)))

LEMMA OrdersAre ==
  ASSUME NEW block, NEW order
  PROVE  order \in Orders(block) <=> Ordered(block, order, Cardinality(Used(block)))
<1> DEFINE n == Cardinality(Used(block))
<1>1. Orders(block) =
        {o \in [1..n -> Used(block)] :
           /\ \A w \in Used(block) : \E k \in DOMAIN o : o[k] = w
           /\ \A j, k \in DOMAIN o : j < k => block[o[k]].last_used < block[o[j]].last_used}
  BY DEF Orders, Used
<1> HIDE DEF n
<1>2. order \in [1..n -> Used(block)] => DOMAIN order = 1..n
  OBVIOUS
<1>3. order \in Orders(block) <=> Ordered(block, order, n)
  BY <1>1, <1>2 DEF Ordered, n
<1> QED BY <1>3 DEF n

LEMMA UsedFinite ==
  ASSUME NEW block
  PROVE  /\ IsFiniteSet(Used(block)) /\ Cardinality(Used(block)) \in Nat
         /\ Cardinality(Used(block)) <= NUM_WAY /\ Cardinality(Ways) = NUM_WAY
         /\ IsFiniteSet(Ways)
<1> USE LruAssumption
<1>1. NUM_WAY \in Nat
  BY DEF LruAssumption
<1>2. IsFiniteSet(Ways) /\ Cardinality(Ways) = NUM_WAY
  BY <1>1, FS_Interval DEF Ways
<1>3. Used(block) \subseteq Ways
  BY DEF Used
<1> QED BY <1>1, <1>2, <1>3, FS_Subset, FS_CardinalityType

\* There is only one order.
LEMMA OneOrder ==
  ASSUME NEW count \in Nat, NEW block, WellUsed(block, count), NEW n,
         NEW o, NEW p, Ordered(block, o, n), Ordered(block, p, n)
  PROVE  o = p
<1> USE LruAssumption
<1> DEFINE Bad == {k \in 1..n : o[k] # p[k]}
           use(w) == block[w].last_used
<1>1. n \in Nat
  BY UsedFinite DEF Ordered
<1>2. \A w \in Used(block) : use(w) \in Nat
  BY DEF WellUsed, Used, Elements
<1>3. /\ \A k \in 1..n : o[k] \in Used(block) /\ p[k] \in Used(block)
      /\ \A w \in Used(block) : (\E k \in 1..n : o[k] = w) /\ (\E k \in 1..n : p[k] = w)
      /\ \A j, k \in 1..n : j < k => use(o[k]) < use(o[j]) /\ use(p[k]) < use(p[j])
  BY DEF Ordered
<1> HIDE DEF use
<1>4. ASSUME Bad # {}
      PROVE  FALSE
  <2>1. PICK k \in Bad : \A m \in Bad : k <= m
    <3>1. Bad \in SUBSET Nat
      BY <1>1
    <3> HIDE DEF Bad
    <3> QED BY <1>4, <3>1, LeastExists
  <2>2. k \in 1..n /\ o[k] # p[k] /\ \A j \in 1..n : j < k => o[j] = p[j]
    BY <1>1, <2>1
  <2>3. PICK i \in 1..n : o[i] = p[k]
    BY <1>3, <2>2
  <2>4. PICK j \in 1..n : p[j] = o[k]
    BY <1>3, <2>2
  <2>5. i > k
    <3>1. ~(i < k)
      <4>1. ASSUME i < k
            PROVE  FALSE
        <5>1. p[i] = p[k] /\ use(p[k]) < use(p[i]) /\ use(p[k]) \in Nat
          BY <1>2, <1>3, <2>2, <2>3, <4>1
        <5> QED BY ONLY <5>1
      <4> QED BY <4>1
    <3>2. i # k
      BY <2>2, <2>3
    <3> QED BY <1>1, <2>2, <3>1, <3>2
  <2>6. j > k
    <3>1. ~(j < k)
      <4>1. ASSUME j < k
            PROVE  FALSE
        <5>1. o[j] = o[k] /\ use(o[k]) < use(o[j]) /\ use(o[k]) \in Nat
          BY <1>2, <1>3, <2>2, <2>4, <4>1
        <5> QED BY ONLY <5>1
      <4> QED BY <4>1
    <3>2. j # k
      BY <2>2, <2>4
    <3> QED BY <1>1, <2>2, <3>1, <3>2
  <2>7. use(o[i]) < use(o[k]) /\ use(p[j]) < use(p[k])
    BY <1>3, <2>2, <2>5, <2>6
  <2>8. use(o[i]) \in Nat /\ use(o[k]) \in Nat /\ use(p[k]) = use(o[i]) /\ use(p[j]) = use(o[k])
    BY <1>2, <1>3, <2>2, <2>3, <2>4
  <2> QED BY ONLY <2>7, <2>8
<1>5. \A k \in 1..n : o[k] = p[k]
  BY <1>4
<1>6. o \in [1..n -> Used(block)] /\ p \in [1..n -> Used(block)]
  BY DEF Ordered
<1>7. o = [k \in 1..n |-> o[k]] /\ p = [k \in 1..n |-> p[k]]
  BY ONLY <1>6
<1>8. [k \in 1..n |-> o[k]] = [k \in 1..n |-> p[k]]
  BY ONLY <1>5
<1> QED BY ONLY <1>7, <1>8

\* So the order that is chosen is the one that is known.
LEMMA RecentIs ==
  ASSUME NEW count \in Nat, NEW block, WellUsed(block, count), NEW n,
         NEW order, Ordered(block, order, n)
  PROVE  /\ RecentOf(block) = [k \in 1..n |-> PlainOf(block[order[k]])]
         /\ RecentOf(block) \in Seq(Plain) /\ Len(RecentOf(block)) = n
         /\ \A k \in 1..n : RecentOf(block)[k] = PlainOf(block[order[k]])
<1> USE LruAssumption
<1> DEFINE chosen == CHOOSE o \in Orders(block) : TRUE
           recent == RecentOf(block)
<1>1. n = Cardinality(Used(block)) /\ n \in Nat
  BY UsedFinite DEF Ordered
<1>2. order \in Orders(block)
  BY <1>1, OrdersAre
<1>3. chosen \in Orders(block)
  BY <1>2
<1> HIDE DEF chosen
<1>4. Ordered(block, chosen, n)
  BY <1>1, <1>3, OrdersAre
<1>5. chosen = order
  BY <1>4, OneOrder
<1>6. recent = [k \in DOMAIN chosen |-> PlainOf(block[chosen[k]])]
  BY DEF RecentOf, chosen, PlainOf
<1>7. DOMAIN order = 1..n /\ \A k \in 1..n : order[k] \in Used(block)
  BY DEF Ordered
<1>8. recent = [k \in 1..n |-> PlainOf(block[order[k]])]
  BY <1>5, <1>6, <1>7
<1>9. \A w \in Used(block) : PlainOf(block[w]) \in Plain
  BY DEF WellUsed, Used, Elements, Plain, PlainOf
<1> HIDE DEF recent
<1>10. recent \in [1..n -> Plain]
  BY <1>7, <1>8, <1>9
<1>11. recent \in Seq(Plain) /\ Len(recent) = n
  BY <1>1, <1>10
<1> QED BY <1>8, <1>11 DEF recent

\* Every way in use has one place in the order, and its tag no other.
LEMMA PlaceOf ==
  ASSUME NEW count \in Nat, NEW block, WellUsed(block, count),
         NEW way \in Used(block), NEW n, NEW order, Ordered(block, order, n)
  PROVE  \E out \in 1..n :
           \A k \in 1..n : /\ order[k] = way <=> k = out
                           /\ RecentOf(block)[k].tag = block[way].tag <=> k = out
<1> USE LruAssumption
<1> DEFINE recent == RecentOf(block)
<1>1. /\ n \in Nat /\ order \in [1..n -> Used(block)]
      /\ \A w \in Used(block) : \E k \in 1..n : order[k] = w
      /\ \A j, k \in 1..n : j < k => block[order[k]].last_used < block[order[j]].last_used
  BY UsedFinite DEF Ordered
<1>2. /\ \A v, w \in Used(block) : block[v].tag = block[w].tag => v = w
      /\ \A w \in Used(block) : block[w].last_used \in Nat
  BY DEF WellUsed, Used, Elements
<1>3. \A k \in 1..n : recent[k] = PlainOf(block[order[k]])
  BY RecentIs
<1> HIDE DEF recent
<1>4. PICK out \in 1..n : order[out] = way
  BY <1>1
<1>5. \A k \in 1..n : order[k] = way => k = out
  <2> SUFFICES ASSUME NEW k \in 1..n, order[k] = way, k # out
               PROVE  FALSE
    OBVIOUS
  <2>1. block[way].last_used \in Nat
    BY <1>2
  <2>2. k < out \/ out < k
    BY <1>1
  <2> QED BY <1>1, <1>4, <2>1, <2>2
<1>6. \A k \in 1..n : recent[k].tag = block[way].tag <=> k = out
  <2> SUFFICES ASSUME NEW k \in 1..n
               PROVE  recent[k].tag = block[way].tag <=> k = out
    OBVIOUS
  <2>1. order[k] \in Used(block) /\ recent[k].tag = block[order[k]].tag
    <3>1. recent[k] = [tag |-> block[order[k]].tag, value |-> block[order[k]].value]
      BY <1>3 DEF PlainOf
    <3>2. order[k] \in Used(block)
      BY <1>1
    <3> QED BY ONLY <3>1, <3>2
  <2>2. block[order[k]].tag = block[way].tag <=> order[k] = way
    BY <1>2, <2>1
  <2> QED BY <1>4, <1>5, <2>1, <2>2
<1> QED BY <1>4, <1>5, <1>6 DEF recent

\* An element that goes out, and one that comes in, as the most recent.
Placed(block, way, element) == [block EXCEPT ![way] = element]

LEMMA GoesOut ==
  ASSUME NEW count \in Nat, NEW block, WellUsed(block, count),
         NEW way \in Used(block), NEW after, after = Placed(block, way, Empty)
  PROVE  /\ WellUsed(after, count) /\ Used(after) = Used(block) \ {way}
         /\ RecentOf(after) = Without(RecentOf(block), block[way].tag)
<1> USE LruAssumption
<1> DEFINE n == Cardinality(Used(block))
           recent == RecentOf(block)
           rest == Without(recent, block[way].tag)
<1>1. PICK order : Ordered(block, order, n)
  BY DEF WellUsed
<1>2. /\ n \in Nat /\ IsFiniteSet(Used(block)) /\ order \in [1..n -> Used(block)]
      /\ \A w \in Used(block) : \E k \in 1..n : order[k] = w
      /\ \A j, k \in 1..n : j < k => block[order[k]].last_used < block[order[j]].last_used
  BY <1>1, UsedFinite DEF Ordered
<1>3. /\ block \in [Ways -> Elements(count)] /\ Used(block) \subseteq Ways
      /\ \A v, w \in Used(block) : block[v].tag = block[w].tag => v = w
      /\ \A w \in Used(block) : block[w].last_used \in Nat
  BY DEF WellUsed, Used, Elements
<1>4. /\ recent \in Seq(Plain) /\ Len(recent) = n
      /\ \A k \in 1..n : recent[k] = PlainOf(block[order[k]])
  BY <1>1, RecentIs
<1> HIDE DEF n, recent
<1>5. PICK out \in 1..n :
        \A k \in 1..n : /\ order[k] = way <=> k = out
                        /\ recent[k].tag = block[way].tag <=> k = out
  BY <1>1, PlaceOf DEF recent
<1>6. Empty \in Elements(count)
  BY DEF Empty, Elements, AllTags, AllValues
<1>7. after \in [Ways -> Elements(count)]
  BY <1>3, <1>6 DEF Placed
<1>8. \A w \in Ways : after[w] = IF w = way THEN Empty ELSE block[w]
  BY <1>3 DEF Placed
<1>9. Used(after) = Used(block) \ {way}
  BY <1>8 DEF Used, Empty
<1>10. \A w \in Used(after) : after[w] = block[w]
  BY <1>3, <1>8, <1>9
<1>11. Cardinality(Used(after)) = n - 1
  BY <1>2, <1>9, FS_RemoveElement DEF n
<1> DEFINE moved == [k \in 1..(n - 1) |-> IF k < out THEN order[k] ELSE order[k + 1]]
           At(k) == IF k < out THEN k ELSE k + 1
<1>13. \A k \in 1..(n - 1) : At(k) \in 1..n /\ At(k) # out /\ moved[k] = order[At(k)]
  BY <1>2
<1>14. \A j, k \in 1..(n - 1) : j < k => At(j) < At(k)
  BY <1>2
<1>15. \A i \in 1..n : i # out => \E k \in 1..(n - 1) : At(k) = i
  <2> SUFFICES ASSUME NEW i \in 1..n, i # out
               PROVE  \E k \in 1..(n - 1) : At(k) = i
    OBVIOUS
  <2>1. CASE i < out
    <3>1. i \in 1..(n - 1) /\ At(i) = i
      BY <1>2, <2>1
    <3> QED BY <3>1
  <2>2. CASE ~(i < out)
    <3>1. i - 1 \in 1..(n - 1) /\ At(i - 1) = i
      BY <1>2, <2>2
    <3> QED BY <3>1
  <2> QED BY <2>1, <2>2
<1>16. moved = [k \in 1..(n - 1) |-> moved[k]]
  OBVIOUS
<1> HIDE DEF moved, At
<1>17. Ordered(after, moved, n - 1)
  <2>1. \A k \in 1..(n - 1) : moved[k] \in Used(after)
    BY <1>2, <1>5, <1>9, <1>13
  <2>2. moved \in [1..(n - 1) -> Used(after)]
    BY <1>16, <2>1
  <2>3. ASSUME NEW w \in Used(after)
        PROVE  \E k \in 1..(n - 1) : moved[k] = w
    <3>1. PICK i \in 1..n : order[i] = w
      BY <1>2, <1>9
    <3>2. i # out
      BY <1>5, <1>9, <3>1
    <3>3. PICK k \in 1..(n - 1) : At(k) = i
      BY <1>15, <3>2
    <3> QED BY <1>13, <3>1, <3>3
  <2>4. ASSUME NEW j \in 1..(n - 1), NEW k \in 1..(n - 1), j < k
        PROVE  after[moved[k]].last_used < after[moved[j]].last_used
    <3>1. after[moved[k]] = block[order[At(k)]] /\ after[moved[j]] = block[order[At(j)]]
      BY <1>10, <1>13, <2>1
    <3>2. block[order[At(k)]].last_used < block[order[At(j)]].last_used
      BY <1>2, <1>13, <1>14, <2>4
    <3> QED BY <3>1, <3>2
  <2> QED BY <1>11, <2>2, <2>3, <2>4 DEF Ordered
<1>18. WellUsed(after, count)
  BY <1>3, <1>7, <1>9, <1>10, <1>11, <1>17 DEF WellUsed
<1>19. /\ RecentOf(after) \in Seq(Plain) /\ Len(RecentOf(after)) = n - 1
       /\ \A k \in 1..(n - 1) : RecentOf(after)[k] = PlainOf(after[moved[k]])
  <2> DEFINE m == n - 1
  <2>1. /\ LruAssumption /\ count \in Nat
        /\ WellUsed(after, count) /\ Ordered(after, moved, m)
    BY <1>17, <1>18
  <2> HIDE DEF m
  <2>2. /\ RecentOf(after) \in Seq(Plain) /\ Len(RecentOf(after)) = m
        /\ \A k \in 1..m : RecentOf(after)[k] = PlainOf(after[moved[k]])
    BY ONLY <2>1, RecentIs
  <2> QED BY <2>2 DEF m
<1>20. \A k \in 1..Len(recent) : recent[k].tag = block[way].tag <=> k = out
  BY <1>4, <1>5
<1>21. /\ rest \in Seq(Plain) /\ Len(rest) = n - 1
       /\ \A j \in 1..(n - 1) : rest[j] = IF j < out THEN recent[j] ELSE recent[j + 1]
  <2>1. out \in 1..(Len(recent) + 1) /\ out <= Len(recent)
    BY <1>2, <1>4
  <2>2. /\ rest \in Seq(Plain) /\ Len(rest) = Len(recent) - 1
        /\ \A j \in 1..Len(rest) : rest[j] = IF j < out THEN recent[j] ELSE recent[j + 1]
    BY <1>4, <1>20, <2>1, WithoutOne
  <2> QED BY <1>4, <2>2
<1> HIDE DEF rest
<1>22. \A k \in 1..(n - 1) : RecentOf(after)[k] = rest[k]
  <2> SUFFICES ASSUME NEW k \in 1..(n - 1)
               PROVE  RecentOf(after)[k] = rest[k]
    OBVIOUS
  <2>1. rest[k] = recent[At(k)]
    BY <1>21 DEF At
  <2>2. recent[At(k)] = PlainOf(block[order[At(k)]])
    BY <1>4, <1>13
  <2>3. after[moved[k]] = block[order[At(k)]]
    BY <1>10, <1>13, <1>17 DEF Ordered
  <2> QED BY <1>19, <2>1, <2>2, <2>3
<1>23. RecentOf(after) = rest
  BY <1>19, <1>21, <1>22, SeqEqual
<1> QED BY <1>9, <1>18, <1>23 DEF rest, recent

LEMMA HeadedIs ==
  ASSUME NEW X, NEW e \in X, NEW s \in Seq(X)
  PROVE  /\ <<e>> \o s \in Seq(X) /\ Len(<<e>> \o s) = Len(s) + 1
         /\ \A k \in 1..(Len(s) + 1) : (<<e>> \o s)[k] = IF k = 1 THEN e ELSE s[k - 1]
<1>1. <<e>> \in Seq(X) /\ Len(<<e>>) = 1 /\ <<e>>[1] = e
  OBVIOUS
<1>2. /\ <<e>> \o s \in Seq(X) /\ Len(<<e>> \o s) = Len(<<e>>) + Len(s)
      /\ \A k \in 1..(Len(<<e>>) + Len(s)) :
           (<<e>> \o s)[k] = IF k <= Len(<<e>>) THEN <<e>>[k] ELSE s[k - Len(<<e>>)]
  BY <1>1, ConcatProperties
<1> QED BY <1>1, <1>2

Enters(block, others, element, count) ==
  /\ element \in Elements(count + 1) /\ element.last_used = count + 1
  /\ \A v \in others : block[v].tag # element.tag

LEMMA ComesIn ==
  ASSUME NEW count \in Nat, NEW block, WellUsed(block, count),
         NEW way \in Ways \ Used(block), NEW element,
         Enters(block, Used(block), element, count), NEW after, after = Placed(block, way, element)
  PROVE  /\ WellUsed(after, count + 1) /\ Used(after) = Used(block) \cup {way}
         /\ RecentOf(after) = <<PlainOf(element)>> \o RecentOf(block)
<1> USE LruAssumption
<1> DEFINE n == Cardinality(Used(block))
           recent == RecentOf(block)
           all == <<PlainOf(element)>> \o recent
<1>1. /\ element \in Elements(count + 1) /\ element.last_used = count + 1
      /\ \A v \in Used(block) : block[v].tag # element.tag
      /\ after = [block EXCEPT ![way] = element]
  BY DEF Enters, Placed
<1>2. PICK order : Ordered(block, order, n)
  BY DEF WellUsed
<1>3. /\ n \in Nat /\ IsFiniteSet(Used(block)) /\ order \in [1..n -> Used(block)]
      /\ \A w \in Used(block) : \E k \in 1..n : order[k] = w
      /\ \A j, k \in 1..n : j < k => block[order[k]].last_used < block[order[j]].last_used
  BY <1>2, UsedFinite DEF Ordered
<1>4. /\ block \in [Ways -> Elements(count)] /\ Used(block) \subseteq Ways
      /\ \A v, w \in Used(block) : block[v].tag = block[w].tag => v = w
      /\ \A w \in Used(block) : block[w].last_used \in 0..count
  BY DEF WellUsed, Used, Elements
<1>5. /\ recent \in Seq(Plain) /\ Len(recent) = n
      /\ \A k \in 1..n : recent[k] = PlainOf(block[order[k]])
  BY <1>2, RecentIs
<1> HIDE DEF n, recent
<1>6. \A w \in Ways : block[w] \in Elements(count + 1)
  <2>1. 0..count \subseteq 0..(count + 1)
    OBVIOUS
  <2>2. Elements(count) \subseteq Elements(count + 1)
    BY <2>1 DEF Elements
  <2> QED BY <1>4, <2>2
<1>7. after \in [Ways -> Elements(count + 1)]
  BY <1>1, <1>4, <1>6
<1>8. \A w \in Ways : after[w] = IF w = way THEN element ELSE block[w]
  BY <1>1, <1>4
<1>9. Used(after) = Used(block) \cup {way}
  BY <1>1, <1>8 DEF Used
<1>10. after[way] = element /\ \A w \in Used(block) : after[w] = block[w]
  BY <1>4, <1>8
<1>11. Cardinality(Used(after)) = n + 1
  BY <1>3, <1>9, FS_AddElement DEF n
<1> DEFINE first == [k \in 1..(n + 1) |-> IF k = 1 THEN way ELSE order[k - 1]]
<1>12. /\ first[1] = way /\ first = [k \in 1..(n + 1) |-> first[k]]
       /\ \A k \in 1..n : k + 1 \in 1..(n + 1) /\ first[k + 1] = order[k]
       /\ \A k \in 1..(n + 1) : k # 1 => k - 1 \in 1..n /\ first[k] = order[k - 1]
  <2>1. 1 \in 1..(n + 1)
    BY <1>3
  <2>2. \A k \in 1..n : k + 1 \in 1..(n + 1) /\ k + 1 # 1 /\ (k + 1) - 1 = k
    BY <1>3
  <2>3. \A k \in 1..(n + 1) : k # 1 => k - 1 \in 1..n
    BY <1>3
  <2> QED BY <2>1, <2>2, <2>3
<1> HIDE DEF first
<1>13. Ordered(after, first, n + 1)
  <2>1. \A k \in 1..(n + 1) : first[k] \in Used(after)
    BY <1>3, <1>9, <1>12
  <2>2. first \in [1..(n + 1) -> Used(after)]
    BY <1>12, <2>1
  <2>3. ASSUME NEW w \in Used(after)
        PROVE  \E k \in 1..(n + 1) : first[k] = w
    <3>1. CASE w = way
      <4>1. 1 \in 1..(n + 1)
        BY <1>3
      <4> QED BY <1>12, <3>1, <4>1
    <3>2. CASE w \in Used(block)
      <4>1. PICK k \in 1..n : order[k] = w
        BY <1>3, <3>2
      <4> QED BY <1>12, <4>1
    <3> QED BY <1>9, <3>1, <3>2
  <2>4. ASSUME NEW j \in 1..(n + 1), NEW k \in 1..(n + 1), j < k
        PROVE  after[first[k]].last_used < after[first[j]].last_used
    <3>1. k - 1 \in 1..n /\ first[k] = order[k - 1]
      BY <1>3, <1>12, <2>4
    <3>2. order[k - 1] \in Used(block) /\ after[first[k]] = block[order[k - 1]]
      BY <1>3, <1>10, <3>1
    <3>3. CASE j = 1
      <4>1. after[first[j]].last_used = count + 1
        BY <1>1, <1>10, <1>12, <3>3
      <4>2. block[order[k - 1]].last_used \in 0..count
        BY <1>4, <3>2
      <4> QED BY <3>2, <4>1, <4>2
    <3>4. CASE j # 1
      <4>1. j - 1 \in 1..n /\ first[j] = order[j - 1] /\ j - 1 < k - 1
        BY <1>3, <1>12, <2>4, <3>4
      <4>2. order[j - 1] \in Used(block) /\ after[first[j]] = block[order[j - 1]]
        BY <1>3, <1>10, <4>1
      <4>3. block[order[k - 1]].last_used < block[order[j - 1]].last_used
        BY <1>3, <3>1, <4>1
      <4> QED BY <3>2, <4>2, <4>3
    <3> QED BY <3>3, <3>4
  <2> QED BY <1>11, <2>2, <2>3, <2>4 DEF Ordered
<1>14. WellUsed(after, count + 1)
  <2>1. \A v, w \in Used(after) : after[v].tag = after[w].tag => v = w
    BY <1>1, <1>4, <1>9, <1>10
  <2>2. Ordered(after, first, Cardinality(Used(after)))
    BY <1>11, <1>13
  <2>3. \E o : Ordered(after, o, Cardinality(Used(after)))
    BY <2>2
  <2> QED BY ONLY <1>7, <2>1, <2>3 DEF WellUsed
<1>15. /\ RecentOf(after) \in Seq(Plain) /\ Len(RecentOf(after)) = n + 1
       /\ \A k \in 1..(n + 1) : RecentOf(after)[k] = PlainOf(after[first[k]])
  <2> DEFINE m == n + 1
             next == count + 1
  <2>1. /\ LruAssumption /\ next \in Nat
        /\ WellUsed(after, next) /\ Ordered(after, first, m)
    BY <1>13, <1>14
  <2> HIDE DEF m, next
  <2>2. /\ RecentOf(after) \in Seq(Plain) /\ Len(RecentOf(after)) = m
        /\ \A k \in 1..m : RecentOf(after)[k] = PlainOf(after[first[k]])
    BY ONLY <2>1, RecentIs
  <2> QED BY <2>2 DEF m
<1>16. /\ all \in Seq(Plain) /\ Len(all) = n + 1
       /\ \A k \in 1..(n + 1) : all[k] = IF k = 1 THEN PlainOf(element) ELSE recent[k - 1]
  <2>1. PlainOf(element) \in Plain
    BY <1>1 DEF PlainOf, Plain, Elements
  <2> HIDE DEF recent
  <2>2. recent \in Seq(Plain) /\ Len(recent) = n
    BY <1>5
  <2>3. /\ all \in Seq(Plain) /\ Len(all) = Len(recent) + 1
        /\ \A k \in 1..(Len(recent) + 1) :
             all[k] = IF k = 1 THEN PlainOf(element) ELSE recent[k - 1]
    BY ONLY <2>1, <2>2, HeadedIs
  <2> QED BY ONLY <2>2, <2>3
<1> HIDE DEF all
<1>17. \A k \in 1..(n + 1) : RecentOf(after)[k] = all[k]
  <2> SUFFICES ASSUME NEW k \in 1..(n + 1)
               PROVE  RecentOf(after)[k] = all[k]
    OBVIOUS
  <2>1. CASE k = 1
    <3>1. after[first[k]] = element
      BY <1>10, <1>12, <2>1
    <3>2. all[k] = PlainOf(element) /\ RecentOf(after)[k] = PlainOf(after[first[k]])
      BY <1>15, <1>16, <2>1
    <3> QED BY <3>1, <3>2
  <2>2. CASE k # 1
    <3>1. k - 1 \in 1..n /\ first[k] = order[k - 1] /\ all[k] = recent[k - 1]
      BY <1>12, <1>16, <2>2
    <3>2. after[first[k]] = block[order[k - 1]]
      BY <1>3, <1>10, <3>1
    <3> QED BY <1>5, <1>15, <3>1, <3>2
  <2> QED BY <2>1, <2>2
<1>18. RecentOf(after) = all
  BY <1>15, <1>16, <1>17, SeqEqual
<1> QED BY <1>9, <1>14, <1>18 DEF all, recent

\* A lookup in the order finds what the lookup in the ways finds.
Holding(block, tag) == {w \in Used(block) : block[w].tag = tag}

LEMMA LookupIs ==
  ASSUME NEW count \in Nat, NEW block, WellUsed(block, count), NEW tag
  PROVE  LET recent == RecentOf(block)
         IN  /\ IsIn(recent, tag) <=> Holding(block, tag) # {}
             /\ \A w \in Holding(block, tag) : ElementOf(recent, tag) = PlainOf(block[w])
             /\ Holding(block, tag) = {} => Without(recent, tag) = recent
<1> USE LruAssumption
<1> DEFINE n == Cardinality(Used(block))
           recent == RecentOf(block)
<1>1. PICK order : Ordered(block, order, n)
  BY DEF WellUsed
<1>2. /\ n \in Nat /\ order \in [1..n -> Used(block)]
      /\ \A w \in Used(block) : \E k \in 1..n : order[k] = w
  BY <1>1, UsedFinite DEF Ordered
<1>3. /\ recent \in Seq(Plain) /\ Len(recent) = n
      /\ \A k \in 1..n : recent[k] = PlainOf(block[order[k]])
  BY <1>1, RecentIs
<1>4. \A v, w \in Used(block) : block[v].tag = block[w].tag => v = w
  BY DEF WellUsed
<1> HIDE DEF n, recent
<1>5. \A k \in 1..n : /\ order[k] \in Used(block) /\ recent[k].tag = block[order[k]].tag
                      /\ recent[k] = PlainOf(block[order[k]])
  BY <1>2, <1>3 DEF PlainOf
<1>6. IsIn(recent, tag) <=> Holding(block, tag) # {}
  <2>1. ASSUME IsIn(recent, tag)
        PROVE  Holding(block, tag) # {}
    <3>1. PICK k \in 1..n : recent[k].tag = tag
      BY <1>3, <2>1 DEF IsIn, Matching
    <3> QED BY <1>5, <3>1 DEF Holding
  <2>2. ASSUME NEW w \in Holding(block, tag)
        PROVE  IsIn(recent, tag)
    <3>1. w \in Used(block) /\ block[w].tag = tag
      BY DEF Holding
    <3>2. PICK k \in 1..n : order[k] = w
      BY <1>2, <3>1
    <3>3. k \in 1..Len(recent) /\ recent[k].tag = tag
      BY <1>3, <1>5, <3>1, <3>2
    <3> QED BY <3>3 DEF IsIn, Matching
  <2> QED BY <2>1, <2>2
<1>7. ASSUME NEW w \in Holding(block, tag)
      PROVE  ElementOf(recent, tag) = PlainOf(block[w])
  <2> DEFINE found == CHOOSE k \in Matching(recent, tag) : TRUE
  <2>1. w \in Used(block) /\ block[w].tag = tag
    BY DEF Holding
  <2>2. found \in Matching(recent, tag)
    <3>1. Matching(recent, tag) # {}
      BY <1>6 DEF IsIn
    <3> QED BY <3>1
  <2>3. ElementOf(recent, tag) = recent[found]
    BY DEF ElementOf
  <2> HIDE DEF found
  <2>4. found \in 1..n /\ recent[found].tag = tag
    BY <1>3, <2>2 DEF Matching
  <2>5. order[found] \in Used(block) /\ block[order[found]].tag = tag
    BY <1>5, <2>4
  <2>6. order[found] = w
    BY <1>4, <2>1, <2>5
  <2> QED BY <1>5, <2>3, <2>4, <2>6
<1>8. ASSUME Holding(block, tag) = {}
      PROVE  Without(recent, tag) = recent
  <2> DEFINE rest == Without(recent, tag)
             out == Len(recent) + 1
  <2>1. \A k \in 1..n : recent[k].tag # tag
    BY <1>5, <1>8 DEF Holding
  <2>2. /\ rest \in Seq(Plain) /\ Len(rest) = IF out <= Len(recent) THEN Len(recent) - 1 ELSE Len(recent)
        /\ \A j \in 1..Len(rest) : rest[j] = IF j < out THEN recent[j] ELSE recent[j + 1]
    <3>1. out \in 1..(Len(recent) + 1) /\ \A k \in 1..Len(recent) : recent[k].tag = tag <=> k = out
      BY <1>2, <1>3, <2>1
    <3> HIDE DEF out
    <3> QED BY <1>3, <3>1, WithoutOne
  <2> HIDE DEF rest
  <2>3. Len(rest) = Len(recent) /\ \A j \in 1..Len(rest) : rest[j] = recent[j]
    BY <1>2, <1>3, <2>2
  <2>4. rest = recent
    BY <1>3, <2>2, <2>3, SeqEqual
  <2> QED BY <2>4 DEF rest
<1> QED BY <1>6, <1>7, <1>8 DEF recent

\* What a use and a fill make of a set.
LEMMA Replaces ==
  ASSUME NEW count \in Nat, NEW block, WellUsed(block, count),
         NEW way \in Used(block), NEW element,
         Enters(block, Used(block) \ {way}, element, count),
         NEW after, after = Placed(block, way, element)
  PROVE  /\ WellUsed(after, count + 1)
         /\ RecentOf(after) =
              <<PlainOf(element)>> \o Without(RecentOf(block), block[way].tag)
<1> USE LruAssumption
<1> DEFINE mid == Placed(block, way, Empty)
<1>1. /\ WellUsed(mid, count) /\ Used(mid) = Used(block) \ {way}
      /\ RecentOf(mid) = Without(RecentOf(block), block[way].tag)
  BY GoesOut
<1>2. block \in [Ways -> Elements(count)] /\ way \in Ways
  BY DEF WellUsed, Used
<1>3. \A v \in Ways : v # way => mid[v] = block[v]
  BY <1>2 DEF Placed
<1>4. after = Placed(mid, way, element)
  BY <1>2 DEF Placed
<1> HIDE DEF mid
<1>5. Enters(mid, Used(mid), element, count)
  BY <1>1, <1>2, <1>3 DEF Used, Enters
<1>6. way \in Ways \ Used(mid)
  BY <1>1, <1>2
<1>7. LruAssumption /\ count \in Nat /\ WellUsed(mid, count)
  BY <1>1
<1>8. /\ WellUsed(after, count + 1)
      /\ RecentOf(after) = <<PlainOf(element)>> \o RecentOf(mid)
  BY ONLY <1>4, <1>5, <1>6, <1>7, ComesIn
<1> QED BY <1>1, <1>8

UsedAt(element, count) == [element EXCEPT !.last_used = count]

LEMMA TouchIs ==
  ASSUME NEW count \in Nat, NEW block, WellUsed(block, count),
         NEW tag, NEW way \in Holding(block, tag), NEW after,
         after = Placed(block, way, UsedAt(block[way], count + 1))
  PROVE  /\ WellUsed(after, count + 1)
         /\ RecentOf(after) = Touch(RecentOf(block), tag)
<1> USE LruAssumption
<1> DEFINE element == UsedAt(block[way], count + 1)
           recent == RecentOf(block)
<1>1. way \in Used(block) /\ block[way].tag = tag
  BY DEF Holding
<1>2. block[way] \in Elements(count)
  BY <1>1 DEF WellUsed, Used
<1>3. element \in Elements(count + 1) /\ element.last_used = count + 1 /\ element.tag = tag
      /\ PlainOf(element) = PlainOf(block[way])
  BY <1>1, <1>2 DEF Elements, PlainOf, UsedAt
<1>4. \A v \in Used(block) \ {way} : block[v].tag # element.tag
  BY <1>1, <1>3 DEF WellUsed
<1>5. /\ LruAssumption /\ count \in Nat /\ WellUsed(block, count)
      /\ after = Placed(block, way, element)
  OBVIOUS
<1> HIDE DEF element, recent
<1>6. /\ WellUsed(after, count + 1)
      /\ RecentOf(after) = <<PlainOf(element)>> \o Without(recent, block[way].tag)
  <2>1. Enters(block, Used(block) \ {way}, element, count)
    BY <1>3, <1>4 DEF Enters
  <2> QED BY ONLY <1>1, <1>5, <2>1, Replaces, ZenonT(60) DEF recent
<1>7. IsIn(recent, tag) /\ ElementOf(recent, tag) = PlainOf(block[way])
  BY LookupIs DEF recent
<1>8. Touch(recent, tag) = <<PlainOf(block[way])>> \o Without(recent, tag)
  BY <1>7 DEF Touch
<1> QED BY <1>1, <1>3, <1>6, <1>8 DEF recent

\* The way that a fill takes: it has the tag, or is not in use, or is the least recent.
IsTarget(block, tag, way) ==
  \/ way \in Holding(block, tag)
  \/ Holding(block, tag) = {} /\ way \in Ways \ Used(block)
  \/ /\ Holding(block, tag) = {} /\ Used(block) = Ways /\ way \in Ways
     /\ \A v \in Ways : block[way].last_used <= block[v].last_used

ElementWith(count, tag, value) == [last_used |-> count, tag |-> tag, value |-> value]

LEMMA InsertIs ==
  ASSUME NEW count \in Nat, NEW block, WellUsed(block, count),
         NEW tag \in Tags, NEW value \in Values, NEW way, IsTarget(block, tag, way),
         NEW after, after = Placed(block, way, ElementWith(count + 1, tag, value))
  PROVE  /\ WellUsed(after, count + 1)
         /\ RecentOf(after) =
              Insert(RecentOf(block), [tag |-> tag, value |-> value], NUM_WAY)
<1> USE LruAssumption
<1> DEFINE element == ElementWith(count + 1, tag, value)
           plain == [tag |-> tag, value |-> value]
           n == Cardinality(Used(block))
           recent == RecentOf(block)
           all == <<plain>> \o Without(recent, tag)
<1>1. PICK order : Ordered(block, order, n)
  BY DEF WellUsed
<1>2. /\ n \in Nat /\ n <= NUM_WAY /\ NUM_WAY \in Nat \ {0} /\ IsFiniteSet(Used(block))
      /\ order \in [1..n -> Used(block)]
      /\ \A j, k \in 1..n : j < k => block[order[k]].last_used < block[order[j]].last_used
  BY <1>1, UsedFinite DEF Ordered, LruAssumption
<1>3. recent \in Seq(Plain) /\ Len(recent) = n
  BY <1>1, RecentIs
<1>4. element \in Elements(count + 1) /\ element.last_used = count + 1 /\ element.tag = tag
      /\ PlainOf(element) = plain /\ plain \in Plain /\ plain.tag = tag
  BY DEF Elements, Plain, PlainOf, AllTags, AllValues, ElementWith
<1>5. /\ LruAssumption /\ count \in Nat /\ WellUsed(block, count)
      /\ after = Placed(block, way, element)
  OBVIOUS
<1>6. Insert(recent, plain, NUM_WAY) = SubSeq(all, 1, Lesser(Len(all), NUM_WAY))
  BY DEF Insert
<1>7. Without(recent, tag) \in Seq(Plain)
  BY <1>3, WithoutKeeps
<1>8. all \in Seq(Plain) /\ Len(all) = 1 + Len(Without(recent, tag))
      /\ Len(Without(recent, tag)) \in Nat
  BY <1>4, <1>7
<1>9. /\ \A v, w \in Used(block) : block[v].tag = block[w].tag => v = w
      /\ \A w \in Used(block) : block[w].last_used \in Nat
  BY DEF WellUsed, Used, Elements
<1>10. ASSUME Len(all) <= NUM_WAY
       PROVE  Insert(recent, plain, NUM_WAY) = all
  <2> HIDE DEF all
  <2>1. Len(all) \in Nat /\ Lesser(Len(all), NUM_WAY) = Len(all)
    BY <1>2, <1>8, <1>10 DEF Lesser
  <2> QED BY <1>6, <1>8, <2>1
<1>11. CASE way \in Holding(block, tag)
  <2>1. way \in Used(block) /\ block[way].tag = tag
    BY <1>11 DEF Holding
  <2>2. Enters(block, Used(block) \ {way}, element, count)
    BY <1>4, <1>9, <2>1 DEF Enters
  <2>3. /\ WellUsed(after, count + 1)
        /\ RecentOf(after) =
             <<PlainOf(element)>> \o Without(RecentOf(block), block[way].tag)
    <3> HIDE DEF element
    <3> QED BY ONLY <1>5, <2>1, <2>2, Replaces, ZenonT(60)
  <2>4. RecentOf(after) = all
    BY <1>4, <2>1, <2>3
  <2>5. Len(Without(recent, tag)) = n - 1
    <3>1. PICK out \in 1..n : \A k \in 1..n : recent[k].tag = block[way].tag <=> k = out
      BY <1>1, <2>1, PlaceOf
    <3> HIDE DEF recent, n
    <3>2. out \in 1..(Len(recent) + 1) /\ out <= Len(recent)
          /\ \A k \in 1..Len(recent) : recent[k].tag = tag <=> k = out
      BY <1>2, <1>3, <2>1, <3>1
    <3> QED BY <1>3, <3>2, WithoutOne
  <2>6. Len(all) <= NUM_WAY
    <3> HIDE DEF all, n
    <3> QED BY <1>2, <1>8, <2>5
  <2> QED BY <1>10, <2>3, <2>4, <2>6
<1>12. ASSUME Holding(block, tag) = {}
       PROVE  /\ Without(recent, tag) = recent
              /\ \A v \in Used(block) : block[v].tag # element.tag
  BY <1>4, <1>12, LookupIs DEF Holding
<1>13. CASE Holding(block, tag) = {} /\ way \in Ways \ Used(block)
  <2>1. /\ WellUsed(after, count + 1) /\ Used(after) = Used(block) \cup {way}
        /\ RecentOf(after) = <<PlainOf(element)>> \o RecentOf(block)
    <3>1. Enters(block, Used(block), element, count)
      BY <1>4, <1>12, <1>13 DEF Enters
    <3> HIDE DEF element
    <3> QED BY ONLY <1>5, <1>13, <3>1, ComesIn
  <2>2. RecentOf(after) = all
    BY <1>4, <1>12, <1>13, <2>1
  <2>3. n + 1 <= NUM_WAY
    <3>1. Cardinality(Used(after)) = n + 1
      BY <1>2, <1>13, <2>1, FS_AddElement
    <3>2. Cardinality(Used(after)) <= NUM_WAY
      BY UsedFinite
    <3> QED BY <3>1, <3>2
  <2>4. Len(all) <= NUM_WAY
    <3>1. Len(Without(recent, tag)) = n
      BY <1>3, <1>12, <1>13
    <3> HIDE DEF all, n
    <3> QED BY <1>2, <1>8, <2>3, <3>1
  <2> QED BY <1>10, <2>1, <2>2, <2>4
<1>14. CASE /\ Holding(block, tag) = {} /\ Used(block) = Ways /\ way \in Ways
            /\ \A v \in Ways : block[way].last_used <= block[v].last_used
  <2> DEFINE rest == Without(recent, block[way].tag)
  <2>1. way \in Used(block) /\ n = NUM_WAY
    BY <1>14, UsedFinite
  <2>2. /\ WellUsed(after, count + 1)
        /\ RecentOf(after) = <<PlainOf(element)>> \o rest
    <3>1. Enters(block, Used(block) \ {way}, element, count)
      BY <1>4, <1>12, <1>14 DEF Enters
    <3> HIDE DEF element
    <3> QED BY ONLY <1>5, <2>1, <3>1, Replaces, ZenonT(60)
  <2>3. PICK out \in 1..n : \A k \in 1..n : /\ order[k] = way <=> k = out
                                            /\ recent[k].tag = block[way].tag <=> k = out
    <3>1. /\ count \in Nat /\ WellUsed(block, count) /\ way \in Used(block)
          /\ Ordered(block, order, n)
      BY <1>1, <2>1
    <3> HIDE DEF n
    <3>2. \E out \in 1..n :
            \A k \in 1..n : /\ order[k] = way <=> k = out
                            /\ RecentOf(block)[k].tag = block[way].tag <=> k = out
      BY ONLY <3>1, PlaceOf
    <3> QED BY ONLY <3>2 DEF recent
  <2> HIDE DEF n, recent
  <2>4. out = n
    <3> SUFFICES ASSUME out # n
                 PROVE  FALSE
      OBVIOUS
    <3>1. n \in 1..n /\ out < n
      BY <1>2, <2>3
    <3>2. order[n] \in Used(block) /\ order[out] = way
      BY <1>2, <2>3, <3>1
    <3>3. block[order[n]].last_used < block[way].last_used
      BY <1>2, <3>1, <3>2
    <3>4. block[way].last_used <= block[order[n]].last_used
      BY <1>14, <3>2
    <3>5. block[order[n]].last_used \in Nat /\ block[way].last_used \in Nat
      BY <1>9, <2>1, <3>2
    <3> QED BY ONLY <3>3, <3>4, <3>5
  <2>5. /\ rest \in Seq(Plain) /\ Len(rest) = n - 1
        /\ \A j \in 1..(n - 1) : rest[j] = recent[j]
    <3>1. /\ out \in 1..(Len(recent) + 1) /\ out <= Len(recent)
          /\ \A k \in 1..Len(recent) : recent[k].tag = block[way].tag <=> k = out
      BY <1>2, <1>3, <2>3
    <3>2. /\ rest \in Seq(Plain) /\ Len(rest) = Len(recent) - 1
          /\ \A j \in 1..Len(rest) : rest[j] = IF j < out THEN recent[j] ELSE recent[j + 1]
      BY <1>3, <3>1, WithoutOne
    <3> HIDE DEF rest
    <3> QED BY <1>2, <1>3, <2>4, <3>2
  <2> DEFINE new == <<plain>> \o rest
             kept == SubSeq(all, 1, n)
  <2>6. new \in Seq(Plain) /\ Len(new) = n
        /\ \A k \in 1..n : new[k] = IF k = 1 THEN plain ELSE recent[k - 1]
    <3>1. plain \in Plain
      BY <1>4
    <3> HIDE DEF rest, plain
    <3>2. /\ new \in Seq(Plain) /\ Len(new) = Len(rest) + 1
          /\ \A k \in 1..(Len(rest) + 1) : new[k] = IF k = 1 THEN plain ELSE rest[k - 1]
      BY <2>5, <3>1, HeadedIs
    <3> QED BY <1>2, <2>5, <3>2
  <2>7. all = <<plain>> \o recent
    BY <1>12, <1>14
  <2>8. all \in Seq(Plain) /\ Len(all) = n + 1
        /\ \A k \in 1..n : all[k] = IF k = 1 THEN plain ELSE recent[k - 1]
    <3>1. plain \in Plain
      BY <1>4
    <3>2. recent \in Seq(Plain)
      BY <1>3
    <3> DEFINE longer == <<plain>> \o recent
    <3>3. longer = all
      BY <2>7
    <3> HIDE DEF plain, all
    <3>4. /\ longer \in Seq(Plain) /\ Len(longer) = Len(recent) + 1
          /\ \A k \in 1..(Len(recent) + 1) : longer[k] = IF k = 1 THEN plain ELSE recent[k - 1]
      BY ONLY <3>1, <3>2, HeadedIs
    <3> HIDE DEF longer
    <3>5. Len(recent) + 1 = n + 1 /\ \A k \in 1..n : k \in 1..(Len(recent) + 1)
      BY <1>2, <1>3
    <3> QED BY ONLY <3>3, <3>4, <3>5
  <2> HIDE DEF all, new
  <2>9. kept \in Seq(Plain) /\ Len(kept) = n /\ \A k \in 1..n : kept[k] = all[k]
    <3>1. \A k \in 1..n : all[k] \in Plain
      BY <1>2, <2>8
    <3>2. /\ kept \in Seq(Plain) /\ Len(kept) = (IF 1 <= n THEN n - 1 + 1 ELSE 0)
          /\ \A k \in 1..(n - 1 + 1) : kept[k] = all[1 + k - 1]
      BY <1>2, <2>8, <3>1, SubSeqProperties
    <3> QED BY <1>2, <2>1, <3>2
  <2> HIDE DEF kept
  <2>10. kept = new
    <3>1. \A k \in 1..n : kept[k] = new[k]
      BY <2>6, <2>8, <2>9
    <3> QED BY <2>6, <2>9, <3>1, SeqEqual
  <2>11. Insert(recent, plain, NUM_WAY) = kept
    <3>1. Lesser(Len(all), NUM_WAY) = n
      BY <1>2, <2>1, <2>8 DEF Lesser
    <3> QED BY <1>6, <3>1 DEF kept
  <2> QED BY <1>4, <2>2, <2>10, <2>11 DEF recent, new
<1> QED BY <1>11, <1>13, <1>14 DEF IsTarget

LEMMA StaysUsed ==
  ASSUME NEW count \in Nat, NEW later \in Nat, count <= later, NEW block, WellUsed(block, count)
  PROVE  WellUsed(block, later)
<1>1. Elements(count) \subseteq Elements(later)
  <2>1. 0..count \subseteq 0..later
    OBVIOUS
  <2> QED BY <2>1 DEF Elements
<1> QED BY <1>1 DEF WellUsed

\* All sets, which share the count.
LruInv ==
  /\ lru = [block |-> lru.block, access_count |-> lru.access_count, result |-> lru.result]
  /\ lru.access_count \in Nat /\ lru.block = [s \in Sets |-> lru.block[s]]
  /\ \A s \in Sets : WellUsed(lru.block[s], lru.access_count)

MovedTo(set, after, count, result) ==
  [block |-> [lru.block EXCEPT ![set] = after], access_count |-> count, result |-> result]

LEMMA MoveKeeps ==
  ASSUME LruInv, NEW set \in Sets, NEW count \in Nat, lru.access_count <= count,
         NEW after, WellUsed(after, count), NEW result, lru' = MovedTo(set, after, count, result)
  PROVE  /\ LruInv' /\ lru'.result = result
         /\ Recent' = [Recent EXCEPT ![set] = RecentOf(after)]
<1>1. /\ lru.access_count \in Nat /\ lru.block = [s \in Sets |-> lru.block[s]]
      /\ \A s \in Sets : WellUsed(lru.block[s], lru.access_count)
  BY DEF LruInv
<1>2. /\ lru' = [block |-> lru'.block, access_count |-> lru'.access_count, result |-> lru'.result]
      /\ lru'.access_count = count /\ lru'.result = result
      /\ lru'.block = [lru.block EXCEPT ![set] = after]
  BY DEF MovedTo
<1>3. /\ lru'.block = [s \in Sets |-> lru'.block[s]]
      /\ \A s \in Sets : lru'.block[s] = IF s = set THEN after ELSE lru.block[s]
  BY <1>1, <1>2
<1>4. \A s \in Sets : WellUsed(lru'.block[s], count)
  <2>1. \A s \in Sets : WellUsed(lru.block[s], count)
    BY <1>1, StaysUsed
  <2> QED BY <1>3, <2>1
<1>5. LruInv'
  BY <1>2, <1>3, <1>4 DEF LruInv
<1>6. Recent = [s \in Sets |-> RecentOf(lru.block[s])]
      /\ Recent' = [s \in Sets |-> RecentOf(lru'.block[s])]
  BY DEF Recent
<1>7. Recent' = [Recent EXCEPT ![set] = RecentOf(after)]
  BY ONLY <1>3, <1>6
<1> QED BY <1>2, <1>5, <1>7

LEMMA SetIs ==
  ASSUME NEW index \in Indices
  PROVE  /\ get_set(index) \in Sets
         /\ Promise!SetOf(index) = get_set(index)
         /\ Promise!Sets = Sets
<1> USE LruAssumption
<1>1. index \in Nat /\ NUM_SET \in Nat \ {0}
  BY DEF LruAssumption
<1> QED BY <1>1 DEF get_set, Sets, Promise!SetOf, Promise!Sets

LEMMA SamePromises ==
  \A set, tag :
    /\ Promise!IsIn(set, tag) = IsIn(set, tag)
    /\ Promise!ElementOf(set, tag) = ElementOf(set, tag)
    /\ Promise!Without(set, tag) = Without(set, tag)
    /\ Promise!Touch(set, tag) = Touch(set, tag)
    /\ \A element, ways :
         Promise!Insert(set, element, ways) = Insert(set, element, ways)
BY DEF Promise!IsIn, Promise!ElementOf, Promise!Without,
       Promise!Touch, Promise!Insert, Promise!Matching,
       Promise!Lesser, Promise!Selected,
       IsIn, ElementOf, Without, Touch, Insert,
       Matching, Lesser, Selected

LEMMA TableInitIs ==
  ASSUME LruInit
  PROVE  LruInv /\ Promise!Init
<1> USE LruAssumption
<1> DEFINE empty == [w \in Ways |-> Empty]
           none == [k \in 1..0 |-> 1]
<1>1. lru = [block |-> [s \in Sets |-> empty], access_count |-> 0,
             result |-> Nothing]
  BY DEF LruInit
<1>2. empty \in [Ways -> Elements(0)] /\ Used(empty) = {}
  BY DEF Empty, Elements, AllTags, AllValues, Used
<1> HIDE DEF empty
<1>3. Ordered(empty, none, 0) /\ Cardinality(Used(empty)) = 0
  <2>1. Cardinality(Used(empty)) = 0
    BY <1>2, FS_EmptySet
  <2>2. none \in [1..0 -> Used(empty)]
    OBVIOUS
  <2> HIDE DEF none
  <2> QED BY <1>2, <2>1, <2>2 DEF Ordered
<1>4. WellUsed(empty, 0)
  <2>1. \E order : Ordered(empty, order, Cardinality(Used(empty)))
    BY <1>3
  <2> QED BY ONLY <1>2, <2>1 DEF WellUsed
<1>5. RecentOf(empty) = <<>>
  <2>1. RecentOf(empty) \in Seq(Plain) /\ Len(RecentOf(empty)) = 0
    BY <1>3, <1>4, RecentIs
  <2> QED BY <2>1
<1>6. LruInv
  BY <1>1, <1>4 DEF LruInv
<1>7. Recent = [s \in Sets |-> <<>>]
  <2>1. Recent = [s \in Sets |-> RecentOf(lru.block[s])]
    BY DEF Recent
  <2>2. \A s \in Sets : RecentOf(lru.block[s]) = <<>>
    BY <1>1, <1>5
  <2> QED BY ONLY <2>1, <2>2
<1>8. lru.result = Nothing
  BY <1>1
<1> QED BY <1>6, <1>7, <1>8
        DEF Promise!Init, Promise!Sets, Sets,
            Promise!Nothing, Nothing

\* The ways of the set that an operation works on.
LEMMA WaysAre ==
  ASSUME LruInv, NEW s \in Sets, NEW tag
  PROVE  /\ Valid(s) = Used(lru.block[s])
         /\ Matches(s, tag) = Holding(lru.block[s], tag)
         /\ Matches(s, tag) # {} =>
              Min(Matches(s, tag)) \in Matches(s, tag)
<1>1. Valid(s) = Used(lru.block[s])
  BY DEF Valid, Used
<1>2. Matches(s, tag) = Holding(lru.block[s], tag)
  BY <1>1 DEF Matches, Holding
<1>3. Matches(s, tag) \in SUBSET Nat
  BY <1>2 DEF Holding, Used, Ways
<1>4. Matches(s, tag) # {} =>
        Min(Matches(s, tag)) \in Matches(s, tag)
  <2> DEFINE S == Matches(s, tag)
  <2> HIDE DEF S
  <2>1. S # {} => \E x \in S : \A y \in S : x <= y
    BY <1>3, LeastExists DEF S
  <2>2. S # {} => Min(S) \in S
    BY <2>1 DEF Min
  <2> QED BY <2>2 DEF S
<1> QED BY <1>1, <1>2, <1>4

LEMMA AnswerPromised ==
  ASSUME LruInv, NEW s \in Sets, NEW tag
  PROVE  AnswerOf(s, tag) =
           Promise!Answer(RecentOf(lru.block[s]), tag)
<1> USE LruAssumption
<1> DEFINE block == lru.block[s]
           recent == RecentOf(block)
           found == Min(Matches(s, tag))
<1>1. /\ IsIn(recent, tag) <=> Holding(block, tag) # {}
      /\ \A w \in Holding(block, tag) : ElementOf(recent, tag) = PlainOf(block[w])
  <2>1. lru.access_count \in Nat /\ WellUsed(block, lru.access_count)
    BY DEF LruInv
  <2> HIDE DEF block
  <2> QED BY <2>1, LookupIs
<1>2. /\ Matches(s, tag) = Holding(block, tag)
      /\ Holding(block, tag) # {} => found \in Holding(block, tag)
  BY WaysAre
<1> HIDE DEF found
<1>3. AnswerOf(s, tag) =
        IF Holding(block, tag) = {} THEN Nothing ELSE PlainOf(block[found])
  BY <1>2 DEF AnswerOf, PlainOf, found
<1>4. Promise!Answer(recent, tag) =
        IF IsIn(recent, tag) THEN ElementOf(recent, tag) ELSE Nothing
  BY SamePromises DEF Promise!Answer, Promise!Nothing, Nothing
<1> QED BY <1>1, <1>2, <1>3, <1>4

\* Each operation of the table is the operation of the promise.
LEMMA CheckHitIs ==
  ASSUME LruInv, NEW index \in Indices, NEW tag \in Tags,
         check_hit(index, tag)
  PROVE  LruInv' /\ Promise!check_hit(index, tag)
<1> USE LruAssumption
<1> DEFINE s == get_set(index)
           block == lru.block[s]
           recent == RecentOf(block)
           count == lru.access_count
           found == Min(Matches(s, tag))
           answer == AnswerOf(s, tag)
           hit == Matches(s, tag) # {}
           after == IF hit THEN [block EXCEPT ![found] = [block[found] EXCEPT !.last_used = count + 1]]
                    ELSE block
           next == IF hit THEN count + 1 ELSE count
<1>1. LruAssumption /\ s \in Sets /\ Promise!SetOf(index) = s
      /\ Promise!Sets = Sets
  BY SetIs
<1>2. /\ lru = [block |-> lru.block, access_count |-> count, result |-> lru.result]
      /\ count \in Nat /\ WellUsed(block, count)
      /\ lru.block = [t \in Sets |-> lru.block[t]]
  BY <1>1 DEF LruInv
<1>3. /\ Matches(s, tag) = Holding(block, tag)
      /\ hit => found \in Holding(block, tag)
  BY <1>1, WaysAre
<1> DEFINE refreshed == Refreshed(block[found])
           chosen(b) == IF hit THEN [b EXCEPT ![s][found] = refreshed] ELSE b
<1>4. lru' = [lru EXCEPT !.result = answer, !.access_count = IF hit THEN @ + 1 ELSE @,
                         !.block = chosen(@)]
  BY DEF check_hit
<1>5. answer = Promise!Answer(recent, tag)
  BY <1>1, AnswerPromised
<1> HIDE DEF s, found, answer, hit
<1>6. lru' = MovedTo(s, after, next, answer)
  <2>1. lru' = [block |-> lru'.block, access_count |-> lru'.access_count,
                result |-> lru'.result]
    BY <1>2, <1>4
  <2>2. lru'.result = answer
    BY <1>2, <1>4
  <2>3. lru'.access_count = next
    BY <1>2, <1>4
  <2>4. lru'.block = chosen(lru.block)
    <3> HIDE DEF chosen
    <3> QED BY <1>2, <1>4
  <2>5. lru'.block = [lru.block EXCEPT ![s] = after]
    <3>1. CASE hit
      BY <2>4, <3>1 DEF Refreshed
    <3>2. CASE ~hit
      BY <1>1, <1>2, <2>4, <3>2
    <3> QED BY <3>1, <3>2
  <2> QED BY <2>1, <2>2, <2>3, <2>5 DEF MovedTo
<1>7. next \in Nat /\ count <= next
  BY <1>2
<1>8. /\ WellUsed(after, next)
      /\ RecentOf(after) = Promise!Touch(recent, tag)
  <2>1. CASE hit
    <3>1. next = count + 1 /\ found \in Holding(block, tag)
      BY <1>3, <2>1
    <3>2. after = Placed(block, found, UsedAt(block[found], count + 1))
      BY <2>1 DEF Placed, UsedAt
    <3> HIDE DEF after, next, block, count
    <3>3. /\ WellUsed(after, count + 1)
          /\ RecentOf(after) = Touch(RecentOf(block), tag)
      BY ONLY <1>1, <1>2, <3>1, <3>2, TouchIs
    <3> QED BY <3>1, <3>3, SamePromises DEF recent
  <2>2. CASE ~hit
    <3>1. after = block /\ next = count /\ Holding(block, tag) = {}
      BY <1>3, <2>2 DEF hit
    <3>2. ~IsIn(recent, tag)
      <4> HIDE DEF block, count
      <4> QED BY <1>2, <3>1, LookupIs
    <3>3. Promise!Touch(recent, tag) = recent
      BY <3>2, SamePromises DEF Touch
    <3> QED BY <1>2, <3>1, <3>3
  <2> QED BY <2>1, <2>2
<1> HIDE DEF after, next
<1>9. /\ LruInv' /\ lru'.result = answer
      /\ Recent' = [Recent EXCEPT ![s] = RecentOf(after)]
  BY <1>1, <1>6, <1>7, <1>8, MoveKeeps
<1>10. Recent[s] = recent
  BY <1>1 DEF Recent
<1> HIDE DEF recent
<1> QED BY <1>1, <1>5, <1>8, <1>9, <1>10 DEF Promise!check_hit

LEMMA InvalidateIs ==
  ASSUME LruInv, NEW index \in Indices, NEW tag \in Tags,
         invalidate(index, tag)
  PROVE  LruInv' /\ Promise!invalidate(index, tag)
<1> USE LruAssumption
<1> DEFINE s == get_set(index)
           block == lru.block[s]
           recent == RecentOf(block)
           count == lru.access_count
           found == Min(Matches(s, tag))
           answer == AnswerOf(s, tag)
           hit == Matches(s, tag) # {}
           after == IF hit THEN [block EXCEPT ![found] = Empty] ELSE block
<1>1. LruAssumption /\ s \in Sets /\ Promise!SetOf(index) = s
      /\ Promise!Sets = Sets
  BY SetIs
<1>2. /\ lru = [block |-> lru.block, access_count |-> count, result |-> lru.result]
      /\ count \in Nat /\ WellUsed(block, count)
      /\ lru.block = [t \in Sets |-> lru.block[t]]
  BY <1>1 DEF LruInv
<1>3. /\ Matches(s, tag) = Holding(block, tag)
      /\ hit => found \in Holding(block, tag)
  BY <1>1, WaysAre
<1>4. lru' = [lru EXCEPT
                !.result = answer,
                !.block = IF ~hit THEN @ ELSE [@ EXCEPT ![s][found] = Empty]]
  BY DEF invalidate
<1>5. answer = Promise!Answer(recent, tag)
  BY <1>1, AnswerPromised
<1> HIDE DEF s, found, answer, hit
<1>6. lru' = MovedTo(s, after, count, answer)
  <2>1. CASE hit
    <3>1. after = [block EXCEPT ![found] = Empty]
      BY <2>1
    <3>2. lru' = [lru EXCEPT
                    !.result = answer,
                    !.block = [lru.block EXCEPT ![s][found] = Empty]]
      BY <1>2, <1>4, <2>1
    <3>3. [lru.block EXCEPT ![s][found] = Empty] = [lru.block EXCEPT ![s] = after]
      BY <3>1
    <3> HIDE DEF after
    <3>4. lru' = [lru EXCEPT !.result = answer, !.block = [lru.block EXCEPT ![s] = after]]
      BY <3>2, <3>3
    <3> QED BY <1>2, <3>4 DEF MovedTo
  <2>2. CASE ~hit
    <3>1. lru' = [lru EXCEPT !.result = answer] /\ after = block
      BY <1>2, <1>4, <2>2
    <3>2. lru.block = [lru.block EXCEPT ![s] = block]
      BY <1>1, <1>2
    <3> QED BY <1>2, <3>1, <3>2 DEF MovedTo
  <2> QED BY <2>1, <2>2
<1>7. /\ WellUsed(after, count)
      /\ RecentOf(after) = Promise!Without(recent, tag)
  <2>1. CASE hit
    <3>1. after = Placed(block, found, Empty) /\ found \in Used(block)
          /\ block[found].tag = tag
      BY <1>3, <2>1 DEF Holding, Placed
    <3> HIDE DEF after, block, count
    <3>2. /\ WellUsed(after, count)
          /\ RecentOf(after) = Without(RecentOf(block), tag)
      BY ONLY <1>1, <1>2, <3>1, GoesOut
    <3> QED BY <3>1, <3>2, SamePromises
  <2>2. CASE ~hit
    <3>1. after = block /\ Holding(block, tag) = {}
      BY <1>3, <2>2 DEF hit
    <3>2. Without(recent, tag) = recent
      <4> HIDE DEF block, count
      <4> QED BY <1>2, <3>1, LookupIs
    <3>3. Promise!Without(recent, tag) = recent
      BY <3>2, SamePromises
    <3> QED BY <1>2, <3>1, <3>3
  <2> QED BY <2>1, <2>2
<1> HIDE DEF after
<1>8. /\ LruInv' /\ lru'.result = answer
      /\ Recent' = [Recent EXCEPT ![s] = RecentOf(after)]
  BY <1>1, <1>2, <1>6, <1>7, MoveKeeps
<1>9. Recent[s] = recent
  BY <1>1 DEF Recent
<1> HIDE DEF recent
<1> QED BY <1>1, <1>5, <1>7, <1>8, <1>9 DEF Promise!invalidate

LEMMA FillIs ==
  ASSUME LruInv, NEW index \in Indices, NEW tag \in Tags,
         NEW value \in Values, fill(index, tag, value)
  PROVE  LruInv' /\ Promise!fill(index, tag, value)
<1> USE LruAssumption
<1> DEFINE s == get_set(index)
           block == lru.block[s]
           recent == RecentOf(block)
           count == lru.access_count
           element == [last_used |-> count + 1, tag |-> tag, value |-> value]
<1>1. LruAssumption /\ s \in Sets /\ Promise!SetOf(index) = s
      /\ Promise!Sets = Sets
  BY SetIs
<1>2. /\ lru = [block |-> lru.block, access_count |-> count, result |-> lru.result]
      /\ count \in Nat /\ WellUsed(block, count)
      /\ lru.block = [t \in Sets |-> lru.block[t]]
  BY <1>1 DEF LruInv
<1>3. /\ Matches(s, tag) = Holding(block, tag)
      /\ Valid(s) = Used(block)
  BY <1>1, WaysAre
<1>4. PICK way \in Targets(s, tag) :
        lru' = [lru EXCEPT !.access_count = @ + 1, !.block[s][way] = element]
  BY DEF fill
<1> HIDE DEF s
<1>5. IsTarget(block, tag, way)
  <2>1. CASE Holding(block, tag) # {}
    BY <1>3, <1>4, <2>1 DEF Targets, IsTarget
  <2>2. CASE Holding(block, tag) = {} /\ Used(block) # Ways
    BY <1>3, <1>4, <2>2 DEF Targets, IsTarget
  <2>3. CASE Holding(block, tag) = {} /\ Used(block) = Ways
    BY <1>3, <1>4, <2>3 DEF Targets, IsTarget
  <2> QED BY <2>1, <2>2, <2>3
<1> DEFINE after == [block EXCEPT ![way] = element]
<1>6. lru' = MovedTo(s, after, count + 1, lru.result)
  <2>1. [lru.block EXCEPT ![s][way] = element] = [lru.block EXCEPT ![s] = after]
    OBVIOUS
  <2> HIDE DEF element
  <2>2. lru' = [lru EXCEPT !.access_count = count + 1,
                           !.block = [lru.block EXCEPT ![s][way] = element]]
    BY <1>2, <1>4
  <2> HIDE DEF after
  <2>3. lru' = [lru EXCEPT !.access_count = count + 1,
                           !.block = [lru.block EXCEPT ![s] = after]]
    BY <2>1, <2>2
  <2> QED BY <1>2, <2>3 DEF MovedTo
<1>7. /\ WellUsed(after, count + 1)
      /\ RecentOf(after) =
           Promise!Insert(recent, [tag |-> tag, value |-> value], NUM_WAY)
  <2>1. after = Placed(block, way, ElementWith(count + 1, tag, value))
    BY DEF Placed, ElementWith
  <2>2. tag \in Tags /\ value \in Values
    OBVIOUS
  <2> HIDE DEF after, block, count
  <2>3. /\ WellUsed(after, count + 1)
        /\ RecentOf(after) =
             Insert(RecentOf(block), [tag |-> tag, value |-> value], NUM_WAY)
    BY ONLY <1>1, <1>2, <1>5, <2>1, <2>2, InsertIs
  <2> QED BY <2>3, SamePromises DEF recent
<1> DEFINE next == count + 1
<1>8. next \in Nat /\ count <= next /\ WellUsed(after, next)
      /\ lru' = MovedTo(s, after, next, lru.result)
  BY <1>2, <1>6, <1>7
<1> HIDE DEF after, next
<1>9. /\ LruInv' /\ lru'.result = lru.result
      /\ Recent' = [Recent EXCEPT ![s] = RecentOf(after)]
  BY <1>1, <1>8, MoveKeeps
<1>10. Recent[s] = recent
  BY <1>1 DEF Recent
<1> HIDE DEF recent
<1> QED BY <1>1, <1>7, <1>9, <1>10 DEF Promise!fill

\* The table implements its promise: whatever the sizes, the counts keep the
\* order of use, so every lookup, fill and invalidation answers and replaces as
\* a table in the order of recency would, and none disturbs another set.
THEOREM OrderOfUseKept ==
  LruSpec => ImplementsRecency
<1> USE LruAssumption
<1>1. LruInit => LruInv /\ Promise!Init
  BY TableInitIs
<1>2. LruInv /\ [LruNext]_lru =>
        LruInv' /\ [Promise!Next]_<<Recent, lru.result>>
  <2> SUFFICES ASSUME LruInv, [LruNext]_lru
               PROVE  LruInv' /\ [Promise!Next]_<<Recent, lru.result>>
    OBVIOUS
  <2>1. ASSUME NEW index \in Indices, NEW tag \in Tags, check_hit(index, tag)
        PROVE  LruInv' /\ Promise!Next
    BY <2>1, CheckHitIs DEF Promise!Next
  <2>2. ASSUME NEW index \in Indices, NEW tag \in Tags, invalidate(index, tag)
        PROVE  LruInv' /\ Promise!Next
    BY <2>2, InvalidateIs DEF Promise!Next
  <2>3. ASSUME NEW index \in Indices, NEW tag \in Tags, NEW value \in Values,
               fill(index, tag, value)
        PROVE  LruInv' /\ Promise!Next
    BY <2>3, FillIs DEF Promise!Next
  <2>4. ASSUME UNCHANGED lru
        PROVE  LruInv' /\ UNCHANGED <<Recent, lru.result>>
    BY <2>4 DEF LruInv, Recent
  <2> QED BY <2>1, <2>2, <2>3, <2>4 DEF LruNext
<1> QED BY <1>1, <1>2, PTL
        DEF LruSpec, ImplementsRecency, Promise!Spec
==============================================================================
