------------------------------ MODULE DramProofs ------------------------------
(***************************************************************************)
(* Proofs about DramChannel, for every geometry, every length of the       *)
(* queues, all latencies and any number of requests: reads are kept and    *)
(* answered once, banks and slots refer to each other rightly, and a       *)
(* refresh that is due takes place.                                        *)
(***************************************************************************)
EXTENDS DramChannel, FiniteSetTheorems, CommonFacts

----------------------------------------------------------------------------
(* The inductive invariant *)

Packets ==
  [used : {TRUE}, address : Used, scheduled : BOOLEAN, forward_checked : BOOLEAN,
   instr_depend_on_me : SUBSET Nat]
Queue(size) == [1..size -> Packets \cup {Free}]

\* Where a packet can be.
Places == [queue : {"RQ"}, slot : 1..RQ_SIZE] \cup [queue : {"WQ"}, slot : 1..WQ_SIZE]
BankStates ==
  [valid : BOOLEAN, need_refresh : BOOLEAN, under_refresh : BOOLEAN,
   open_row : {get_row(address) : address \in Used} \cup {NoRow}, wait : Nat,
   pkt : Places \cup {NoPacket}]

ChannelStates ==
  [warmup : BOOLEAN, RQ : Queue(RQ_SIZE), WQ : Queue(WQ_SIZE),
   bank : [Banks -> BankStates], active : Banks \cup {NoBank},
   group : [BankGroups -> Nat], write_mode : BOOLEAN, bus : Nat, refresh : Nat]

TypeOK ==
  /\ stage \in DOMAIN Follows
  /\ ch \in ChannelStates
  /\ reads \in Nat /\ writes \in Nat
  /\ answered \subseteq 1..reads

\* Each read that is not answered is held by one slot, and nothing else is.
ReadsHeld(RQ, WQ, asked, done) ==
  /\ \A k \in Slots(RQ) : RQ[k].instr_depend_on_me \subseteq (1..asked) \ done
  /\ \A j, k \in Slots(RQ) :
       j # k => RQ[j].instr_depend_on_me \cap RQ[k].instr_depend_on_me = {}
  /\ \A i \in (1..asked) \ done : \E k \in Slots(RQ) : i \in RQ[k].instr_depend_on_me
  /\ \A k \in Slots(WQ) : WQ[k].instr_depend_on_me = {}

\* What is scheduled has been checked, and once the calls of a cycle are past
\* the check, so has all that is there.
CheckedQueue(queue, now) ==
  \A k \in Slots(queue) :
    queue[k].scheduled \/ now \notin {"start", "check"} => queue[k].forward_checked

\* In the warmup, no bank serves, and nothing is queued while a cycle runs.
WarmupIdle ==
  ch.warmup =>
    /\ \A b \in Banks : ~ch.bank[b].valid
    /\ ch.active = NoBank
    /\ stage # "start" => Slots(ch.RQ) = {} /\ Slots(ch.WQ) = {}

\* A bank that serves is not refreshed, and until the calls of a cycle are past
\* the refreshes, only a bank that serves has one due.
RefreshesDue ==
  \A b \in Banks :
    /\ ch.bank[b].valid => ~ch.bank[b].under_refresh
    /\ stage \in {"populate", "serve"} /\ ch.bank[b].need_refresh => ch.bank[b].valid

Serves(bank, RQ, WQ, b) ==
  LET slot == IF bank[b].pkt.queue = "RQ" THEN RQ[bank[b].pkt.slot] ELSE WQ[bank[b].pkt.slot]
  IN  /\ bank[b].pkt \in Places
      /\ slot.used /\ slot.scheduled
      /\ bank_request_index(slot.address) = b
      /\ bank[b].open_row = get_row(slot.address)

Served(bank, queue, name) ==
  \A k \in Slots(queue) :
    queue[k].scheduled =>
      \E b \in Banks : bank[b].valid /\ bank[b].pkt = [queue |-> name, slot |-> k]

Matched(bank, RQ, WQ, active) ==
  /\ \A b \in Banks : bank[b].valid => Serves(bank, RQ, WQ, b)
  /\ Served(bank, RQ, "RQ") /\ Served(bank, WQ, "WQ")
  /\ active # NoBank => bank[active].valid

IInv ==
  /\ TypeOK
  /\ ReadsHeld(ch.RQ, ch.WQ, reads, answered)
  /\ CheckedQueue(ch.RQ, stage) /\ CheckedQueue(ch.WQ, stage)
  /\ WarmupIdle
  /\ RefreshesDue
  /\ Matched(ch.bank, ch.RQ, ch.WQ, ch.active)

----------------------------------------------------------------------------
(* Slots *)

LEMMA SlotFacts ==
  ASSUME NEW n, NEW queue \in Queue(n)
  PROVE  /\ Slots(queue) = {k \in 1..n : queue[k] \in Packets}
         /\ Empty(queue) = {k \in 1..n : queue[k] = Free}
         /\ \A k \in Slots(queue) :
              /\ k \in 1..n /\ queue[k] \in Packets
              /\ queue[k].used /\ queue[k].address \in Used
              /\ queue[k].instr_depend_on_me \in SUBSET Nat
<1>1. ASSUME NEW k \in 1..n
      PROVE  queue[k] \in Packets \/ queue[k] = Free
  BY DEF Queue
<1>2. Free.used = FALSE
  BY DEF Free
<1>3. ASSUME NEW packet \in Packets
      PROVE  /\ packet.used /\ packet # Free
             /\ packet.address \in Used /\ packet.instr_depend_on_me \in SUBSET Nat
  BY <1>2 DEF Packets
<1>4. DOMAIN queue = 1..n
  BY DEF Queue
<1> QED BY <1>1, <1>2, <1>3, <1>4 DEF Slots, Empty

LEMMA MinIsIn ==
  ASSUME NEW S \in SUBSET Nat, S # {}
  PROVE  Min(S) \in S /\ \A x \in S : Min(S) <= x
BY LeastExists DEF Min

LEMMA PacketType ==
  ASSUME NEW address \in Used, NEW ids \in SUBSET Nat
  PROVE  Packet(address, ids) \in Packets
BY DEF Packet, Packets

\* What a change of one slot leaves.
LEMMA SlotsOfChange ==
  ASSUME NEW n, NEW before \in Queue(n), NEW at \in 1..n, NEW into \in Packets \cup {Free}
  PROVE  /\ [before EXCEPT ![at] = into] \in Queue(n)
         /\ into = Free => Slots([before EXCEPT ![at] = into]) = Slots(before) \ {at}
         /\ into # Free => Slots([before EXCEPT ![at] = into]) = Slots(before) \cup {at}
<1> DEFINE after == [before EXCEPT ![at] = into]
<1>1. after \in Queue(n)
  BY DEF Queue
<1>2. \A j \in 1..n : after[j] = IF j = at THEN into ELSE before[j]
  BY DEF Queue
<1> HIDE DEF after
<1>3. Slots(after) = {j \in 1..n : after[j] \in Packets}
  BY <1>1, SlotFacts
<1>4. Slots(before) = {j \in 1..n : before[j] \in Packets}
  BY SlotFacts
<1>5. Free \notin Packets
  BY DEF Free, Packets
<1> QED BY <1>1, <1>2, <1>3, <1>4, <1>5 DEF after

\* What the type says of the parts of the channel.
LEMMA Parts ==
  ASSUME TypeOK
  PROVE  /\ ch.RQ \in Queue(RQ_SIZE) /\ ch.WQ \in Queue(WQ_SIZE)
         /\ ch.bank \in [Banks -> BankStates] /\ ch.active \in Banks \cup {NoBank}
         /\ ch.group \in [BankGroups -> Nat]
         /\ ch.warmup \in BOOLEAN /\ ch.write_mode \in BOOLEAN
         /\ ch.bus \in Nat /\ ch.refresh \in Nat
BY DEF TypeOK, ChannelStates

LEMMA BankParts ==
  ASSUME NEW bank \in BankStates
  PROVE  /\ bank.valid \in BOOLEAN /\ bank.need_refresh \in BOOLEAN
         /\ bank.under_refresh \in BOOLEAN /\ bank.wait \in Nat
         /\ bank.pkt \in Places \cup {NoPacket}
BY DEF BankStates

LEMMA InitInv == Init => IInv
<1> SUFFICES ASSUME Init PROVE IInv
  OBVIOUS
<1> USE DEF Init
<1>1. IdleBank \in BankStates
  BY DEF IdleBank, BankStates
<1>2. tREF \in Nat
  BY DramAssumption
<1>3. TypeOK
  <2>1. ch.RQ \in Queue(RQ_SIZE) /\ ch.WQ \in Queue(WQ_SIZE)
    BY DEF Queue
  <2>2. ch.bank \in [Banks -> BankStates] /\ ch.group \in [BankGroups -> Nat]
    BY <1>1
  <2>3. stage \in DOMAIN Follows
    BY DEF Follows
  <2> QED BY <1>2, <2>1, <2>2, <2>3 DEF TypeOK, ChannelStates
<1>4. Slots(ch.RQ) = {} /\ Slots(ch.WQ) = {}
  BY DEF Slots, Free
<1>5. \A b \in Banks : ~ch.bank[b].valid /\ ~ch.bank[b].need_refresh
  BY DEF IdleBank
<1>6. ch.active = NoBank /\ stage = "start" /\ reads = 0 /\ answered = {}
  OBVIOUS
<1>7. ReadsHeld(ch.RQ, ch.WQ, reads, answered)
  <2>1. 1..reads = {}
    BY <1>6
  <2> QED BY <1>4, <2>1 DEF ReadsHeld
<1>8. CheckedQueue(ch.RQ, stage) /\ CheckedQueue(ch.WQ, stage)
  BY <1>4 DEF CheckedQueue
<1>9. WarmupIdle /\ RefreshesDue
  BY <1>5, <1>6 DEF WarmupIdle, RefreshesDue
<1>10. Matched(ch.bank, ch.RQ, ch.WQ, ch.active)
  BY <1>4, <1>5, <1>6 DEF Matched, Served
<1> QED BY <1>3, <1>7, <1>8, <1>9, <1>10 DEF IInv


----------------------------------------------------------------------------
(* What changes of the slots and of the banks leave *)

\* Changes that keep what slots hold for whom keep the reads.
LEMMA ReadsHeldKept ==
  ASSUME NEW RQ, NEW WQ, NEW RQ2, NEW WQ2, NEW asked, NEW done,
         ReadsHeld(RQ, WQ, asked, done),
         Slots(RQ2) = Slots(RQ),
         \A k \in Slots(RQ) : RQ2[k].instr_depend_on_me = RQ[k].instr_depend_on_me,
         Slots(WQ2) \subseteq Slots(WQ),
         \A k \in Slots(WQ2) : WQ2[k].instr_depend_on_me = WQ[k].instr_depend_on_me
  PROVE  ReadsHeld(RQ2, WQ2, asked, done)
BY Zenon DEF ReadsHeld

\* A slot that becomes free, its reads answered.
LEMMA ReadsHeldAnswered ==
  ASSUME NEW RQ, NEW WQ, NEW RQ2, NEW asked, NEW done, NEW k \in Slots(RQ),
         ReadsHeld(RQ, WQ, asked, done),
         Slots(RQ2) = Slots(RQ) \ {k},
         \A j \in Slots(RQ) \ {k} : RQ2[j] = RQ[j]
  PROVE  ReadsHeld(RQ2, WQ, asked, done \cup RQ[k].instr_depend_on_me)
<1>1. ASSUME NEW i \in (1..asked) \ (done \cup RQ[k].instr_depend_on_me)
      PROVE  \E j \in Slots(RQ2) : i \in RQ2[j].instr_depend_on_me
  <2>1. PICK j \in Slots(RQ) : i \in RQ[j].instr_depend_on_me
    BY DEF ReadsHeld
  <2> QED BY <1>1, <2>1
<1>2. ASSUME NEW j \in Slots(RQ2)
      PROVE  RQ2[j].instr_depend_on_me \subseteq
               (1..asked) \ (done \cup RQ[k].instr_depend_on_me)
  <2>1. j \in Slots(RQ) /\ j # k /\ RQ2[j] = RQ[j]
    OBVIOUS
  <2>2. RQ[j].instr_depend_on_me \cap RQ[k].instr_depend_on_me = {}
    BY <2>1 DEF ReadsHeld
  <2> QED BY <2>1, <2>2 DEF ReadsHeld
<1> QED BY <1>1, <1>2 DEF ReadsHeld

Busy(queue, k) == queue[k].used /\ queue[k].scheduled

LEMMA MatchedKept ==
  ASSUME NEW RQ \in Queue(RQ_SIZE), NEW WQ \in Queue(WQ_SIZE), NEW bank, NEW active,
         NEW RQ2 \in Queue(RQ_SIZE), NEW WQ2 \in Queue(WQ_SIZE),
         NEW bank2, NEW active2,
         Matched(bank, RQ, WQ, active),
         \A k \in 1..RQ_SIZE :
           /\ Busy(RQ2, k) <=> Busy(RQ, k)
           /\ Busy(RQ, k) => RQ2[k].address = RQ[k].address,
         \A k \in 1..WQ_SIZE :
           /\ Busy(WQ2, k) <=> Busy(WQ, k)
           /\ Busy(WQ, k) => WQ2[k].address = WQ[k].address,
         \A b \in Banks :
           /\ bank2[b].valid <=> bank[b].valid
           /\ bank[b].valid => /\ bank2[b].pkt = bank[b].pkt
                               /\ bank2[b].open_row = bank[b].open_row,
         active2 # NoBank => bank2[active2].valid
  PROVE  Matched(bank2, RQ2, WQ2, active2)
<1>1. ASSUME NEW b \in Banks, bank2[b].valid
      PROVE  Serves(bank2, RQ2, WQ2, b)
  <2>1. Serves(bank, RQ, WQ, b) /\ bank2[b].pkt = bank[b].pkt
          /\ bank2[b].open_row = bank[b].open_row
    BY <1>1 DEF Matched
  <2>2. CASE bank[b].pkt.queue = "RQ"
    <3>1. bank[b].pkt.slot \in 1..RQ_SIZE /\ Busy(RQ, bank[b].pkt.slot)
      BY <2>1, <2>2 DEF Serves, Places, Busy
    <3>2. Busy(RQ2, bank[b].pkt.slot)
            /\ RQ2[bank[b].pkt.slot].address = RQ[bank[b].pkt.slot].address
      BY <3>1
    <3> QED BY <2>1, <2>2, <3>2 DEF Serves, Busy
  <2>3. CASE bank[b].pkt.queue # "RQ"
    <3>1. bank[b].pkt.slot \in 1..WQ_SIZE /\ Busy(WQ, bank[b].pkt.slot)
      BY <2>1, <2>3 DEF Serves, Places, Busy
    <3>2. Busy(WQ2, bank[b].pkt.slot)
            /\ WQ2[bank[b].pkt.slot].address = WQ[bank[b].pkt.slot].address
      BY <3>1
    <3> QED BY <2>1, <2>3, <3>2 DEF Serves, Busy
  <2> QED BY <2>2, <2>3
<1>2. Served(bank2, RQ2, "RQ")
  <2>1. ASSUME NEW k \in Slots(RQ2), RQ2[k].scheduled
        PROVE  \E b \in Banks : bank2[b].valid /\ bank2[b].pkt = [queue |-> "RQ", slot |-> k]
    <3>1. k \in 1..RQ_SIZE /\ Busy(RQ, k)
      BY <2>1, SlotFacts DEF Busy
    <3>2. k \in Slots(RQ) /\ RQ[k].scheduled
      BY <3>1 DEF Busy, Slots, Queue
    <3>3. PICK b \in Banks : bank[b].valid /\ bank[b].pkt = [queue |-> "RQ", slot |-> k]
      BY <3>2 DEF Matched, Served
    <3> QED BY <3>3
  <2> QED BY <2>1 DEF Served
<1>3. Served(bank2, WQ2, "WQ")
  <2>1. ASSUME NEW k \in Slots(WQ2), WQ2[k].scheduled
        PROVE  \E b \in Banks : bank2[b].valid /\ bank2[b].pkt = [queue |-> "WQ", slot |-> k]
    <3>1. k \in 1..WQ_SIZE /\ Busy(WQ, k)
      BY <2>1, SlotFacts DEF Busy
    <3>2. k \in Slots(WQ) /\ WQ[k].scheduled
      BY <3>1 DEF Busy, Slots, Queue
    <3>3. PICK b \in Banks : bank[b].valid /\ bank[b].pkt = [queue |-> "WQ", slot |-> k]
      BY <3>2 DEF Matched, Served
    <3> QED BY <3>3
  <2> QED BY <2>1 DEF Served
<1> QED BY <1>1, <1>2, <1>3 DEF Matched

\* The case in which only one slot changes, and not while a bank serves it.
LEMMA ChangeKeepsMatched ==
  ASSUME NEW queue, NEW k, NEW packet, NEW n, queue \in Queue(n), k \in 1..n,
         packet \in Packets \cup {Free},
         ~Busy(queue, k), ~(packet.used /\ packet.scheduled)
  PROVE  \A j \in 1..n :
           /\ Busy([queue EXCEPT ![k] = packet], j) <=> Busy(queue, j)
           /\ Busy(queue, j) => [queue EXCEPT ![k] = packet][j].address = queue[j].address
<1> DEFINE new == [queue EXCEPT ![k] = packet]
<1>1. \A j \in 1..n : new[j] = IF j = k THEN packet ELSE queue[j]
  BY DEF Queue
<1> HIDE DEF new
<1>2. ASSUME NEW j \in 1..n
      PROVE  (Busy(new, j) <=> Busy(queue, j))
               /\ (Busy(queue, j) => new[j].address = queue[j].address)
  <2>1. CASE j = k
    BY <1>1, <2>1 DEF Busy
  <2>2. CASE j # k
    BY <1>1, <2>2 DEF Busy
  <2> QED BY <2>1, <2>2
<1> QED BY <1>2 DEF new


----------------------------------------------------------------------------
(* Requests, and the beginning of the phase *)

\* What an empty slot is.
LEMMA EmptySlot ==
  ASSUME NEW n \in Nat, NEW queue \in Queue(n), Empty(queue) # {}
  PROVE  /\ Min(Empty(queue)) \in 1..n
         /\ queue[Min(Empty(queue))] = Free
         /\ Min(Empty(queue)) \notin Slots(queue)
         /\ ~Busy(queue, Min(Empty(queue)))
<1>1. Empty(queue) \in SUBSET Nat
  BY SlotFacts
<1>2. Min(Empty(queue)) \in Empty(queue)
  BY <1>1, MinIsIn
<1> QED BY <1>2, SlotFacts DEF Free, Busy, Slots

LEMMA AddReadStep ==
  ASSUME IInv, NEW address \in Used, add_rq(address)
  PROVE  IInv'
<1> DEFINE k == Min(Empty(ch.RQ))
           packet == Packet(address, {reads'})
           new == [ch.RQ EXCEPT ![k] = packet]
<1>1. /\ reads' = reads + 1 /\ reads \in Nat /\ reads' \in Nat
      /\ stage = "start" /\ stage' = stage /\ writes' = writes /\ answered' = answered
      /\ ch' = [ch EXCEPT !.RQ = new]
  BY DEF add_rq, IInv, TypeOK, ChannelStates
<1>2. /\ ch.RQ \in Queue(RQ_SIZE) /\ ch.WQ \in Queue(WQ_SIZE) /\ ch \in ChannelStates
      /\ RQ_SIZE \in Nat
  BY Parts, DramAssumption DEF IInv, TypeOK
<1>3. k \in 1..RQ_SIZE /\ k \notin Slots(ch.RQ) /\ ~Busy(ch.RQ, k)
  BY <1>2, EmptySlot DEF add_rq
<1>4. /\ packet \in Packets /\ packet # Free
      /\ ~(packet.used /\ packet.scheduled) /\ ~packet.scheduled
      /\ packet.instr_depend_on_me = {reads'}
  BY <1>1, PacketType DEF Packet, Packets, Free
<1> HIDE DEF k, packet
<1>5. new \in Queue(RQ_SIZE) /\ Slots(new) = Slots(ch.RQ) \cup {k}
  BY <1>2, <1>3, <1>4, SlotsOfChange
<1>6. \A j \in 1..RQ_SIZE : new[j] = IF j = k THEN packet ELSE ch.RQ[j]
  BY <1>2 DEF Queue
<1>7. Slots(ch.RQ) \subseteq 1..RQ_SIZE
  BY <1>2, SlotFacts
<1>8. /\ ch'.RQ = new /\ ch'.WQ = ch.WQ /\ ch'.bank = ch.bank /\ ch'.active = ch.active
      /\ ch'.warmup = ch.warmup
  BY <1>1, <1>2 DEF ChannelStates
<1>9. \A j \in 1..RQ_SIZE : /\ Busy(new, j) <=> Busy(ch.RQ, j)
                            /\ Busy(ch.RQ, j) => new[j].address = ch.RQ[j].address
  BY <1>2, <1>3, <1>4, ChangeKeepsMatched
<1> HIDE DEF new
<1>10. TypeOK'
  <2>1. ch' \in ChannelStates
    BY <1>1, <1>2, <1>5 DEF ChannelStates
  <2>2. answered \subseteq 1..reads'
    BY <1>1 DEF IInv, TypeOK
  <2> QED BY <1>1, <2>1, <2>2 DEF IInv, TypeOK
<1>11. ReadsHeld(new, ch.WQ, reads', answered)
  <2>1. reads' \in (1..reads') \ answered /\ 1..reads' = 1..reads \cup {reads'}
          /\ reads' \notin 1..reads
    BY <1>1 DEF IInv, TypeOK
  <2>2. ReadsHeld(ch.RQ, ch.WQ, reads, answered)
    BY DEF IInv
  <2>3. \A j \in Slots(ch.RQ) : ch.RQ[j].instr_depend_on_me \subseteq (1..reads) \ answered
    BY <2>2 DEF ReadsHeld
  <2>4. /\ new[k] = packet
        /\ \A j \in Slots(ch.RQ) : new[j] = ch.RQ[j]
    BY <1>3, <1>6, <1>7
  <2>5. ASSUME NEW i \in (1..reads') \ answered
        PROVE  \E j \in Slots(new) : i \in new[j].instr_depend_on_me
    <3>1. CASE i = reads'
      BY <1>4, <1>5, <2>4, <3>1
    <3>2. CASE i # reads'
      <4>1. PICK j \in Slots(ch.RQ) : i \in ch.RQ[j].instr_depend_on_me
        BY <2>1, <2>2, <3>2 DEF ReadsHeld
      <4> QED BY <1>5, <2>4, <4>1
    <3> QED BY <3>1, <3>2
  <2>6. \A j \in Slots(new) : new[j].instr_depend_on_me \subseteq (1..reads') \ answered
    BY <1>4, <1>5, <2>1, <2>3, <2>4
  <2>7. ASSUME NEW i \in Slots(new), NEW j \in Slots(new), i # j
        PROVE  new[i].instr_depend_on_me \cap new[j].instr_depend_on_me = {}
    <3>1. CASE i \in Slots(ch.RQ) /\ j \in Slots(ch.RQ)
      <4>1. ch.RQ[i].instr_depend_on_me \cap ch.RQ[j].instr_depend_on_me = {}
        BY <2>2, <2>7, <3>1 DEF ReadsHeld
      <4> QED BY <2>4, <3>1, <4>1
    <3>2. CASE i = k
      BY <1>4, <1>5, <2>1, <2>3, <2>4, <2>7, <3>2
    <3>3. CASE j = k
      BY <1>4, <1>5, <2>1, <2>3, <2>4, <2>7, <3>3
    <3> QED BY <1>5, <3>1, <3>2, <3>3
  <2> QED BY <2>2, <2>5, <2>6, <2>7 DEF ReadsHeld
<1>12. CheckedQueue(new, stage')
  BY <1>1, <1>3, <1>4, <1>5, <1>6, <1>7 DEF IInv, CheckedQueue
<1>13. WarmupIdle' /\ RefreshesDue'
  BY <1>1, <1>8 DEF IInv, WarmupIdle, RefreshesDue
<1>14. Matched(ch.bank, new, ch.WQ, ch.active)
  <2>1. Matched(ch.bank, ch.RQ, ch.WQ, ch.active)
    BY DEF IInv
  <2>2. ch.active # NoBank => ch.bank[ch.active].valid
    BY <2>1 DEF Matched
  <2> QED BY <1>2, <1>5, <1>9, <2>1, <2>2, MatchedKept
<1> QED BY <1>1, <1>8, <1>10, <1>11, <1>12, <1>13, <1>14 DEF IInv

LEMMA AddWriteStep ==
  ASSUME IInv, NEW address \in Used, add_wq(address)
  PROVE  IInv'
<1> DEFINE k == Min(Empty(ch.WQ))
           packet == Packet(address, {})
           new == [ch.WQ EXCEPT ![k] = packet]
<1>1. /\ writes' \in Nat
      /\ stage = "start" /\ stage' = stage /\ reads' = reads /\ answered' = answered
      /\ ch' = [ch EXCEPT !.WQ = new]
  BY DEF add_wq, IInv, TypeOK, ChannelStates
<1>2. /\ ch.RQ \in Queue(RQ_SIZE) /\ ch.WQ \in Queue(WQ_SIZE) /\ ch \in ChannelStates
      /\ WQ_SIZE \in Nat
  BY Parts, DramAssumption DEF IInv, TypeOK
<1>3. k \in 1..WQ_SIZE /\ k \notin Slots(ch.WQ) /\ ~Busy(ch.WQ, k)
  BY <1>2, EmptySlot DEF add_wq
<1>4. /\ packet \in Packets /\ packet # Free
      /\ ~(packet.used /\ packet.scheduled) /\ ~packet.scheduled
      /\ packet.instr_depend_on_me = {}
  BY PacketType DEF Packet, Packets, Free
<1> HIDE DEF k, packet
<1>5. new \in Queue(WQ_SIZE) /\ Slots(new) = Slots(ch.WQ) \cup {k}
  BY <1>2, <1>3, <1>4, SlotsOfChange
<1>6. \A j \in 1..WQ_SIZE : new[j] = IF j = k THEN packet ELSE ch.WQ[j]
  BY <1>2 DEF Queue
<1>7. Slots(ch.WQ) \subseteq 1..WQ_SIZE
  BY <1>2, SlotFacts
<1>8. /\ ch'.RQ = ch.RQ /\ ch'.WQ = new /\ ch'.bank = ch.bank /\ ch'.active = ch.active
      /\ ch'.warmup = ch.warmup
  BY <1>1, <1>2 DEF ChannelStates
<1>9. \A j \in 1..WQ_SIZE : /\ Busy(new, j) <=> Busy(ch.WQ, j)
                            /\ Busy(ch.WQ, j) => new[j].address = ch.WQ[j].address
  BY <1>2, <1>3, <1>4, ChangeKeepsMatched
<1> HIDE DEF new
<1>10. TypeOK'
  <2>1. ch' \in ChannelStates
    BY <1>1, <1>2, <1>5 DEF ChannelStates
  <2> QED BY <1>1, <2>1 DEF IInv, TypeOK
<1>11. ReadsHeld(ch.RQ, new, reads, answered)
  BY <1>3, <1>4, <1>5, <1>6, <1>7 DEF IInv, ReadsHeld
<1>12. CheckedQueue(new, stage')
  BY <1>1, <1>3, <1>4, <1>5, <1>6, <1>7 DEF IInv, CheckedQueue
<1>13. WarmupIdle' /\ RefreshesDue'
  BY <1>1, <1>8 DEF IInv, WarmupIdle, RefreshesDue
<1>14. Matched(ch.bank, ch.RQ, new, ch.active)
  <2>1. Matched(ch.bank, ch.RQ, ch.WQ, ch.active)
    BY DEF IInv
  <2>2. ch.active # NoBank => ch.bank[ch.active].valid
    BY <2>1 DEF Matched
  <2> QED BY <1>2, <1>5, <1>9, <2>1, <2>2, MatchedKept
<1> QED BY <1>1, <1>8, <1>10, <1>11, <1>12, <1>13, <1>14 DEF IInv

LEMMA BeginPhaseStep ==
  ASSUME IInv, BeginPhase
  PROVE  IInv'
<1>1. /\ stage' = stage /\ reads' = reads /\ writes' = writes /\ answered' = answered
      /\ ch' = [ch EXCEPT !.warmup = FALSE] /\ ch \in ChannelStates
  BY DEF BeginPhase, IInv, TypeOK
<1>2. ch' \in ChannelStates
  BY <1>1 DEF ChannelStates
<1>3. /\ ch'.RQ = ch.RQ /\ ch'.WQ = ch.WQ /\ ch'.bank = ch.bank /\ ch'.active = ch.active
      /\ ~ch'.warmup
  BY <1>1 DEF ChannelStates
<1>4. TypeOK' /\ WarmupIdle' /\ RefreshesDue'
  BY <1>1, <1>2, <1>3 DEF IInv, TypeOK, WarmupIdle, RefreshesDue
<1> QED BY <1>1, <1>3, <1>4 DEF IInv


----------------------------------------------------------------------------
(* A cycle: the warmup, and the collisions *)

\* The stages, and what they are not.
LEMMA StartStep ==
  ASSUME IInv, StartCycle
  PROVE  IInv'
<1>1. /\ stage = "start" /\ stage' = "check" /\ reads' = reads /\ writes' = writes
      /\ ch \in ChannelStates /\ TypeOK
  BY DEF StartCycle, Call, Follows, IInv, TypeOK
<1>2. ch.RQ \in Queue(RQ_SIZE) /\ ch.WQ \in Queue(WQ_SIZE)
  BY <1>1, Parts
<1>3. CASE ~ch.warmup
  <2>1. ch' = ch /\ answered' = answered
    BY <1>3 DEF StartCycle
  <2>2. TypeOK'
    BY <1>1, <2>1 DEF TypeOK, Follows
  <2>3. WarmupIdle' /\ RefreshesDue'
    BY <1>1, <1>3, <2>1 DEF IInv, WarmupIdle, RefreshesDue
  <2>4. CheckedQueue(ch.RQ, "check") /\ CheckedQueue(ch.WQ, "check")
    BY <1>1 DEF IInv, CheckedQueue
  <2> QED BY <1>1, <2>1, <2>2, <2>3, <2>4 DEF IInv
<1>4. CASE ch.warmup
  <2> DEFINE RQ2 == [k \in 1..RQ_SIZE |-> Free]
             WQ2 == [k \in 1..WQ_SIZE |-> Free]
  <2>1. /\ ch' = [ch EXCEPT !.RQ = RQ2, !.WQ = WQ2]
        /\ answered' = answered \cup UNION {ch.RQ[k].instr_depend_on_me : k \in Slots(ch.RQ)}
    BY <1>4 DEF StartCycle
  <2>2. /\ RQ2 \in Queue(RQ_SIZE) /\ WQ2 \in Queue(WQ_SIZE)
        /\ Slots(RQ2) = {} /\ Slots(WQ2) = {}
        /\ \A k \in 1..RQ_SIZE : ~RQ2[k].used
        /\ \A k \in 1..WQ_SIZE : ~WQ2[k].used
    BY DEF Queue, Slots, Free
  <2> HIDE DEF RQ2, WQ2
  <2>3. /\ ch' \in ChannelStates /\ ch'.RQ = RQ2 /\ ch'.WQ = WQ2 /\ ch'.bank = ch.bank
        /\ ch'.active = ch.active /\ ch'.warmup = ch.warmup
    BY <1>1, <2>1, <2>2 DEF ChannelStates
  <2>4. answered' = 1..reads
    <3>1. \A k \in Slots(ch.RQ) : ch.RQ[k].instr_depend_on_me \subseteq 1..reads
      BY DEF IInv, ReadsHeld
    <3>2. \A i \in (1..reads) \ answered :
            \E k \in Slots(ch.RQ) : i \in ch.RQ[k].instr_depend_on_me
      BY DEF IInv, ReadsHeld
    <3>3. answered \subseteq 1..reads
      BY DEF IInv, TypeOK
    <3> QED BY <2>1, <3>1, <3>2, <3>3
  <2>5. ReadsHeld(RQ2, WQ2, reads, answered')
    BY <2>2, <2>4 DEF ReadsHeld
  <2>6. CheckedQueue(RQ2, stage') /\ CheckedQueue(WQ2, stage')
    BY <2>2 DEF CheckedQueue
  <2>7. WarmupIdle' /\ RefreshesDue'
    BY <1>1, <1>4, <2>2, <2>3 DEF IInv, WarmupIdle, RefreshesDue
  <2>8. Matched(ch.bank, RQ2, WQ2, ch.active)
    BY <1>4, <2>2 DEF IInv, WarmupIdle, Matched, Served
  <2>9. TypeOK'
    BY <1>1, <2>3, <2>4 DEF TypeOK, Follows
  <2> QED BY <1>1, <2>3, <2>5, <2>6, <2>7, <2>8, <2>9 DEF IInv
<1> QED BY <1>3, <1>4

\* The least of the slots that are not checked.
LEMMA UncheckedSlot ==
  ASSUME NEW n \in Nat, NEW queue \in Queue(n), Unchecked(queue) # {},
         NEW now, CheckedQueue(queue, now)
  PROVE  /\ Min(Unchecked(queue)) \in Slots(queue) /\ Min(Unchecked(queue)) \in 1..n
         /\ ~queue[Min(Unchecked(queue))].forward_checked
         /\ ~queue[Min(Unchecked(queue))].scheduled
         /\ ~Busy(queue, Min(Unchecked(queue)))
         /\ [queue[Min(Unchecked(queue))] EXCEPT !.forward_checked = TRUE] \in Packets
<1> DEFINE k == Min(Unchecked(queue))
<1>1. Slots(queue) \subseteq 1..n /\ \A j \in Slots(queue) : queue[j] \in Packets
  BY SlotFacts
<1>2. Unchecked(queue) \in SUBSET Nat
  BY <1>1 DEF Unchecked
<1>3. k \in Unchecked(queue)
  BY <1>2, MinIsIn
<1> HIDE DEF k
<1>4. k \in Slots(queue) /\ ~queue[k].forward_checked
  BY <1>3 DEF Unchecked
<1>5. ~queue[k].scheduled
  BY <1>4 DEF CheckedQueue
<1>6. [queue[k] EXCEPT !.forward_checked = TRUE] \in Packets
  BY <1>1, <1>4 DEF Packets
<1> QED BY <1>1, <1>4, <1>5, <1>6 DEF Busy, k

\* A packet that is marked as checked.
LEMMA MarkKeeps ==
  ASSUME NEW n, NEW queue \in Queue(n), NEW k \in Slots(queue), NEW now,
         ~Busy(queue, k), CheckedQueue(queue, now),
         [queue[k] EXCEPT !.forward_checked = TRUE] \in Packets
  PROVE  LET new == [queue EXCEPT ![k].forward_checked = TRUE]
         IN  /\ new \in Queue(n) /\ Slots(new) = Slots(queue)
             /\ \A j \in Slots(queue) :
                  new[j].instr_depend_on_me = queue[j].instr_depend_on_me
             /\ CheckedQueue(new, now)
             /\ \A j \in 1..n : /\ Busy(new, j) <=> Busy(queue, j)
                                /\ Busy(queue, j) => new[j].address = queue[j].address
<1> DEFINE packet == [queue[k] EXCEPT !.forward_checked = TRUE]
           new == [queue EXCEPT ![k] = packet]
<1>1. /\ Slots(queue) \subseteq 1..n /\ k \in 1..n /\ queue[k] \in Packets
      /\ queue[k].used
  BY SlotFacts
<1>2. /\ packet.instr_depend_on_me = queue[k].instr_depend_on_me
      /\ packet.forward_checked
      /\ packet.scheduled = queue[k].scheduled
      /\ packet # Free /\ packet \in Packets
  BY <1>1 DEF Packets, Free
<1>3. new = [queue EXCEPT ![k].forward_checked = TRUE]
  BY DEF Queue
<1>4. ~(packet.used /\ packet.scheduled)
  BY <1>1, <1>2 DEF Busy
<1> HIDE DEF packet
<1>5. new \in Queue(n) /\ Slots(new) = Slots(queue)
  <2>1. new \in Queue(n)
    BY <1>1, <1>2, SlotsOfChange
  <2>2. Slots(new) = Slots(queue) \cup {k}
    BY <1>1, <1>2, SlotsOfChange
  <2> QED BY <2>1, <2>2
<1>6. \A j \in 1..n : new[j] = IF j = k THEN packet ELSE queue[j]
  BY DEF Queue
<1>7. \A j \in 1..n : /\ Busy(new, j) <=> Busy(queue, j)
                      /\ Busy(queue, j) => new[j].address = queue[j].address
  BY <1>1, <1>2, <1>4, ChangeKeepsMatched
<1> HIDE DEF new
<1>8. CheckedQueue(new, now)
  BY <1>1, <1>2, <1>5, <1>6 DEF CheckedQueue
<1>9. \A j \in Slots(queue) : new[j].instr_depend_on_me = queue[j].instr_depend_on_me
  BY <1>1, <1>2, <1>6
<1> QED BY <1>3, <1>5, <1>7, <1>8, <1>9

\* A slot, not of a packet that is scheduled, that becomes free.
LEMMA FreeKeeps ==
  ASSUME NEW n, NEW queue \in Queue(n), NEW k \in Slots(queue), NEW now,
         ~Busy(queue, k), CheckedQueue(queue, now)
  PROVE  LET new == [queue EXCEPT ![k] = Free]
         IN  /\ new \in Queue(n) /\ Slots(new) = Slots(queue) \ {k}
             /\ \A j \in Slots(queue) \ {k} : new[j] = queue[j]
             /\ CheckedQueue(new, now)
             /\ \A j \in 1..n : /\ Busy(new, j) <=> Busy(queue, j)
                                /\ Busy(queue, j) => new[j].address = queue[j].address
<1> DEFINE packet == Free
           new == [queue EXCEPT ![k] = packet]
<1>1. Slots(queue) \subseteq 1..n /\ k \in 1..n
  BY SlotFacts
<1>4. packet = Free /\ ~(packet.used /\ packet.scheduled) /\ packet \in Packets \cup {Free}
  BY DEF Free
<1> HIDE DEF packet
<1>2. new \in Queue(n) /\ Slots(new) = Slots(queue) \ {k}
  <2>1. new \in Queue(n)
    BY <1>1, <1>4, SlotsOfChange
  <2>2. Slots(new) = Slots(queue) \ {k}
    BY <1>1, <1>4, SlotsOfChange
  <2> QED BY <2>1, <2>2
<1>3. \A j \in 1..n : new[j] = IF j = k THEN packet ELSE queue[j]
  BY DEF Queue
<1>8. new = [queue EXCEPT ![k] = Free]
  BY <1>4
<1>5. \A j \in 1..n : /\ Busy(new, j) <=> Busy(queue, j)
                      /\ Busy(queue, j) => new[j].address = queue[j].address
  BY <1>1, <1>4, ChangeKeepsMatched
<1> HIDE DEF new
<1>6. \A j \in Slots(queue) \ {k} : new[j] = queue[j]
  BY <1>1, <1>3
<1>7. CheckedQueue(new, now)
  BY <1>2, <1>6 DEF CheckedQueue
<1> QED BY <1>2, <1>5, <1>6, <1>7, <1>8


\* The parts of the invariant that no change of the queues concerns.
LEMMA OthersKept ==
  ASSUME IInv, stage' = stage, ch'.bank = ch.bank, ch'.active = ch.active,
         ch'.warmup = ch.warmup,
         Slots(ch'.RQ) \subseteq Slots(ch.RQ), Slots(ch'.WQ) \subseteq Slots(ch.WQ)
  PROVE  WarmupIdle' /\ RefreshesDue'
BY DEF IInv, WarmupIdle, RefreshesDue

LEMMA BusStaysValid ==
  ASSUME IInv
  PROVE  /\ Matched(ch.bank, ch.RQ, ch.WQ, ch.active)
         /\ ch.active # NoBank => ch.bank[ch.active].valid
BY DEF IInv, Matched

LEMMA CheckWriteStep ==
  ASSUME IInv, check_write_collision
  PROVE  IInv'
<1> DEFINE k == Min(Unchecked(ch.WQ))
           freed == [ch.WQ EXCEPT ![k] = Free]
           marked == [ch.WQ EXCEPT ![k].forward_checked = TRUE]
<1>1. /\ stage' = stage /\ reads' = reads /\ writes' = writes /\ answered' = answered
      /\ ch' = [ch EXCEPT !.WQ[k] = Free] \/ ch' = [ch EXCEPT !.WQ[k].forward_checked = TRUE]
      /\ Unchecked(ch.WQ) # {}
      /\ ch \in ChannelStates /\ ch.RQ \in Queue(RQ_SIZE) /\ ch.WQ \in Queue(WQ_SIZE)
      /\ CheckedQueue(ch.WQ, stage) /\ WQ_SIZE \in Nat /\ TypeOK
      /\ ReadsHeld(ch.RQ, ch.WQ, reads, answered)
  BY Parts, DramAssumption DEF check_write_collision, IInv, TypeOK
<1>2. /\ k \in Slots(ch.WQ) /\ k \in 1..WQ_SIZE /\ ~Busy(ch.WQ, k)
      /\ [ch.WQ[k] EXCEPT !.forward_checked = TRUE] \in Packets
  BY <1>1, UncheckedSlot
<1>3. ch' = [ch EXCEPT !.WQ = freed] \/ ch' = [ch EXCEPT !.WQ = marked]
  BY <1>1
<1> HIDE DEF k
<1>4. /\ freed \in Queue(WQ_SIZE) /\ Slots(freed) = Slots(ch.WQ) \ {k}
      /\ \A j \in Slots(ch.WQ) \ {k} : freed[j] = ch.WQ[j]
      /\ CheckedQueue(freed, stage)
      /\ \A j \in 1..WQ_SIZE : /\ Busy(freed, j) <=> Busy(ch.WQ, j)
                               /\ Busy(ch.WQ, j) => freed[j].address = ch.WQ[j].address
  BY <1>1, <1>2, FreeKeeps
<1>5. /\ marked \in Queue(WQ_SIZE) /\ Slots(marked) = Slots(ch.WQ)
      /\ \A j \in Slots(ch.WQ) : marked[j].instr_depend_on_me = ch.WQ[j].instr_depend_on_me
      /\ CheckedQueue(marked, stage)
      /\ \A j \in 1..WQ_SIZE : /\ Busy(marked, j) <=> Busy(ch.WQ, j)
                               /\ Busy(ch.WQ, j) => marked[j].address = ch.WQ[j].address
  BY <1>1, <1>2, MarkKeeps
<1> HIDE DEF freed, marked
<1>6. \E WQ2 \in {freed, marked} : ch' = [ch EXCEPT !.WQ = WQ2]
  BY <1>3
<1>7. PICK WQ2 : /\ WQ2 \in {freed, marked} /\ ch' = [ch EXCEPT !.WQ = WQ2]
  BY <1>6
<1>8. /\ WQ2 \in Queue(WQ_SIZE) /\ Slots(WQ2) \subseteq Slots(ch.WQ)
      /\ CheckedQueue(WQ2, stage)
      /\ \A j \in Slots(WQ2) : WQ2[j].instr_depend_on_me = ch.WQ[j].instr_depend_on_me
      /\ \A j \in 1..WQ_SIZE : /\ Busy(WQ2, j) <=> Busy(ch.WQ, j)
                               /\ Busy(ch.WQ, j) => WQ2[j].address = ch.WQ[j].address
  BY <1>4, <1>5, <1>7
<1>9. /\ ch' \in ChannelStates /\ ch'.RQ = ch.RQ /\ ch'.WQ = WQ2 /\ ch'.bank = ch.bank
      /\ ch'.active = ch.active /\ ch'.warmup = ch.warmup
  BY <1>1, <1>7, <1>8 DEF ChannelStates
<1>10. TypeOK'
  BY <1>1, <1>9 DEF TypeOK
<1>11. ReadsHeld(ch.RQ, WQ2, reads, answered)
  BY <1>1, <1>8, ReadsHeldKept
<1>12. Matched(ch.bank, ch.RQ, WQ2, ch.active)
  BY <1>1, <1>8, BusStaysValid, MatchedKept
<1>13. WarmupIdle' /\ RefreshesDue'
  BY <1>1, <1>8, <1>9, OthersKept
<1> QED BY <1>1, <1>8, <1>9, <1>10, <1>11, <1>12, <1>13 DEF IInv

\* A read that joins another one.
LEMMA JoinKeeps ==
  ASSUME NEW RQ, NEW WQ, NEW RQ2, NEW asked, NEW done,
         NEW k \in Slots(RQ), NEW m \in Slots(RQ), m # k,
         ReadsHeld(RQ, WQ, asked, done),
         Slots(RQ2) = Slots(RQ) \ {k},
         \A j \in Slots(RQ) \ {k, m} : RQ2[j] = RQ[j],
         RQ2[m].instr_depend_on_me = RQ[m].instr_depend_on_me \cup RQ[k].instr_depend_on_me
  PROVE  ReadsHeld(RQ2, WQ, asked, done)
<1>1. ASSUME NEW i \in (1..asked) \ done
      PROVE  \E j \in Slots(RQ2) : i \in RQ2[j].instr_depend_on_me
  <2>1. PICK j \in Slots(RQ) : i \in RQ[j].instr_depend_on_me
    BY DEF ReadsHeld
  <2>2. CASE j \in {k, m}
    BY <2>1, <2>2
  <2>3. CASE j \notin {k, m}
    BY <2>1, <2>3
  <2> QED BY <2>2, <2>3
<1>2. ASSUME NEW j \in Slots(RQ2)
      PROVE  RQ2[j].instr_depend_on_me \subseteq (1..asked) \ done
  BY DEF ReadsHeld
<1>3. ASSUME NEW i \in Slots(RQ2), NEW j \in Slots(RQ2), i # j
      PROVE  RQ2[i].instr_depend_on_me \cap RQ2[j].instr_depend_on_me = {}
  <2>1. /\ RQ[i].instr_depend_on_me \cap RQ[j].instr_depend_on_me = {}
        /\ RQ[i].instr_depend_on_me \cap RQ[k].instr_depend_on_me = {}
        /\ RQ[j].instr_depend_on_me \cap RQ[k].instr_depend_on_me = {}
    BY <1>3 DEF ReadsHeld
  <2>2. CASE i = m
    BY <1>3, <2>1, <2>2
  <2>3. CASE j = m
    BY <1>3, <2>1, <2>3
  <2>4. CASE i # m /\ j # m
    BY <1>3, <2>1, <2>4
  <2> QED BY <2>2, <2>3, <2>4
<1> QED BY <1>1, <1>2, <1>3 DEF ReadsHeld


\* What the three outcomes of the check of a read have in common.
LEMMA ReadChecked ==
  ASSUME IInv, NEW RQ2, NEW done,
         ch' = [ch EXCEPT !.RQ = RQ2], answered' = done, done \subseteq 1..reads,
         stage' = stage, reads' = reads, writes' = writes,
         RQ2 \in Queue(RQ_SIZE), Slots(RQ2) \subseteq Slots(ch.RQ),
         CheckedQueue(RQ2, stage),
         \A j \in 1..RQ_SIZE : /\ Busy(RQ2, j) <=> Busy(ch.RQ, j)
                               /\ Busy(ch.RQ, j) => RQ2[j].address = ch.RQ[j].address,
         ReadsHeld(RQ2, ch.WQ, reads, done)
  PROVE  IInv'
<1>1. TypeOK /\ ch \in ChannelStates /\ ch.RQ \in Queue(RQ_SIZE) /\ ch.WQ \in Queue(WQ_SIZE)
  BY Parts DEF IInv, TypeOK
<1>2. /\ ch' \in ChannelStates /\ ch'.RQ = RQ2 /\ ch'.WQ = ch.WQ /\ ch'.bank = ch.bank
      /\ ch'.active = ch.active /\ ch'.warmup = ch.warmup
  BY <1>1 DEF ChannelStates
<1>3. TypeOK'
  BY <1>1, <1>2 DEF TypeOK
<1>4. Matched(ch.bank, RQ2, ch.WQ, ch.active)
  BY <1>1, BusStaysValid, MatchedKept
<1>5. WarmupIdle' /\ RefreshesDue'
  BY <1>2, OthersKept
<1>6. CheckedQueue(ch.WQ, stage)
  BY DEF IInv
<1> QED BY <1>2, <1>3, <1>4, <1>5, <1>6 DEF IInv

LEMMA CheckReadStep ==
  ASSUME IInv, check_read_collision
  PROVE  IInv'
<1> DEFINE k == Min(Unchecked(ch.RQ))
           packet == ch.RQ[k]
           others == Colliding(ch.RQ, packet.address, {k})
           m == Min(others)
           freed == [ch.RQ EXCEPT ![k] = Free]
           marked == [ch.RQ EXCEPT ![k].forward_checked = TRUE]
           joined == [freed EXCEPT ![m] = Joined(@, packet)]
<1>1. /\ stage' = stage /\ reads' = reads /\ writes' = writes
      /\ Unchecked(ch.RQ) # {} /\ ch.RQ \in Queue(RQ_SIZE) /\ ch.WQ \in Queue(WQ_SIZE)
      /\ CheckedQueue(ch.RQ, stage) /\ RQ_SIZE \in Nat /\ TypeOK /\ ch \in ChannelStates
      /\ ReadsHeld(ch.RQ, ch.WQ, reads, answered)
  BY Parts, DramAssumption DEF check_read_collision, IInv, TypeOK
<1>2. /\ k \in Slots(ch.RQ) /\ k \in 1..RQ_SIZE /\ ~Busy(ch.RQ, k)
      /\ [ch.RQ[k] EXCEPT !.forward_checked = TRUE] \in Packets
  BY <1>1, UncheckedSlot
<1>3. others \subseteq Slots(ch.RQ) \ {k} /\ others \in SUBSET Nat
  BY <1>1, SlotFacts DEF Colliding
<1>4. others # {} => m \in Slots(ch.RQ) /\ m # k
  BY <1>3, MinIsIn
<1>5. \/ ch' = [ch EXCEPT !.RQ[k] = Free] /\ answered' = answered \cup packet.instr_depend_on_me
      \/ /\ others # {} /\ answered' = answered
         /\ ch' = [ch EXCEPT !.RQ[k] = Free, !.RQ[m] = Joined(@, packet)]
      \/ ch' = [ch EXCEPT !.RQ[k].forward_checked = TRUE] /\ answered' = answered
  BY DEF check_read_collision
<1>6. \/ ch' = [ch EXCEPT !.RQ = freed] /\ answered' = answered \cup packet.instr_depend_on_me
      \/ others # {} /\ answered' = answered /\ ch' = [ch EXCEPT !.RQ = joined]
      \/ ch' = [ch EXCEPT !.RQ = marked] /\ answered' = answered
  <2> HIDE DEF k, m, others, packet
  <2>1. ch.RQ = ch["RQ"] /\ "RQ" \in DOMAIN ch
    BY <1>1 DEF ChannelStates
  <2>2. others # {} =>
          [ch EXCEPT !.RQ[k] = Free, !.RQ[m] = Joined(@, packet)] = [ch EXCEPT !.RQ = joined]
    <3>1. others # {} => freed[m] = ch.RQ[m]
      BY <1>1, <1>4
    <3> QED BY <2>1, <3>1
  <2> QED BY <1>5, <2>2
<1> HIDE DEF k, m
<1>7. /\ freed \in Queue(RQ_SIZE) /\ Slots(freed) = Slots(ch.RQ) \ {k}
      /\ \A j \in Slots(ch.RQ) \ {k} : freed[j] = ch.RQ[j]
      /\ CheckedQueue(freed, stage)
      /\ \A j \in 1..RQ_SIZE : /\ Busy(freed, j) <=> Busy(ch.RQ, j)
                               /\ Busy(ch.RQ, j) => freed[j].address = ch.RQ[j].address
  BY <1>1, <1>2, FreeKeeps
<1>8. /\ marked \in Queue(RQ_SIZE) /\ Slots(marked) = Slots(ch.RQ)
      /\ \A j \in Slots(ch.RQ) : marked[j].instr_depend_on_me = ch.RQ[j].instr_depend_on_me
      /\ CheckedQueue(marked, stage)
      /\ \A j \in 1..RQ_SIZE : /\ Busy(marked, j) <=> Busy(ch.RQ, j)
                               /\ Busy(ch.RQ, j) => marked[j].address = ch.RQ[j].address
  BY <1>1, <1>2, MarkKeeps
<1>9. packet.instr_depend_on_me \subseteq 1..reads /\ answered \subseteq 1..reads
  BY <1>1, <1>2 DEF ReadsHeld, TypeOK
<1>10. CASE ch' = [ch EXCEPT !.RQ = freed] /\ answered' = answered \cup packet.instr_depend_on_me
  <2>1. ReadsHeld(freed, ch.WQ, reads, answered \cup packet.instr_depend_on_me)
    <3> HIDE DEF freed
    <3> QED BY <1>1, <1>2, <1>7, ReadsHeldAnswered
  <2> HIDE DEF freed, packet
  <2> QED BY <1>1, <1>7, <1>9, <1>10, <2>1, ReadChecked
<1>11. CASE ch' = [ch EXCEPT !.RQ = marked] /\ answered' = answered
  <2> HIDE DEF marked
  <2>1. ReadsHeld(marked, ch.WQ, reads, answered)
    BY <1>1, <1>8, ReadsHeldKept
  <2> QED BY <1>1, <1>8, <1>9, <1>11, <2>1, ReadChecked
<1>12. CASE others # {} /\ answered' = answered /\ ch' = [ch EXCEPT !.RQ = joined]
  <2>1. m \in Slots(ch.RQ) /\ m # k /\ m \in 1..RQ_SIZE /\ ch.RQ[m] \in Packets
          /\ packet \in Packets
    BY <1>1, <1>2, <1>4, <1>12, SlotFacts
  <2> DEFINE both == Joined(ch.RQ[m], packet)
  <2>2. /\ both \in Packets /\ both # Free
        /\ both.instr_depend_on_me = ch.RQ[m].instr_depend_on_me \cup packet.instr_depend_on_me
        /\ both.used /\ both.scheduled = ch.RQ[m].scheduled /\ both.address = ch.RQ[m].address
        /\ both.forward_checked = ch.RQ[m].forward_checked
    BY <2>1 DEF Joined, Packets, Free
  <2>3. joined = [freed EXCEPT ![m] = both]
    BY <1>7, <2>1
  <2> HIDE DEF both, packet, others
  <2> DEFINE new == [freed EXCEPT ![m] = both]
  <2> HIDE DEF freed
  <2>4. new \in Queue(RQ_SIZE)
    BY <1>1, <1>7, <2>1, <2>2, SlotsOfChange
  <2>5. Slots(new) = Slots(freed) \cup {m}
    BY <1>1, <1>7, <2>1, <2>2, SlotsOfChange
  <2>6. \A j \in 1..RQ_SIZE : new[j] = IF j = m THEN both ELSE freed[j]
    BY <1>7 DEF Queue
  <2>7. Slots(ch.RQ) \subseteq 1..RQ_SIZE /\ ch.RQ[m].used
    BY <1>1, <2>1, SlotFacts
  <2>8. freed[m] = ch.RQ[m]
    BY <1>7, <2>1
  <2> HIDE DEF new
  <2>9. Slots(new) = Slots(ch.RQ) \ {k}
    BY <1>7, <2>1, <2>5
  <2>10. ReadsHeld(new, ch.WQ, reads, answered)
    <3>1. \A j \in Slots(ch.RQ) \ {k, m} : new[j] = ch.RQ[j]
      BY <1>7, <2>6, <2>7
    <3>2. new[m].instr_depend_on_me =
            ch.RQ[m].instr_depend_on_me \cup ch.RQ[k].instr_depend_on_me
      BY <2>1, <2>2, <2>6 DEF packet
    <3> QED BY <1>1, <1>2, <2>1, <2>9, <3>1, <3>2, JoinKeeps
  <2>11. \A j \in 1..RQ_SIZE : /\ Busy(new, j) <=> Busy(ch.RQ, j)
                               /\ Busy(ch.RQ, j) => new[j].address = ch.RQ[j].address
    <3> TAKE j \in 1..RQ_SIZE
    <3>1. CASE j = m
      BY <2>1, <2>2, <2>6, <2>7, <3>1 DEF Busy
    <3>2. CASE j # m
      BY <1>7, <2>6, <3>2 DEF Busy
    <3> QED BY <3>1, <3>2
  <2>12. CheckedQueue(new, stage)
    <3>1. ASSUME NEW j \in Slots(new), new[j].scheduled \/ stage \notin {"start", "check"}
          PROVE  new[j].forward_checked
      <4>1. CASE j = m
        BY <1>1, <2>1, <2>2, <2>6, <2>7, <3>1, <4>1 DEF CheckedQueue
      <4>2. CASE j # m
        BY <1>7, <2>6, <2>7, <2>9, <3>1, <4>2 DEF CheckedQueue
      <4> QED BY <4>1, <4>2
    <3> QED BY <3>1 DEF CheckedQueue
  <2>13. ch' = [ch EXCEPT !.RQ = new]
    BY <1>12, <2>3 DEF new
  <2>14. Slots(new) \subseteq Slots(ch.RQ)
    BY <2>9
  <2> QED BY <1>1, <1>9, <1>12, <2>4, <2>10, <2>11, <2>12, <2>13, <2>14, ReadChecked
<1> QED BY <1>6, <1>10, <1>11, <1>12

LEMMA AllCheckedStep ==
  ASSUME IInv, AllChecked
  PROVE  IInv'
<1>1. /\ stage = "check" /\ stage' = "finish" /\ reads' = reads /\ writes' = writes
      /\ answered' = answered /\ ch' = ch /\ Unchecked(ch.WQ) = {} /\ Unchecked(ch.RQ) = {}
  BY DEF AllChecked, Call, Follows
<1>2. CheckedQueue(ch.RQ, "finish") /\ CheckedQueue(ch.WQ, "finish")
  BY <1>1 DEF CheckedQueue, Unchecked
<1>3. TypeOK' /\ WarmupIdle' /\ RefreshesDue'
  BY <1>1 DEF IInv, TypeOK, Follows, WarmupIdle, RefreshesDue
<1> QED BY <1>1, <1>2, <1>3 DEF IInv


----------------------------------------------------------------------------
(* The bus and the modes *)

\* No two banks serve one packet: it is for one of them.
LEMMA OwnPacket ==
  ASSUME NEW bank, NEW RQ, NEW WQ, NEW active, Matched(bank, RQ, WQ, active),
         NEW b \in Banks, NEW c \in Banks, bank[b].valid, bank[c].valid,
         bank[b].pkt = bank[c].pkt
  PROVE  b = c
<1>1. Serves(bank, RQ, WQ, b) /\ Serves(bank, RQ, WQ, c)
  BY DEF Matched
<1> QED BY <1>1 DEF Serves

\* Banks that stop, in any number, and let go of their packets.
LEMMA MatchedLess ==
  ASSUME NEW RQ \in Queue(RQ_SIZE), NEW WQ \in Queue(WQ_SIZE), NEW bank, NEW active,
         NEW RQ2 \in Queue(RQ_SIZE), NEW WQ2 \in Queue(WQ_SIZE),
         NEW bank2, NEW active2,
         Matched(bank, RQ, WQ, active),
         \A b \in Banks : bank2[b].valid =>
           /\ bank[b].valid
           /\ bank2[b].pkt = bank[b].pkt /\ bank2[b].open_row = bank[b].open_row,
         \A b \in Banks : \A k \in 1..RQ_SIZE :
           bank2[b].valid /\ bank[b].pkt = [queue |-> "RQ", slot |-> k] =>
             Busy(RQ2, k) /\ RQ2[k].address = RQ[k].address,
         \A b \in Banks : \A k \in 1..WQ_SIZE :
           bank2[b].valid /\ bank[b].pkt = [queue |-> "WQ", slot |-> k] =>
             Busy(WQ2, k) /\ WQ2[k].address = WQ[k].address,
         \A k \in 1..RQ_SIZE : Busy(RQ2, k) =>
           /\ Busy(RQ, k)
           /\ \A b \in Banks : bank[b].valid /\ bank[b].pkt = [queue |-> "RQ", slot |-> k]
                              => bank2[b].valid,
         \A k \in 1..WQ_SIZE : Busy(WQ2, k) =>
           /\ Busy(WQ, k)
           /\ \A b \in Banks : bank[b].valid /\ bank[b].pkt = [queue |-> "WQ", slot |-> k]
                              => bank2[b].valid,
         active2 # NoBank => bank2[active2].valid
  PROVE  Matched(bank2, RQ2, WQ2, active2)
<1>1. ASSUME NEW b \in Banks, bank2[b].valid
      PROVE  Serves(bank2, RQ2, WQ2, b)
  <2>1. Serves(bank, RQ, WQ, b) /\ bank2[b].pkt = bank[b].pkt
          /\ bank2[b].open_row = bank[b].open_row
    BY <1>1 DEF Matched
  <2>2. CASE \E k \in 1..RQ_SIZE : bank[b].pkt = [queue |-> "RQ", slot |-> k]
    <3>1. PICK k \in 1..RQ_SIZE : bank[b].pkt = [queue |-> "RQ", slot |-> k]
      BY <2>2
    <3>2. Busy(RQ2, k) /\ RQ2[k].address = RQ[k].address
      BY <1>1, <2>1, <3>1
    <3>3. bank[b].pkt.queue = "RQ" /\ bank[b].pkt.slot = k
      BY <3>1
    <3> QED BY <2>1, <3>2, <3>3 DEF Serves, Busy
  <2>3. CASE \E k \in 1..WQ_SIZE : bank[b].pkt = [queue |-> "WQ", slot |-> k]
    <3>1. PICK k \in 1..WQ_SIZE : bank[b].pkt = [queue |-> "WQ", slot |-> k]
      BY <2>3
    <3>2. Busy(WQ2, k) /\ WQ2[k].address = WQ[k].address
      BY <1>1, <2>1, <3>1
    <3>3. bank[b].pkt.queue = "WQ" /\ bank[b].pkt.slot = k
      BY <3>1
    <3> QED BY <2>1, <3>2, <3>3 DEF Serves, Busy
  <2>4. bank[b].pkt \in Places
    BY <2>1 DEF Serves
  <2> QED BY <2>2, <2>3, <2>4 DEF Places
<1>2. Served(bank2, RQ2, "RQ")
  <2>1. ASSUME NEW k \in Slots(RQ2), RQ2[k].scheduled
        PROVE  \E b \in Banks : bank2[b].valid /\ bank2[b].pkt = [queue |-> "RQ", slot |-> k]
    <3>1. k \in 1..RQ_SIZE /\ Busy(RQ2, k)
      BY <2>1, SlotFacts DEF Busy
    <3>2. Busy(RQ, k)
      BY <3>1
    <3>3. k \in Slots(RQ) /\ RQ[k].scheduled
      BY <3>1, <3>2 DEF Busy, Slots, Queue
    <3>4. PICK b \in Banks : bank[b].valid /\ bank[b].pkt = [queue |-> "RQ", slot |-> k]
      BY <3>3 DEF Matched, Served
    <3>5. bank2[b].valid
      BY <3>1, <3>4
    <3> QED BY <3>4, <3>5
  <2> QED BY <2>1 DEF Served
<1>3. Served(bank2, WQ2, "WQ")
  <2>1. ASSUME NEW k \in Slots(WQ2), WQ2[k].scheduled
        PROVE  \E b \in Banks : bank2[b].valid /\ bank2[b].pkt = [queue |-> "WQ", slot |-> k]
    <3>1. k \in 1..WQ_SIZE /\ Busy(WQ2, k)
      BY <2>1, SlotFacts DEF Busy
    <3>2. Busy(WQ, k)
      BY <3>1
    <3>3. k \in Slots(WQ) /\ WQ[k].scheduled
      BY <3>1, <3>2 DEF Busy, Slots, Queue
    <3>4. PICK b \in Banks : bank[b].valid /\ bank[b].pkt = [queue |-> "WQ", slot |-> k]
      BY <3>3 DEF Matched, Served
    <3>5. bank2[b].valid
      BY <3>1, <3>4
    <3> QED BY <3>4, <3>5
  <2> QED BY <2>1 DEF Served
<1> QED BY <1>1, <1>2, <1>3 DEF Matched

\* A call that does nothing, before the refreshes or when none is due.
LEMMA NothingStep ==
  ASSUME IInv, ch' = ch, answered' = answered, reads' = reads, writes' = writes,
         stage \notin {"start", "check"}, stage' \in DOMAIN Follows \ {"start", "check"},
         stage' \in {"populate", "serve"} => stage \in {"populate", "serve"}
  PROVE  IInv'
<1>1. TypeOK' /\ WarmupIdle' /\ RefreshesDue'
  BY DEF IInv, TypeOK, WarmupIdle, RefreshesDue
<1>2. CheckedQueue(ch.RQ, stage') /\ CheckedQueue(ch.WQ, stage')
  BY DEF IInv, CheckedQueue
<1> QED BY <1>1, <1>2 DEF IInv

\* What a valid bank's packet is.
LEMMA PacketOfBank ==
  ASSUME IInv, NEW b \in Banks, ch.bank[b].valid
  PROVE  \/ \E k \in 1..RQ_SIZE : /\ ch.bank[b].pkt = [queue |-> "RQ", slot |-> k]
                                  /\ k \in Slots(ch.RQ) /\ Busy(ch.RQ, k)
                                  /\ PacketAt(b) = ch.RQ[k]
                                  /\ bank_request_index(ch.RQ[k].address) = b
                                  /\ ch.bank[b].open_row = get_row(ch.RQ[k].address)
         \/ \E k \in 1..WQ_SIZE : /\ ch.bank[b].pkt = [queue |-> "WQ", slot |-> k]
                                  /\ k \in Slots(ch.WQ) /\ Busy(ch.WQ, k)
                                  /\ PacketAt(b) = ch.WQ[k]
                                  /\ bank_request_index(ch.WQ[k].address) = b
                                  /\ ch.bank[b].open_row = get_row(ch.WQ[k].address)
<1>1. Serves(ch.bank, ch.RQ, ch.WQ, b)
  BY DEF IInv, Matched
<1>2. ch.RQ \in Queue(RQ_SIZE) /\ ch.WQ \in Queue(WQ_SIZE)
  BY Parts DEF IInv
<1>3. DOMAIN ch.RQ = 1..RQ_SIZE /\ DOMAIN ch.WQ = 1..WQ_SIZE
  BY <1>2 DEF Queue
<1>4. CASE \E k \in 1..RQ_SIZE : ch.bank[b].pkt = [queue |-> "RQ", slot |-> k]
  <2>1. PICK k \in 1..RQ_SIZE : ch.bank[b].pkt = [queue |-> "RQ", slot |-> k]
    BY <1>4
  <2>2. ch.bank[b].pkt.queue = "RQ" /\ ch.bank[b].pkt.slot = k
    BY <2>1
  <2> QED BY <1>1, <1>3, <2>1, <2>2 DEF Serves, Busy, Slots, PacketAt
<1>5. CASE \E k \in 1..WQ_SIZE : ch.bank[b].pkt = [queue |-> "WQ", slot |-> k]
  <2>1. PICK k \in 1..WQ_SIZE : ch.bank[b].pkt = [queue |-> "WQ", slot |-> k]
    BY <1>5
  <2>2. ch.bank[b].pkt.queue = "WQ" /\ ch.bank[b].pkt.slot = k
    BY <2>1
  <2> QED BY <1>1, <1>3, <2>1, <2>2 DEF Serves, Busy, Slots, PacketAt
<1>6. ch.bank[b].pkt \in Places
  BY <1>1 DEF Serves
<1> QED BY <1>4, <1>5, <1>6 DEF Places


\* A slot that becomes free.
FreedAt(queue, k) == [queue EXCEPT ![k] = Free]

LEMMA FreedSlot ==
  ASSUME NEW n, NEW queue \in Queue(n), NEW k \in 1..n, NEW now, CheckedQueue(queue, now)
  PROVE  /\ FreedAt(queue, k) \in Queue(n)
         /\ Slots(FreedAt(queue, k)) = Slots(queue) \ {k}
         /\ \A j \in 1..n : j # k => FreedAt(queue, k)[j] = queue[j]
         /\ ~Busy(FreedAt(queue, k), k)
         /\ CheckedQueue(FreedAt(queue, k), now)
<1> DEFINE packet == Free
           new == [queue EXCEPT ![k] = packet]
<1>1. packet = Free /\ ~packet.used /\ packet \in Packets \cup {Free}
  BY DEF Free
<1>5. new = FreedAt(queue, k)
  BY DEF FreedAt
<1> HIDE DEF packet
<1>2. new \in Queue(n)
  BY <1>1, SlotsOfChange
<1>3. Slots(new) = Slots(queue) \ {k}
  BY <1>1, SlotsOfChange
<1>4. \A j \in 1..n : new[j] = IF j = k THEN packet ELSE queue[j]
  BY DEF Queue
<1>6. Slots(queue) \subseteq 1..n
  BY SlotFacts
<1> HIDE DEF new
<1>7. CheckedQueue(new, now)
  BY <1>3, <1>4, <1>6 DEF CheckedQueue
<1>8. ~Busy(new, k)
  BY <1>1, <1>4 DEF Busy
<1> QED BY <1>2, <1>3, <1>4, <1>5, <1>7, <1>8

\* The bank that is done.
Done(bank) == [bank EXCEPT !.valid = FALSE, !.pkt = NoPacket]

LEMMA FinishEffect ==
  ASSUME IInv, finish_dbus_request, ch.active # NoBank, ch.bank[ch.active].wait = 0
  PROVE  LET bank2 == [ch.bank EXCEPT ![ch.active] = Done(@)]
         IN  \/ \E k \in 1..RQ_SIZE :
                  /\ ch.bank[ch.active].pkt = [queue |-> "RQ", slot |-> k]
                  /\ k \in Slots(ch.RQ)
                  /\ ch' = [ch EXCEPT !.bank = bank2, !.RQ = FreedAt(ch.RQ, k),
                                      !.active = NoBank]
                  /\ answered' = answered \cup ch.RQ[k].instr_depend_on_me
             \/ \E k \in 1..WQ_SIZE :
                  /\ ch.bank[ch.active].pkt = [queue |-> "WQ", slot |-> k]
                  /\ k \in Slots(ch.WQ)
                  /\ ch' = [ch EXCEPT !.bank = bank2, !.WQ = FreedAt(ch.WQ, k),
                                      !.active = NoBank]
                  /\ answered' = answered
<1> DEFINE b == ch.active
           pkt == ch.bank[b].pkt
           bank2 == [ch.bank EXCEPT ![b] = Done(@)]
<1>1. /\ answered' = answered \cup PacketAt(b).instr_depend_on_me
      /\ ch' = [ch EXCEPT !.bank[b].valid = FALSE, !.bank[b].pkt = NoPacket,
                          ![pkt.queue][pkt.slot] = Free, !.active = NoBank]
  BY DEF finish_dbus_request
<1>2. /\ b \in Banks /\ ch.bank[b].valid /\ ch \in ChannelStates
      /\ ch.bank \in [Banks -> BankStates]
  BY Parts, BusStaysValid DEF IInv, TypeOK
<1>3. [ch.bank EXCEPT ![b] = [@ EXCEPT !.valid = FALSE, !.pkt = NoPacket]] = bank2
  BY DEF Done
<1>4. CASE \E k \in 1..RQ_SIZE : pkt = [queue |-> "RQ", slot |-> k] /\ k \in Slots(ch.RQ)
                                   /\ PacketAt(b) = ch.RQ[k]
  <2>1. PICK k \in 1..RQ_SIZE : pkt = [queue |-> "RQ", slot |-> k] /\ k \in Slots(ch.RQ)
                                  /\ PacketAt(b) = ch.RQ[k]
    BY <1>4
  <2>2. pkt.queue = "RQ" /\ pkt.slot = k
    BY <2>1
  <2>3. ch' = [ch EXCEPT !.bank[b].valid = FALSE, !.bank[b].pkt = NoPacket,
                         !.RQ[k] = Free, !.active = NoBank]
    BY <1>1, <2>2
  <2> HIDE DEF b, pkt
  <2>4. ch' = [ch EXCEPT !.bank = bank2, !.RQ = FreedAt(ch.RQ, k), !.active = NoBank]
    BY <1>2, <2>3 DEF ChannelStates, BankStates, Done, FreedAt
  <2> QED BY <1>1, <2>1, <2>4 DEF b, pkt
<1>5. CASE \E k \in 1..WQ_SIZE : pkt = [queue |-> "WQ", slot |-> k] /\ k \in Slots(ch.WQ)
                                   /\ PacketAt(b) = ch.WQ[k]
  <2>1. PICK k \in 1..WQ_SIZE : pkt = [queue |-> "WQ", slot |-> k] /\ k \in Slots(ch.WQ)
                                  /\ PacketAt(b) = ch.WQ[k]
    BY <1>5
  <2>2. pkt.queue = "WQ" /\ pkt.slot = k
    BY <2>1
  <2>3. ch' = [ch EXCEPT !.bank[b].valid = FALSE, !.bank[b].pkt = NoPacket,
                         !.WQ[k] = Free, !.active = NoBank]
    BY <1>1, <2>2
  <2>4. ch.WQ[k].instr_depend_on_me = {}
    BY <2>1 DEF IInv, ReadsHeld
  <2> HIDE DEF b, pkt
  <2>5. ch' = [ch EXCEPT !.bank = bank2, !.WQ = FreedAt(ch.WQ, k), !.active = NoBank]
    BY <1>2, <2>3 DEF ChannelStates, BankStates, Done, FreedAt
  <2> QED BY <1>1, <2>1, <2>4, <2>5 DEF b, pkt
<1> QED BY <1>2, <1>4, <1>5, PacketOfBank

\* The packet that is done is let go by its bank and leaves its slot.
LEMMA FinishMatched ==
  ASSUME NEW RQ \in Queue(RQ_SIZE), NEW WQ \in Queue(WQ_SIZE), NEW bank, NEW active,
         NEW RQ2 \in Queue(RQ_SIZE), NEW WQ2 \in Queue(WQ_SIZE), NEW bank2,
         NEW b \in Banks, bank[b].valid, Matched(bank, RQ, WQ, active),
         \A c \in Banks \ {b} : bank2[c] = bank[c],
         ~bank2[b].valid,
         \A j \in 1..RQ_SIZE : IF bank[b].pkt = [queue |-> "RQ", slot |-> j]
                               THEN ~Busy(RQ2, j) ELSE RQ2[j] = RQ[j],
         \A j \in 1..WQ_SIZE : IF bank[b].pkt = [queue |-> "WQ", slot |-> j]
                               THEN ~Busy(WQ2, j) ELSE WQ2[j] = WQ[j]
  PROVE  Matched(bank2, RQ2, WQ2, NoBank)
<1>1. \A c \in Banks : bank2[c].valid =>
        /\ bank[c].valid
        /\ bank2[c].pkt = bank[c].pkt /\ bank2[c].open_row = bank[c].open_row
  OBVIOUS
<1>2. \A c \in Banks : bank2[c].valid =>
        bank[c].pkt # bank[b].pkt /\ Serves(bank, RQ, WQ, c)
  BY OwnPacket DEF Matched
<1>10. \A c \in Banks : bank[c].valid /\ bank[c].pkt # bank[b].pkt => bank2[c].valid
  OBVIOUS
<1>3. \A c \in Banks : \A j \in 1..RQ_SIZE :
        bank2[c].valid /\ bank[c].pkt = [queue |-> "RQ", slot |-> j] =>
          Busy(RQ2, j) /\ RQ2[j].address = RQ[j].address
  <2> SUFFICES ASSUME NEW c \in Banks, bank2[c].valid, NEW j \in 1..RQ_SIZE,
                      bank[c].pkt = [queue |-> "RQ", slot |-> j]
               PROVE  Busy(RQ2, j) /\ RQ2[j].address = RQ[j].address
    OBVIOUS
  <2>1. bank[c].pkt.queue = "RQ" /\ bank[c].pkt.slot = j
    OBVIOUS
  <2>2. Busy(RQ, j)
    BY <1>2, <2>1 DEF Serves, Busy
  <2>3. RQ2[j] = RQ[j]
    BY <1>2
  <2> QED BY <2>2, <2>3 DEF Busy
<1>4. \A c \in Banks : \A j \in 1..WQ_SIZE :
        bank2[c].valid /\ bank[c].pkt = [queue |-> "WQ", slot |-> j] =>
          Busy(WQ2, j) /\ WQ2[j].address = WQ[j].address
  <2> SUFFICES ASSUME NEW c \in Banks, bank2[c].valid, NEW j \in 1..WQ_SIZE,
                      bank[c].pkt = [queue |-> "WQ", slot |-> j]
               PROVE  Busy(WQ2, j) /\ WQ2[j].address = WQ[j].address
    OBVIOUS
  <2>1. bank[c].pkt.queue = "WQ" /\ bank[c].pkt.slot = j
    OBVIOUS
  <2>2. Busy(WQ, j)
    BY <1>2, <2>1 DEF Serves, Busy
  <2>3. WQ2[j] = WQ[j]
    BY <1>2
  <2> QED BY <2>2, <2>3 DEF Busy
<1>5. \A j \in 1..RQ_SIZE : Busy(RQ2, j) =>
        /\ Busy(RQ, j)
        /\ \A c \in Banks : bank[c].valid /\ bank[c].pkt = [queue |-> "RQ", slot |-> j]
                           => bank2[c].valid
  BY <1>10 DEF Busy
<1>6. \A j \in 1..WQ_SIZE : Busy(WQ2, j) =>
        /\ Busy(WQ, j)
        /\ \A c \in Banks : bank[c].valid /\ bank[c].pkt = [queue |-> "WQ", slot |-> j]
                           => bank2[c].valid
  BY <1>10 DEF Busy
<1> DEFINE active2 == NoBank
<1>7. active2 # NoBank => bank2[active2].valid
  OBVIOUS
<1> HIDE DEF active2
<1>8. /\ RQ \in Queue(RQ_SIZE) /\ WQ \in Queue(WQ_SIZE)
      /\ RQ2 \in Queue(RQ_SIZE) /\ WQ2 \in Queue(WQ_SIZE)
      /\ Matched(bank, RQ, WQ, active)
  OBVIOUS
<1>9. Matched(bank2, RQ2, WQ2, active2)
  BY ONLY <1>1, <1>3, <1>4, <1>5, <1>6, <1>7, <1>8, MatchedLess
<1> QED BY <1>9 DEF active2

LEMMA FinishStep ==
  ASSUME IInv, finish_dbus_request
  PROVE  IInv'
<1> DEFINE b == ch.active
           bank2 == [ch.bank EXCEPT ![b] = Done(@)]
<1>1. /\ stage = "finish" /\ stage' = "mode" /\ reads' = reads /\ writes' = writes
      /\ stage' \in DOMAIN Follows
  BY DEF finish_dbus_request, Call, Follows
<1>2. CASE ~(b # NoBank /\ ch.bank[b].wait = 0)
  BY <1>1, <1>2, NothingStep DEF finish_dbus_request
<1>3. CASE b # NoBank /\ ch.bank[b].wait = 0
  <2>1. /\ b \in Banks /\ ch.bank[b].valid /\ ch \in ChannelStates /\ TypeOK
        /\ ch.bank \in [Banks -> BankStates]
        /\ ch.RQ \in Queue(RQ_SIZE) /\ ch.WQ \in Queue(WQ_SIZE)
        /\ ReadsHeld(ch.RQ, ch.WQ, reads, answered) /\ answered \subseteq 1..reads
        /\ Matched(ch.bank, ch.RQ, ch.WQ, b)
        /\ CheckedQueue(ch.RQ, stage') /\ CheckedQueue(ch.WQ, stage')
    BY <1>1, <1>3, Parts, BusStaysValid DEF IInv, TypeOK, CheckedQueue
  <2>2. \A c \in Banks : bank2[c] = IF c = b THEN Done(ch.bank[c]) ELSE ch.bank[c]
    BY <2>1
  <2>3. /\ Done(ch.bank[b]) \in BankStates /\ ~Done(ch.bank[b]).valid
        /\ Done(ch.bank[b]).need_refresh = ch.bank[b].need_refresh
    BY <2>1 DEF Done, BankStates
  <2>4. bank2 \in [Banks -> BankStates]
    BY <2>1, <2>3
  <2>5. (\A c \in Banks \ {b} : bank2[c] = ch.bank[c]) /\ ~bank2[b].valid
    BY <2>1, <2>2, <2>3
  <2> HIDE DEF bank2
  <2>6. ch.warmup = FALSE
    BY <2>1 DEF IInv, WarmupIdle, TypeOK, ChannelStates
  <2>7. RefreshesDue' \/ ch'.bank # bank2
    BY <1>1, <2>5 DEF IInv, RefreshesDue
  <2>8. CASE \E k \in 1..RQ_SIZE :
                /\ ch.bank[b].pkt = [queue |-> "RQ", slot |-> k] /\ k \in Slots(ch.RQ)
                /\ ch' = [ch EXCEPT !.bank = bank2, !.RQ = FreedAt(ch.RQ, k), !.active = NoBank]
                /\ answered' = answered \cup ch.RQ[k].instr_depend_on_me
    <3>1. PICK k \in 1..RQ_SIZE :
                /\ ch.bank[b].pkt = [queue |-> "RQ", slot |-> k] /\ k \in Slots(ch.RQ)
                /\ ch' = [ch EXCEPT !.bank = bank2, !.RQ = FreedAt(ch.RQ, k), !.active = NoBank]
                /\ answered' = answered \cup ch.RQ[k].instr_depend_on_me
      BY <2>8
    <3> DEFINE RQ2 == FreedAt(ch.RQ, k)
    <3>2. /\ RQ2 \in Queue(RQ_SIZE) /\ Slots(RQ2) = Slots(ch.RQ) \ {k}
          /\ \A j \in 1..RQ_SIZE : j # k => RQ2[j] = ch.RQ[j]
          /\ ~Busy(RQ2, k) /\ CheckedQueue(RQ2, stage')
      BY <2>1, FreedSlot
    <3> HIDE DEF RQ2
    <3>3. ch' = [ch EXCEPT !.bank = bank2, !.RQ = RQ2, !.active = NoBank]
      BY <3>1 DEF RQ2
    <3>4. /\ ch' \in ChannelStates /\ ch'.RQ = RQ2 /\ ch'.WQ = ch.WQ /\ ch'.bank = bank2
          /\ ch'.active = NoBank /\ ch'.warmup = FALSE
      BY <2>1, <2>4, <2>6, <3>2, <3>3 DEF ChannelStates
    <3>5. Slots(ch.RQ) \subseteq 1..RQ_SIZE
      BY <2>1, SlotFacts
    <3>6. ReadsHeld(RQ2, ch.WQ, reads, answered')
      <4>1. \A j \in Slots(ch.RQ) \ {k} : RQ2[j] = ch.RQ[j]
        BY <3>2, <3>5
      <4> QED BY <2>1, <3>1, <3>2, <4>1, ReadsHeldAnswered
    <3>7. answered' \subseteq 1..reads
      BY <2>1, <3>1 DEF ReadsHeld
    <3>8. TypeOK' /\ WarmupIdle'
      BY <1>1, <2>1, <3>4, <3>7 DEF TypeOK, WarmupIdle
    <3>9. Matched(bank2, RQ2, ch.WQ, NoBank)
      <4>1. \A j \in 1..RQ_SIZE : IF ch.bank[b].pkt = [queue |-> "RQ", slot |-> j]
                                   THEN ~Busy(RQ2, j) ELSE RQ2[j] = ch.RQ[j]
        BY <3>1, <3>2
      <4>2. \A j \in 1..WQ_SIZE : IF ch.bank[b].pkt = [queue |-> "WQ", slot |-> j]
                                   THEN ~Busy(ch.WQ, j) ELSE ch.WQ[j] = ch.WQ[j]
        BY <3>1
      <4> DEFINE old == ch.bank
                 oldRQ == ch.RQ
                 oldWQ == ch.WQ
      <4>3. /\ oldRQ \in Queue(RQ_SIZE) /\ oldWQ \in Queue(WQ_SIZE)
            /\ RQ2 \in Queue(RQ_SIZE) /\ ch.WQ \in Queue(WQ_SIZE)
            /\ b \in Banks /\ old[b].valid /\ Matched(old, oldRQ, oldWQ, b)
        BY <2>1, <3>2
      <4>4. (\A c \in Banks \ {b} : bank2[c] = old[c]) /\ ~bank2[b].valid
        BY <2>5
      <4>5. /\ b \in Banks /\ old[b].valid /\ Matched(old, oldRQ, oldWQ, b)
            /\ \A j \in 1..RQ_SIZE : IF old[b].pkt = [queue |-> "RQ", slot |-> j]
                                     THEN ~Busy(RQ2, j) ELSE RQ2[j] = oldRQ[j]
            /\ \A j \in 1..WQ_SIZE : IF old[b].pkt = [queue |-> "WQ", slot |-> j]
                                     THEN ~Busy(oldWQ, j) ELSE oldWQ[j] = oldWQ[j]
        BY <4>1, <4>2, <4>3 DEF old, oldRQ, oldWQ
      <4> HIDE DEF b, old, oldRQ, oldWQ
      <4>6. Matched(bank2, RQ2, oldWQ, NoBank)
        BY ONLY <4>3, <4>4, <4>5, FinishMatched, SMTT(60)
      <4> QED BY <4>6 DEF oldWQ
    <3> QED BY <1>1, <2>1, <2>7, <3>2, <3>4, <3>6, <3>8, <3>9 DEF IInv
  <2>9. CASE \E k \in 1..WQ_SIZE :
                /\ ch.bank[b].pkt = [queue |-> "WQ", slot |-> k] /\ k \in Slots(ch.WQ)
                /\ ch' = [ch EXCEPT !.bank = bank2, !.WQ = FreedAt(ch.WQ, k), !.active = NoBank]
                /\ answered' = answered
    <3>1. PICK k \in 1..WQ_SIZE :
                /\ ch.bank[b].pkt = [queue |-> "WQ", slot |-> k] /\ k \in Slots(ch.WQ)
                /\ ch' = [ch EXCEPT !.bank = bank2, !.WQ = FreedAt(ch.WQ, k), !.active = NoBank]
                /\ answered' = answered
      BY <2>9
    <3> DEFINE WQ2 == FreedAt(ch.WQ, k)
    <3>2. /\ WQ2 \in Queue(WQ_SIZE) /\ Slots(WQ2) = Slots(ch.WQ) \ {k}
          /\ \A j \in 1..WQ_SIZE : j # k => WQ2[j] = ch.WQ[j]
          /\ ~Busy(WQ2, k) /\ CheckedQueue(WQ2, stage')
      BY <2>1, FreedSlot
    <3> HIDE DEF WQ2
    <3>3. ch' = [ch EXCEPT !.bank = bank2, !.WQ = WQ2, !.active = NoBank]
      BY <3>1 DEF WQ2
    <3>4. /\ ch' \in ChannelStates /\ ch'.RQ = ch.RQ /\ ch'.WQ = WQ2 /\ ch'.bank = bank2
          /\ ch'.active = NoBank /\ ch'.warmup = FALSE
      BY <2>1, <2>4, <2>6, <3>2, <3>3 DEF ChannelStates
    <3>5. Slots(ch.WQ) \subseteq 1..WQ_SIZE
      BY <2>1, SlotFacts
    <3>6. ReadsHeld(ch.RQ, WQ2, reads, answered)
      BY <2>1, <3>2, <3>5 DEF ReadsHeld
    <3>7. TypeOK' /\ WarmupIdle'
      BY <1>1, <2>1, <3>1, <3>4 DEF TypeOK, WarmupIdle
    <3>8. Matched(bank2, ch.RQ, WQ2, NoBank)
      <4>1. \A j \in 1..RQ_SIZE : IF ch.bank[b].pkt = [queue |-> "RQ", slot |-> j]
                                   THEN ~Busy(ch.RQ, j) ELSE ch.RQ[j] = ch.RQ[j]
        BY <3>1
      <4>2. \A j \in 1..WQ_SIZE : IF ch.bank[b].pkt = [queue |-> "WQ", slot |-> j]
                                   THEN ~Busy(WQ2, j) ELSE WQ2[j] = ch.WQ[j]
        BY <3>1, <3>2
      <4> DEFINE old == ch.bank
                 oldRQ == ch.RQ
                 oldWQ == ch.WQ
      <4>3. /\ oldRQ \in Queue(RQ_SIZE) /\ oldWQ \in Queue(WQ_SIZE)
            /\ ch.RQ \in Queue(RQ_SIZE) /\ WQ2 \in Queue(WQ_SIZE)
            /\ b \in Banks /\ old[b].valid /\ Matched(old, oldRQ, oldWQ, b)
        BY <2>1, <3>2
      <4>4. (\A c \in Banks \ {b} : bank2[c] = old[c]) /\ ~bank2[b].valid
        BY <2>5
      <4> HIDE DEF b, old
      <4> QED BY <4>1, <4>2, <4>3, <4>4, FinishMatched, SMTT(60) DEF old
    <3> QED BY <1>1, <2>1, <2>7, <3>1, <3>2, <3>4, <3>6, <3>7, <3>8 DEF IInv
  <2> QED BY <1>3, <2>8, <2>9, FinishEffect DEF bank2
<1> QED BY <1>2, <1>3

\* The packets that are withdrawn.
LEMMA ResetSlots ==
  ASSUME IInv
  PROVE  LET RQ2 == ResetQueue("RQ")
             WQ2 == ResetQueue("WQ")
         IN  /\ RQ2 \in Queue(RQ_SIZE) /\ Slots(RQ2) = Slots(ch.RQ)
             /\ \A k \in 1..RQ_SIZE :
                  IF \E b \in Withdrawn : ch.bank[b].pkt = [queue |-> "RQ", slot |-> k]
                  THEN /\ ~Busy(RQ2, k) /\ Busy(ch.RQ, k)
                       /\ RQ2[k] = [ch.RQ[k] EXCEPT !.scheduled = FALSE]
                  ELSE RQ2[k] = ch.RQ[k]
             /\ WQ2 \in Queue(WQ_SIZE) /\ Slots(WQ2) = Slots(ch.WQ)
             /\ \A k \in 1..WQ_SIZE :
                  IF \E b \in Withdrawn : ch.bank[b].pkt = [queue |-> "WQ", slot |-> k]
                  THEN /\ ~Busy(WQ2, k) /\ Busy(ch.WQ, k)
                       /\ WQ2[k] = [ch.WQ[k] EXCEPT !.scheduled = FALSE]
                  ELSE WQ2[k] = ch.WQ[k]
<1> DEFINE RQ2 == ResetQueue("RQ")
           WQ2 == ResetQueue("WQ")
           RQFrom(k) == \E b \in Withdrawn : ch.bank[b].pkt = [queue |-> "RQ", slot |-> k]
           WQFrom(k) == \E b \in Withdrawn : ch.bank[b].pkt = [queue |-> "WQ", slot |-> k]
<1>1. /\ ch \in ChannelStates /\ ch.RQ \in Queue(RQ_SIZE) /\ ch.WQ \in Queue(WQ_SIZE)
      /\ ch.RQ = ch["RQ"] /\ ch.WQ = ch["WQ"]
  BY Parts DEF IInv, TypeOK
<1>2. DOMAIN ch.RQ = 1..RQ_SIZE /\ DOMAIN ch.WQ = 1..WQ_SIZE
  BY <1>1 DEF Queue
<1>3. /\ RQ2 = [k \in 1..RQ_SIZE |-> IF RQFrom(k) THEN [ch.RQ[k] EXCEPT !.scheduled = FALSE]
                                     ELSE ch.RQ[k]]
      /\ WQ2 = [k \in 1..WQ_SIZE |-> IF WQFrom(k) THEN [ch.WQ[k] EXCEPT !.scheduled = FALSE]
                                     ELSE ch.WQ[k]]
  BY <1>1, <1>2 DEF ResetQueue
<1>4. ASSUME NEW k \in 1..RQ_SIZE, RQFrom(k)
      PROVE  k \in Slots(ch.RQ) /\ Busy(ch.RQ, k)
  <2>1. PICK b \in Banks : ch.bank[b].valid /\ ch.bank[b].pkt = [queue |-> "RQ", slot |-> k]
    BY <1>4 DEF Withdrawn
  <2>2. Serves(ch.bank, ch.RQ, ch.WQ, b) /\ ch.bank[b].pkt.queue = "RQ" /\ ch.bank[b].pkt.slot = k
    BY <2>1 DEF IInv, Matched
  <2> QED BY <1>2, <2>2 DEF Serves, Busy, Slots
<1>5. ASSUME NEW k \in 1..WQ_SIZE, WQFrom(k)
      PROVE  k \in Slots(ch.WQ) /\ Busy(ch.WQ, k)
  <2>1. PICK b \in Banks : ch.bank[b].valid /\ ch.bank[b].pkt = [queue |-> "WQ", slot |-> k]
    BY <1>5 DEF Withdrawn
  <2>2. Serves(ch.bank, ch.RQ, ch.WQ, b) /\ ch.bank[b].pkt.queue = "WQ" /\ ch.bank[b].pkt.slot = k
    BY <2>1 DEF IInv, Matched
  <2> QED BY <1>2, <2>2 DEF Serves, Busy, Slots
<1>6. ASSUME NEW packet \in Packets
      PROVE  /\ [packet EXCEPT !.scheduled = FALSE] \in Packets
             /\ ~[packet EXCEPT !.scheduled = FALSE].scheduled
  BY DEF Packets
<1> HIDE DEF RQ2, WQ2, RQFrom, WQFrom
<1>7. \A k \in 1..RQ_SIZE :
        /\ RQ2[k] = IF RQFrom(k) THEN [ch.RQ[k] EXCEPT !.scheduled = FALSE] ELSE ch.RQ[k]
        /\ ch.RQ[k] \in Packets \cup {Free}
        /\ RQFrom(k) => ch.RQ[k] \in Packets /\ ~Busy(RQ2, k)
  BY <1>1, <1>3, <1>4, <1>6, SlotFacts DEF Queue, Busy
<1>8. \A k \in 1..WQ_SIZE :
        /\ WQ2[k] = IF WQFrom(k) THEN [ch.WQ[k] EXCEPT !.scheduled = FALSE] ELSE ch.WQ[k]
        /\ ch.WQ[k] \in Packets \cup {Free}
        /\ WQFrom(k) => ch.WQ[k] \in Packets /\ ~Busy(WQ2, k)
  BY <1>1, <1>3, <1>5, <1>6, SlotFacts DEF Queue, Busy
<1>9. RQ2 \in Queue(RQ_SIZE) /\ WQ2 \in Queue(WQ_SIZE)
  BY <1>3, <1>6, <1>7, <1>8 DEF Queue
<1>10. Slots(RQ2) = Slots(ch.RQ)
  <2>1. Slots(RQ2) = {k \in 1..RQ_SIZE : RQ2[k] \in Packets}
    BY <1>9, SlotFacts
  <2>2. Slots(ch.RQ) = {k \in 1..RQ_SIZE : ch.RQ[k] \in Packets}
    BY <1>1, SlotFacts
  <2> QED BY <1>6, <1>7, <2>1, <2>2
<1>11. Slots(WQ2) = Slots(ch.WQ)
  <2>1. Slots(WQ2) = {k \in 1..WQ_SIZE : WQ2[k] \in Packets}
    BY <1>9, SlotFacts
  <2>2. Slots(ch.WQ) = {k \in 1..WQ_SIZE : ch.WQ[k] \in Packets}
    BY <1>1, SlotFacts
  <2> QED BY <1>6, <1>8, <2>1, <2>2
<1>12. \A k \in 1..RQ_SIZE :
         IF RQFrom(k)
         THEN /\ ~Busy(RQ2, k) /\ Busy(ch.RQ, k)
              /\ RQ2[k] = [ch.RQ[k] EXCEPT !.scheduled = FALSE]
         ELSE RQ2[k] = ch.RQ[k]
  BY <1>4, <1>7
<1>13. \A k \in 1..WQ_SIZE :
         IF WQFrom(k)
         THEN /\ ~Busy(WQ2, k) /\ Busy(ch.WQ, k)
              /\ WQ2[k] = [ch.WQ[k] EXCEPT !.scheduled = FALSE]
         ELSE WQ2[k] = ch.WQ[k]
  BY <1>5, <1>8
<1> QED BY <1>9, <1>10, <1>11, <1>12, <1>13 DEF RQ2, WQ2, RQFrom, WQFrom


\* Banks that are withdrawn let go of their packets, which stay in their slots.
LEMMA SwapMatched ==
  ASSUME NEW RQ \in Queue(RQ_SIZE), NEW WQ \in Queue(WQ_SIZE), NEW bank, NEW active,
         NEW RQ2 \in Queue(RQ_SIZE), NEW WQ2 \in Queue(WQ_SIZE), NEW bank2,
         Matched(bank, RQ, WQ, active),
         \A b \in Banks :
           (bank[b].valid /\ ~bank2[b].valid) \/ bank2[b] = bank[b],
         active # NoBank => bank2[active].valid,
         \A k \in 1..RQ_SIZE :
           IF \E b \in Banks : /\ bank[b].valid /\ ~bank2[b].valid
                              /\ bank[b].pkt = [queue |-> "RQ", slot |-> k]
           THEN ~Busy(RQ2, k) /\ Busy(RQ, k) ELSE RQ2[k] = RQ[k],
         \A k \in 1..WQ_SIZE :
           IF \E b \in Banks : /\ bank[b].valid /\ ~bank2[b].valid
                              /\ bank[b].pkt = [queue |-> "WQ", slot |-> k]
           THEN ~Busy(WQ2, k) /\ Busy(WQ, k) ELSE WQ2[k] = WQ[k]
  PROVE  Matched(bank2, RQ2, WQ2, active)
<1>1. \A c \in Banks : bank2[c].valid =>
        /\ bank[c].valid
        /\ bank2[c].pkt = bank[c].pkt /\ bank2[c].open_row = bank[c].open_row
  OBVIOUS
<1>2. ASSUME NEW c \in Banks, bank2[c].valid,
             NEW d \in Banks, bank[d].valid, ~bank2[d].valid
      PROVE  bank[d].pkt # bank[c].pkt
  <2>1. c # d /\ bank[d].valid /\ bank[c].valid
    BY <1>1, <1>2
  <2> QED BY <2>1, OwnPacket
<1>3. \A c \in Banks : \A j \in 1..RQ_SIZE :
        bank2[c].valid /\ bank[c].pkt = [queue |-> "RQ", slot |-> j] =>
          Busy(RQ2, j) /\ RQ2[j].address = RQ[j].address
  <2> SUFFICES ASSUME NEW c \in Banks, NEW j \in 1..RQ_SIZE,
                      bank2[c].valid, bank[c].pkt = [queue |-> "RQ", slot |-> j]
               PROVE  Busy(RQ2, j) /\ RQ2[j].address = RQ[j].address
    OBVIOUS
  <2>1. Serves(bank, RQ, WQ, c) /\ bank[c].pkt.queue = "RQ" /\ bank[c].pkt.slot = j
    BY <1>1 DEF Matched
  <2>2. Busy(RQ, j)
    BY <2>1 DEF Serves, Busy
  <2>3. RQ2[j] = RQ[j]
    BY <1>2
  <2> QED BY <2>2, <2>3 DEF Busy
<1>4. \A j \in 1..RQ_SIZE : Busy(RQ2, j) =>
        /\ Busy(RQ, j)
        /\ \A c \in Banks : bank[c].valid /\ bank[c].pkt = [queue |-> "RQ", slot |-> j]
                             => bank2[c].valid
  BY DEF Busy
<1>5. \A c \in Banks : \A j \in 1..WQ_SIZE :
        bank2[c].valid /\ bank[c].pkt = [queue |-> "WQ", slot |-> j] =>
          Busy(WQ2, j) /\ WQ2[j].address = WQ[j].address
  <2> SUFFICES ASSUME NEW c \in Banks, NEW j \in 1..WQ_SIZE,
                      bank2[c].valid, bank[c].pkt = [queue |-> "WQ", slot |-> j]
               PROVE  Busy(WQ2, j) /\ WQ2[j].address = WQ[j].address
    OBVIOUS
  <2>1. Serves(bank, RQ, WQ, c) /\ bank[c].pkt.queue = "WQ" /\ bank[c].pkt.slot = j
    BY <1>1 DEF Matched
  <2>2. Busy(WQ, j)
    BY <2>1 DEF Serves, Busy
  <2>3. WQ2[j] = WQ[j]
    BY <1>2
  <2> QED BY <2>2, <2>3 DEF Busy
<1>6. \A j \in 1..WQ_SIZE : Busy(WQ2, j) =>
        /\ Busy(WQ, j)
        /\ \A c \in Banks : bank[c].valid /\ bank[c].pkt = [queue |-> "WQ", slot |-> j]
                             => bank2[c].valid
  BY DEF Busy
<1>7. /\ RQ \in Queue(RQ_SIZE) /\ WQ \in Queue(WQ_SIZE)
      /\ RQ2 \in Queue(RQ_SIZE) /\ WQ2 \in Queue(WQ_SIZE)
      /\ Matched(bank, RQ, WQ, active)
  OBVIOUS
<1> DEFINE active2 == active
<1>8. active2 # NoBank => bank2[active2].valid
  OBVIOUS
<1> HIDE DEF active2
<1>9. Matched(bank2, RQ2, WQ2, active2)
  BY ONLY <1>1, <1>3, <1>4, <1>5, <1>6, <1>7, <1>8, MatchedLess
<1> QED BY <1>9 DEF active2

LEMMA SwapStep ==
  ASSUME IInv, swap_write_mode
  PROVE  IInv'
<1> DEFINE old == ch.bank
           bank2 == [b \in Banks |-> IF b \in Withdrawn THEN ResetBank(ch.bank[b])
                                     ELSE ch.bank[b]]
           RQ2 == ResetQueue("RQ")
           WQ2 == ResetQueue("WQ")
           bus2 == TURN_AROUND + (IF ch.active = NoBank THEN 0 ELSE ch.bank[ch.active].wait)
           RQFrom(k) == \E b \in Withdrawn : old[b].pkt = [queue |-> "RQ", slot |-> k]
           WQFrom(k) == \E b \in Withdrawn : old[b].pkt = [queue |-> "WQ", slot |-> k]
<1>1. /\ stage = "mode" /\ stage' = "refresh" /\ reads' = reads /\ writes' = writes
      /\ answered' = answered /\ stage' \in DOMAIN Follows
  BY DEF swap_write_mode, Call, Follows
<1>2. CASE ~Unbalanced
  BY <1>1, <1>2, NothingStep DEF swap_write_mode
<1>3. CASE Unbalanced
  <2>1. ch' = [ch EXCEPT !.bank = bank2, !.RQ = RQ2, !.WQ = WQ2, !.bus = bus2,
                         !.write_mode = ~@]
    BY <1>3 DEF swap_write_mode
  <2>2. /\ ch \in ChannelStates /\ TypeOK /\ old \in [Banks -> BankStates]
        /\ ch.active \in Banks \cup {NoBank} /\ ch.write_mode \in BOOLEAN
        /\ ch.RQ \in Queue(RQ_SIZE) /\ ch.WQ \in Queue(WQ_SIZE)
        /\ ReadsHeld(ch.RQ, ch.WQ, reads, answered)
        /\ Matched(old, ch.RQ, ch.WQ, ch.active)
        /\ ch.active # NoBank => old[ch.active].valid
        /\ CheckedQueue(ch.RQ, stage') /\ CheckedQueue(ch.WQ, stage')
    BY <1>1, Parts, BusStaysValid DEF IInv, TypeOK, CheckedQueue
  <2>3. bus2 \in Nat
    BY <2>2, BankParts, DramAssumption
  <2>4. ASSUME NEW bank \in BankStates
        PROVE  /\ ResetBank(bank) \in BankStates /\ ~ResetBank(bank).valid
               /\ ResetBank(bank).need_refresh = bank.need_refresh
    BY DEF ResetBank, BankStates
  <2>5. \A b \in Banks : bank2[b] = IF b \in Withdrawn THEN ResetBank(old[b]) ELSE old[b]
    OBVIOUS
  <2>6. bank2 \in [Banks -> BankStates]
    BY <2>2, <2>4
  <2>7. \A b \in Banks : /\ b \in Withdrawn => ~bank2[b].valid
                         /\ b \notin Withdrawn => bank2[b] = old[b]
    BY <2>2, <2>4, <2>5
  <2>8. \A b \in Withdrawn : b \in Banks /\ old[b].valid /\ b # ch.active
    BY DEF Withdrawn
  <2>9. /\ RQ2 \in Queue(RQ_SIZE) /\ Slots(RQ2) = Slots(ch.RQ)
        /\ \A k \in 1..RQ_SIZE :
             IF RQFrom(k)
             THEN /\ ~Busy(RQ2, k) /\ Busy(ch.RQ, k)
                  /\ RQ2[k] = [ch.RQ[k] EXCEPT !.scheduled = FALSE]
             ELSE RQ2[k] = ch.RQ[k]
        /\ WQ2 \in Queue(WQ_SIZE) /\ Slots(WQ2) = Slots(ch.WQ)
        /\ \A k \in 1..WQ_SIZE :
             IF WQFrom(k)
             THEN /\ ~Busy(WQ2, k) /\ Busy(ch.WQ, k)
                  /\ WQ2[k] = [ch.WQ[k] EXCEPT !.scheduled = FALSE]
             ELSE WQ2[k] = ch.WQ[k]
    BY ResetSlots
  <2> HIDE DEF bank2, RQ2, WQ2, bus2
  <2>10. /\ ch' \in ChannelStates /\ ch'.RQ = RQ2 /\ ch'.WQ = WQ2 /\ ch'.bank = bank2
         /\ ch'.active = ch.active /\ ch'.warmup = ch.warmup
    BY <2>1, <2>2, <2>3, <2>6, <2>9 DEF ChannelStates
  <2>11. \A k \in Slots(ch.RQ) :
           /\ k \in 1..RQ_SIZE
           /\ RQ2[k].instr_depend_on_me = ch.RQ[k].instr_depend_on_me
           /\ RQ2[k].forward_checked = ch.RQ[k].forward_checked
           /\ RQ2[k].scheduled => ch.RQ[k].scheduled
    <3> SUFFICES ASSUME NEW k \in Slots(ch.RQ)
                 PROVE  /\ k \in 1..RQ_SIZE
                        /\ RQ2[k].instr_depend_on_me = ch.RQ[k].instr_depend_on_me
                        /\ RQ2[k].forward_checked = ch.RQ[k].forward_checked
                        /\ RQ2[k].scheduled => ch.RQ[k].scheduled
      OBVIOUS
    <3>1. k \in 1..RQ_SIZE /\ ch.RQ[k] \in Packets
      BY <2>2, SlotFacts
    <3>2. RQ2[k] = [ch.RQ[k] EXCEPT !.scheduled = FALSE] \/ RQ2[k] = ch.RQ[k]
      BY <2>9, <3>1
    <3> QED BY <3>1, <3>2 DEF Packets
  <2>12. \A k \in Slots(ch.WQ) :
           /\ k \in 1..WQ_SIZE
           /\ WQ2[k].instr_depend_on_me = ch.WQ[k].instr_depend_on_me
           /\ WQ2[k].forward_checked = ch.WQ[k].forward_checked
           /\ WQ2[k].scheduled => ch.WQ[k].scheduled
    <3> SUFFICES ASSUME NEW k \in Slots(ch.WQ)
                 PROVE  /\ k \in 1..WQ_SIZE
                        /\ WQ2[k].instr_depend_on_me = ch.WQ[k].instr_depend_on_me
                        /\ WQ2[k].forward_checked = ch.WQ[k].forward_checked
                        /\ WQ2[k].scheduled => ch.WQ[k].scheduled
      OBVIOUS
    <3>1. k \in 1..WQ_SIZE /\ ch.WQ[k] \in Packets
      BY <2>2, SlotFacts
    <3>2. WQ2[k] = [ch.WQ[k] EXCEPT !.scheduled = FALSE] \/ WQ2[k] = ch.WQ[k]
      BY <2>9, <3>1
    <3> QED BY <3>1, <3>2 DEF Packets
  <2>13. ReadsHeld(RQ2, WQ2, reads, answered)
    BY <2>2, <2>9, <2>11, <2>12, ReadsHeldKept
  <2>14. CheckedQueue(RQ2, stage') /\ CheckedQueue(WQ2, stage')
    BY <2>2, <2>9, <2>11, <2>12 DEF CheckedQueue
  <2>15. TypeOK'
    BY <1>1, <2>2, <2>10 DEF TypeOK
  <2>16. WarmupIdle'
    BY <1>1, <2>7, <2>8, <2>9, <2>10 DEF IInv, WarmupIdle
  <2>17. RefreshesDue'
    BY <1>1, <2>7, <2>10 DEF IInv, RefreshesDue
  <2>18. Matched(bank2, RQ2, WQ2, ch.active)
    <3> DEFINE oldRQ == ch.RQ
               oldWQ == ch.WQ
               bus == ch.active
    <3>1. /\ oldRQ \in Queue(RQ_SIZE) /\ oldWQ \in Queue(WQ_SIZE)
          /\ RQ2 \in Queue(RQ_SIZE) /\ WQ2 \in Queue(WQ_SIZE)
          /\ Matched(old, oldRQ, oldWQ, bus)
      BY <2>2, <2>9
    <3>2. \A b \in Banks :
            (old[b].valid /\ ~bank2[b].valid) \/ bank2[b] = old[b]
      BY <2>7, <2>8
    <3>3. bus # NoBank => bank2[bus].valid
      BY <2>2, <2>7, <2>8
    <3>4. \A k \in 1..RQ_SIZE :
            IF \E b \in Banks : /\ old[b].valid /\ ~bank2[b].valid
                               /\ old[b].pkt = [queue |-> "RQ", slot |-> k]
            THEN ~Busy(RQ2, k) /\ Busy(oldRQ, k) ELSE RQ2[k] = oldRQ[k]
      BY <2>7, <2>8, <2>9, ZenonT(60)
    <3>5. \A k \in 1..WQ_SIZE :
            IF \E b \in Banks : /\ old[b].valid /\ ~bank2[b].valid
                               /\ old[b].pkt = [queue |-> "WQ", slot |-> k]
            THEN ~Busy(WQ2, k) /\ Busy(oldWQ, k) ELSE WQ2[k] = oldWQ[k]
      BY <2>7, <2>8, <2>9, ZenonT(60)
    <3> HIDE DEF old, oldRQ, oldWQ, bus
    <3>6. Matched(bank2, RQ2, WQ2, bus)
      BY ONLY <3>1, <3>2, <3>3, <3>4, <3>5, SwapMatched
    <3> QED BY <3>6 DEF bus
  <2> QED BY <1>1, <2>10, <2>13, <2>14, <2>15, <2>16, <2>17, <2>18 DEF IInv
<1> QED BY <1>2, <1>3


----------------------------------------------------------------------------
(* Refreshes, the bus, and service *)

LEMMA RefreshBankFacts ==
  ASSUME NEW bank \in BankStates, NEW due \in BOOLEAN,
         bank.valid => ~bank.under_refresh
  PROVE  /\ RefreshBank(bank, due) \in BankStates
         /\ RefreshBank(bank, due).valid <=> bank.valid
         /\ RefreshBank(bank, due).pkt = bank.pkt
         /\ bank.valid => /\ RefreshBank(bank, due).open_row = bank.open_row
                          /\ ~RefreshBank(bank, due).under_refresh
         /\ RefreshBank(bank, due).need_refresh => bank.valid
         /\ bank.need_refresh => \/ RefreshBank(bank, due).need_refresh
                                 \/ RefreshBank(bank, due).under_refresh
         /\ bank.under_refresh /\ bank.wait > 0 => RefreshBank(bank, due).under_refresh
<1> DEFINE asked == [bank EXCEPT !.need_refresh = @ \/ due]
           begun == [asked EXCEPT !.wait = tRFC, !.need_refresh = FALSE, !.under_refresh = TRUE]
           ended == [asked EXCEPT !.under_refresh = FALSE, !.open_row = NoRow]
           new == RefreshBank(bank, due)
<1>1. tRFC \in Nat
  BY DramAssumption
<1>2. /\ asked \in BankStates /\ asked.pkt = bank.pkt
      /\ asked.open_row = bank.open_row
      /\ asked.valid <=> bank.valid
      /\ asked.under_refresh <=> bank.under_refresh
      /\ asked.need_refresh <=> (bank.need_refresh \/ due)
      /\ asked.wait = bank.wait /\ bank.wait \in Nat
  BY DEF BankStates
<1> HIDE DEF asked
<1>3. /\ begun \in BankStates /\ begun.pkt = bank.pkt
      /\ begun.valid <=> bank.valid
      /\ ~begun.need_refresh /\ begun.under_refresh
  BY <1>1, <1>2 DEF BankStates
<1>4. /\ ended \in BankStates /\ ended.pkt = bank.pkt
      /\ ended.valid <=> bank.valid
      /\ ended.need_refresh <=> asked.need_refresh
  BY <1>2 DEF BankStates
<1> HIDE DEF begun, ended
<1>5. new = IF asked.need_refresh /\ ~asked.valid THEN begun
            ELSE IF asked.under_refresh /\ asked.wait = 0 THEN ended ELSE asked
  BY DEF RefreshBank, asked, begun, ended
<1> HIDE DEF new
<1>6. CASE asked.need_refresh /\ ~asked.valid
  <2>1. new = begun /\ ~bank.valid
    BY <1>2, <1>5, <1>6
  <2> QED BY <1>3, <2>1 DEF new
<1>7. CASE ~(asked.need_refresh /\ ~asked.valid) /\ asked.under_refresh /\ asked.wait = 0
  <2>1. new = ended
    BY <1>5, <1>7
  <2>2. ~bank.valid
    BY <1>2, <1>7
  <2>3. ~asked.need_refresh /\ ~bank.need_refresh
    BY <1>2, <1>7, <2>2
  <2>4. ~(bank.wait > 0)
    BY <1>2, <1>7
  <2> QED BY <1>4, <2>1, <2>2, <2>3, <2>4 DEF new
<1>8. CASE ~(asked.need_refresh /\ ~asked.valid) /\ ~(asked.under_refresh /\ asked.wait = 0)
  <2>1. new = asked
    BY <1>5, <1>8
  <2>2. asked.need_refresh => bank.valid
    BY <1>2, <1>8
  <2> QED BY <1>2, <2>1, <2>2 DEF new
<1> QED BY <1>6, <1>7, <1>8

\* What the calls have in common that change the banks but not the queues.
LEMMA BanksChanged ==
  ASSUME IInv, NEW bank2 \in [Banks -> BankStates], NEW active2 \in Banks \cup {NoBank},
         ch' \in ChannelStates, ch'.RQ = ch.RQ, ch'.WQ = ch.WQ, ch'.bank = bank2,
         ch'.active = active2, ch'.warmup = ch.warmup,
         answered' = answered, reads' = reads, writes' = writes,
         stage' \in DOMAIN Follows, stage \notin {"start", "check"},
         \A b \in Banks : /\ bank2[b].valid <=> ch.bank[b].valid
                          /\ ch.bank[b].valid =>
                               /\ bank2[b].pkt = ch.bank[b].pkt
                               /\ bank2[b].open_row = ch.bank[b].open_row
                               /\ ~bank2[b].under_refresh
                          /\ stage' \in {"populate", "serve"} /\ bank2[b].need_refresh
                               => bank2[b].valid,
         active2 # NoBank => bank2[active2].valid
  PROVE  IInv'
<1>1. /\ TypeOK /\ ch.RQ \in Queue(RQ_SIZE) /\ ch.WQ \in Queue(WQ_SIZE)
      /\ ch.active \in Banks \cup {NoBank}
  BY Parts DEF IInv
<1>2. TypeOK'
  BY <1>1 DEF TypeOK
<1>3. CheckedQueue(ch.RQ, stage') /\ CheckedQueue(ch.WQ, stage')
  BY DEF IInv, CheckedQueue
<1>4. WarmupIdle'
  <2> SUFFICES ASSUME ch.warmup
               PROVE  /\ \A b \in Banks : ~bank2[b].valid
                      /\ active2 = NoBank
                      /\ Slots(ch.RQ) = {} /\ Slots(ch.WQ) = {}
    BY DEF WarmupIdle
  <2> QED BY DEF IInv, WarmupIdle
<1>5. RefreshesDue'
  BY DEF RefreshesDue
<1>6. Matched(bank2, ch.RQ, ch.WQ, active2)
  <2> DEFINE old == ch.bank
             RQ2 == ch.RQ
             WQ2 == ch.WQ
  <2>1. Matched(old, RQ2, WQ2, ch.active)
    BY DEF IInv
  <2>2. RQ2 \in Queue(RQ_SIZE) /\ WQ2 \in Queue(WQ_SIZE)
    BY <1>1
  <2>3. \A b \in Banks : /\ bank2[b].valid <=> old[b].valid
                         /\ old[b].valid => /\ bank2[b].pkt = old[b].pkt
                                            /\ bank2[b].open_row = old[b].open_row
    OBVIOUS
  <2>4. active2 # NoBank => bank2[active2].valid
    OBVIOUS
  <2> HIDE DEF old, RQ2, WQ2
  <2>5. Matched(bank2, RQ2, WQ2, active2)
    BY ONLY <2>1, <2>2, <2>3, <2>4, MatchedKept
  <2> QED BY <2>5 DEF RQ2, WQ2
<1> QED BY <1>2, <1>3, <1>4, <1>5, <1>6 DEF IInv

LEMMA RefreshStep ==
  ASSUME IInv, schedule_refresh
  PROVE  /\ IInv'
         /\ \A b \in Banks :
              /\ ch.bank[b].need_refresh => ch'.bank[b].need_refresh \/ ch'.bank[b].under_refresh
              /\ ch.bank[b].under_refresh /\ ch.bank[b].wait > 0 => ch'.bank[b].under_refresh
<1> DEFINE bank2 == [b \in Banks |-> RefreshBank(ch.bank[b], ch.refresh = 0)]
           refresh2 == IF ch.refresh = 0 THEN tREF ELSE ch.refresh
<1>1. /\ stage = "refresh" /\ stage' = "populate" /\ reads' = reads /\ writes' = writes
      /\ answered' = answered /\ stage' \in DOMAIN Follows
      /\ ch' = [ch EXCEPT !.refresh = refresh2, !.bank = bank2]
  BY DEF schedule_refresh, Call, Follows
<1>2. /\ ch \in ChannelStates /\ ch.bank \in [Banks -> BankStates]
      /\ ch.active \in Banks \cup {NoBank} /\ ch.refresh \in Nat /\ tREF \in Nat
      /\ ch.active # NoBank => ch.bank[ch.active].valid
  BY Parts, BusStaysValid, DramAssumption DEF IInv, TypeOK
<1>3. \A b \in Banks : ch.bank[b] \in BankStates /\ (ch.bank[b].valid => ~ch.bank[b].under_refresh)
  BY <1>2 DEF IInv, RefreshesDue
<1>4. \A b \in Banks :
        /\ bank2[b] \in BankStates
        /\ bank2[b].valid <=> ch.bank[b].valid
        /\ bank2[b].pkt = ch.bank[b].pkt
        /\ ch.bank[b].valid => /\ bank2[b].open_row = ch.bank[b].open_row
                               /\ ~bank2[b].under_refresh
        /\ bank2[b].need_refresh => ch.bank[b].valid
        /\ ch.bank[b].need_refresh => bank2[b].need_refresh \/ bank2[b].under_refresh
        /\ ch.bank[b].under_refresh /\ ch.bank[b].wait > 0 => bank2[b].under_refresh
  <2> TAKE b \in Banks
  <2> DEFINE bank == ch.bank[b]
             due == ch.refresh = 0
  <2>1. /\ bank2[b] = RefreshBank(bank, due) /\ due \in BOOLEAN
        /\ bank \in BankStates
        /\ bank.valid => ~bank.under_refresh
    BY <1>3
  <2> HIDE DEF bank2, due, bank
  <2>2. /\ bank2[b] \in BankStates
        /\ bank2[b].valid <=> bank.valid
        /\ bank2[b].pkt = bank.pkt
        /\ bank.valid => /\ bank2[b].open_row = bank.open_row
                         /\ ~bank2[b].under_refresh
        /\ bank2[b].need_refresh => bank.valid
        /\ bank.need_refresh => bank2[b].need_refresh \/ bank2[b].under_refresh
        /\ bank.under_refresh /\ bank.wait > 0 => bank2[b].under_refresh
    BY <2>1, RefreshBankFacts
  <2> QED BY <2>2 DEF bank
<1>5. bank2 \in [Banks -> BankStates] /\ refresh2 \in Nat
  BY <1>2, <1>4
<1> HIDE DEF bank2, refresh2
<1>6. /\ ch' \in ChannelStates /\ ch'.RQ = ch.RQ /\ ch'.WQ = ch.WQ /\ ch'.bank = bank2
      /\ ch'.active = ch.active /\ ch'.warmup = ch.warmup
  BY <1>1, <1>2, <1>5 DEF ChannelStates
<1>7. ch.active # NoBank => bank2[ch.active].valid
  BY <1>2, <1>4
<1>8. IInv'
  BY <1>1, <1>2, <1>4, <1>5, <1>6, <1>7, BanksChanged
<1> QED BY <1>4, <1>6, <1>8

LEMMA PopulateStep ==
  ASSUME IInv, populate_dbus
  PROVE  IInv'
<1>1. /\ stage = "populate" /\ stage' = "serve" /\ reads' = reads /\ writes' = writes
      /\ answered' = answered /\ stage' \in DOMAIN Follows
  BY DEF populate_dbus, Call, Follows
<1>2. CASE ch' = ch
  BY <1>1, <1>2, NothingStep
<1>3. CASE \E b \in Ready : PutOnBus(b)
  <2>1. PICK b \in Ready : PutOnBus(b)
    BY <1>3
  <2>2. /\ b \in Banks /\ ch.bank[b].valid /\ ch \in ChannelStates
        /\ ch.bank \in [Banks -> BankStates] /\ ch.group \in [BankGroups -> Nat]
    BY <2>1, Parts DEF Ready, IInv, TypeOK
  <2> DEFINE address == PacketAt(b).address
             group == bankgroup_request_index(address)
             wait == ch.group[group] + RETURN_TIME
             bank2 == [ch.bank EXCEPT ![b].wait = wait]
             group2 == [ch.group EXCEPT ![group] = RETURN_TIME + BANKGROUP_STALL]
  <2>3. address \in Used
    <3>1. ch.RQ \in Queue(RQ_SIZE) /\ ch.WQ \in Queue(WQ_SIZE)
      BY Parts DEF IInv
    <3>2. \/ \E k \in Slots(ch.RQ) : PacketAt(b) = ch.RQ[k]
          \/ \E k \in Slots(ch.WQ) : PacketAt(b) = ch.WQ[k]
      BY <2>2, PacketOfBank
    <3> QED BY <3>1, <3>2, SlotFacts
  <2>4. group \in BankGroups /\ RETURN_TIME \in Nat /\ BANKGROUP_STALL \in Nat
    <3> HIDE DEF address
    <3> QED BY <2>3, DramAssumption
  <2>5. wait \in Nat
    <3> HIDE DEF group
    <3> QED BY <2>2, <2>4
  <2>6. group2 \in [BankGroups -> Nat]
    <3> HIDE DEF group
    <3> QED BY <2>2, <2>4
  <2>7. ch' = [ch EXCEPT !.active = b, !.bank = bank2, !.group = group2]
    BY <2>1, <2>2 DEF PutOnBus, ChannelStates
  <2> HIDE DEF wait, group2
  <2>8. /\ bank2 \in [Banks -> BankStates]
        /\ \A c \in Banks : /\ bank2[c].valid <=> ch.bank[c].valid
                            /\ bank2[c].pkt = ch.bank[c].pkt
                            /\ bank2[c].open_row = ch.bank[c].open_row
                            /\ bank2[c].under_refresh = ch.bank[c].under_refresh
                            /\ bank2[c].need_refresh = ch.bank[c].need_refresh
    BY <2>2, <2>5 DEF BankStates
  <2> HIDE DEF bank2
  <2>9. /\ ch' \in ChannelStates /\ ch'.RQ = ch.RQ /\ ch'.WQ = ch.WQ /\ ch'.bank = bank2
        /\ ch'.active = b /\ ch'.warmup = ch.warmup
    BY <2>2, <2>6, <2>7, <2>8 DEF ChannelStates
  <2>10. \A c \in Banks : /\ ch.bank[c].valid => ~bank2[c].under_refresh
                          /\ bank2[c].need_refresh => bank2[c].valid
    BY <1>1, <2>8 DEF IInv, RefreshesDue
  <2>11. b \in Banks \cup {NoBank} /\ (b # NoBank => bank2[b].valid)
    BY <2>2, <2>8
  <2> QED BY <1>1, <2>8, <2>9, <2>10, <2>11, BanksChanged
<1> QED BY <1>2, <1>3 DEF populate_dbus


\* A bank begins to serve a packet.
LEMMA ServeMatchedRQ ==
  ASSUME NEW RQ \in Queue(RQ_SIZE), NEW WQ \in Queue(WQ_SIZE), NEW bank, NEW active \in Banks \cup {NoBank},
         NEW RQ2 \in Queue(RQ_SIZE), NEW bank2, NEW b \in Banks, NEW k \in 1..RQ_SIZE,
         Matched(bank, RQ, WQ, active), ~bank[b].valid,
         \A c \in Banks \ {b} :
           /\ bank2[c].valid <=> bank[c].valid
           /\ bank2[c].pkt = bank[c].pkt /\ bank2[c].open_row = bank[c].open_row,
         bank2[b].valid, bank2[b].pkt = [queue |-> "RQ", slot |-> k],
         bank2[b].open_row = get_row(RQ2[k].address),
         bank_request_index(RQ2[k].address) = b,
         ~Busy(RQ, k), Busy(RQ2, k),
         \A j \in 1..RQ_SIZE : j # k => RQ2[j] = RQ[j]
  PROVE  Matched(bank2, RQ2, WQ, active)
<1>1. ASSUME NEW c \in Banks, bank2[c].valid
      PROVE  Serves(bank2, RQ2, WQ, c)
  <2>1. CASE c = b
    <3>1. /\ bank2[b].pkt.queue = "RQ" /\ bank2[b].pkt.slot = k
          /\ bank2[b].pkt \in Places
      BY DEF Places
    <3> QED BY <2>1, <3>1 DEF Serves, Busy
  <2>2. CASE c # b
    <3>1. /\ bank[c].valid /\ bank2[c].pkt = bank[c].pkt
          /\ bank2[c].open_row = bank[c].open_row
          /\ Serves(bank, RQ, WQ, c)
      BY <1>1, <2>2 DEF Matched
    <3>2. CASE bank[c].pkt.queue = "RQ"
      <4>1. bank[c].pkt.slot \in 1..RQ_SIZE /\ Busy(RQ, bank[c].pkt.slot)
        BY <3>1, <3>2 DEF Serves, Places, Busy
      <4>2. RQ2[bank[c].pkt.slot] = RQ[bank[c].pkt.slot]
        BY <4>1
      <4> QED BY <3>1, <3>2, <4>2 DEF Serves
    <3>3. CASE bank[c].pkt.queue # "RQ"
      <4>1. bank[c].pkt.queue = "WQ" /\ "WQ" # "RQ"
        BY <3>1, <3>3 DEF Serves, Places
      <4> QED BY <3>1, <4>1 DEF Serves
    <3> QED BY <3>2, <3>3
  <2> QED BY <2>1, <2>2
<1>2. ASSUME NEW j \in Slots(RQ2), RQ2[j].scheduled
      PROVE  \E c \in Banks : bank2[c].valid /\ bank2[c].pkt = [queue |-> "RQ", slot |-> j]
  <2>1. j \in 1..RQ_SIZE /\ RQ2[j].used
    BY SlotFacts
  <2>2. CASE j = k
    BY <2>2
  <2>3. CASE j # k
    <3>1. j \in Slots(RQ) /\ RQ[j].scheduled
      BY <1>2, <2>1, <2>3 DEF Slots, Queue
    <3>2. PICK c \in Banks : bank[c].valid /\ bank[c].pkt = [queue |-> "RQ", slot |-> j]
      BY <3>1 DEF Matched, Served
    <3>3. c # b
      BY <3>2
    <3> QED BY <3>2, <3>3
  <2> QED BY <2>2, <2>3
<1>3. ASSUME NEW j \in Slots(WQ), WQ[j].scheduled
      PROVE  \E c \in Banks : bank2[c].valid /\ bank2[c].pkt = [queue |-> "WQ", slot |-> j]
  <2>1. PICK c \in Banks : bank[c].valid /\ bank[c].pkt = [queue |-> "WQ", slot |-> j]
    BY <1>3 DEF Matched, Served
  <2>2. c # b
    BY <2>1
  <2> QED BY <2>1, <2>2
<1>4. active # NoBank => bank2[active].valid
  <2>1. active # NoBank => bank[active].valid
    BY DEF Matched
  <2>2. CASE active \in Banks \ {b}
    BY <2>1, <2>2
  <2> QED BY <2>1, <2>2
<1> QED BY <1>1, <1>2, <1>3, <1>4 DEF Matched, Served

LEMMA ServeMatchedWQ ==
  ASSUME NEW RQ \in Queue(RQ_SIZE), NEW WQ \in Queue(WQ_SIZE), NEW bank, NEW active \in Banks \cup {NoBank},
         NEW WQ2 \in Queue(WQ_SIZE), NEW bank2, NEW b \in Banks, NEW k \in 1..WQ_SIZE,
         Matched(bank, RQ, WQ, active), ~bank[b].valid,
         \A c \in Banks \ {b} :
           /\ bank2[c].valid <=> bank[c].valid
           /\ bank2[c].pkt = bank[c].pkt /\ bank2[c].open_row = bank[c].open_row,
         bank2[b].valid, bank2[b].pkt = [queue |-> "WQ", slot |-> k],
         bank2[b].open_row = get_row(WQ2[k].address),
         bank_request_index(WQ2[k].address) = b,
         ~Busy(WQ, k), Busy(WQ2, k),
         \A j \in 1..WQ_SIZE : j # k => WQ2[j] = WQ[j]
  PROVE  Matched(bank2, RQ, WQ2, active)
<1>1. ASSUME NEW c \in Banks, bank2[c].valid
      PROVE  Serves(bank2, RQ, WQ2, c)
  <2>1. CASE c = b
    <3>1. /\ bank2[b].pkt.queue = "WQ" /\ bank2[b].pkt.slot = k
          /\ bank2[b].pkt \in Places
      BY DEF Places
    <3> QED BY <2>1, <3>1 DEF Serves, Busy
  <2>2. CASE c # b
    <3>1. /\ bank[c].valid /\ bank2[c].pkt = bank[c].pkt
          /\ bank2[c].open_row = bank[c].open_row
          /\ Serves(bank, RQ, WQ, c)
      BY <1>1, <2>2 DEF Matched
    <3>2. CASE bank[c].pkt.queue = "WQ"
      <4>1. bank[c].pkt.slot \in 1..WQ_SIZE /\ Busy(WQ, bank[c].pkt.slot)
        BY <3>1, <3>2 DEF Serves, Places, Busy
      <4>2. WQ2[bank[c].pkt.slot] = WQ[bank[c].pkt.slot]
        BY <4>1
      <4> QED BY <3>1, <3>2, <4>2 DEF Serves
    <3>3. CASE bank[c].pkt.queue # "WQ"
      <4>1. bank[c].pkt.queue = "RQ" /\ "RQ" # "WQ"
        BY <3>1, <3>3 DEF Serves, Places
      <4> QED BY <3>1, <4>1 DEF Serves
    <3> QED BY <3>2, <3>3
  <2> QED BY <2>1, <2>2
<1>2. ASSUME NEW j \in Slots(WQ2), WQ2[j].scheduled
      PROVE  \E c \in Banks : bank2[c].valid /\ bank2[c].pkt = [queue |-> "WQ", slot |-> j]
  <2>1. j \in 1..WQ_SIZE /\ WQ2[j].used
    BY SlotFacts
  <2>2. CASE j = k
    BY <2>2
  <2>3. CASE j # k
    <3>1. j \in Slots(WQ) /\ WQ[j].scheduled
      BY <1>2, <2>1, <2>3 DEF Slots, Queue
    <3>2. PICK c \in Banks : bank[c].valid /\ bank[c].pkt = [queue |-> "WQ", slot |-> j]
      BY <3>1 DEF Matched, Served
    <3>3. c # b
      BY <3>2
    <3> QED BY <3>2, <3>3
  <2> QED BY <2>2, <2>3
<1>3. ASSUME NEW j \in Slots(RQ), RQ[j].scheduled
      PROVE  \E c \in Banks : bank2[c].valid /\ bank2[c].pkt = [queue |-> "RQ", slot |-> j]
  <2>1. PICK c \in Banks : bank[c].valid /\ bank[c].pkt = [queue |-> "RQ", slot |-> j]
    BY <1>3 DEF Matched, Served
  <2>2. c # b
    BY <2>1
  <2> QED BY <2>1, <2>2
<1>4. active # NoBank => bank2[active].valid
  <2>1. active # NoBank => bank[active].valid
    BY DEF Matched
  <2>2. CASE active \in Banks \ {b}
    BY <2>1, <2>2
  <2> QED BY <2>1, <2>2
<1> QED BY <1>1, <1>2, <1>3, <1>4 DEF Matched, Served


\* A cycle changes nothing but times.
LEMMA TickParts ==
  ASSUME NEW c \in ChannelStates
  PROVE  /\ Tick(c) \in ChannelStates
         /\ Tick(c).RQ = c.RQ /\ Tick(c).WQ = c.WQ /\ Tick(c).active = c.active
         /\ Tick(c).warmup = c.warmup
         /\ \A b \in Banks : /\ Tick(c).bank[b].valid <=> c.bank[b].valid
                             /\ Tick(c).bank[b].need_refresh <=> c.bank[b].need_refresh
                             /\ Tick(c).bank[b].under_refresh <=> c.bank[b].under_refresh
                             /\ Tick(c).bank[b].pkt = c.bank[b].pkt
                             /\ Tick(c).bank[b].open_row = c.bank[b].open_row
<1> DEFINE bank2 == [b \in Banks |-> [c.bank[b] EXCEPT !.wait = Less(@)]]
           group2 == [g \in BankGroups |-> Less(c.group[g])]
           bus2 == Less(c.bus)
           refresh2 == Less(c.refresh)
<1>1. \A time \in Nat : Less(time) \in Nat
  BY DEF Less
<1>2. /\ c.bank \in [Banks -> BankStates] /\ c.group \in [BankGroups -> Nat]
      /\ c.bus \in Nat /\ c.refresh \in Nat
  BY DEF ChannelStates
<1>3. ASSUME NEW bank \in BankStates
      PROVE  [bank EXCEPT !.wait = Less(@)] \in BankStates
  BY <1>1 DEF BankStates
<1>4. bank2 \in [Banks -> BankStates]
  BY <1>2, <1>3
<1>5. group2 \in [BankGroups -> Nat] /\ bus2 \in Nat /\ refresh2 \in Nat
  BY <1>1, <1>2
<1>6. Tick(c) = [c EXCEPT !.bank = bank2, !.group = group2, !.bus = bus2, !.refresh = refresh2]
  BY DEF Tick
<1>7. \A b \in Banks : /\ bank2[b].valid <=> c.bank[b].valid
                       /\ bank2[b].need_refresh <=> c.bank[b].need_refresh
                       /\ bank2[b].under_refresh <=> c.bank[b].under_refresh
                       /\ bank2[b].pkt = c.bank[b].pkt
                       /\ bank2[b].open_row = c.bank[b].open_row
  BY <1>2 DEF BankStates
<1> HIDE DEF bank2, group2, bus2, refresh2
<1>8. /\ Tick(c) \in ChannelStates /\ Tick(c).bank = bank2
      /\ Tick(c).RQ = c.RQ /\ Tick(c).WQ = c.WQ /\ Tick(c).active = c.active
      /\ Tick(c).warmup = c.warmup
  BY <1>4, <1>5, <1>6 DEF ChannelStates
<1> QED BY <1>7, <1>8

\* The bank that serves, and the packet that is served.
Begun(bank, row, name, k) ==
  [valid |-> TRUE, need_refresh |-> FALSE, under_refresh |-> FALSE,
   open_row |-> row, wait |-> ServeWait(bank, row), pkt |-> [queue |-> name, slot |-> k]]
Scheduled(packet) == [packet EXCEPT !.scheduled = TRUE]

LEMMA ScheduledFacts ==
  ASSUME NEW n \in Nat, NEW queue \in Queue(n), NEW k \in Slots(queue), NEW now,
         ~queue[k].scheduled, CheckedQueue(queue, now), now \notin {"start", "check"}
  PROVE  LET new == [queue EXCEPT ![k] = Scheduled(queue[k])]
         IN  /\ new \in Queue(n) /\ Slots(new) = Slots(queue)
             /\ \A j \in Slots(queue) : new[j].instr_depend_on_me = queue[j].instr_depend_on_me
             /\ CheckedQueue(new, now)
             /\ ~Busy(queue, k) /\ Busy(new, k)
             /\ new[k].address = queue[k].address
             /\ \A j \in 1..n : j # k => new[j] = queue[j]
<1> DEFINE packet == Scheduled(queue[k])
           new == [queue EXCEPT ![k] = packet]
<1>1. /\ Slots(queue) \subseteq 1..n /\ k \in 1..n /\ queue[k] \in Packets
      /\ queue[k].used /\ queue[k].forward_checked
  BY SlotFacts DEF CheckedQueue
<1>2. /\ packet \in Packets /\ packet # Free
      /\ packet.used /\ packet.scheduled /\ packet.forward_checked
      /\ packet.instr_depend_on_me = queue[k].instr_depend_on_me
      /\ packet.address = queue[k].address
  BY <1>1 DEF Scheduled, Packets, Free
<1> HIDE DEF packet
<1>3. new \in Queue(n)
  BY <1>1, <1>2, SlotsOfChange
<1>4. Slots(new) = Slots(queue) \cup {k}
  BY <1>1, <1>2, SlotsOfChange
<1>5. \A j \in 1..n : new[j] = IF j = k THEN packet ELSE queue[j]
  BY DEF Queue
<1> HIDE DEF new
<1>6. Slots(new) = Slots(queue)
  BY <1>4
<1>7. CheckedQueue(new, now)
  BY <1>1, <1>2, <1>5, <1>6 DEF CheckedQueue
<1>8. \A j \in Slots(queue) : new[j].instr_depend_on_me = queue[j].instr_depend_on_me
  BY <1>1, <1>2, <1>5
<1>9. /\ ~Busy(queue, k) /\ Busy(new, k) /\ new[k].address = queue[k].address
      /\ \A j \in 1..n : j # k => new[j] = queue[j]
  BY <1>1, <1>2, <1>5 DEF Busy
<1> QED BY <1>3, <1>6, <1>7, <1>8, <1>9 DEF new, packet


\* What a step may not do with the refreshes of a bank.
KeepsRefresh(bank, later) ==
  /\ bank.need_refresh => later.need_refresh \/ later.under_refresh
  /\ bank.under_refresh /\ bank.wait > 0 => later.under_refresh

LEMMA ServePacketRQ ==
  ASSUME IInv, stage = "serve", stage' = "start", ModeQueue = "RQ",
         NEW k \in Slots(ch.RQ), ~ch.RQ[k].scheduled, CanServe(ch.bank[BankOf(k)]),
         ch' = Tick(service_packet(k)),
         answered' = answered, reads' = reads, writes' = writes
  PROVE  /\ IInv'
         /\ \A c \in Banks : KeepsRefresh(ch.bank[c], ch'.bank[c])
<1> DEFINE packet == ch.RQ[k]
           b == bank_request_index(packet.address)
           row == get_row(packet.address)
           new == [ch.RQ EXCEPT ![k] = Scheduled(packet)]
           begun == Begun(ch.bank[b], row, "RQ", k)
           bankc == [ch.bank EXCEPT ![b] = begun]
           served == service_packet(k)
           bank2 == ch'.bank
<1>1. /\ ch \in ChannelStates /\ TypeOK /\ ch.bank \in [Banks -> BankStates]
      /\ ch.RQ \in Queue(RQ_SIZE) /\ ch.WQ \in Queue(WQ_SIZE)
      /\ RQ_SIZE \in Nat /\ WQ_SIZE \in Nat
      /\ ch.active \in Banks \cup {NoBank}
      /\ ReadsHeld(ch.RQ, ch.WQ, reads, answered)
      /\ Matched(ch.bank, ch.RQ, ch.WQ, ch.active)
      /\ CheckedQueue(ch.RQ, stage) /\ CheckedQueue(ch.WQ, stage)
      /\ ch["RQ"] = ch.RQ
  BY Parts, DramAssumption DEF IInv, TypeOK
<1>2. /\ Slots(ch.RQ) \subseteq 1..RQ_SIZE /\ k \in 1..RQ_SIZE /\ packet.address \in Used
  BY <1>1, SlotFacts
<1>3. /\ b \in Banks /\ BankOf(k) = b /\ ~ch.bank[b].valid /\ ~ch.bank[b].under_refresh
  BY <1>1, <1>2, DramAssumption DEF BankOf, CanServe
<1>4. ServeWait(ch.bank[b], row) \in Nat
  BY DramAssumption DEF ServeWait
<1>5. /\ begun \in BankStates /\ begun.valid /\ begun.pkt = [queue |-> "RQ", slot |-> k]
      /\ begun.open_row = row /\ ~begun.need_refresh /\ ~begun.under_refresh
  <2>1. row \in {get_row(address) : address \in Used}
    BY <1>2
  <2>2. [queue |-> "RQ", slot |-> k] \in Places
    BY <1>2 DEF Places
  <2> HIDE DEF row
  <2> QED BY <1>4, <2>1, <2>2 DEF Begun, BankStates
<1>6. /\ new \in Queue(RQ_SIZE) /\ Slots(new) = Slots(ch.RQ)
      /\ \A j \in Slots(ch.RQ) : new[j].instr_depend_on_me = ch.RQ[j].instr_depend_on_me
      /\ CheckedQueue(new, stage)
      /\ ~Busy(ch.RQ, k) /\ Busy(new, k)
      /\ new[k].address = packet.address
      /\ \A j \in 1..RQ_SIZE : j # k => new[j] = ch.RQ[j]
  BY <1>1, ScheduledFacts
<1>7. served = [ch EXCEPT !.bank = bankc, !.RQ = new]
  <2>1. served = [ch EXCEPT
                    !.bank[b] = [valid |-> TRUE, need_refresh |-> FALSE,
                                 under_refresh |-> FALSE, open_row |-> row,
                                 wait |-> ServeWait(@, row),
                                 pkt |-> [queue |-> "RQ", slot |-> k]],
                    !.RQ[k].scheduled = TRUE]
    BY <1>1, <1>3 DEF service_packet, CanServe
  <2>2. new = [ch.RQ EXCEPT ![k].scheduled = TRUE]
    BY DEF Scheduled
  <2>3. bankc = [ch.bank EXCEPT
                   ![b] = [valid |-> TRUE, need_refresh |-> FALSE,
                           under_refresh |-> FALSE, open_row |-> row,
                           wait |-> ServeWait(@, row),
                           pkt |-> [queue |-> "RQ", slot |-> k]]]
    BY DEF Begun
  <2> HIDE DEF b, row, new, bankc, served
  <2> QED BY <1>1, <2>1, <2>2, <2>3 DEF ChannelStates
<1> HIDE DEF new, begun
<1>8. /\ bankc \in [Banks -> BankStates] /\ bankc[b] = begun
      /\ \A c \in Banks \ {b} : bankc[c] = ch.bank[c]
  BY <1>1, <1>3, <1>5
<1> HIDE DEF bankc, served, b
<1>9. /\ served \in ChannelStates /\ served.RQ = new /\ served.WQ = ch.WQ
      /\ served.bank = bankc /\ served.active = ch.active /\ served.warmup = ch.warmup
  BY <1>1, <1>6, <1>7, <1>8 DEF ChannelStates
<1>10. /\ ch' \in ChannelStates /\ ch'.RQ = new /\ ch'.WQ = ch.WQ
       /\ ch'.active = ch.active /\ ch'.warmup = ch.warmup
       /\ \A c \in Banks : /\ bank2[c].valid <=> bankc[c].valid
                           /\ bank2[c].need_refresh <=> bankc[c].need_refresh
                           /\ bank2[c].under_refresh <=> bankc[c].under_refresh
                           /\ bank2[c].pkt = bankc[c].pkt
                           /\ bank2[c].open_row = bankc[c].open_row
  BY <1>9, TickParts DEF served
<1> HIDE DEF bank2
<1>11. /\ bank2[b].valid /\ bank2[b].pkt = [queue |-> "RQ", slot |-> k]
       /\ bank2[b].open_row = row /\ ~bank2[b].need_refresh /\ ~bank2[b].under_refresh
       /\ \A c \in Banks \ {b} :
            /\ bank2[c].valid <=> ch.bank[c].valid
            /\ bank2[c].need_refresh <=> ch.bank[c].need_refresh
            /\ bank2[c].under_refresh <=> ch.bank[c].under_refresh
            /\ bank2[c].pkt = ch.bank[c].pkt /\ bank2[c].open_row = ch.bank[c].open_row
  BY <1>3, <1>5, <1>8, <1>10
<1>12. ReadsHeld(new, ch.WQ, reads, answered)
  BY <1>1, <1>6, ReadsHeldKept
<1>13. CheckedQueue(ch.RQ, "start") /\ CheckedQueue(ch.WQ, "start") /\ CheckedQueue(new, "start")
  BY <1>1, <1>6 DEF CheckedQueue
<1>14. TypeOK'
  BY <1>1, <1>10 DEF TypeOK, Follows
<1>15. WarmupIdle'
  BY <1>10 DEF IInv, WarmupIdle
<1>16. RefreshesDue'
  BY <1>11 DEF IInv, RefreshesDue, bank2
<1>17. Matched(bank2, new, ch.WQ, ch.active)
  <2> DEFINE old == ch.bank
             RQ2 == ch.RQ
             WQ2 == ch.WQ
             bus == ch.active
  <2>1. /\ Matched(old, RQ2, WQ2, bus) /\ RQ2 \in Queue(RQ_SIZE) /\ WQ2 \in Queue(WQ_SIZE)
        /\ bus \in Banks \cup {NoBank} /\ ~old[b].valid /\ b \in Banks
    BY <1>1, <1>3
  <2>2. \A c \in Banks \ {b} :
          /\ bank2[c].valid <=> old[c].valid
          /\ bank2[c].pkt = old[c].pkt /\ bank2[c].open_row = old[c].open_row
    BY <1>11
  <2>3. /\ bank2[b].valid /\ bank2[b].pkt = [queue |-> "RQ", slot |-> k]
        /\ bank2[b].open_row = get_row(new[k].address)
        /\ bank_request_index(new[k].address) = b
    BY <1>6, <1>11 DEF b
  <2>4. /\ ~Busy(RQ2, k) /\ Busy(new, k) /\ new \in Queue(RQ_SIZE) /\ k \in 1..RQ_SIZE
        /\ \A j \in 1..RQ_SIZE : j # k => new[j] = RQ2[j]
    BY <1>2, <1>6
  <2> HIDE DEF old, RQ2, WQ2, bus
  <2>5. Matched(bank2, new, WQ2, bus)
    BY ONLY <2>1, <2>2, <2>3, <2>4, ServeMatchedRQ
  <2> QED BY <2>5 DEF RQ2, WQ2, bus
<1>18. \A c \in Banks : KeepsRefresh(ch.bank[c], bank2[c])
  <2>1. ~ch.bank[b].need_refresh
    BY <1>3 DEF IInv, RefreshesDue
  <2> QED BY <1>3, <1>11, <2>1 DEF KeepsRefresh
<1> QED BY <1>10, <1>12, <1>13, <1>14, <1>15, <1>16, <1>17, <1>18 DEF IInv, bank2

LEMMA ServePacketWQ ==
  ASSUME IInv, stage = "serve", stage' = "start", ModeQueue = "WQ",
         NEW k \in Slots(ch.WQ), ~ch.WQ[k].scheduled, CanServe(ch.bank[BankOf(k)]),
         ch' = Tick(service_packet(k)),
         answered' = answered, reads' = reads, writes' = writes
  PROVE  /\ IInv'
         /\ \A c \in Banks : KeepsRefresh(ch.bank[c], ch'.bank[c])
<1> DEFINE packet == ch.WQ[k]
           b == bank_request_index(packet.address)
           row == get_row(packet.address)
           new == [ch.WQ EXCEPT ![k] = Scheduled(packet)]
           begun == Begun(ch.bank[b], row, "WQ", k)
           bankc == [ch.bank EXCEPT ![b] = begun]
           served == service_packet(k)
           bank2 == ch'.bank
<1>1. /\ ch \in ChannelStates /\ TypeOK /\ ch.bank \in [Banks -> BankStates]
      /\ ch.RQ \in Queue(RQ_SIZE) /\ ch.WQ \in Queue(WQ_SIZE)
      /\ RQ_SIZE \in Nat /\ WQ_SIZE \in Nat
      /\ ch.active \in Banks \cup {NoBank}
      /\ ReadsHeld(ch.RQ, ch.WQ, reads, answered)
      /\ Matched(ch.bank, ch.RQ, ch.WQ, ch.active)
      /\ CheckedQueue(ch.RQ, stage) /\ CheckedQueue(ch.WQ, stage)
      /\ ch["WQ"] = ch.WQ
  BY Parts, DramAssumption DEF IInv, TypeOK
<1>2. /\ Slots(ch.WQ) \subseteq 1..WQ_SIZE /\ k \in 1..WQ_SIZE /\ packet.address \in Used
  BY <1>1, SlotFacts
<1>3. /\ b \in Banks /\ BankOf(k) = b /\ ~ch.bank[b].valid /\ ~ch.bank[b].under_refresh
  BY <1>1, <1>2, DramAssumption DEF BankOf, CanServe
<1>4. ServeWait(ch.bank[b], row) \in Nat
  BY DramAssumption DEF ServeWait
<1>5. /\ begun \in BankStates /\ begun.valid /\ begun.pkt = [queue |-> "WQ", slot |-> k]
      /\ begun.open_row = row /\ ~begun.need_refresh /\ ~begun.under_refresh
  <2>1. row \in {get_row(address) : address \in Used}
    BY <1>2
  <2>2. [queue |-> "WQ", slot |-> k] \in Places
    BY <1>2 DEF Places
  <2> HIDE DEF row
  <2> QED BY <1>4, <2>1, <2>2 DEF Begun, BankStates
<1>6. /\ new \in Queue(WQ_SIZE) /\ Slots(new) = Slots(ch.WQ)
      /\ \A j \in Slots(ch.WQ) : new[j].instr_depend_on_me = ch.WQ[j].instr_depend_on_me
      /\ CheckedQueue(new, stage)
      /\ ~Busy(ch.WQ, k) /\ Busy(new, k)
      /\ new[k].address = packet.address
      /\ \A j \in 1..WQ_SIZE : j # k => new[j] = ch.WQ[j]
  BY <1>1, ScheduledFacts
<1>7. served = [ch EXCEPT !.bank = bankc, !.WQ = new]
  <2>1. served = [ch EXCEPT
                    !.bank[b] = [valid |-> TRUE, need_refresh |-> FALSE,
                                 under_refresh |-> FALSE, open_row |-> row,
                                 wait |-> ServeWait(@, row),
                                 pkt |-> [queue |-> "WQ", slot |-> k]],
                    !.WQ[k].scheduled = TRUE]
    BY <1>1, <1>3 DEF service_packet, CanServe
  <2>2. new = [ch.WQ EXCEPT ![k].scheduled = TRUE]
    BY DEF Scheduled
  <2>3. bankc = [ch.bank EXCEPT
                   ![b] = [valid |-> TRUE, need_refresh |-> FALSE,
                           under_refresh |-> FALSE, open_row |-> row,
                           wait |-> ServeWait(@, row),
                           pkt |-> [queue |-> "WQ", slot |-> k]]]
    BY DEF Begun
  <2> HIDE DEF b, row, new, bankc, served
  <2> QED BY <1>1, <2>1, <2>2, <2>3 DEF ChannelStates
<1> HIDE DEF new, begun
<1>8. /\ bankc \in [Banks -> BankStates] /\ bankc[b] = begun
      /\ \A c \in Banks \ {b} : bankc[c] = ch.bank[c]
  BY <1>1, <1>3, <1>5
<1> HIDE DEF bankc, served, b
<1>9. /\ served \in ChannelStates /\ served.WQ = new /\ served.RQ = ch.RQ
      /\ served.bank = bankc /\ served.active = ch.active /\ served.warmup = ch.warmup
  BY <1>1, <1>6, <1>7, <1>8 DEF ChannelStates
<1>10. /\ ch' \in ChannelStates /\ ch'.WQ = new /\ ch'.RQ = ch.RQ
       /\ ch'.active = ch.active /\ ch'.warmup = ch.warmup
       /\ \A c \in Banks : /\ bank2[c].valid <=> bankc[c].valid
                           /\ bank2[c].need_refresh <=> bankc[c].need_refresh
                           /\ bank2[c].under_refresh <=> bankc[c].under_refresh
                           /\ bank2[c].pkt = bankc[c].pkt
                           /\ bank2[c].open_row = bankc[c].open_row
  BY <1>9, TickParts DEF served
<1> HIDE DEF bank2
<1>11. /\ bank2[b].valid /\ bank2[b].pkt = [queue |-> "WQ", slot |-> k]
       /\ bank2[b].open_row = row /\ ~bank2[b].need_refresh /\ ~bank2[b].under_refresh
       /\ \A c \in Banks \ {b} :
            /\ bank2[c].valid <=> ch.bank[c].valid
            /\ bank2[c].need_refresh <=> ch.bank[c].need_refresh
            /\ bank2[c].under_refresh <=> ch.bank[c].under_refresh
            /\ bank2[c].pkt = ch.bank[c].pkt /\ bank2[c].open_row = ch.bank[c].open_row
  BY <1>3, <1>5, <1>8, <1>10
<1>12. ReadsHeld(ch.RQ, new, reads, answered)
  BY <1>1, <1>6, ReadsHeldKept
<1>13. CheckedQueue(ch.RQ, "start") /\ CheckedQueue(ch.WQ, "start") /\ CheckedQueue(new, "start")
  BY <1>1, <1>6 DEF CheckedQueue
<1>14. TypeOK'
  BY <1>1, <1>10 DEF TypeOK, Follows
<1>15. WarmupIdle'
  BY <1>10 DEF IInv, WarmupIdle
<1>16. RefreshesDue'
  BY <1>11 DEF IInv, RefreshesDue, bank2
<1>17. Matched(bank2, ch.RQ, new, ch.active)
  <2> DEFINE old == ch.bank
             RQ2 == ch.RQ
             WQ2 == ch.WQ
             bus == ch.active
  <2>1. /\ Matched(old, RQ2, WQ2, bus) /\ RQ2 \in Queue(RQ_SIZE) /\ WQ2 \in Queue(WQ_SIZE)
        /\ bus \in Banks \cup {NoBank} /\ ~old[b].valid /\ b \in Banks
    BY <1>1, <1>3
  <2>2. \A c \in Banks \ {b} :
          /\ bank2[c].valid <=> old[c].valid
          /\ bank2[c].pkt = old[c].pkt /\ bank2[c].open_row = old[c].open_row
    BY <1>11
  <2>3. /\ bank2[b].valid /\ bank2[b].pkt = [queue |-> "WQ", slot |-> k]
        /\ bank2[b].open_row = get_row(new[k].address)
        /\ bank_request_index(new[k].address) = b
    BY <1>6, <1>11 DEF b
  <2>4. /\ ~Busy(WQ2, k) /\ Busy(new, k) /\ new \in Queue(WQ_SIZE) /\ k \in 1..WQ_SIZE
        /\ \A j \in 1..WQ_SIZE : j # k => new[j] = WQ2[j]
    BY <1>2, <1>6
  <2> HIDE DEF old, RQ2, WQ2, bus
  <2>5. Matched(bank2, RQ2, new, bus)
    BY ONLY <2>1, <2>2, <2>3, <2>4, ServeMatchedWQ
  <2> QED BY <2>5 DEF RQ2, WQ2, bus
<1>18. \A c \in Banks : KeepsRefresh(ch.bank[c], bank2[c])
  <2>1. ~ch.bank[b].need_refresh
    BY <1>3 DEF IInv, RefreshesDue
  <2> QED BY <1>3, <1>11, <2>1 DEF KeepsRefresh
<1> QED BY <1>10, <1>12, <1>13, <1>14, <1>15, <1>16, <1>17, <1>18 DEF IInv, bank2


LEMMA ServeStep ==
  ASSUME IInv, Serve
  PROVE  /\ IInv'
         /\ \A b \in Banks : KeepsRefresh(ch.bank[b], ch'.bank[b])
<1>1. /\ stage = "serve" /\ stage' = "start" /\ reads' = reads /\ writes' = writes
      /\ answered' = answered
  BY DEF Serve, Call, Follows
<1>2. /\ ch \in ChannelStates /\ ch.bank \in [Banks -> BankStates]
      /\ ch.active \in Banks \cup {NoBank} /\ ch.write_mode \in BOOLEAN
      /\ ch.active # NoBank => ch.bank[ch.active].valid
  BY Parts, BusStaysValid DEF IInv, TypeOK
<1>3. CASE ch' = Tick(ch)
  <2> DEFINE bank2 == ch'.bank
  <2>1. /\ ch' \in ChannelStates /\ ch'.RQ = ch.RQ /\ ch'.WQ = ch.WQ /\ ch'.active = ch.active
        /\ ch'.warmup = ch.warmup
        /\ \A b \in Banks : /\ bank2[b].valid <=> ch.bank[b].valid
                            /\ bank2[b].need_refresh <=> ch.bank[b].need_refresh
                            /\ bank2[b].under_refresh <=> ch.bank[b].under_refresh
                            /\ bank2[b].pkt = ch.bank[b].pkt
                            /\ bank2[b].open_row = ch.bank[b].open_row
    BY <1>2, <1>3, TickParts
  <2>2. bank2 \in [Banks -> BankStates]
    BY <2>1 DEF ChannelStates
  <2> HIDE DEF bank2
  <2>3. \A b \in Banks : /\ bank2[b].valid <=> ch.bank[b].valid
                         /\ ch.bank[b].valid =>
                              /\ bank2[b].pkt = ch.bank[b].pkt
                              /\ bank2[b].open_row = ch.bank[b].open_row
                              /\ ~bank2[b].under_refresh
                         /\ bank2[b].need_refresh => bank2[b].valid
    BY <1>1, <2>1 DEF IInv, RefreshesDue
  <2>4. ch.active # NoBank => bank2[ch.active].valid
    BY <1>2, <2>1
  <2>5. stage' \in DOMAIN Follows /\ stage \notin {"start", "check"} /\ ch'.bank = bank2
    BY <1>1 DEF Follows, bank2
  <2>6. IInv'
    BY <1>1, <1>2, <2>1, <2>2, <2>3, <2>4, <2>5, BanksChanged
  <2>7. \A b \in Banks : KeepsRefresh(ch.bank[b], bank2[b])
    BY <2>1 DEF KeepsRefresh
  <2> QED BY <2>6, <2>7 DEF bank2
<1>4. ASSUME NEW k \in Unscheduled, ch' = Tick(service_packet(k)),
             CanServe(ch.bank[BankOf(k)])
      PROVE  /\ IInv'
             /\ \A b \in Banks : KeepsRefresh(ch.bank[b], ch'.bank[b])
  <2>1. CASE ch.write_mode
    <3>1. ModeQueue = "WQ"
      BY <2>1 DEF ModeQueue
    <3>2. k \in Slots(ch.WQ) /\ ~ch.WQ[k].scheduled
      BY <1>2, <3>1 DEF Unscheduled, ChannelStates
    <3> QED BY <1>1, <1>4, <3>1, <3>2, ServePacketWQ
  <2>2. CASE ~ch.write_mode
    <3>1. ModeQueue = "RQ"
      BY <2>2 DEF ModeQueue
    <3>2. k \in Slots(ch.RQ) /\ ~ch.RQ[k].scheduled
      BY <1>2, <3>1 DEF Unscheduled, ChannelStates
    <3> QED BY <1>1, <1>4, <3>1, <3>2, ServePacketRQ
  <2> QED BY <2>1, <2>2
<1>5. \/ ch' = Tick(ch)
      \/ \E k \in Unscheduled : ch' = Tick(service_packet(k))
  <2>1. schedule_packet \subseteq Unscheduled
    BY DEF schedule_packet
  <2> QED BY <2>1 DEF Serve
<1>6. \A k : ~CanServe(ch.bank[BankOf(k)]) => service_packet(k) = ch
  BY DEF service_packet
<1> QED BY <1>3, <1>4, <1>5, <1>6

----------------------------------------------------------------------------
(* The theorems *)

LEMMA StepInv == IInv /\ [Next]_vars => IInv'
<1> SUFFICES ASSUME IInv, [Next]_vars PROVE IInv'
  OBVIOUS
<1>1. ASSUME NEW address \in Used, add_rq(address) PROVE IInv'
  BY <1>1, AddReadStep
<1>2. ASSUME NEW address \in Used, add_wq(address) PROVE IInv'
  BY <1>2, AddWriteStep
<1>3. CASE BeginPhase
  BY <1>3, BeginPhaseStep
<1>4. CASE StartCycle
  BY <1>4, StartStep
<1>5. CASE check_write_collision
  BY <1>5, CheckWriteStep
<1>6. CASE check_read_collision
  BY <1>6, CheckReadStep
<1>7. CASE AllChecked
  BY <1>7, AllCheckedStep
<1>8. CASE finish_dbus_request
  BY <1>8, FinishStep
<1>9. CASE swap_write_mode
  BY <1>9, SwapStep
<1>10. CASE schedule_refresh
  BY <1>10, RefreshStep
<1>11. CASE populate_dbus
  BY <1>11, PopulateStep
<1>12. CASE Serve
  BY <1>12, ServeStep
<1>13. CASE UNCHANGED vars
  BY <1>13 DEF vars, IInv, TypeOK, ReadsHeld, CheckedQueue, Slots, WarmupIdle,
               RefreshesDue, Matched, Served, Serves
<1> QED BY <1>1, <1>2, <1>3, <1>4, <1>5, <1>6, <1>7, <1>8, <1>9, <1>10, <1>11, <1>12, <1>13
       DEF Next, Operate

LEMMA Invariance == Spec => []IInv
BY InitInv, StepInv, PTL DEF Spec

\* Each read is held by one slot until it is answered.
LEMMA AnsweredOnce ==
  ASSUME IInv
  PROVE  ReadsAnsweredOnce
<1> SUFFICES ASSUME NEW i \in 1..reads
             PROVE  Cardinality(HoldersOf(i)) = (IF i \in answered THEN 0 ELSE 1)
  BY DEF ReadsAnsweredOnce
<1>1. ReadsHeld(ch.RQ, ch.WQ, reads, answered)
  BY DEF IInv
<1>2. CASE i \in answered
  <2>1. HoldersOf(i) = {}
    BY <1>1, <1>2 DEF HoldersOf, ReadsHeld
  <2> QED BY <1>2, <2>1, FS_EmptySet
<1>3. CASE i \notin answered
  <2>1. PICK k \in Slots(ch.RQ) : i \in ch.RQ[k].instr_depend_on_me
    BY <1>1, <1>3 DEF ReadsHeld
  <2>2. ASSUME NEW j \in Slots(ch.RQ), i \in ch.RQ[j].instr_depend_on_me
        PROVE  j = k
    BY <1>1, <2>1, <2>2 DEF ReadsHeld
  <2>3. HoldersOf(i) = {k}
    BY <2>1, <2>2 DEF HoldersOf
  <2> QED BY <1>3, <2>3, FS_Singleton
<1> QED BY <1>2, <1>3

LEMMA BanksMatch ==
  ASSUME IInv
  PROVE  BanksMatchQueues
<1>1. /\ Matched(ch.bank, ch.RQ, ch.WQ, ch.active)
      /\ ch.RQ \in Queue(RQ_SIZE) /\ ch.WQ \in Queue(WQ_SIZE)
      /\ ch.RQ = ch["RQ"] /\ ch.WQ = ch["WQ"]
  BY Parts DEF IInv
<1>2. ASSUME NEW b \in Banks, ch.bank[b].valid
      PROVE  /\ PacketAt(b).used /\ PacketAt(b).scheduled
             /\ bank_request_index(PacketAt(b).address) = b
             /\ ch.bank[b].open_row = get_row(PacketAt(b).address)
  BY <1>2, PacketOfBank DEF Busy
<1>3. ASSUME NEW queue \in {"RQ", "WQ"}, NEW k \in Slots(ch[queue]), ch[queue][k].scheduled
      PROVE  \E b \in Banks : ch.bank[b].valid /\ ch.bank[b].pkt = [queue |-> queue, slot |-> k]
  <2>1. CASE queue = "RQ"
    BY <1>1, <1>3, <2>1 DEF Matched, Served
  <2>2. CASE queue = "WQ"
    BY <1>1, <1>3, <2>2 DEF Matched, Served
  <2> QED BY <2>1, <2>2
<1>4. ch.active # NoBank => ch.bank[ch.active].valid
  BY <1>1 DEF Matched
<1> QED BY <1>2, <1>3, <1>4 DEF BanksMatchQueues

\* Reads that are merged, forwarded, withdrawn and scheduled again, in a channel
\* of any size and speed, are never lost and never answered twice, and banks and
\* slots refer to each other rightly (DRAM_CHANNEL::operate).
THEOREM RequestsAreKept == Spec => []RequestsKept
<1>1. IInv => RequestsKept
  BY AnsweredOnce, BanksMatch DEF RequestsKept
<1> QED BY <1>1, Invariance, PTL

\* No step of the controller forgets a refresh that is due or ends one early
\* (DRAM_CHANNEL::schedule_refresh, service_packet).
THEOREM RefreshesTakePlace == Spec => RefreshNotForgotten
<1>1. ASSUME IInv, [Next]_vars
      PROVE  [\A b \in Banks :
                /\ ch.bank[b].need_refresh => ch'.bank[b].need_refresh \/ ch'.bank[b].under_refresh
                /\ (ch.bank[b].under_refresh /\ ch.bank[b].wait > 0)
                     => ch'.bank[b].under_refresh]_vars
  <2> SUFFICES ASSUME NEW b \in Banks, Next
               PROVE  KeepsRefresh(ch.bank[b], ch'.bank[b])
    BY <1>1 DEF KeepsRefresh
  <2>1. /\ ch \in ChannelStates /\ ch.bank \in [Banks -> BankStates]
    BY <1>1, Parts DEF IInv, TypeOK
  <2>2. CASE ch'.bank[b].need_refresh = ch.bank[b].need_refresh
               /\ ch'.bank[b].under_refresh = ch.bank[b].under_refresh
    BY <2>2 DEF KeepsRefresh
  <2>3. CASE ch'.bank = ch.bank
    BY <2>3 DEF KeepsRefresh
  <2>4. ASSUME NEW address \in Used, add_rq(address) \/ add_wq(address)
        PROVE  ch'.bank = ch.bank
    BY <2>1, <2>4 DEF add_rq, add_wq, ChannelStates
  <2>5. CASE BeginPhase
    BY <2>1, <2>3, <2>5 DEF BeginPhase, ChannelStates
  <2>6. CASE StartCycle
    BY <2>1, <2>3, <2>6 DEF StartCycle, ChannelStates
  <2>7. CASE check_write_collision
    BY <2>1, <2>3, <2>7 DEF check_write_collision, ChannelStates
  <2>8. CASE check_read_collision
    BY <2>1, <2>3, <2>8 DEF check_read_collision, ChannelStates
  <2>9. CASE AllChecked
    BY <2>3, <2>9 DEF AllChecked
  <2>10. CASE finish_dbus_request
    <3>1. ASSUME ch.active # NoBank, ch.bank[ch.active].wait = 0
          PROVE  ch'.bank = [ch.bank EXCEPT ![ch.active] = Done(@)]
      <4> DEFINE bank2 == [ch.bank EXCEPT ![ch.active] = Done(@)]
      <4>1. \/ \E RQ2 : ch' = [ch EXCEPT !.bank = bank2, !.RQ = RQ2, !.active = NoBank]
            \/ \E WQ2 : ch' = [ch EXCEPT !.bank = bank2, !.WQ = WQ2, !.active = NoBank]
        BY <1>1, <2>10, <3>1, FinishEffect
      <4> HIDE DEF bank2
      <4>2. ch'.bank = bank2
        BY <2>1, <4>1 DEF ChannelStates
      <4> QED BY <4>2 DEF bank2
    <3>2. ch' = ch \/ ch'.bank = [ch.bank EXCEPT ![ch.active] = Done(@)]
      BY <2>10, <3>1 DEF finish_dbus_request
    <3>3. CASE ch'.bank = [ch.bank EXCEPT ![ch.active] = Done(@)]
      BY <2>1, <2>2, <3>3 DEF Done, BankStates
    <3> QED BY <2>3, <3>2, <3>3
  <2>11. CASE swap_write_mode
    <3> DEFINE bank2 == [c \in Banks |-> IF c \in Withdrawn THEN ResetBank(ch.bank[c])
                                         ELSE ch.bank[c]]
    <3>1. ch' = ch \/ ch'.bank = bank2
      <4> HIDE DEF bank2
      <4>1. ch' = ch \/ \E RQ2, WQ2, bus2 :
                          ch' = [ch EXCEPT !.bank = bank2, !.RQ = RQ2, !.WQ = WQ2, !.bus = bus2,
                                           !.write_mode = ~@]
        BY <2>11 DEF swap_write_mode, bank2
      <4> QED BY <2>1, <4>1 DEF ChannelStates
    <3>2. CASE ch'.bank = bank2
      BY <2>1, <2>2, <3>2 DEF ResetBank, BankStates
    <3> QED BY <2>3, <3>1, <3>2
  <2>12. CASE schedule_refresh
    BY <1>1, <2>12, RefreshStep DEF KeepsRefresh
  <2>13. CASE populate_dbus
    <3>1. CASE \E c \in Ready : PutOnBus(c)
      <4>1. PICK c \in Ready : PutOnBus(c)
        BY <3>1
      <4>2. c \in Banks
        BY DEF Ready
      <4>3. \E wait : ch'.bank = [ch.bank EXCEPT ![c].wait = wait]
        BY <2>1, <4>1 DEF PutOnBus, ChannelStates
      <4> QED BY <2>1, <2>2, <4>2, <4>3 DEF BankStates
    <3> QED BY <2>3, <2>13, <3>1 DEF populate_dbus
  <2>14. CASE Serve
    BY <1>1, <2>14, ServeStep
  <2> QED BY <2>3, <2>4, <2>5, <2>6, <2>7, <2>8, <2>9, <2>10, <2>11, <2>12, <2>13, <2>14
         DEF Next, Operate
<1> QED BY <1>1, Invariance, PTL DEF Spec, RefreshNotForgotten

===============================================================================
