----------------------------- MODULE DramChannel -----------------------------
(***************************************************************************)
(* One channel of the memory controller (src/dram_controller.cc): a read   *)
(* and a write queue of slots, the banks, the data bus, the modes and the  *)
(* refreshes.  Reads and writes come in any order, between the cycles.     *)
(*                                                                         *)
(* A cycle is the calls of operate() in their order, an action each; the   *)
(* stage is the call that is next.  Times are kept as what remains of      *)
(* them.  Of several packets or banks that qualify, the code takes the one *)
(* that has been ready longest; here any may be taken.                     *)
(***************************************************************************)
EXTENDS DramMapping, Sequences, SequencesExt

CONSTANTS
  RQ_SIZE, WQ_SIZE,
  tRP, tRCD, tCAS, tRFC, tREF, TURN_AROUND, RETURN_TIME, BANKGROUP_STALL,
  Used,                    \* the addresses that are asked for
  MaxReads, MaxWrites      \* bounds

ASSUME DramAssumption ==
  /\ {RQ_SIZE, WQ_SIZE} \subseteq Nat \ {0}
  /\ {tRP, tRCD, tCAS, tRFC, tREF, TURN_AROUND, RETURN_TIME, BANKGROUP_STALL} \subseteq Nat
  /\ Used \subseteq Addresses
  /\ \A address \in Used : /\ bank_request_index(address) \in Banks
                           /\ bankgroup_request_index(address) \in BankGroups

VARIABLES
  stage,                   \* the call that is next
  ch,                      \* the channel, a record
  reads, writes,           \* how many were asked for
  answered                 \* the reads that were answered

vars == <<stage, ch, reads, writes, answered>>

Free == [used |-> FALSE]
Packet(address, ids) ==
  [used |-> TRUE, address |-> address, scheduled |-> FALSE, forward_checked |-> FALSE,
   instr_depend_on_me |-> ids]

NoPacket == [queue |-> "none", slot |-> 0]
NoRow == 2 ^ ROW_BITS
IdleBank == [valid |-> FALSE, need_refresh |-> FALSE, under_refresh |-> FALSE,
             open_row |-> NoRow, wait |-> 0, pkt |-> NoPacket]
NoBank == Cardinality(Banks)

Init ==
  /\ stage = "start"
  /\ ch = [warmup |-> TRUE,
           RQ |-> [k \in 1..RQ_SIZE |-> Free], WQ |-> [k \in 1..WQ_SIZE |-> Free],
           bank |-> [b \in Banks |-> IdleBank], active |-> NoBank,
           group |-> [g \in BankGroups |-> 0],     \* bankgroup_readytime
           write_mode |-> FALSE, bus |-> 0, refresh |-> tREF]
  /\ reads = 0 /\ writes = 0 /\ answered = {}

----------------------------------------------------------------------------
(* Requests.  The reads of the level above are numbered. *)

Slots(queue) == {k \in DOMAIN queue : queue[k].used}
Empty(queue) == DOMAIN queue \ Slots(queue)

add_rq(address) ==
  /\ stage = "start" /\ reads < MaxReads /\ Empty(ch.RQ) # {}
  /\ reads' = reads + 1
  /\ ch' = [ch EXCEPT !.RQ[Min(Empty(ch.RQ))] = Packet(address, {reads'})]
  /\ UNCHANGED <<stage, writes, answered>>

add_wq(address) ==
  /\ stage = "start" /\ writes < MaxWrites /\ Empty(ch.WQ) # {}
  /\ writes' = writes + 1
  /\ ch' = [ch EXCEPT !.WQ[Min(Empty(ch.WQ))] = Packet(address, {})]
  /\ UNCHANGED <<stage, reads, answered>>

\* The phase after the warmup begins.
BeginPhase ==
  /\ stage = "start" /\ ch.warmup
  /\ ch' = [ch EXCEPT !.warmup = FALSE]
  /\ UNCHANGED <<stage, reads, writes, answered>>

----------------------------------------------------------------------------
\* Mutant of Follows: refreshes are looked at before the bus is.
Follows_RefreshFirst ==
  [start |-> "check", check |-> "refresh", refresh |-> "finish", finish |-> "mode",
   mode |-> "populate", populate |-> "serve", serve |-> "start"]

\* operate: the order of the calls.
Follows ==
  [start |-> "check", check |-> "finish", finish |-> "mode", mode |-> "refresh",
   refresh |-> "populate", populate |-> "serve", serve |-> "start"]

Call(name) == stage = name /\ stage' = Follows[name] /\ UNCHANGED <<reads, writes>>

\* In the warmup, everything is done at once.
StartCycle ==
  /\ Call("start")
  /\ IF ch.warmup
     THEN /\ ch' = [ch EXCEPT !.RQ = [k \in 1..RQ_SIZE |-> Free],
                             !.WQ = [k \in 1..WQ_SIZE |-> Free]]
          /\ answered' = answered \cup
               UNION {ch.RQ[k].instr_depend_on_me : k \in Slots(ch.RQ)}
     ELSE UNCHANGED <<ch, answered>>

----------------------------------------------------------------------------
(* Collisions, in the order of the slots, writes first.  A write joins one  *)
(* that is there; a read is answered from a write, or joins another read,   *)
(* before or behind it in the queue.                                        *)

Colliding(queue, address, except) ==
  {k \in Slots(queue) \ except : queue[k].address = address}

Unchecked(queue) == {k \in Slots(queue) : ~queue[k].forward_checked}

check_write_collision ==
  /\ stage = "check" /\ Unchecked(ch.WQ) # {}
  /\ LET k == Min(Unchecked(ch.WQ))
     IN  ch' = IF Colliding(ch.WQ, ch.WQ[k].address, {k}) # {}
               THEN [ch EXCEPT !.WQ[k] = Free]
               ELSE [ch EXCEPT !.WQ[k].forward_checked = TRUE]
  /\ UNCHANGED <<stage, reads, writes, answered>>

Joined(other, packet) ==
  [other EXCEPT !.instr_depend_on_me = @ \cup packet.instr_depend_on_me]

check_read_collision ==
  /\ stage = "check" /\ Unchecked(ch.WQ) = {} /\ Unchecked(ch.RQ) # {}
  /\ LET k == Min(Unchecked(ch.RQ))
         packet == ch.RQ[k]
         others == Colliding(ch.RQ, packet.address, {k})
     IN  IF Colliding(ch.WQ, packet.address, {}) # {}
         THEN /\ ch' = [ch EXCEPT !.RQ[k] = Free]
              /\ answered' = answered \cup packet.instr_depend_on_me
         ELSE /\ ch' = IF others # {}
                       THEN [ch EXCEPT !.RQ[k] = Free, !.RQ[Min(others)] = Joined(@, packet)]
                       ELSE [ch EXCEPT !.RQ[k].forward_checked = TRUE]
              /\ UNCHANGED answered
  /\ UNCHANGED <<stage, reads, writes>>

AllChecked ==
  /\ Call("check") /\ Unchecked(ch.WQ) = {} /\ Unchecked(ch.RQ) = {}
  /\ UNCHANGED <<ch, answered>>

----------------------------------------------------------------------------
PacketAt(b) == ch[ch.bank[b].pkt.queue][ch.bank[b].pkt.slot]

finish_dbus_request ==
  /\ Call("finish")
  /\ IF ch.active # NoBank /\ ch.bank[ch.active].wait = 0
     THEN LET pkt == ch.bank[ch.active].pkt
          IN  /\ answered' = answered \cup PacketAt(ch.active).instr_depend_on_me
              /\ ch' = [ch EXCEPT !.bank[ch.active].valid = FALSE,
                                  !.bank[ch.active].pkt = NoPacket,
                                  ![pkt.queue][pkt.slot] = Free,
                                  !.active = NoBank]
     ELSE UNCHANGED <<ch, answered>>

----------------------------------------------------------------------------
(* swap_write_mode *)

\* Mutant of HighWatermark: rounded down a second time.
HighWatermark_Low == ((WQ_SIZE * 7) \div 8) - 1

HighWatermark == (WQ_SIZE * 7) \div 8
LowWatermark == (WQ_SIZE * 6) \div 8

writesIn == Cardinality(Slots(ch.WQ))
readsIn == Cardinality(Slots(ch.RQ))

Unbalanced ==
  \/ ~ch.write_mode /\ (writesIn >= HighWatermark \/ (readsIn = 0 /\ writesIn > 0))
  \/ ch.write_mode /\ (writesIn = 0 \/ (readsIn > 0 /\ writesIn < LowWatermark))

\* Mutant of Withdrawn: the request on the bus is withdrawn, too.
Withdrawn_All == {b \in Banks : ch.bank[b].valid}

\* All that are scheduled but the one on the bus.
Withdrawn == {b \in Banks : ch.bank[b].valid} \ {ch.active}

\* A row that is open already is closed, one that is being opened is kept.
ResetBank(bank) ==
  [bank EXCEPT !.valid = FALSE, !.pkt = NoPacket,
               !.open_row = IF bank.wait < tCAS THEN NoRow ELSE @]

ResetQueue(name) ==
  [k \in DOMAIN ch[name] |->
     IF \E b \in Withdrawn : ch.bank[b].pkt = [queue |-> name, slot |-> k]
     THEN [ch[name][k] EXCEPT !.scheduled = FALSE] ELSE ch[name][k]]

swap_write_mode ==
  /\ Call("mode")
  /\ ch' = IF Unbalanced
           THEN [ch EXCEPT
                   !.bank = [b \in Banks |-> IF b \in Withdrawn THEN ResetBank(ch.bank[b])
                                             ELSE ch.bank[b]],
                   !.RQ = ResetQueue("RQ"), !.WQ = ResetQueue("WQ"),
                   !.bus = TURN_AROUND
                           + (IF ch.active = NoBank THEN 0 ELSE ch.bank[ch.active].wait),
                   !.write_mode = ~@]
           ELSE ch
  /\ UNCHANGED answered

----------------------------------------------------------------------------
(* schedule_refresh: a refresh that is due waits for a busy bank. *)

RefreshBank(bank, due) ==
  LET b == [bank EXCEPT !.need_refresh = @ \/ due]
  IN  IF b.need_refresh /\ ~b.valid
      THEN [b EXCEPT !.wait = tRFC, !.need_refresh = FALSE, !.under_refresh = TRUE]
      ELSE IF b.under_refresh /\ b.wait = 0
      THEN [b EXCEPT !.under_refresh = FALSE, !.open_row = NoRow]
      ELSE b

schedule_refresh ==
  /\ Call("refresh")
  /\ ch' = [ch EXCEPT !.refresh = IF @ = 0 THEN tREF ELSE @,
                      !.bank = [b \in Banks |-> RefreshBank(ch.bank[b], ch.refresh = 0)]]
  /\ UNCHANGED answered

----------------------------------------------------------------------------
(* populate_dbus: a request whose bank is ready gets the bus, if that is    *)
(* free, and waits longer if the group of banks has just used it.           *)

Ready == {b \in Banks : ch.bank[b].valid /\ ch.bank[b].wait = 0}
BusFree == ch.active = NoBank /\ ch.bus = 0

PutOnBus(b) ==
  LET group == bankgroup_request_index(PacketAt(b).address)
  IN  ch' = [ch EXCEPT !.active = b,
                       !.bank[b].wait = ch.group[group] + RETURN_TIME,
                       !.group[group] = RETURN_TIME + BANKGROUP_STALL]

populate_dbus ==
  /\ Call("populate")
  /\ IF BusFree /\ Ready # {} THEN \E b \in Ready : PutOnBus(b) ELSE UNCHANGED ch
  /\ UNCHANGED answered

----------------------------------------------------------------------------
(* schedule_packet and service_packet *)

Less(time) == IF time = 0 THEN 0 ELSE time - 1

\* A cycle has passed.
Tick(c) ==
  [c EXCEPT !.bank = [b \in Banks |-> [c.bank[b] EXCEPT !.wait = Less(@)]],
            !.group = [g \in BankGroups |-> Less(c.group[g])],
            !.bus = Less(@), !.refresh = Less(@)]

ModeQueue == IF ch.write_mode THEN "WQ" ELSE "RQ"
Unscheduled == {k \in Slots(ch[ModeQueue]) : ~ch[ModeQueue][k].scheduled}
BankOf(k) == bank_request_index(ch[ModeQueue][k].address)

\* Those whose bank is not busy come first.
schedule_packet ==
  LET free == {k \in Unscheduled : ~ch.bank[BankOf(k)].valid}
  IN  IF free # {} THEN free ELSE Unscheduled

CanServe(bank) == ~bank.valid /\ ~bank.under_refresh

ServeWait(bank, row) ==
  tCAS + (IF bank.open_row = row THEN 0
          ELSE IF bank.open_row = NoRow THEN tRCD ELSE tRP + tRCD)

service_packet(k) ==
  LET b == BankOf(k)
      row == get_row(ch[ModeQueue][k].address)
  IN  IF ~CanServe(ch.bank[b]) THEN ch
      ELSE [ch EXCEPT
              !.bank[b] = [valid |-> TRUE, need_refresh |-> FALSE, under_refresh |-> FALSE,
                           open_row |-> row, wait |-> ServeWait(@, row),
                           pkt |-> [queue |-> ModeQueue, slot |-> k]],
              ![ModeQueue][k].scheduled = TRUE]

Serve ==
  /\ Call("serve")
  /\ IF schedule_packet = {} THEN ch' = Tick(ch)
     ELSE \E k \in schedule_packet : ch' = Tick(service_packet(k))
  /\ UNCHANGED answered

----------------------------------------------------------------------------
Operate ==
  \/ StartCycle
  \/ check_write_collision \/ check_read_collision \/ AllChecked
  \/ finish_dbus_request \/ swap_write_mode \/ schedule_refresh
  \/ populate_dbus \/ Serve

Next ==
  \/ \E address \in Used : add_rq(address) \/ add_wq(address)
  \/ BeginPhase
  \/ Operate

\* The controller operates in every cycle; whether the warmup ends is open.
Spec == Init /\ [][Next]_vars /\ WF_vars(Operate)

----------------------------------------------------------------------------
(* Properties *)

HoldersOf(i) == {k \in Slots(ch.RQ) : i \in ch.RQ[k].instr_depend_on_me}

\* Merged with reads before and behind it, forwarded, withdrawn and scheduled
\* again, a read is never lost and never answered twice.
ReadsAnsweredOnce ==
  \A i \in 1..reads :
    Cardinality(HoldersOf(i)) = (IF i \in answered THEN 0 ELSE 1)

\* The banks refer to slots that are reused: a valid bank's slot holds a packet
\* that is scheduled and for this bank, a scheduled packet has its bank, and
\* what is on the bus is valid.
BanksMatchQueues ==
  /\ \A b \in Banks : ch.bank[b].valid =>
       /\ PacketAt(b).used /\ PacketAt(b).scheduled
       /\ bank_request_index(PacketAt(b).address) = b
       /\ ch.bank[b].open_row = get_row(PacketAt(b).address)
  /\ \A queue \in {"RQ", "WQ"} : \A k \in Slots(ch[queue]) :
       ch[queue][k].scheduled =>
         \E b \in Banks : ch.bank[b].valid /\ ch.bank[b].pkt = [queue |-> queue, slot |-> k]
  /\ ch.active # NoBank => ch.bank[ch.active].valid

\* Requests are never lost, never answered twice, and known to the right bank.
RequestsKept == ReadsAnsweredOnce /\ BanksMatchQueues

\* A refresh that is due waits until the bank is free, and then takes place for
\* its whole time: service_packet clears both flags and must never meet one.
RefreshNotForgotten ==
  [][\A b \in Banks :
       /\ ch.bank[b].need_refresh => ch'.bank[b].need_refresh \/ ch'.bank[b].under_refresh
       /\ (ch.bank[b].under_refresh /\ ch.bank[b].wait > 0) => ch'.bank[b].under_refresh]_vars

\* The modes do not chase one another: when the requests end, every read is
\* answered and every write is done, whatever is withdrawn on the way.
AllServed == []<>(answered = 1..reads /\ Slots(ch.WQ) = {})
==============================================================================
