------------------------------- MODULE Cache ---------------------------------
(***************************************************************************)
(* One cache (src/cache.cc), between the channel to the level above it and *)
(* the channel to the level below: tag checks, the MSHRs that collect the  *)
(* misses of a block, fills with their writebacks, prefetches.             *)
(*                                                                         *)
(* The model is of one set (sets share only the queues), of requests that  *)
(* are translated, and of any replacement policy.  Latencies and widths    *)
(* are abstracted: each step serves one entry, when it is at its turn.     *)
(* The level below is any that answers the reads it takes, in any order.   *)
(***************************************************************************)
EXTENDS Channel

CONSTANTS
  Blocks, Offsets,
  NUM_WAY, MSHR_SIZE, PQ_SIZE,
  RQ_SIZE, WQ_SIZE,        \* of both channels; their prefetch queues have RQ_SIZE
  MAX_TAG,                 \* tag checks per cycle
  TAG_DEPTH,               \* MAX_TAG per cycle of the hit latency
  prefetch_as_load,        \* prefetches are sent down as reads
  MaxRequests,             \* bound: reads, writes and prefetches asked for
  MaxPrefetches            \* bound: the prefetches among them

ASSUME CacheAssumption ==
  /\ {NUM_WAY, MSHR_SIZE, RQ_SIZE, WQ_SIZE, MAX_TAG, TAG_DEPTH} \subseteq Nat \ {0}
  /\ {PQ_SIZE, MaxRequests, MaxPrefetches} \subseteq Nat
  /\ prefetch_as_load \in BOOLEAN

VARIABLES
  match_offset_bits,       \* set when built. L1D: writes are stores; else writebacks
  upper, lower,            \* the channels
  internal_PQ, inflight_tag_check,
  MSHR, inflight_writes,
  block,                   \* way -> Invalid or its block
  serving,                 \* reads that the level below has taken
  asked, reads, prefetches,     \* counts of all requests, and of two kinds among them
  unsaved                  \* history: blocks written, not written back since

counts == <<asked, reads, prefetches>>
vars == <<match_offset_bits, upper, lower, internal_PQ, inflight_tag_check,
          MSHR, inflight_writes, block, serving, counts, unsaved>>

Ways == 1..NUM_WAY
Bypass == NUM_WAY + 1
Invalid == [block |-> "none", dirty |-> FALSE]

Init ==
  /\ match_offset_bits \in BOOLEAN
  /\ upper = EmptyChannel /\ lower = EmptyChannel
  /\ internal_PQ = <<>> /\ inflight_tag_check = <<>>
  /\ MSHR = <<>> /\ inflight_writes = <<>>
  /\ block = [w \in Ways |-> Invalid]
  /\ serving = {} /\ asked = 0 /\ reads = 0 /\ prefetches = 0 /\ unsaved = {}

----------------------------------------------------------------------------
(* The level above: a read waits for its answer, a write does not, and a    *)
(* prefetch that is to stay below the level that asked does not either.     *)

IssueRead(address) ==
  /\ asked < MaxRequests /\ Accepts(upper.RQ, RQ_SIZE)
  /\ asked' = asked + 1 /\ reads' = reads + 1
  /\ upper' = [upper EXCEPT !.RQ = Append(@, Request(address, "LOAD", TRUE, {reads'}))]
  /\ UNCHANGED <<match_offset_bits, lower, internal_PQ, inflight_tag_check,
                 MSHR, inflight_writes, block, serving, prefetches, unsaved>>

IssueWrite(address) ==
  /\ asked < MaxRequests /\ Accepts(upper.WQ, WQ_SIZE)
  /\ asked' = asked + 1
  /\ upper' = [upper EXCEPT !.WQ = Append(@, Request(address, "WRITE", FALSE, {}))]
  /\ UNCHANGED <<match_offset_bits, lower, internal_PQ, inflight_tag_check,
                 MSHR, inflight_writes, block, serving, reads, prefetches,
                 unsaved>>

IssuePrefetch(address, response) ==
  /\ asked < MaxRequests /\ prefetches < MaxPrefetches
  /\ Accepts(upper.PQ, RQ_SIZE)
  /\ asked' = asked + 1 /\ prefetches' = prefetches + 1
  /\ upper' = [upper EXCEPT !.PQ = Append(@, Request(address, "PREFETCH", response, {}))]
  /\ UNCHANGED <<match_offset_bits, lower, internal_PQ, inflight_tag_check,
                 MSHR, inflight_writes, block, serving, reads, unsaved>>

\* prefetch_line, called by the prefetcher of this cache.
PrefetchLine(address, fill_this_level) ==
  /\ asked < MaxRequests /\ prefetches < MaxPrefetches
  /\ Len(internal_PQ) < PQ_SIZE
  /\ asked' = asked + 1 /\ prefetches' = prefetches + 1
  /\ internal_PQ' = Append(internal_PQ, [block |-> Block(address), skip_fill |-> ~fill_this_level])
  /\ UNCHANGED <<match_offset_bits, upper, lower, inflight_tag_check, MSHR,
                 inflight_writes, block, serving, reads, unsaved>>

----------------------------------------------------------------------------
(* operate: collisions, then returns *)

\* A step for each request; the tags are not looked at before all are checked.
CheckCollision ==
  /\ ~AllChecked(upper)
  /\ upper' = check_collision(upper, match_offset_bits)
  /\ UNCHANGED <<match_offset_bits, lower, internal_PQ, inflight_tag_check,
                 MSHR, inflight_writes, block, serving, counts, unsaved>>

Unreturned == {m \in 1..Len(MSHR) : ~MSHR[m].returned}
EntriesFor(b) == {m \in 1..Len(MSHR) : MSHR[m].block = b}

\* Mutant of FinishPacket: the entry keeps its place.
FinishPacket_InPlace ==
  /\ lower.returned # <<>>
  /\ EntriesFor(Head(lower.returned).block) # {}
  /\ LET m == First(EntriesFor(Head(lower.returned).block))
     IN  MSHR' = [MSHR EXCEPT ![m].returned = TRUE]
  /\ lower' = [lower EXCEPT !.returned = Tail(@)]
  /\ UNCHANGED <<match_offset_bits, upper, internal_PQ, inflight_tag_check,
                 inflight_writes, block, serving, counts, unsaved>>

\* finish_packet: the entry changes places with the first that has not
\* returned, so that the returned ones stay in front.
FinishPacket ==
  /\ lower.returned # <<>>
  /\ EntriesFor(Head(lower.returned).block) # {} /\ Unreturned # {}
  /\ LET m == First(EntriesFor(Head(lower.returned).block))
         first == First(Unreturned)
         done == [MSHR[m] EXCEPT !.returned = TRUE]
     IN  MSHR' = IF m = first THEN [MSHR EXCEPT ![m] = done]
                 ELSE [MSHR EXCEPT ![m] = MSHR[first], ![first] = done]
  /\ lower' = [lower EXCEPT !.returned = Tail(@)]
  /\ UNCHANGED <<match_offset_bits, upper, internal_PQ, inflight_tag_check,
                 inflight_writes, block, serving, counts, unsaved>>

----------------------------------------------------------------------------
(* handle_fill *)

\* An invalid way, or one the replacement policy chooses; it may choose not
\* to keep the block, unless it is written.
Victims(type) ==
  LET invalid == {w \in Ways : block[w] = Invalid}
  IN  IF invalid # {} THEN {First(invalid)}
      ELSE Ways \cup (IF type = "WRITE" THEN {} ELSE {Bypass})

WritesBack(w) == w \in Ways /\ block[w].dirty

Respond(entry) ==
  upper' = IF entry.to_return
           THEN [upper EXCEPT !.returned = Append(@, Response(entry.block,
                                                              entry.instr_depend_on_me))]
           ELSE upper

\* Mutant of FillBlock: the new block is clean.
FillBlock_Clean(entry) == [block |-> entry.block, dirty |-> FALSE]

FillBlock(entry) == [block |-> entry.block, dirty |-> entry.type = "WRITE"]

\* A dirty victim needs room in the write queue of the channel below; until
\* there is some, the fill and those behind it wait.
HandleFill(entry, w) ==
  /\ WritesBack(w) => Accepts(lower.WQ, WQ_SIZE)
  /\ lower' = IF WritesBack(w)
              THEN [lower EXCEPT !.WQ = Append(@, Request(<<block[w].block, 0>>, "WRITE",
                                                          FALSE, {}))]
              ELSE lower
  /\ unsaved' = IF WritesBack(w) THEN unsaved \ {block[w].block} ELSE unsaved
  /\ block' = IF w = Bypass THEN block ELSE [block EXCEPT ![w] = FillBlock(entry)]
  /\ Respond(entry)

FillFromMSHR(w) ==
  /\ MSHR # <<>> /\ Head(MSHR).returned /\ w \in Victims(Head(MSHR).type)
  /\ HandleFill(Head(MSHR), w)
  /\ MSHR' = Tail(MSHR)
  /\ UNCHANGED <<match_offset_bits, internal_PQ, inflight_tag_check,
                 inflight_writes, serving, counts>>

FillFromWrites(w) ==
  /\ inflight_writes # <<>> /\ w \in Victims("WRITE")
  /\ HandleFill(Head(inflight_writes), w)
  /\ inflight_writes' = Tail(inflight_writes)
  /\ UNCHANGED <<match_offset_bits, internal_PQ, inflight_tag_check, MSHR,
                 serving, counts>>

----------------------------------------------------------------------------
(* initiate_tag_check *)

TagEntry(b, type, local, to_return, deps) ==
  [block |-> b, type |-> type, skips_fill |-> local, to_return |-> to_return,
   instr_depend_on_me |-> deps]

\* From the level above; the collisions have been looked for.
InitiateTagCheck(queue) ==
  /\ AllChecked(upper) /\ upper[queue] # <<>> /\ Len(inflight_tag_check) < TAG_DEPTH
  /\ LET r == Head(upper[queue])
     IN  inflight_tag_check' =
           Append(inflight_tag_check, TagEntry(Block(r.address), r.type, FALSE,
                                               r.response_requested, r.instr_depend_on_me))
  /\ upper' = [upper EXCEPT ![queue] = Tail(@)]
  /\ UNCHANGED <<match_offset_bits, lower, internal_PQ, MSHR, inflight_writes,
                 block, serving, counts, unsaved>>

InitiatePrefetch ==
  /\ internal_PQ # <<>> /\ Len(inflight_tag_check) < TAG_DEPTH
  /\ inflight_tag_check' =
       Append(inflight_tag_check, TagEntry(Head(internal_PQ).block, "PREFETCH",
                                           Head(internal_PQ).skip_fill, FALSE, {}))
  /\ internal_PQ' = Tail(internal_PQ)
  /\ UNCHANGED <<match_offset_bits, upper, lower, MSHR, inflight_writes, block,
                 serving, counts, unsaved>>

----------------------------------------------------------------------------
(* try_hit, handle_miss and handle_write *)

WaysOf(b) == {w \in Ways : block[w] # Invalid /\ block[w].block = b}
IsHit(k) == WaysOf(inflight_tag_check[k].block) # {}

IsWriteback(entry) == entry.type = "WRITE" /\ ~match_offset_bits

LowerQueue(entry) ==
  IF entry.type = "PREFETCH" /\ ~prefetch_as_load THEN "PQ" ELSE "RQ"

NeedsMSHR(entry) == EntriesFor(entry.block) = {}

\* A miss of a block for which there is no MSHR needs one, and room below.
CanMiss(entry) ==
  (~IsWriteback(entry) /\ NeedsMSHR(entry)) =>
    /\ Len(MSHR) < MSHR_SIZE
    /\ Accepts(lower[LowerQueue(entry)], RQ_SIZE)

\* The first MAX_TAG entries are looked at in each cycle: hits leave, then
\* the misses that find room; an entry that stays does not stop the others.
AtTurn(k) ==
  /\ k <= MAX_TAG
  /\ \A j \in 1..(k - 1) :
       /\ ~IsHit(j)
       /\ IsHit(k) \/ ~CanMiss(inflight_tag_check[j])

OtherChecks(k) == RemoveAt(inflight_tag_check, k)
Wrote(entry) == unsaved' = IF entry.type = "WRITE" THEN unsaved \cup {entry.block} ELSE unsaved

TryHit(k) ==
  /\ AtTurn(k) /\ IsHit(k)
  /\ LET entry == inflight_tag_check[k]
     IN  /\ Respond(entry) /\ Wrote(entry)
         /\ block' = [block EXCEPT ![First(WaysOf(entry.block))].dirty =
                                     @ \/ entry.type = "WRITE"]
  /\ inflight_tag_check' = OtherChecks(k)
  /\ UNCHANGED <<match_offset_bits, lower, internal_PQ, MSHR, inflight_writes,
                 serving, counts>>

\* A writeback that misses is filled without asking the level below.
HandleWrite(k) ==
  /\ AtTurn(k) /\ ~IsHit(k) /\ IsWriteback(inflight_tag_check[k])
  /\ inflight_writes' = Append(inflight_writes, inflight_tag_check[k])
  /\ Wrote(inflight_tag_check[k])
  /\ inflight_tag_check' = OtherChecks(k)
  /\ UNCHANGED <<match_offset_bits, upper, lower, internal_PQ, MSHR, block,
                 serving, counts>>

MshrEntry(entry) ==
  [block |-> entry.block, type |-> entry.type, to_return |-> entry.to_return,
   instr_depend_on_me |-> entry.instr_depend_on_me, returned |-> FALSE]

\* mshr_type::merge: what waits is united; the type is that of the later
\* miss, unless that is a prefetch.
MergeMSHR(predecessor, successor) ==
  [predecessor EXCEPT
     !.type = IF successor.type = "PREFETCH" THEN @ ELSE successor.type,
     !.to_return = @ \/ successor.to_return,
     !.instr_depend_on_me = @ \cup successor.instr_depend_on_me]

MergeMiss(k) ==
  /\ AtTurn(k) /\ ~IsHit(k) /\ ~IsWriteback(inflight_tag_check[k])
  /\ ~NeedsMSHR(inflight_tag_check[k])
  /\ LET entry == inflight_tag_check[k]
     IN  /\ MSHR' = [MSHR EXCEPT ![First(EntriesFor(entry.block))] =
                                   MergeMSHR(@, MshrEntry(entry))]
         /\ Wrote(entry)
  /\ inflight_tag_check' = OtherChecks(k)
  /\ UNCHANGED <<match_offset_bits, upper, lower, internal_PQ, inflight_writes,
                 block, serving, counts>>

\* Mutant of Allocates: every miss gets an MSHR.
Allocates_Always(entry) == TRUE

\* A prefetch that is not to be filled here is passed on and forgotten.
Allocates(entry) == ~entry.skips_fill

HandleMiss(k) ==
  /\ AtTurn(k) /\ ~IsHit(k) /\ ~IsWriteback(inflight_tag_check[k])
  /\ NeedsMSHR(inflight_tag_check[k]) /\ CanMiss(inflight_tag_check[k])
  /\ LET entry == inflight_tag_check[k]
         request == Request(<<entry.block, 0>>,
                            IF entry.type = "WRITE" THEN "RFO" ELSE entry.type,
                            ~entry.skips_fill, entry.instr_depend_on_me)
     IN  /\ lower' = [lower EXCEPT ![LowerQueue(entry)] = Append(@, request)]
         /\ MSHR' = IF Allocates(entry) THEN Append(MSHR, MshrEntry(entry)) ELSE MSHR
         /\ Wrote(entry)
  /\ inflight_tag_check' = OtherChecks(k)
  /\ UNCHANGED <<match_offset_bits, upper, internal_PQ, inflight_writes, block,
                 serving, counts>>

----------------------------------------------------------------------------
(* The level below: it checks its channel for collisions, takes requests    *)
(* and answers those that want it.                                          *)

LowerCheck ==
  /\ ~AllChecked(lower)
  /\ lower' = check_collision(lower, FALSE)
  /\ UNCHANGED <<match_offset_bits, upper, internal_PQ, inflight_tag_check,
                 MSHR, inflight_writes, block, serving, counts, unsaved>>

LowerTake(queue) ==
  /\ AllChecked(lower) /\ lower[queue] # <<>>
  /\ LET r == Head(lower[queue])
     IN  serving' = IF r.response_requested
                    THEN serving \cup {Response(Block(r.address), r.instr_depend_on_me)}
                    ELSE serving
  /\ lower' = [lower EXCEPT ![queue] = Tail(@)]
  /\ UNCHANGED <<match_offset_bits, upper, internal_PQ, inflight_tag_check,
                 MSHR, inflight_writes, block, counts, unsaved>>

LowerAnswer(r) ==
  /\ r \in serving
  /\ serving' = serving \ {r}
  /\ lower' = [lower EXCEPT !.returned = Append(@, r)]
  /\ UNCHANGED <<match_offset_bits, upper, internal_PQ, inflight_tag_check,
                 MSHR, inflight_writes, block, counts, unsaved>>

----------------------------------------------------------------------------
TagChecks == 1..Len(inflight_tag_check)

\* Offsets matter only where they are matched.
Addresses == Blocks \X (IF match_offset_bits THEN Offsets ELSE {0})

Ask ==
  \/ \E a \in Addresses : IssueRead(a) \/ IssueWrite(a)
  \/ \E a \in Addresses, flag \in BOOLEAN : IssuePrefetch(a, flag) \/ PrefetchLine(a, flag)

Serve ==
  \/ CheckCollision
  \/ FinishPacket
  \/ \E w \in 1..Bypass : FillFromMSHR(w) \/ FillFromWrites(w)
  \/ \E queue \in {"WQ", "RQ", "PQ"} : InitiateTagCheck(queue)
  \/ InitiatePrefetch
  \/ \E k \in TagChecks : TryHit(k) \/ HandleWrite(k) \/ MergeMiss(k) \/ HandleMiss(k)
  \/ LowerCheck
  \/ \E queue \in {"WQ", "RQ", "PQ"} : LowerTake(queue)
  \/ \E r \in serving : LowerAnswer(r)

Next == Ask \/ Serve

Spec == Init /\ [][Next]_vars

----------------------------------------------------------------------------
(* Properties *)

\* What is under way below for block b and will be answered.
Expected(b) ==
  Cardinality({k \in 1..Len(lower.RQ) : Block(lower.RQ[k].address) = b
                                        /\ lower.RQ[k].response_requested})
  + Cardinality({k \in 1..Len(lower.PQ) : Block(lower.PQ[k].address) = b
                                          /\ lower.PQ[k].response_requested})
  + Cardinality({r \in serving : r.block = b})
  + Cardinality({k \in 1..Len(lower.returned) : lower.returned[k].block = b})

\* The assertion of finish_packet, and what iter_swap needs: every answer
\* finds one entry, which is still waiting for it, however requests were
\* merged or forwarded on the way down; and no entry waits for nothing.
OneAnswerDue ==
  \A b \in Blocks : Expected(b) = Cardinality(EntriesFor(b) \cap Unreturned)

\* Fills are taken from the front of the MSHRs while they have returned, and
\* misses look for the first entry of a block: the returned entries come
\* first, and a block has one entry.
ReturnedFirst ==
  /\ \A m, n \in 1..Len(MSHR) : m < n =>
       /\ MSHR[n].returned => MSHR[m].returned
       /\ MSHR[m].block # MSHR[n].block
  /\ Len(MSHR) <= MSHR_SIZE

OneAnswerPerMSHR == OneAnswerDue /\ ReturnedFirst

\* The places where read i may be waiting: in the queue above, at the tags,
\* in an MSHR, or in an answer.
WaitsIn(seq, i) == Cardinality({k \in 1..Len(seq) : i \in seq[k].instr_depend_on_me})

\* Every read is in one place, and at that place its answer is due: merging,
\* forwarding, hits and fills lose no read and answer none twice.
EveryReadAnsweredOnce ==
  \A i \in 1..reads :
    /\ WaitsIn(upper.RQ, i) + WaitsIn(inflight_tag_check, i) + WaitsIn(MSHR, i)
         + WaitsIn(upper.returned, i) = 1
    /\ \A k \in 1..Len(MSHR) : i \in MSHR[k].instr_depend_on_me => MSHR[k].to_return

\* A write that has been served is not forgotten before it is written back.
Saved(b) ==
  \/ \E w \in WaysOf(b) : block[w].dirty
  \/ \E m \in EntriesFor(b) : MSHR[m].type = "WRITE"
  \/ \E k \in 1..Len(inflight_writes) : inflight_writes[k].block = b

\* "Blocks that have been written are marked dirty" (the test 407): in a cache
\* that takes writebacks, however they meet reads of the same block.  In L1D
\* a block is in one way only, the first that a lookup finds.
WrittenBlocksAreDirty ==
  /\ ~match_offset_bits => \A b \in unsaved : Saved(b)
  /\ match_offset_bits => \A b \in Blocks : Cardinality(WaysOf(b)) <= 1

\* The same of the stores of L1D.
StoredBlocksAreDirty == match_offset_bits => \A b \in unsaved : Saved(b)

\* Everything that is asked for gets done: full queues and MSHRs, and fills
\* that wait for a writeback, do not stop the cache before all reads are
\* answered and nothing is left in it.
NeverStuck ==
  ENABLED Serve \/
    (/\ \A i \in 1..reads : WaitsIn(upper.returned, i) = 1
     /\ upper.RQ = <<>> /\ upper.WQ = <<>> /\ upper.PQ = <<>> /\ internal_PQ = <<>>
     /\ inflight_tag_check = <<>> /\ MSHR = <<>> /\ inflight_writes = <<>>)
==============================================================================
