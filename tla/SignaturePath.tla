---------------------------- MODULE SignaturePath ----------------------------
(***************************************************************************)
(* The signature path prefetcher (prefetcher/spp_dev): a table of the      *)
(* pages and the signatures of their recent deltas, a table of the deltas  *)
(* that followed a signature, a filter of what was prefetched, and global  *)
(* registers.  A demand updates the tables and then looks ahead, a round   *)
(* of the loop per action.                                                 *)
(*                                                                         *)
(* An address is a block number; hashes are low bits.  The vectors of      *)
(* candidates have as many elements as the cache has MSHRs, and nothing in *)
(* the code stops the lookahead at their end: the model does.              *)
(***************************************************************************)
EXTENDS Integers, FiniteSets, FiniteSetsExt, Functions

CONSTANTS
  ST_WAY, PT_SET, PT_WAY, C_SIG_MAX, SIG_BIT, SIG_SHIFT, SIG_DELTA_BIT,
  QUOTIENTS, MAX_GHR_ENTRY, GLOBAL_COUNTER_MAX, PF_THRESHOLD, FILL_THRESHOLD,
  CANDIDATES, PAGE_BLOCKS, PathBlocks,
  MaxPathDemands           \* bound

VARIABLE spp

\* The count of a signature is halved when it reaches a power of two.
ASSUME SppAssumption == {ST_WAY, PT_SET, PT_WAY} \subseteq Nat \ {0} /\ C_SIG_MAX \in Nat /\ C_SIG_MAX % 2 = 1

PageOf(block) == block \div PAGE_BLOCKS
OffsetOf(block) == block % PAGE_BLOCKS
SigXor(x, y) == MapThenSumSet(LAMBDA k : ((x \div 2^k + y \div 2^k) % 2) * 2^k, 0..(SIG_BIT - 1))

PathInit ==
  spp = [stage |-> "idle", demands |-> 0,
         ST |-> [w \in 0..(ST_WAY - 1) |->
                   [valid |-> FALSE, tag |-> 0, last_offset |-> 0, sig |-> 0, lru |-> w]],
         PT |-> [s \in 0..(PT_SET - 1) |->
                   [c_sig |-> 0, way |-> [w \in 1..PT_WAY |-> [delta |-> 0, c_delta |-> 0]]]],
         filter |-> [q \in 0..(QUOTIENTS - 1) |-> [remainder |-> 0, valid |-> FALSE, useful |-> FALSE]],
         pf_useful |-> 0, pf_issued |-> 0, global_accuracy |-> 0,
         GHR |-> [i \in 1..MAX_GHR_ENTRY |->
                    [valid |-> FALSE, sig |-> 0, confidence |-> 0, offset |-> 0, delta |-> 0]],
         look |-> <<>>]

----------------------------------------------------------------------------
(* GLOBAL_REGISTER *)

\* check_entry: of the entries for this offset, one of the most confident.
check_entry(s, offset) ==
  LET found == {i \in 1..MAX_GHR_ENTRY : s.GHR[i].offset = offset /\ s.GHR[i].confidence > 0}
  IN  {i \in found : \A j \in found : \/ s.GHR[j].confidence < s.GHR[i].confidence
                                      \/ s.GHR[j].confidence = s.GHR[i].confidence /\ i <= j}

\* update_entry: the entry for this offset, or the least confident one.
GhrTarget(s, offset) ==
  LET same == {i \in 1..MAX_GHR_ENTRY : s.GHR[i].valid /\ s.GHR[i].offset = offset}
      least == {i \in 1..MAX_GHR_ENTRY : s.GHR[i].confidence < 100 /\
                  \A j \in 1..MAX_GHR_ENTRY : s.GHR[i].confidence <= s.GHR[j].confidence}
  IN  IF same # {} THEN Min(same) ELSE Min(least)

update_entry(s, sig, confidence, offset, delta) ==
  [s EXCEPT !.GHR[GhrTarget(s, offset)] =
     [valid |-> TRUE, sig |-> sig, confidence |-> confidence, offset |-> offset, delta |-> delta]]

----------------------------------------------------------------------------
(* SIGNATURE_TABLE: read_and_update_sig *)

NextSignature(sig, delta) ==
  LET sig_delta == IF delta < 0 THEN -delta + 2^(SIG_DELTA_BIT - 1) ELSE delta
  IN  SigXor((sig * 2^SIG_SHIFT) % 2^SIG_BIT, sig_delta % 2^SIG_BIT)

\* Mutant of Promoted: those that were as recent are not moved.
Promoted_Only(ST, m) == [ST EXCEPT ![m].lru = 0]

Promoted(ST, m) ==
  [w \in DOMAIN ST |-> IF w = m THEN [ST[w] EXCEPT !.lru = 0]
                       ELSE IF ST[w].lru < ST[m].lru THEN [ST[w] EXCEPT !.lru = @ + 1] ELSE ST[w]]

\* The way of a page: its own, an unused one, or the least recent.
StWay(ST, page) ==
  LET own == {w \in DOMAIN ST : ST[w].valid /\ ST[w].tag = page}
      unused == {w \in DOMAIN ST : ~ST[w].valid}
  IN  IF own # {} THEN Min(own) ELSE IF unused # {} THEN Min(unused)
      ELSE Min({w \in DOMAIN ST : ST[w].lru = ST_WAY - 1})

\* A new page takes up the signature that left another at this offset.
FreshSignature(s, offset) ==
  IF check_entry(s, offset) = {} THEN 0
  ELSE LET e == s.GHR[Min(check_entry(s, offset))] IN NextSignature(e.sig, e.delta)

ReadAndUpdate(s, block) ==
  LET w == StWay(s.ST, PageOf(block))
      entry == s.ST[w]
      hit == entry.valid /\ entry.tag = PageOf(block)
      delta == IF hit THEN OffsetOf(block) - entry.last_offset ELSE 0
      sig == IF ~hit THEN FreshSignature(s, OffsetOf(block))
             ELSE IF delta # 0 THEN NextSignature(entry.sig, delta) ELSE entry.sig
      found == [entry EXCEPT !.valid = TRUE, !.tag = PageOf(block), !.sig = sig,
                             !.last_offset = OffsetOf(block)]
  IN  [state |-> [s EXCEPT !.ST = Promoted([s.ST EXCEPT ![w] = found], w)],
       last_sig |-> IF hit /\ delta # 0 THEN entry.sig ELSE 0,
       curr_sig |-> IF hit /\ delta = 0 THEN 0 ELSE sig,
       delta |-> delta]

----------------------------------------------------------------------------
(* PATTERN_TABLE *)

Halved(set) ==
  IF set.c_sig > C_SIG_MAX
  THEN [c_sig |-> set.c_sig \div 2,
        way |-> [w \in DOMAIN set.way |-> [set.way[w] EXCEPT !.c_delta = @ \div 2]]]
  ELSE set

update_pattern(set, delta) ==
  LET same == {w \in 1..PT_WAY : set.way[w].delta = delta}
      rarest == Min({w \in 1..PT_WAY : \A v \in 1..PT_WAY :
                       set.way[w].c_delta <= set.way[v].c_delta})
      counted == [set EXCEPT !.c_sig = @ + 1]
  IN  Halved(IF same # {} THEN [counted EXCEPT !.way[Min(same)].c_delta = @ + 1]
             ELSE [counted EXCEPT !.way[rarest] = [delta |-> delta, c_delta |-> 0]])

----------------------------------------------------------------------------
(* PREFETCH_FILTER *)

Quotient(block) == block % QUOTIENTS
Remainder(block) == block \div QUOTIENTS
InFilter(s, block) ==
  LET f == s.filter[Quotient(block)]
  IN  (f.valid \/ f.useful) /\ f.remainder = Remainder(block)

\* A prefetch into this level is remembered, one into the level below is not.
CheckPrefetch(s, block, here) ==
  IF here /\ ~InFilter(s, block)
  THEN [s EXCEPT !.filter[Quotient(block)] =
          [remainder |-> Remainder(block), valid |-> TRUE, useful |-> FALSE]]
  ELSE s

CheckDemand(s, block) ==
  LET q == Quotient(block) f == s.filter[q]
  IN  IF f.remainder = Remainder(block) /\ ~f.useful
      THEN [s EXCEPT !.filter[q].useful = TRUE, !.pf_useful = IF f.valid THEN @ + 1 ELSE @]
      ELSE s

\* prefetcher_cache_fill, with the block that is evicted.
Evict(block) ==
  /\ spp.stage = "idle"
  /\ LET q == Quotient(block) f == spp.filter[q]
     IN  spp' = [spp EXCEPT
                   !.pf_useful = IF f.valid /\ ~f.useful /\ @ > 0 THEN @ - 1 ELSE @,
                   !.filter[q] = [remainder |-> 0, valid |-> FALSE, useful |-> FALSE]]

----------------------------------------------------------------------------
(* prefetcher_cache_operate *)

\* The queue of candidates begins with this block itself, at full confidence.
Slot(delta, confidence) == [delta |-> delta, confidence |-> confidence]
Candidates == [i \in 0..(CANDIDATES - 1) |-> Slot(0, IF i = 0 THEN 100 ELSE 0)]

Demand(block) ==
  /\ spp.stage = "idle" /\ spp.demands < MaxPathDemands
  /\ LET accuracy == IF spp.pf_issued = 0 THEN 0 ELSE (100 * spp.pf_useful) \div spp.pf_issued
         r == ReadAndUpdate(spp, block)
         s == CheckDemand(r.state, block)
         set == r.last_sig % PT_SET
     IN  spp' = [s EXCEPT
                   !.demands = @ + 1, !.stage = "read", !.global_accuracy = accuracy,
                   !.PT[set] = IF r.last_sig # 0 THEN update_pattern(@, r.delta) ELSE @,
                   !.look = [page |-> PageOf(block), base |-> block, sig |-> r.curr_sig,
                             confidence |-> 100, depth |-> 0, queue |-> Candidates,
                             head |-> 0, tail |-> 0, at |-> 0, way |-> 0, again |-> FALSE]]

\* read_pattern
PatternConfidence(set, w) ==
  IF spp.look.depth = 0 THEN (100 * set.way[w].c_delta) \div set.c_sig
  ELSE (((spp.global_accuracy * set.way[w].c_delta) \div set.c_sig) * spp.look.confidence) \div 100

ReadPattern ==
  LET l == spp.look
      set == spp.PT[l.sig % PT_SET]
      confidence == [w \in 1..PT_WAY |-> PatternConfidence(set, w)]
      likely == {w \in 1..PT_WAY : confidence[w] >= PF_THRESHOLD}
      best == {w \in likely : \A v \in likely : confidence[v] <= confidence[w]}
      Nth(w) == Cardinality({v \in likely : v < w})
      queue == [i \in DOMAIN l.queue |->
                  LET at == {w \in likely : l.tail + Nth(w) = i}
                  IN  IF at = {} THEN l.queue[i]
                      ELSE LET w == Min(at) IN Slot(set.way[w].delta, confidence[w])]
      tail == l.tail + Cardinality(likely) + 1
  IN  /\ spp.stage = "read" /\ l.tail + PT_WAY < CANDIDATES
      /\ spp' = IF set.c_sig = 0
                THEN [spp EXCEPT !.stage = "issue", !.look.queue[l.tail].confidence = 0,
                                 !.look.at = l.head, !.look.way = 0, !.look.again = FALSE]
                ELSE [spp EXCEPT
                        !.stage = "issue",
                        !.look.queue = queue, !.look.tail = tail,
                        !.look.way = IF best = {} THEN 0 ELSE Min(best),
                        !.look.confidence = IF best = {} THEN 0 ELSE confidence[Min(best)],
                        !.look.depth = IF best = {} THEN @ ELSE @ + 1,
                        !.look.at = l.head, !.look.again = FALSE]

\* A candidate: prefetched when it is in the page and not in the filter, and
\* remembered for the next page when it is not.
Counted(s) ==
  IF s.pf_issued + 1 > GLOBAL_COUNTER_MAX
  THEN [s EXCEPT !.pf_issued = (@ + 1) \div 2, !.pf_useful = @ \div 2]
  ELSE [s EXCEPT !.pf_issued = @ + 1]

IssueCandidate ==
  LET l == spp.look
      c == l.queue[l.at]
      block == l.base + c.delta
      here == c.confidence >= FILL_THRESHOLD
      next == [spp EXCEPT !.look.at = @ + 1]
      taken == [next EXCEPT !.look.again = TRUE, !.look.head = @ + 1]
  IN  /\ spp.stage = "issue" /\ l.at < l.tail
      /\ spp' = IF c.confidence < PF_THRESHOLD THEN next
                ELSE IF PageOf(block) # l.page
                THEN update_entry(taken, l.sig, c.confidence, OffsetOf(block), c.delta)
                ELSE IF here /\ ~InFilter(spp, block)
                THEN Counted(CheckPrefetch(taken, block, TRUE))
                ELSE CheckPrefetch(taken, block, here)

\* The path is followed along its most confident delta.
EndRound ==
  LET l == spp.look
      delta == spp.PT[l.sig % PT_SET].way[l.way].delta
      moved == IF l.way = 0 THEN l
               ELSE [l EXCEPT !.base = @ + delta, !.sig = NextSignature(@, delta)]
      goesOn == l.again /\ l.tail + PT_WAY < CANDIDATES
  IN  /\ spp.stage = "issue" /\ l.at >= l.tail
      /\ spp' = [spp EXCEPT !.stage = IF goesOn THEN "read" ELSE "idle",
                            !.look = IF goesOn THEN moved ELSE <<>>]

PathNext ==
  \/ \E block \in PathBlocks : Demand(block) \/ Evict(block)
  \/ ReadPattern \/ IssueCandidate \/ EndRound

PathSpec == PathInit /\ [][PathNext]_spp

----------------------------------------------------------------------------
\* Halved, replaced and counted in two places, the counts of a signature's deltas
\* stay below the count of the signature: a victim exists, and no delta is certain.
Uses(set) == UNION {{w} \X (1..set.way[w].c_delta) : w \in 1..PT_WAY}
DeltasBelowSignature ==
  \A s \in DOMAIN spp.PT :
    LET set == spp.PT[s]
        sum == Cardinality(Uses(set))
    IN  set.c_sig <= C_SIG_MAX /\ (IF set.c_sig = 0 THEN sum = 0 ELSE sum < set.c_sig)

\* The ages of the pages are a permutation (a least recent one is always found, as
\* the code asserts), and no page has two ways.
PagesAged ==
  /\ {spp.ST[w].lru : w \in DOMAIN spp.ST} = 0..(ST_WAY - 1)
  /\ \A v, w \in DOMAIN spp.ST :
       (spp.ST[v].valid /\ spp.ST[w].valid /\ spp.ST[v].tag = spp.ST[w].tag) => v = w

PathTablesConsistent == DeltasBelowSignature /\ PagesAged
==============================================================================
