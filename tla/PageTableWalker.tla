--------------------------- MODULE PageTableWalker ---------------------------
(***************************************************************************)
(* The page table walker (src/ptw.cc): walks are read level by level       *)
(* through the channel to the cache below, and the page structure caches   *)
(* let a walk start further down.                                          *)
(*                                                                         *)
(* There is one page structure cache for each level that is walked, with   *)
(* one set.  Each step serves one entry when it is at its turn; latencies  *)
(* are abstracted.                                                         *)
(***************************************************************************)
EXTENDS VirtualMemory, Channel, Selection

R == INSTANCE Recency

CONSTANTS LEVELS,          \* the page structure caches; the page table has one more level
          PSCL_WAYS,
          WALK_RQ_SIZE,    \* of the channel above
          PTE_RQ_SIZE      \* of the channel below

ASSUME WalkerAssumption ==
  {LEVELS, PSCL_WAYS, WALK_RQ_SIZE, PTE_RQ_SIZE} \subseteq Nat \ {0}

VARIABLES
  walkRQ, walkReturned,    \* the channel above: virtual pages, and their translations
  walks,                   \* MSHR
  finished, completed,
  pscl,                    \* level -> page structure cache
  vm,
  lower                    \* the channel below

walkerVars == <<walkRQ, walkReturned, walks, finished, completed, pscl, vm, lower>>

Levels == 1..LEVELS

\* The constructor asks for the root of the page table.
RootLevel == LEVELS + 1
CR3_addr == PteAddress(<<1, 0>>, 0)

WalkerInit ==
  /\ walkRQ = <<>> /\ walkReturned = <<>>
  /\ walks = <<>> /\ finished = <<>> /\ completed = <<>>
  /\ pscl = [level \in Levels |-> <<>>]
  /\ vm = MapTable(EmptyMemory, 0, RootLevel)
  /\ lower = EmptyChannel

----------------------------------------------------------------------------
(* step_translation *)

Walk(vpage, address, level) == [v_address |-> vpage, address |-> address, level |-> level]
HasRoom == Accepts(lower.RQ, PTE_RQ_SIZE)

\* Mutant of AsksBelow: the read is forgotten.
AsksBelow_Never(walk) == lower

AsksBelow(walk) ==
  [lower EXCEPT !.RQ = Append(@, Request(walk.address, "TRANSLATION", TRUE, {}))]

StepTranslation(walk) ==
  /\ lower' = AsksBelow(walk)
  /\ walks' = Append(walks, walk)

----------------------------------------------------------------------------
(* handle_read *)

\* What was found at a level is found again by the digits above that level.
PsclTag(vpage, level) == vpage \div shamt(level + 1)
PsclHits(vpage) == {level \in Levels : R!IsIn(pscl[level], PsclTag(vpage, level))}
TouchedPscl(vpage) == [level \in Levels |-> R!Touch(pscl[level], PsclTag(vpage, level))]

\* The walk starts where the lowest cache that hits has been, or from the
\* root; the address it found there is cut to its page.
WalkStart(vpage) ==
  IF PsclHits(vpage) = {}
  THEN Walk(vpage, PteAddress(<<CR3_addr[1][1][1], 0>>, get_offset(vpage, LEVELS)), LEVELS)
  ELSE LET level == First(PsclHits(vpage))
           found == R!ElementOf(pscl[level], PsclTag(vpage, level)).ptw_addr
       IN  Walk(vpage, PteAddress(<<found[1][1][1], 0>>, get_offset(vpage, level)), level)

\* A read that finds no room below stays; the caches have been touched.
HandleRead ==
  /\ walkRQ # <<>>
  /\ pscl' = TouchedPscl(Head(walkRQ))
  /\ IF HasRoom
     THEN StepTranslation(WalkStart(Head(walkRQ))) /\ walkRQ' = Tail(walkRQ)
     ELSE UNCHANGED <<walks, lower, walkRQ>>
  /\ UNCHANGED <<walkReturned, finished, completed, vm>>

----------------------------------------------------------------------------
(* handle_fill: what a step has found goes to its cache, and the walk goes  *)
(* on, or is tried again; the cache is filled in each attempt.              *)

HandleFill ==
  /\ finished # <<>>
  /\ LET step == Head(finished)
     IN  /\ pscl' = [pscl EXCEPT ![step.level] =
                       R!Insert(@, [tag |-> PsclTag(step.v_address, step.level),
                                    ptw_addr |-> step.data], PSCL_WAYS)]
         /\ IF HasRoom
            THEN /\ StepTranslation(Walk(step.v_address, step.data, step.level - 1))
                 /\ finished' = Tail(finished)
            ELSE UNCHANGED <<walks, lower, finished>>
  /\ UNCHANGED <<walkRQ, walkReturned, completed, vm>>

----------------------------------------------------------------------------
(* finish_packet: every walk that waits for the block has its answer, each  *)
(* in turn taking what it needs from the virtual memory.                    *)

Waiting(block) == {k \in 1..Len(walks) : Block(walks[k].address) = block}
LastSteps(steps) == {k \in 1..Len(steps) : steps[k].level = 0}

Mapped(memory, walk) ==
  IF walk.level > 0 THEN MapTable(memory, walk.v_address, walk.level)
  ELSE MapPage(memory, walk.v_address)

AllMapped(memory, steps) ==
  LET after[k \in 0..Len(steps)] ==
        IF k = 0 THEN memory ELSE Mapped(after[k - 1], steps[k])
  IN  after[Len(steps)]

\* What a walk has found, in the memory that all of them leave: a later one
\* changes nothing that an earlier one has found.
Found(memory, walk) ==
  [v_address |-> walk.v_address, level |-> walk.level,
   data |-> IF walk.level > 0 THEN get_pte_pa(memory, walk.v_address, walk.level)
            ELSE va_to_pa(memory, walk.v_address)]
AllFound(memory, steps) == [k \in 1..Len(steps) |-> Found(memory, steps[k])]

\* The order in which the walks of the block are answered, and the one that
\* the others are left in, are std::partition's.
FinishPacket ==
  /\ lower.returned # <<>>
  /\ LET done == Waiting(Head(lower.returned).block)
     IN  \E steps \in Arrangements(walks, done),
            rest \in Arrangements(walks, DOMAIN walks \ done) :
           /\ vm' = AllMapped(vm, steps)
           /\ finished' = finished \o
                AllFound(vm', Selected(steps, DOMAIN steps \ LastSteps(steps)))
           /\ completed' = completed \o AllFound(vm', Selected(steps, LastSteps(steps)))
           /\ walks' = rest
  /\ lower' = [lower EXCEPT !.returned = Tail(@)]
  /\ UNCHANGED <<walkRQ, walkReturned, pscl>>

\* Translations go back to the level above, in the order they were completed.
Complete ==
  /\ completed # <<>>
  /\ walkReturned' = Append(walkReturned, Head(completed))
  /\ completed' = Tail(completed)
  /\ UNCHANGED <<walkRQ, walks, finished, pscl, vm, lower>>

WalkerNext == HandleRead \/ HandleFill \/ FinishPacket \/ Complete
==============================================================================
