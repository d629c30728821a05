----------------------------- MODULE Translation -----------------------------
(***************************************************************************)
(* Address translation in a cache (src/cache.cc), composed with the page   *)
(* table walker: requests of the core wait in the stash for translations,  *)
(* and the walks read the page table through this same cache.              *)
(*                                                                         *)
(* This is the default hierarchy without the TLBs between L1D and the      *)
(* walker, which are caches themselves.  What follows a tag check is       *)
(* Cache.tla's: here a read hits, or misses and is answered some time.     *)
(***************************************************************************)
EXTENDS PageTableWalker

CONSTANTS
  VPages,                  \* the virtual pages of the core's requests
  CORE_RQ_SIZE,
  MSHR_SIZE,               \* also limits the stash
  MAX_TAG, TAG_DEPTH,      \* as in Cache
  MaxRequests              \* bound

ASSUME TranslationAssumption ==
  /\ {CORE_RQ_SIZE, MSHR_SIZE, MAX_TAG, TAG_DEPTH} \subseteq Nat \ {0}
  /\ VPages \subseteq Nat /\ MaxRequests \in Nat

VARIABLES
  coreRQ,
  inflight_tag_check, translation_stash,
  missing,                 \* blocks of page table entries the cache waits for
  asked, served            \* requests of the core, and those whose tags were checked

cacheVars == <<coreRQ, inflight_tag_check, translation_stash, missing, asked, served>>
vars == <<walkerVars, cacheVars>>

WalkEntry(block) ==
  [id |-> 0, v_address |-> 0, address |-> block, is_translated |-> TRUE,
   translate_issued |-> FALSE]
CoreEntry(request) ==
  [id |-> request.id, v_address |-> request.vpage, address |-> 0,
   is_translated |-> FALSE, translate_issued |-> FALSE]

Init ==
  /\ WalkerInit
  /\ coreRQ = <<>> /\ inflight_tag_check = <<>> /\ translation_stash = <<>>
  /\ missing = {} /\ asked = 0 /\ served = {}

Ask(vpage) ==
  /\ asked < MaxRequests /\ Accepts(coreRQ, CORE_RQ_SIZE)
  /\ asked' = asked + 1
  /\ coreRQ' = Append(coreRQ, [id |-> asked', vpage |-> vpage])
  /\ UNCHANGED <<walkerVars, inflight_tag_check, translation_stash, missing, served>>

\* The walker's channel is one of the upper levels of the cache.
CheckCollision ==
  /\ ~AllChecked(lower)
  /\ lower' = check_collision(lower, FALSE)
  /\ UNCHANGED <<walkRQ, walkReturned, walks, finished, completed, pscl, vm, cacheVars>>

----------------------------------------------------------------------------
(* finish_translation *)

Translated(entry, packet) ==
  [entry EXCEPT !.address = packet.data, !.is_translated = TRUE]

MatchesVpage(entry, packet) ==
  ~entry.is_translated /\ entry.v_address = packet.v_address

MarkAll(seq, packet) ==
  [k \in 1..Len(seq) |->
     IF MatchesVpage(seq[k], packet) THEN Translated(seq[k], packet) ELSE seq[k]]

Ready(seq) == {k \in 1..Len(seq) : seq[k].is_translated}

\* Mutant of Restarted: the stash keeps its order.
Restarted_InPlace(stash, packet) == MarkAll(stash, packet)

\* Those that are translated now go behind those that were, before the rest.
Restarted(stash, packet) ==
  LET marked == MarkAll(stash, packet)
  IN  Selected(marked, Ready(marked)) \o Selected(marked, DOMAIN marked \ Ready(marked))

FinishTranslation ==
  /\ walkReturned # <<>>
  /\ translation_stash' = Restarted(translation_stash, Head(walkReturned))
  /\ inflight_tag_check' = MarkAll(inflight_tag_check, Head(walkReturned))
  /\ walkReturned' = Tail(walkReturned)
  /\ UNCHANGED <<walkRQ, walks, finished, completed, pscl, vm, lower, coreRQ, missing,
                 asked, served>>

----------------------------------------------------------------------------
(* Initiating tag checks: what the stash has ready first, then the queues;  *)
(* a full stash holds up requests that need a translation, not the walks.   *)

StashReady == translation_stash # <<>> /\ Head(translation_stash).is_translated
TagsFree == Len(inflight_tag_check) < TAG_DEPTH

FromStash ==
  /\ TagsFree /\ StashReady
  /\ inflight_tag_check' = Append(inflight_tag_check, Head(translation_stash))
  /\ translation_stash' = Tail(translation_stash)
  /\ UNCHANGED <<walkerVars, coreRQ, missing, asked, served>>

\* Mutant of CanTranslate: a full stash stops the walks as well.
CanTranslate_Never(entry) == Len(translation_stash) < MSHR_SIZE

CanTranslate(entry) == Len(translation_stash) < MSHR_SIZE \/ entry.is_translated

FromCore ==
  /\ TagsFree /\ ~StashReady /\ coreRQ # <<>>
  /\ CanTranslate(CoreEntry(Head(coreRQ)))
  /\ inflight_tag_check' = Append(inflight_tag_check, CoreEntry(Head(coreRQ)))
  /\ coreRQ' = Tail(coreRQ)
  /\ UNCHANGED <<walkerVars, translation_stash, missing, asked, served>>

FromWalker ==
  /\ TagsFree /\ ~StashReady /\ AllChecked(lower) /\ lower.RQ # <<>>
  /\ CanTranslate(WalkEntry(Block(Head(lower.RQ).address)))
  /\ inflight_tag_check' =
       Append(inflight_tag_check, WalkEntry(Block(Head(lower.RQ).address)))
  /\ lower' = [lower EXCEPT !.RQ = Tail(@)]
  /\ UNCHANGED <<walkRQ, walkReturned, walks, finished, completed, pscl, vm, coreRQ,
                 translation_stash, missing, asked, served>>

----------------------------------------------------------------------------
(* issue_translation, for the first entry that needs it, at the tags and    *)
(* then in the stash; without room above the walker it is tried again.      *)

Unissued(seq) ==
  {k \in 1..Len(seq) : ~seq[k].translate_issued /\ ~seq[k].is_translated}
Issued(seq) == [seq EXCEPT ![First(Unissued(seq))].translate_issued = TRUE]

AsksFor(seq) == walkRQ' = Append(walkRQ, seq[First(Unissued(seq))].v_address)

IssueTranslation ==
  /\ Accepts(walkRQ, WALK_RQ_SIZE)
  /\ \/ /\ Unissued(inflight_tag_check) # {}
        /\ AsksFor(inflight_tag_check)
        /\ inflight_tag_check' = Issued(inflight_tag_check)
        /\ UNCHANGED translation_stash
     \/ /\ Unissued(inflight_tag_check) = {} /\ Unissued(translation_stash) # {}
        /\ AsksFor(translation_stash)
        /\ translation_stash' = Issued(translation_stash)
        /\ UNCHANGED inflight_tag_check
  /\ UNCHANGED <<walkReturned, walks, finished, completed, pscl, vm, lower, coreRQ,
                 missing, asked, served>>

\* An entry that would be ready but is not translated leaves the tags.
Untranslated == {k \in 1..Len(inflight_tag_check) : ~inflight_tag_check[k].is_translated}

MoveToStash ==
  /\ Untranslated # {}
  /\ translation_stash' = Append(translation_stash, inflight_tag_check[First(Untranslated)])
  /\ inflight_tag_check' = RemoveAt(inflight_tag_check, First(Untranslated))
  /\ UNCHANGED <<walkerVars, coreRQ, missing, asked, served>>

----------------------------------------------------------------------------
(* Tag checks, of the translated entries in front.                          *)

AtTags(k) ==
  /\ k <= MAX_TAG /\ k <= Len(inflight_tag_check)
  /\ \A j \in 1..k : inflight_tag_check[j].is_translated

\* Reads of one block that miss share an MSHR, and the answer.
CheckTags(k) ==
  /\ AtTags(k)
  /\ inflight_tag_check' = RemoveAt(inflight_tag_check, k)
  /\ LET entry == inflight_tag_check[k]
     IN  \/ /\ entry.id > 0
            /\ served' = served \cup {entry.id}
            /\ UNCHANGED <<lower, missing>>
         \/ /\ entry.id = 0
            /\ lower' = [lower EXCEPT !.returned = Append(@, Response(entry.address, {}))]
            /\ UNCHANGED <<missing, served>>
         \/ /\ entry.id = 0
            /\ missing' = missing \cup {entry.address}
            /\ UNCHANGED <<lower, served>>
  /\ UNCHANGED <<walkRQ, walkReturned, walks, finished, completed, pscl, vm, coreRQ,
                 translation_stash, asked>>

AnswerMiss(block) ==
  /\ block \in missing
  /\ missing' = missing \ {block}
  /\ lower' = [lower EXCEPT !.returned = Append(@, Response(block, {}))]
  /\ UNCHANGED <<walkRQ, walkReturned, walks, finished, completed, pscl, vm, coreRQ,
                 inflight_tag_check, translation_stash, asked, served>>

----------------------------------------------------------------------------
WalkerStep == WalkerNext /\ UNCHANGED cacheVars

CacheNext ==
  \/ CheckCollision \/ FinishTranslation
  \/ FromStash \/ FromCore \/ FromWalker
  \/ IssueTranslation \/ MoveToStash
  \/ \E k \in 1..TAG_DEPTH : CheckTags(k)
  \/ \E block \in missing : AnswerMiss(block)

Next == (\E vpage \in VPages : Ask(vpage)) \/ WalkerStep \/ CacheNext

\* Both parts operate in every cycle, so that whatever can go on does; a step
\* of the walker that is refused below is tried again, and counts when it is
\* not.
Progress ==
  \/ CacheNext
  \/ /\ FinishPacket \/ Complete \/ (HasRoom /\ (HandleRead \/ HandleFill))
     /\ UNCHANGED cacheVars

Spec == Init /\ [][Next]_vars /\ WF_vars(Progress)

----------------------------------------------------------------------------
(* Properties *)

Entries == inflight_tag_check \o translation_stash

\* A request of the core goes on with the physical page of its own virtual
\* page, although translations mark every entry that waits for the page, come
\* back for entries that were marked before, and share blocks below.
OwnPage ==
  \A k \in 1..Len(Entries) : (Entries[k].id > 0 /\ Entries[k].is_translated) =>
    /\ Entries[k].v_address \in DOMAIN vm.vpage_to_ppage_map
    /\ Entries[k].address = va_to_pa(vm, Entries[k].v_address)

\* Only the front of the stash is looked at: what is translated is in front.
TranslatedFirst ==
  \A j, k \in 1..Len(translation_stash) :
    j < k /\ translation_stash[k].is_translated => translation_stash[j].is_translated

TranslatedToOwnPage == OwnPage /\ TranslatedFirst

\* Until the free list is filled again, no two virtual pages share a physical
\* page, no two page tables share a slot, and no page is both.
PagesDistinct ==
  ~vm.refilled =>
    LET mapped == DOMAIN vm.vpage_to_ppage_map
        tables == DOMAIN vm.page_table
    IN  /\ \A v, w \in mapped : v # w => va_to_pa(vm, v) # va_to_pa(vm, w)
        /\ \A s, t \in tables : s # t => vm.page_table[s] # vm.page_table[t]
        /\ \A v \in mapped, t \in tables : va_to_pa(vm, v) # vm.page_table[t][1]

\* An answer finishes every walk that waits for its block, also those whose
\* own read is still under way; a walk whose read was refused is not among the
\* waiting.  So every walk that waits has a read of its block below.
EveryWalkIsServed ==
  \A k \in 1..Len(walks) :
    LET block == Block(walks[k].address)
    IN  \/ \E j \in 1..Len(lower.RQ) : Block(lower.RQ[j].address) = block
        \/ \E j \in 1..Len(Entries) : Entries[j].id = 0 /\ Entries[j].address = block
        \/ block \in missing
        \/ \E j \in 1..Len(lower.returned) : lower.returned[j].block = block

\* The cache and the walker wait for one another, but never both: every
\* request of the core gets through, whatever is full.
AllTranslated == []<>(served = 1..asked)
==============================================================================
