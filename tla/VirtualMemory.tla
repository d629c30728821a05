---------------------------- MODULE VirtualMemory ----------------------------
(***************************************************************************)
(* Virtual memory (src/vmem.cc): the list of free physical pages, the map  *)
(* of the virtual pages and the page table, each filled at first use.      *)
(*                                                                         *)
(* A virtual page is a number in base RADIX, with one digit for each level *)
(* of the page table; levels count from 1, the last that is walked.  The   *)
(* address of a page table entry is <<block, word>>, as in Channel.  One   *)
(* core is modelled: the keys of another core would all differ.            *)
(***************************************************************************)
EXTENDS Integers, Sequences

CONSTANTS
  RADIX,                   \* entries of a page table page
  SLOTS,                   \* page table pages in a physical page
  WORDS,                   \* entries in a block
  PPAGES                   \* physical pages beyond the reserved megabyte

ASSUME VirtualMemoryAssumption == {RADIX, SLOTS, WORDS, PPAGES} \subseteq Nat \ {0}

shamt(level) == RADIX ^ (level - 1)
get_offset(vpage, level) == (vpage \div shamt(level)) % RADIX

PteAddress(page, offset) == <<<<page, offset \div WORDS>>, offset % WORDS>>

----------------------------------------------------------------------------
\* The order of the pages only names them: a shuffle starts from its seed each
\* time, so it gives the same order again when the list is filled again.
populate_pages == [k \in 1..PPAGES |-> k]

EmptyMemory ==
  [ppage_free_list |-> populate_pages, vpage_to_ppage_map |-> <<>>, page_table |-> <<>>,
   active_pte_page |-> 0, next_pte_page |-> 0, refilled |-> FALSE]

ppage_front(vm) == Head(vm.ppage_free_list)

\* When no page is left, every page is free again, mapped or not.
ppage_pop(vm) ==
  IF Len(vm.ppage_free_list) = 1
  THEN [vm EXCEPT !.ppage_free_list = populate_pages, !.refilled = TRUE]
  ELSE [vm EXCEPT !.ppage_free_list = Tail(@)]

\* try_emplace: what is there stays.
Emplaced(map, key, value) ==
  [k \in DOMAIN map \cup {key} |-> IF k \in DOMAIN map THEN map[k] ELSE value]

----------------------------------------------------------------------------
\* Mutant of MapPage: the page stays on the list.
MapPage_NoPop(vm, vpage) ==
  [vm EXCEPT !.vpage_to_ppage_map = Emplaced(@, vpage, ppage_front(vm))]

\* va_to_pa, the change it makes, and what it returns then.
MapPage(vm, vpage) ==
  LET mapped == [vm EXCEPT !.vpage_to_ppage_map = Emplaced(@, vpage, ppage_front(vm))]
  IN  IF vpage \in DOMAIN vm.vpage_to_ppage_map THEN mapped ELSE ppage_pop(mapped)

va_to_pa(vm, vpage) == vm.vpage_to_ppage_map[vpage]

\* A page is taken whenever the next slot is the first, also by a call that
\* will not use it.  The table is looked up by all the digits down to this
\* level: every entry gets a table of its own.
NextSlot(vm) ==
  IF vm.next_pte_page = 0
  THEN ppage_pop([vm EXCEPT !.active_pte_page = ppage_front(vm)])
  ELSE vm

TableKey(vpage, level) == <<level, vpage \div shamt(level)>>

\* get_pte_pa, the change it makes, and the address it returns then.
MapTable(vm, vpage, level) ==
  LET ready == NextSlot(vm)
      key == TableKey(vpage, level)
  IN  IF key \in DOMAIN ready.page_table THEN ready
      ELSE [ready EXCEPT
              !.page_table = Emplaced(@, key, <<ready.active_pte_page, ready.next_pte_page>>),
              !.next_pte_page = (@ + 1) % SLOTS]

get_pte_pa(vm, vpage, level) ==
  PteAddress(vm.page_table[TableKey(vpage, level)], get_offset(vpage, level))
==============================================================================
