-------------------------------- MODULE Tage --------------------------------
(***************************************************************************)
(* The TAGE branch predictor (branch/Tage/tage.cc, tage.h; the same code   *)
(* is inlined in branch/LTage/tage.h).  A bimodal table backs a list of    *)
(* tagged tables that are indexed with geometrically longer histories.     *)
(*                                                                         *)
(* A machine word is the set of the positions of its 1 bits, so that XOR   *)
(* is symmetric difference, a mask is an intersection and a shift moves    *)
(* the positions.  O3_CPU::do_predict_branch asks for a prediction for     *)
(* every instruction and reports an outcome only for the branches, before  *)
(* the next instruction: `pending` is the branch whose outcome is due.     *)
(***************************************************************************)
EXTENDS FwCounter, FiniteSets, Sequences

CONSTANTS
  TAG_WIDTHS,            \* per tagged component: bits of its tags
  HIST_LENS,             \* per tagged component: outcomes it looks at
  TAGE_INDEX_BITS,       \* per tagged component: log2 of its entries
  BIMODAL_INDEX_BITS,    \* log2 of BIMODAL_ENTRIES
  PHIST_BITS, GHIST_BITS,
  PRED_MAX, U_MAX, BIMODAL_MAX, USE_ALT_MAX,     \* 7, 3, 3 and 15 in the code
  RESET_USEFUL_INTERVAL,
  Ips                    \* the instruction addresses the trace visits

\* Components are numbered from 1, as in the code, and 0 is the bimodal table.
Components == 1..Len(TAG_WIDTHS)
NONE == -1

ASSUME TageAssumption ==
  /\ TAG_WIDTHS \in Seq(Nat \ {0, 1}) /\ Len(TAG_WIDTHS) > 0
  /\ HIST_LENS \in [Components -> Nat \ {0}]
  /\ TAGE_INDEX_BITS \in [Components -> Nat \ {0}]
  /\ BIMODAL_INDEX_BITS \in Nat /\ PHIST_BITS \in Nat /\ GHIST_BITS \in Nat
  /\ \A c \in Components : HIST_LENS[c] <= GHIST_BITS
  /\ PRED_MAX \in Nat \ {0} /\ U_MAX \in Nat \ {0}
  /\ BIMODAL_MAX \in Nat \ {0} /\ USE_ALT_MAX \in Nat \ {0}
  /\ RESET_USEFUL_INTERVAL \in Nat \ {0, 1}
  /\ Ips \subseteq SUBSET (0..31)

WEAKLY_NOT_TAKEN == PRED_MAX \div 2
WEAKLY_TAKEN == 1 + PRED_MAX \div 2
Weak(pred) == pred \in {WEAKLY_NOT_TAKEN, WEAKLY_TAKEN}

Word(bits) == SUBSET (0..(bits - 1))
Entry(c) == [pred : 0..PRED_MAX, tag : Word(TAG_WIDTHS[c]), u : 0..U_MAX]

VARIABLES
  tage_table,      \* [component][index] |-> [pred, tag, u]
  bimodal_table,   \* [index] |-> counter
  branch_info,     \* what predict_branch left for last_branch_result
  num_branches,    \* outcomes since the last full ageing of the u counters
  phist,           \* path history: lowest address bit of the last branches
  ghist,           \* global history: the positions of the taken outcomes
  USE_ALT_ON_NA,   \* above its middle: distrust newly allocated entries
  pending          \* the branch predicted whose outcome is not yet reported

tageVars == <<tage_table, bimodal_table, branch_info, num_branches, phist, ghist,
             USE_ALT_ON_NA, pending>>

----------------------------------------------------------------------------
(* Hashes.                                                                 *)

Xor(a, b) == (a \ b) \cup (b \ a)
Low(w, n) == w \cap (0..(n - 1))
Shl(w, n) == {i + n : i \in w}
Shr(w, n) == {i - n : i \in {j \in w : j >= n}}

\* Folds the inSize most recent outcomes into outSize bits.
get_ghist_hash(inSize, outSize) ==
  {p \in 0..(outSize - 1) :
     Cardinality({i \in Low(ghist, inSize) : i % outSize = p}) % 2 = 1}

tagHash(ip, c) ==
  LET w == TAG_WIDTHS[c]
  IN  Xor(Low(ip, w), Xor(get_ghist_hash(HIST_LENS[c], w),
                          Shl(get_ghist_hash(HIST_LENS[c], w - 1), 1)))

indexHash(ip, c) ==
  LET b == TAGE_INDEX_BITS[c]
  IN  Low(Xor(Xor(ip, Shr(ip, b)), Xor(get_ghist_hash(HIST_LENS[c], b), phist)), b)

bimodalIndex(ip) == Low(ip, BIMODAL_INDEX_BITS)

----------------------------------------------------------------------------
(* Prediction.                                                             *)

EntryOf(ip, c) == tage_table[c][indexHash(ip, c)]
Matches(ip) == {c \in Components : EntryOf(ip, c).tag = tagHash(ip, c)}

\* The longest member of a set of components, NONE when there is none.
Longest(S) == IF S = {} THEN NONE ELSE CHOOSE c \in S : \A d \in S : d <= c

provider_comp(ip) == Longest(Matches(ip))
altpred_comp(ip) == Longest(Matches(ip) \ {provider_comp(ip)})

base_pred(ip) == Taken(bimodal_table[bimodalIndex(ip)], BIMODAL_MAX)

\* What component c says; the bimodal table speaks when there is no component.
CompPred(ip, c) == IF c = NONE THEN base_pred(ip) ELSE Taken(EntryOf(ip, c).pred, PRED_MAX)

\* An entry that looks newly allocated yields when USE_ALT_ON_NA says so.
NewlyAllocated(e) == Weak(e.pred) /\ e.u = 0

ultimate_pred(ip) ==
  LET p == provider_comp(ip)
  IN  IF p # NONE /\ NewlyAllocated(EntryOf(ip, p)) /\ Taken(USE_ALT_ON_NA, USE_ALT_MAX)
      THEN CompPred(ip, altpred_comp(ip))
      ELSE CompPred(ip, p)

\* The fields last_branch_result reads back; the altpred and provider
\* predictions default to the bimodal one, as its first statements do.
Lookup(ip) ==
  LET p == provider_comp(ip)
      a == altpred_comp(ip)
  IN  [provider |-> p, alt |-> a,
       provider_index |-> IF p = NONE THEN {} ELSE indexHash(ip, p),
       alt_index |-> IF a = NONE THEN {} ELSE indexHash(ip, a),
       provider_pred |-> CompPred(ip, p), alt_pred |-> CompPred(ip, a),
       ultimate |-> ultimate_pred(ip)]

----------------------------------------------------------------------------
(* Update.  The operators below take the table as the earlier statements   *)
(* of last_branch_result left it.                                          *)

bi == branch_info
Hit == bi.provider # NONE

\* Is the alternate prediction better than a newly allocated entry?
UseAltAfter(taken) ==
  IF /\ Hit
     /\ NewlyAllocated(tage_table[bi.provider][bi.provider_index])
     /\ bi.provider_pred # bi.alt_pred
  THEN Steer(USE_ALT_ON_NA, bi.alt_pred = taken, USE_ALT_MAX)
  ELSE USE_ALT_ON_NA

TrainProvider(t, taken) ==
  [t EXCEPT ![bi.provider][bi.provider_index].pred = Steer(@, taken, PRED_MAX)]

\* Mutant of TrainAlt: the alternate component is indexed with the provider's index.
TrainAlt_ProviderIndex(t, taken) ==
  IF bi.alt # NONE /\ t[bi.provider][bi.provider_index].u = 0
  THEN [t EXCEPT ![bi.alt][bi.provider_index].pred = Steer(@, taken, PRED_MAX)]
  ELSE t

\* The "L-TAGE improvement": the alternate component learns too while the
\* provider has not proved useful.
TrainAlt(t, taken) ==
  IF bi.alt # NONE /\ t[bi.provider][bi.provider_index].u = 0
  THEN [t EXCEPT ![bi.alt][bi.alt_index].pred = Steer(@, taken, PRED_MAX)]
  ELSE t

CreditUseful(t, taken) ==
  IF bi.ultimate # bi.alt_pred
  THEN [t EXCEPT ![bi.provider][bi.provider_index].u = Steer(@, bi.ultimate = taken, U_MAX)]
  ELSE t

Train(t, taken) ==
  IF Hit THEN CreditUseful(TrainAlt(TrainProvider(t, taken), taken), taken) ELSE t

\* rand() & mask: bits 0 and 1 choose how many components to skip; the mask
\* keeps one bit when a single longer component is left.
Skips == IF bi.provider = Len(TAG_WIDTHS) - 1 THEN 0..1 ELSE 0..2

FirstCandidate(skip) == (IF Hit THEN bi.provider + 1 ELSE 1) + skip
Candidates(skip) == {c \in Components : c >= FirstCandidate(skip)}
\* Mutant of Victims: the u counters are not looked at.
Victims_Useful(t, ip, skip) == Candidates(skip)

Victims(t, ip, skip) == {c \in Candidates(skip) : t[c][indexHash(ip, c)].u = 0}

\* After a misprediction: the shortest longer component whose entry is not
\* useful gets a new one, or every candidate loses some usefulness.
Allocate(t, ip, taken, skip) ==
  IF Victims(t, ip, skip) # {}
  THEN LET c == CHOOSE v \in Victims(t, ip, skip) :
                  \A w \in Victims(t, ip, skip) : v <= w
       IN  [t EXCEPT ![c][indexHash(ip, c)] =
              [pred |-> IF taken THEN WEAKLY_TAKEN ELSE WEAKLY_NOT_TAKEN,
               tag  |-> tagHash(ip, c), u |-> 0]]
  ELSE [c \in Components |->
          IF c \in Candidates(skip)
          THEN [t[c] EXCEPT ![indexHash(ip, c)].u = Sub(@, 1, U_MAX)]
          ELSE t[c]]

\* Mutant of AllocateOnMiss: misses of the bimodal table allocate nothing.
AllocateOnMiss_HitsOnly(t, ip, taken, skip) ==
  IF Hit /\ bi.ultimate # taken /\ bi.provider < Len(TAG_WIDTHS)
  THEN Allocate(t, ip, taken, skip)
  ELSE t

AllocateOnMiss(t, ip, taken, skip) ==
  IF bi.ultimate # taken /\ bi.provider < Len(TAG_WIDTHS)
  THEN Allocate(t, ip, taken, skip)
  ELSE t

\* Alternately clears the high and the low bit of every u counter.
AgeUseful(t, n) ==
  LET Keep(u) == IF n = RESET_USEFUL_INTERVAL \div 2 THEN u % 2
                 ELSE IF n = RESET_USEFUL_INTERVAL THEN u - (u % 2) ELSE u
  IN  [c \in Components |->
         [i \in Word(TAGE_INDEX_BITS[c]) |-> [t[c][i] EXCEPT !.u = Keep(@)]]]

TableAfter(ip, taken, skip) ==
  AgeUseful(AllocateOnMiss(Train(tage_table, taken), ip, taken, skip), num_branches + 1)

----------------------------------------------------------------------------
(* Actions.                                                                *)

TageInit ==
  /\ tage_table = [c \in Components |->
       [i \in Word(TAGE_INDEX_BITS[c]) |-> [pred |-> 0, tag |-> {}, u |-> 0]]]
  /\ bimodal_table = [i \in Word(BIMODAL_INDEX_BITS) |-> 1 + BIMODAL_MAX \div 2]
  /\ branch_info = [provider |-> NONE, alt |-> NONE, provider_index |-> {},
                    alt_index |-> {}, provider_pred |-> TRUE, alt_pred |-> TRUE,
                    ultimate |-> TRUE]
  /\ num_branches = 0 /\ phist = {} /\ ghist = {} /\ USE_ALT_ON_NA = 0
  /\ pending = <<>>

\* predict_branch overwrites branch_info and nothing else.
predict_branch(ip) ==
  /\ branch_info' = Lookup(ip)
  /\ UNCHANGED <<tage_table, bimodal_table, num_branches, phist, ghist, USE_ALT_ON_NA>>

\* The trace says that the instruction is a branch and which way it goes.
PredictBranch(ip, taken) ==
  /\ pending = <<>>
  /\ predict_branch(ip)
  /\ pending' = <<ip, taken>>

\* Every other instruction is predicted as well, and has no outcome.
PredictOther(ip) ==
  /\ pending = <<>>
  /\ predict_branch(ip)
  /\ UNCHANGED pending

last_branch_result(ip, taken, skip) ==
  /\ USE_ALT_ON_NA' = UseAltAfter(taken)
  /\ tage_table' = TableAfter(ip, taken, skip)
  /\ bimodal_table' = IF Hit THEN bimodal_table
                      ELSE [bimodal_table EXCEPT ![bimodalIndex(ip)] =
                                                   Steer(@, taken, BIMODAL_MAX)]
  /\ num_branches' = (num_branches + 1) % RESET_USEFUL_INTERVAL
  /\ phist' = Low(Shl(phist, 1) \cup Low(ip, 1), PHIST_BITS)
  /\ ghist' = Low(Shl(ghist, 1), GHIST_BITS + 1) \cup (IF taken THEN {0} ELSE {})
  /\ UNCHANGED branch_info

Resolve(skip) ==
  /\ pending # <<>>
  /\ last_branch_result(pending[1], pending[2], skip)
  /\ pending' = <<>>

TageNext ==
  \/ \E ip \in Ips, taken \in BOOLEAN : PredictBranch(ip, taken)
  \/ \E ip \in Ips : PredictOther(ip)
  \/ \E skip \in Skips : Resolve(skip)

TageSpec == TageInit /\ [][TageNext]_tageVars

----------------------------------------------------------------------------
(* Properties.                                                             *)

\* Every counter stays within its width, every tag within its component's
\* TAG_WIDTHS and every index within its table.
TageTypeOK ==
  /\ \A c \in Components : tage_table[c] \in [Word(TAGE_INDEX_BITS[c]) -> Entry(c)]
  /\ bimodal_table \in [Word(BIMODAL_INDEX_BITS) -> 0..BIMODAL_MAX]
  /\ branch_info.provider \in Components \cup {NONE}
  /\ branch_info.alt \in Components \cup {NONE}
  /\ num_branches \in 0..(RESET_USEFUL_INTERVAL - 1)
  /\ phist \in Word(PHIST_BITS) /\ ghist \in Word(GHIST_BITS + 1)
  /\ USE_ALT_ON_NA \in 0..USE_ALT_MAX
  /\ pending \in {<<>>} \cup (Ips \X BOOLEAN)

Keeps(c, i) == tage_table'[c][i].tag = tage_table[c][i].tag
Indices == UNION {{<<c, i>> : i \in Word(TAGE_INDEX_BITS[c])} : c \in Components}

\* The update trains exactly the entries the prediction was made from: a
\* direction counter moves only in an entry that still matches the pending
\* branch under the history it was predicted with, or in a new entry.
OnlyMatchingEntriesTrained ==
  [][\A ci \in Indices :
       LET e == tage_table[ci[1]][ci[2]]
           f == tage_table'[ci[1]][ci[2]]
       IN  (f.pred # e.pred /\ f.tag = e.tag) =>
             /\ pending # <<>>
             /\ ci[2] = indexHash(pending[1], ci[1])
             /\ e.tag = tagHash(pending[1], ci[1])]_tageVars

\* Tags are written only by mispredicted branches, in at most one entry, of a
\* component with a longer history than the provider's; the entry votes
\* (weakly) for the outcome the predictor had missed, and its tag is one that a
\* lookup can match.  An entry that has proved useful is not evicted: its tag
\* changes once its u counter has come down to zero, by bad predictions or ageing.
AllocationDiscipline ==
  [][LET new == {ci \in Indices : ~Keeps(ci[1], ci[2])}
     IN  /\ Cardinality(new) <= 1
         /\ \A ci \in new :
              /\ pending # <<>> /\ branch_info.ultimate # pending[2]
              /\ ci[1] > branch_info.provider
              /\ Taken(tage_table'[ci[1]][ci[2]].pred, PRED_MAX) = pending[2]
              /\ tage_table[ci[1]][ci[2]].u = 0
              /\ NewlyAllocated(tage_table'[ci[1]][ci[2]])
              /\ tage_table'[ci[1]][ci[2]].tag \in Word(TAG_WIDTHS[ci[1]])]_tageVars
=============================================================================
