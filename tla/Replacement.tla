----------------------------- MODULE Replacement -----------------------------
(***************************************************************************)
(* The replacement policies of a cache (replacement/) and the glue that    *)
(* calls them (inc/cache.h, replacement_module_model).  The cache has      *)
(* reads and writes that hit, and fills, some of which find their victim   *)
(* and are put off.  The policies are driven by the cache, or directly as  *)
(* the tests of the repository do, which report every fill.                *)
(***************************************************************************)
EXTENDS FwCounter, FiniteSets, FiniteSetsExt, Sequences, SequencesExt

CONSTANTS
  POLICY_SETS, POLICY_WAYS, maxRRPV,
  BIP_MAX, PSEL_MAX, SHCT_MAX,
  RandSets,                \* what rand_sets may be, ascending sequences
  AccessIps, Regions,            \* an access comes from an ip and goes to a region
  MaxUses              \* bound on the sampler's count, and on LRU's

\* An insertion can be told from a use, which is at zero.
ASSUME ReplacementAssumption == POLICY_WAYS \in Nat \ {0} /\ maxRRPV \in Nat /\ maxRRPV > 1

VARIABLE policy

Kinds == {"lru", "srrip", "drrip", "ship", "random"}
PolicySets == 0..(POLICY_SETS - 1)
PolicyWays == 1..POLICY_WAYS

NoFill == <<>>
SamplerEntry == [valid |-> FALSE, used |-> FALSE, region |-> "none", ip |-> "none", last_used |-> 0]

\* The constructors.  drrip leaves its counter uninitialised: from beyond
\* BIP_MAX it does not get there.
PolicyInit ==
  \E kind \in Kinds, caller \in {"cache", "direct"}, bip \in 0..BIP_MAX, sets \in RandSets :
    /\ kind # "drrip" => bip = 0
    /\ kind \notin {"drrip", "ship"} => sets = CHOOSE s \in RandSets : TRUE
    /\ policy =
         [kind |-> kind, caller |-> caller, rand_sets |-> sets,
          rrpv |-> [s \in PolicySets |-> [w \in PolicyWays |->
                      IF kind \in {"srrip", "ship"} THEN maxRRPV ELSE 0]],
          last_used |-> [s \in PolicySets |-> [w \in PolicyWays |-> 0]], cycle |-> 0,
          bip |-> bip, PSEL |-> 0,
          SHCT |-> [ip \in AccessIps |-> 0], access_count |-> 0,
          sampler |-> [k \in 1..(Len(sets) * POLICY_WAYS) |-> SamplerEntry],
          valid |-> [s \in PolicySets |-> {}],     \* the ways of the cache in use
          \* history: the last use since the counters of the set were last raised
          \* (drrip's start at zero, as if read), the ways that LRU saw used since it
          \* saw a way used, and the way that was just filled
          use |-> [s \in PolicySets |-> [w \in PolicyWays |-> IF kind = "drrip" THEN "read" ELSE "none"]],
          since |-> [s \in PolicySets |-> [w \in PolicyWays |-> {}]],
          filled |-> NoFill]

----------------------------------------------------------------------------
(* find_victim *)

Greatest(p, s) == {w \in PolicyWays : \A v \in PolicyWays : p.rrpv[s][v] <= p.rrpv[s][w]}

\* random takes integer addresses and the type as an enumeration: no overload that
\* the cache tries, which goes on with a victim of zero.
RandomVictims(p) == IF p.caller = "direct" THEN PolicyWays ELSE {Min(PolicyWays)}

PolicyVictims(p, s) ==
  CASE p.kind = "lru" ->
         {Min({w \in PolicyWays : \A v \in PolicyWays : p.last_used[s][w] <= p.last_used[s][v]})}
    [] p.kind = "random" -> RandomVictims(p)
    [] OTHER -> {Min(Greatest(p, s))}

\* Mutant of Raised: all are raised by what the lowest lacks, up to the maximum.
Raised_ByLowest(p, s) ==
  IF p.kind \in {"lru", "random"} THEN p
  ELSE [p EXCEPT !.rrpv[s] = [w \in PolicyWays |-> maxRRPV]]

\* When no way is at the maximum, all are raised until one is.
Raised(p, s) ==
  LET diff == maxRRPV - p.rrpv[s][Min(Greatest(p, s))]
  IN  IF p.kind \in {"lru", "random"} \/ diff = 0 THEN p
      ELSE [p EXCEPT !.rrpv[s] = [w \in PolicyWays |-> @[w] + diff], !.use[s] = [w \in PolicyWays |-> "none"]]

----------------------------------------------------------------------------
(* update_replacement_state *)

SetRRPV(p, s, w, value) == [p EXCEPT !.rrpv[s][w] = value]

update_srrip(p, s, w) == SetRRPV(p, s, w, maxRRPV - 1)

update_bip(p, s, w) ==
  IF p.bip + 1 = BIP_MAX
  THEN [SetRRPV(p, s, w, maxRRPV - 1) EXCEPT !.bip = 0]
  ELSE [SetRRPV(p, s, w, maxRRPV) EXCEPT !.bip = IF @ < BIP_MAX THEN @ + 1 ELSE @]

\* Of the sets that lead, the first follows BIP and the second SRRIP; the
\* others do nothing.  The remaining sets follow the selector.
Leaders(p, s) == {k \in 1..Len(p.rand_sets) : p.rand_sets[k] = s}
Idles(p, s) == Leaders(p, s) # {} /\ Min(Leaders(p, s)) \notin {1, 2}

DrripMiss(p, s, w) ==
  IF Leaders(p, s) = {} THEN IF Taken(p.PSEL, PSEL_MAX) THEN update_bip(p, s, w)
                             ELSE update_srrip(p, s, w)
  ELSE IF Idles(p, s) THEN p
  ELSE IF Min(Leaders(p, s)) = 1
  THEN update_bip([p EXCEPT !.PSEL = Sub(@, 1, PSEL_MAX)], s, w)
  ELSE update_srrip([p EXCEPT !.PSEL = Add(@, 1, PSEL_MAX)], s, w)

\* The sampler of ship: the windows of neighbouring sampled sets overlap.
Sampled(p, s, access) ==
  IF s \notin ToSet(p.rand_sets) THEN p
  ELSE LET first == Min({k \in 1..Len(p.rand_sets) : p.rand_sets[k] = s})
           window == first..(first + POLICY_WAYS - 1)
           matches == {k \in window : p.sampler[k].valid /\ p.sampler[k].region = access.region}
           oldest == Min({k \in window : \A m \in window :
                            p.sampler[k].last_used <= p.sampler[m].last_used})
           k == IF matches # {} THEN Min(matches) ELSE oldest
           entry == p.sampler[k]
           q == [p EXCEPT !.access_count = @ + 1]
       IN  IF matches # {}
           THEN [q EXCEPT !.SHCT[entry.ip] = Sub(@, 1, SHCT_MAX),
                          !.sampler[k] = [entry EXCEPT !.used = TRUE,
                                                       !.last_used = p.access_count]]
           ELSE [q EXCEPT !.SHCT[entry.ip] = IF entry.used THEN Add(@, 1, SHCT_MAX) ELSE @,
                          !.sampler[k] = [valid |-> TRUE, used |-> FALSE,
                                          ip |-> access.ip, region |-> access.region,
                                          last_used |-> p.access_count]]

ShipUpdate(p, s, w, access, hit) ==
  IF access.type = "WRITE"
  THEN IF hit THEN p ELSE SetRRPV(p, s, w, maxRRPV - 1)
  ELSE LET q == Sampled(p, s, access)
       IN  SetRRPV(q, s, w, IF hit THEN 0
                            ELSE IF q.SHCT[access.ip] = SHCT_MAX THEN maxRRPV ELSE maxRRPV - 1)

\* Mutant of HitRRPV: a hit is treated as an insertion.
HitRRPV_Inserted == maxRRPV - 1

HitRRPV == 0

Use(p, s, w) ==
  [p EXCEPT !.last_used[s][w] = p.cycle, !.cycle = @ + 1,
            !.since[s] = [v \in PolicyWays |-> IF v = w THEN {} ELSE @[v] \cup {w}]]

update_replacement_state(p, s, w, access, hit) ==
  CASE p.kind = "lru" -> IF hit /\ access.type # "WRITE" THEN Use(p, s, w) ELSE p
    [] p.kind = "srrip" -> SetRRPV(p, s, w, IF hit THEN HitRRPV ELSE maxRRPV - 1)
    [] p.kind = "drrip" -> IF access.type = "WRITE" THEN SetRRPV(p, s, w, maxRRPV - 1)
                           ELSE IF hit THEN SetRRPV(p, s, w, HitRRPV)
                           ELSE DrripMiss(p, s, w)
    [] p.kind = "ship" -> ShipUpdate(p, s, w, access, hit)
    [] p.kind = "random" -> p

----------------------------------------------------------------------------
(* The glue: a lookup that misses is only reported to a policy that is told *)
(* of fills in a call of its own (lru), which ignores it.                   *)

has_cache_fill(p) == p.kind = "lru"
IsReported(p, hit) == p.caller = "direct" \/ hit \/ has_cache_fill(p)

impl_update_replacement_state(p, s, w, access, hit) ==
  IF IsReported(p, hit) THEN update_replacement_state(p, s, w, access, hit) ELSE p

impl_replacement_cache_fill(p, s, w, access) ==
  IF has_cache_fill(p) THEN Use(p, s, w)
  ELSE impl_update_replacement_state(p, s, w, access, FALSE)

\* What a fill does to the standing of the way.
Notices(p, s, access) ==
  IsReported(p, FALSE) /\ ~(p.kind = "drrip" /\ access.type # "WRITE" /\ Idles(p, s))

Accesses == [type : {"LOAD", "WRITE"}, ip : AccessIps, region : Regions]
Bounded == policy.access_count < MaxUses /\ policy.cycle < MaxUses

\* try_hit
Hit(s, w, access) ==
  LET p == impl_update_replacement_state(policy, s, w, access, TRUE)
  IN  policy' = [p EXCEPT !.filled = NoFill, !.use[s][w] =
                   IF access.type = "LOAD" THEN "read" ELSE "written"]

\* handle_fill: ways that are not in use come first.
IsFull(s) == policy.valid[s] = PolicyWays

Fill(s, access) ==
  \E w \in IF IsFull(s) THEN PolicyVictims(policy, s) ELSE {Min(PolicyWays \ policy.valid[s])} :
    LET found == IF IsFull(s) THEN Raised(policy, s) ELSE policy
        p == impl_replacement_cache_fill(found, s, w, access)
    IN  policy' = [p EXCEPT !.valid[s] = @ \cup {w}, !.filled = <<s, w>>,
                          !.use[s][w] = IF Notices(p, s, access) THEN "none" ELSE @]

\* The victim is found before the writeback below is tried.
FailedFill(s) ==
  /\ IsFull(s)
  /\ policy' = [Raised(policy, s) EXCEPT !.filled = NoFill]

PolicyNext ==
  /\ Bounded
  /\ \E s \in PolicySets :
       \/ FailedFill(s)
       \/ \E access \in Accesses : Fill(s, access) \/ \E w \in policy.valid[s] : Hit(s, w, access)

PolicySpec == PolicyInit /\ [][PolicyNext]_policy

----------------------------------------------------------------------------
\* A block in use is not the victim while another would do: under LRU the victim
\* is the way whose last use lies furthest back, so that all others were used since;
\* elsewhere a way that was last read, since its set was last raised, goes only when
\* all of them were used.  A block that the policy takes no notice of (it was not
\* reported, or its set leads but for the first two) has the standing of the one before.
UsedBlocksStay ==
  \A s \in PolicySets : IsFull(s) => \A w \in PolicyVictims(policy, s) :
    CASE policy.kind = "lru" -> PolicyWays \ {w} \subseteq policy.since[s][w]
      [] policy.kind = "random" -> TRUE
      [] OTHER -> policy.use[s][w] = "read" => \A v \in PolicyWays : policy.use[s][v] # "none"

\* A fill that is put off is tried again with the same victim, if there was no access
\* to the set meanwhile: looking for a victim changes the standing of every way, and
\* of none against another.
RetriesFindTheSameVictim ==
  [][\A s \in PolicySets :
       FailedFill(s) => PolicyVictims(policy', s) = PolicyVictims(policy, s)]_policy

\* update_replacement_state "is called on hits and when a miss is filled"
\* (docs/src/Modules.rst:287): SRRIP then inserts a block at maxRRPV - 1.
FillsAreReported ==
  (policy.kind = "srrip" /\ policy.filled # NoFill) =>
    policy.rrpv[policy.filled[1]][policy.filled[2]] = maxRRPV - 1
==============================================================================
