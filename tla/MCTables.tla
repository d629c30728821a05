------------------------------ MODULE MCTables -------------------------------
(***************************************************************************)
(* Address translation, and the tables of the simulator that one step at a *)
(* time changes: each behaviour is of one component, and the others stay   *)
(* as they were at first.                                                  *)
(***************************************************************************)
EXTENDS Translation, LruTable, Replacement, BasicBtb, TraceReader, Simulation, SignaturePath,
        Prefetchers

VARIABLES bp, component

tableVars == <<lru, policy, btb, reader, sim, spp, pf, bp>>

----------------------------------------------------------------------------
(* The instances. *)

\* Three virtual pages of three binary digits: two that differ in the last digit
\* only, and one that differs in the first.
Pages == {0, 1, 4}

\* Two sets of two ways, and three elements, of which two share a set.
LruIndices == {0, 1}
LruTags == {"a", "b", "c"}
LruValues == {"v"}

\* The second of the raw values is no set of the cache: rand_sets is not reduced.
RawSets == {<<0, 1>>, <<0, 7>>}
AccessingIps == {"x"}
TwoRegions == {"a", "b"}

\* Two calls of different sizes that share a tracker, of a function that returns;
\* an indirect jump, and a conditional branch in the same four bytes as the return.
Program == (8 :> [type |-> "call", size |-> 5, targets |-> {40}]) @@
           (16 :> [type |-> "call", size |-> 2, targets |-> {40}]) @@
           (20 :> [type |-> "indirect", size |-> 4, targets |-> {60, 80}]) @@
           (40 :> [type |-> "return", size |-> 1, targets |-> {}]) @@
           (42 :> [type |-> "conditional", size |-> 4, targets |-> {8}])

\* Files that end within a block, at its end, and one or two blocks later.
FileLengths == 1..9

\* Two cores and a memory, of coprime periods; two phases of different length.
Machine == {"a", "b", "m"}
Cores == {"a", "b"}
Periods == "a" :> 2 @@ "b" :> 3 @@ "m" :> 5
PhaseLengths == <<1, 2>>
Traces == {-1, 2, 5}

\* Of pages of four blocks: demands that stay in a page and leave it.
LearntBlocks == {0, 1, 2, 4, 9}

\* Two instructions that share a tracker's way; blocks of three regions.
TrackedIps == {0, 4}
TrackedLines == {9, 10, 11, 16}

\* A branch that follows up to two other instructions, of which one shares its
\* entries; histories of none, one and several words.
Others == INSTANCE Predictors WITH COUNTER_MAX <- 3, PRIME <- 2, GS_LENGTH <- 2,
          GS_BITS <- 2, HISTORY <- 2, NUM_PERCEPTRONS <- 2, NUM_UPDATE_ENTRIES <- 2,
          THETA <- 3, WEIGHT <- 3, history_lengths <- <<0, 2, 5>>, WORD_LEN <- 2,
          NUM_WORDS <- 2, THETA_0 <- 2, SPEED <- 2, Branches <- {5},
          Bodies <- {<<>>, <<2>>, <<3>>, <<2, 3>>}, Settled <- 6, MaxFree <- 7, MaxSettled <- 8

\* A DRAM with a bit of every field, and a row whose last segment is cut short.
\* It has no state: TLC evaluates what is assumed of it for all of its addresses.
Mapping == INSTANCE DramMapping WITH CHANNEL_BITS <- 1, BANKGROUP_BITS <- 1, BANK_BITS <- 1,
           COLUMN_BITS <- 1, RANK_BITS <- 1, ROW_BITS <- 3
ASSUME MappingAssumption == Mapping!PlacesDiffer

----------------------------------------------------------------------------
\* A component that has several initial states starts in one of them if it never runs.
TablesInit ==
  /\ component \in {"translation", "lru_table", "replacement", "btb", "trace", "simulation",
                    "spp", "prefetchers", "predictors"}
  /\ Init /\ LruInit /\ BtbInit /\ PathInit
  /\ PolicyInit /\ (component # "replacement" => policy.kind = "lru" /\ policy.caller = "cache")
  /\ ReaderInit /\ (component # "trace" => reader.length = 1 /\ ~reader.repeat)
  /\ SimInit /\ (component # "simulation" => \A c \in Cpus : sim.left[c] = -1)
  /\ PrefetchInit /\ (component # "prefetchers" => pf.kind = "next_line")
  /\ Others!Init /\ (component # "predictors" => bp.kind = "bimodal" /\ bp.body = <<>>)

TablesNext ==
  /\ UNCHANGED component
  /\ \/ /\ component = "translation" /\ Next
        /\ UNCHANGED tableVars
     \/ /\ component = "lru_table" /\ LruNext
        /\ UNCHANGED <<vars, policy, btb, reader, sim, spp, pf, bp>>
     \/ /\ component = "replacement" /\ PolicyNext
        /\ UNCHANGED <<vars, lru, btb, reader, sim, spp, pf, bp>>
     \/ /\ component = "btb" /\ BtbNext
        /\ UNCHANGED <<vars, lru, policy, reader, sim, spp, pf, bp>>
     \/ /\ component = "trace" /\ ReaderNext
        /\ UNCHANGED <<vars, lru, policy, btb, sim, spp, pf, bp>>
     \/ /\ component = "simulation" /\ SimNext
        /\ UNCHANGED <<vars, lru, policy, btb, reader, spp, pf, bp>>
     \/ /\ component = "spp" /\ PathNext
        /\ UNCHANGED <<vars, lru, policy, btb, reader, sim, pf, bp>>
     \/ /\ component = "prefetchers" /\ PrefetchNext
        /\ UNCHANGED <<vars, lru, policy, btb, reader, sim, spp, bp>>
     \/ /\ component = "predictors" /\ Others!Next
        /\ UNCHANGED <<vars, lru, policy, btb, reader, sim, spp, pf>>

\* What was refused below is tried again (Translation), and the loop runs.
TablesSpec ==
  /\ TablesInit /\ [][TablesNext]_<<vars, tableVars, component>>
  /\ WF_vars(component = "translation" /\ Progress)
  /\ WF_sim(component = "simulation" /\ SimNext)

----------------------------------------------------------------------------
\* The packed histories and the settled branches, as Predictors states it of its own.
PredictorsSettle == Others!PredictorsSettle

\* Whether the machine works, waits for ever, or is busy and retires nothing, the
\* main loop comes to an end: it completes its phases or reports the fault.
SimulationEnds == []<>(component = "simulation" => Ended)
==============================================================================
