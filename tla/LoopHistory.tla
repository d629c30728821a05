----------------------------- MODULE LoopHistory -----------------------------
(***************************************************************************)
(* LoopPredictor with the history of each loop kept beside it: what the    *)
(* table has counted is compared with what the loops have really done.     *)
(***************************************************************************)
EXTENDS LoopPredictor, Sequences

CONSTANTS
  HistCap,      \* trip counts above this bound are not told apart
  TripsKept,    \* how many trip counts are remembered
  Watched       \* the loops whose history is kept, a subset of Ips

\* A loop that shares set and tag with another is not told from it by the table.
ASSUME HistoryAssumption ==
  /\ HistCap \in Nat /\ HistCap > ITER_MAX /\ TripsKept \in Nat /\ TripsKept > 1
  /\ Watched \subseteq Ips
  /\ \A ip \in Watched, other \in Ips :
       index(other) = index(ip) /\ tag(other) = tag(ip) => other = ip

VARIABLES
  run,       \* [ip] |-> taken outcomes since the branch last fell through
  trips      \* [ip] |-> its last TripsKept trip counts, latest first

histVars == <<vars, run, trips>>

Cap(n) == IF n > HistCap THEN HistCap ELSE n

HistInit == Init /\ run = [ip \in Watched |-> 0] /\ trips = [ip \in Watched |-> <<>>]

RecordOutcome(ip, taken) ==
  IF ip \notin Watched THEN UNCHANGED <<run, trips>>
  ELSE IF taken
  THEN /\ run' = [run EXCEPT ![ip] = Cap(@ + 1)]
       /\ UNCHANGED trips
  ELSE /\ trips' = [trips EXCEPT ![ip] =
            <<run[ip]>> \o (IF Len(@) < TripsKept THEN @ ELSE SubSeq(@, 1, TripsKept - 1))]
       /\ run' = [run EXCEPT ![ip] = 0]

HistNext ==
  \/ /\ \E ip \in Ips, taken \in BOOLEAN : PredictBranch(ip, taken)
     /\ UNCHANGED <<run, trips>>
  \/ /\ \E ip \in Ips : PredictOther(ip)
     /\ UNCHANGED <<run, trips>>
  \/ /\ Resolve
     /\ RecordOutcome(pending[1], pending[2])

HistSpec == HistInit /\ [][HistNext]_histVars

----------------------------------------------------------------------------
(* The entry that overrides the global prediction, if there is one. *)

Confident(ip) == MatchingWays(ip) # {} /\ Lookup(ip).valid
EntryFor(ip) == loop_component[index(ip)][First(MatchingWays(ip))]

\* A confident entry is in step with its loop: it has counted every iteration
\* since the last exit, and its trip count is that of the last execution,
\* whatever evictions, aliases and resets came before.
ConfidentInStep ==
  \A ip \in Watched : (pending = <<>> /\ Confident(ip)) =>
     /\ trips[ip] # <<>>
     /\ EntryFor(ip).curr_iter_cnt = run[ip]
     /\ EntryFor(ip).past_iter_cnt =
          IF trips[ip][1] > ITER_MAX THEN ITER_MAX ELSE trips[ip][1]

\* A loop earns its confidence: the trip count it is predicted by was that of the
\* last two executions, also after a misprediction, an eviction, or a count begun
\* in the middle of an execution.  Only executions without an iteration confirm
\* whatever comes next, since a learnt count of zero stands for none.
ConfidentIsRegular ==
  \A ip \in Watched : (pending = <<>> /\ Confident(ip)) =>
     /\ Len(trips[ip]) > 1
     /\ trips[ip][2] \in {0, EntryFor(ip).past_iter_cnt} \/ trips[ip][2] > ITER_MAX
=============================================================================
