------------------------------ MODULE Simulation -----------------------------
(***************************************************************************)
(* The main loop (src/champsim.cc, src/operable.cc): phases of cycles; in  *)
(* each cycle the clock ticks, every operable catches up with it, the      *)
(* queues of the cores are filled from their traces, and the loop looks    *)
(* for a deadlock, a livelock and the end of the phase.                    *)
(*                                                                         *)
(* An operable makes progress or not, as it likes; a core may retire what  *)
(* it has.  Times are relative to the clock.  The two bounds count what    *)
(* nothing looks at any longer: retired instructions past the length of    *)
(* the phase and past what the livelock detection asks for.                *)
(***************************************************************************)
EXTENDS Integers, FiniteSets, FiniteSetsExt, Sequences

CONSTANTS
  Operables, Cpus,         \* Cpus \subseteq Operables
  clock_period,            \* operable -> its period
  Phases,                  \* the lengths of the phases
  TraceLengths,            \* how many instructions a trace may have; -1 for no end
  IN_QUEUE_SIZE,
  DEADLOCK_CYCLE, LIVELOCK_PERIOD, LIVELOCK_MIN

\* What the main loop relies on: operables have periods, and every core is one.
ASSUME SimulationAssumption ==
  /\ Operables # {} /\ Cpus \subseteq Operables
  /\ clock_period \in [Operables -> Nat \ {0}]

VARIABLE sim

SimInit ==
  \E left \in [Cpus -> TraceLengths] :
    sim = [stage |-> "begin", phase |-> 1, left |-> left,
           lag |-> [op \in Operables |-> 0],       \* current_time, relative to the clock
           pending |-> {}, progress |-> 0,
           queue |-> [c \in Cpus |-> 0],
           retired |-> [c \in Cpus |-> 0],         \* sim_instr
           recent |-> [c \in Cpus |-> 0],          \* sim_instr since livelock_instr
           stalled_cycle |-> 0, livelock_timer |-> 0,
           complete |-> [c \in Cpus |-> FALSE],
           \* history: how often an operable ran in this cycle, and a core was ended
           ran |-> [op \in Operables |-> 0], ended |-> [c \in Cpus |-> 0]]

\* The phase begins.
BeginPhase ==
  /\ sim.stage = "begin"
  /\ sim' = [sim EXCEPT !.stage = "tick", !.stalled_cycle = 0, !.livelock_timer = 0,
                        !.retired = [c \in Cpus |-> 0], !.recent = [c \in Cpus |-> 0],
                        !.complete = [c \in Cpus |-> FALSE], !.ended = [c \in Cpus |-> 0]]

time_quantum == Min({clock_period[op] : op \in Operables})

Tick ==
  /\ sim.stage = "tick"
  /\ sim' = [sim EXCEPT !.stage = "operate", !.progress = 0, !.pending = Operables,
                        !.lag = [op \in Operables |-> @[op] - time_quantum],
                        !.ran = [op \in Operables |-> 0]]

\* operate_on, in the order of their times: all the cycles an operable is behind.
Earliest == {op \in sim.pending : \A other \in sim.pending : sim.lag[op] <= sim.lag[other]}

OperateOn(op) ==
  /\ sim.stage = "operate" /\ op \in Earliest
  /\ IF sim.lag[op] >= 0 THEN sim' = [sim EXCEPT !.pending = @ \ {op}]
     ELSE \E progress \in 0..1, retires \in 0..(IF op \in Cpus THEN sim.queue[op] ELSE 0) :
            /\ retires > 0 => progress > 0
            /\ LET s == [sim EXCEPT !.lag[op] = @ + clock_period[op],
                                    !.ran[op] = @ + 1,
                                    !.progress = IF progress > 0 THEN 1 ELSE @]
               IN  sim' = IF op \in Cpus
                          THEN [s EXCEPT !.queue[op] = @ - retires,
                                         !.retired[op] = Min({@ + retires, Phases[sim.phase]}),
                                         !.recent[op] = Min({@ + retires, LIVELOCK_MIN + 1})]
                          ELSE s

\* A trace that ends is at its end when it has handed out its last instruction.
Eof(c) == sim.left[c] = 0
Wanted(c) == IF sim.left[c] < 0 THEN IN_QUEUE_SIZE - sim.queue[c]
             ELSE Min({IN_QUEUE_SIZE - sim.queue[c], sim.left[c]})

ReadTraces ==
  /\ sim.stage = "operate" /\ sim.pending = {}
  /\ sim' = [sim EXCEPT !.stage = "detect",
                        !.queue = [c \in Cpus |-> @[c] + Wanted(c)],
                        !.left = [c \in Cpus |-> IF @[c] < 0 THEN @[c] ELSE @[c] - Wanted(c)]]

\* Mutant of LivelockTrigger: the trigger is never set.
LivelockTrigger_Never == FALSE

LivelockTrigger ==
  /\ sim.livelock_timer + 1 >= LIVELOCK_PERIOD
  /\ \E c \in Cpus : sim.recent[c] <= LIVELOCK_MIN

Detect ==
  /\ sim.stage = "detect"
  /\ LET stalled == IF sim.progress = 0 THEN sim.stalled_cycle + 1 ELSE 0
         checked == sim.livelock_timer + 1 >= LIVELOCK_PERIOD
     IN  sim' = [sim EXCEPT
                   !.stage = IF stalled >= DEADLOCK_CYCLE \/ LivelockTrigger
                             THEN "aborted" ELSE "check",
                   !.stalled_cycle = stalled,
                   !.livelock_timer = IF checked THEN 0 ELSE @ + 1,
                   !.recent = IF checked THEN [c \in Cpus |-> 0] ELSE @]

\* Mutant of CompletesNow: a core is complete while it has enough.
CompletesNow_Again(c) ==
  (\E t \in Cpus : Eof(t)) \/ sim.retired[c] >= Phases[sim.phase]

\* The end of one trace completes all.
CompletesNow(c) ==
  /\ ~sim.complete[c]
  /\ (\E t \in Cpus : Eof(t)) \/ sim.retired[c] >= Phases[sim.phase]

\* end_phase of every operable, once for each core that is complete now.
CheckPhase ==
  /\ sim.stage = "check"
  /\ LET complete == [c \in Cpus |-> sim.complete[c] \/ CompletesNow(c)]
     IN  sim' = [sim EXCEPT
                   !.complete = complete,
                   !.ended = [c \in Cpus |-> IF CompletesNow(c) THEN @[c] + 1 ELSE @[c]],
                   !.stage = IF \E c \in Cpus : ~complete[c] THEN "tick"
                             ELSE IF sim.phase < Len(Phases) THEN "begin" ELSE "done",
                   !.phase = IF (\A c \in Cpus : complete[c]) /\ sim.phase < Len(Phases)
                             THEN @ + 1 ELSE @]

SimNext ==
  \/ BeginPhase \/ Tick \/ ReadTraces \/ Detect \/ CheckPhase
  \/ \E op \in Operables : OperateOn(op)

SimSpec == SimInit /\ [][SimNext]_sim

----------------------------------------------------------------------------
\* Whatever the periods are, an operable runs at most once in a cycle of the loop,
\* so that the messages of a cycle are seen in the order of its times, and none is
\* behind the clock, or a whole period ahead of it, when the traces are read.
InStep ==
  /\ \A op \in Operables : sim.ran[op] <= 1
  /\ sim.stage = "detect" => \A op \in Operables : sim.lag[op] \in 0..(clock_period[op] - 1)

\* When a phase is over, every core was ended once: the statistics of the region
\* of interest are copied at the end, and a second one would overwrite them.
EndedOnce ==
  /\ \A c \in Cpus : sim.ended[c] <= 1
  /\ sim.stage \in {"begin", "done"} /\ (sim.phase > 1 \/ sim.stage = "done") =>
       \A c \in Cpus : sim.ended[c] = 1

ClocksAndPhases == InStep /\ EndedOnce

Ended == sim.stage \in {"done", "aborted"}
==============================================================================
