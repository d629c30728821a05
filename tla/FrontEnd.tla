------------------------------ MODULE FrontEnd -------------------------------
(***************************************************************************)
(* The front end of the core (src/ooo_cpu.cc): instructions are read from  *)
(* the trace into IFETCH_BUFFER, fetched from L1I a block at a time, split *)
(* between the instructions the decoded-instruction buffer (DIB) holds and *)
(* those that must be decoded, and merged again for dispatch.  A           *)
(* mispredicted branch stops the reading until it is resolved.             *)
(*                                                                         *)
(* Widths and latencies are abstracted: a stage moves one instruction at a *)
(* time, whenever it likes.  An instruction is its position in the trace.  *)
(***************************************************************************)
EXTENDS Integers, Sequences, FiniteSets

CONSTANTS
  MaxInstrs,     \* bound: instructions of the trace
  Blocks,        \* cache blocks the trace executes from
  IFETCH_BUFFER_SIZE, DIB_HIT_BUFFER_SIZE, DECODE_BUFFER_SIZE, DISPATCH_BUFFER_SIZE

ASSUME FrontEndAssumption ==
  /\ MaxInstrs \in Nat
  /\ {IFETCH_BUFFER_SIZE, DIB_HIT_BUFFER_SIZE, DECODE_BUFFER_SIZE,
      DISPATCH_BUFFER_SIZE} \subseteq Nat \ {0}

Instrs == 1..MaxInstrs

\* Where a branch finds out that it was mispredicted: direct jumps and calls,
\* and conditional branches with a wrong target only, at decode; the others,
\* and every branch the DIB holds, when they complete.
Outcomes == {"predicted", "wrong_at_decode", "wrong_at_execute"}

VARIABLES
  read,               \* instructions read from the trace so far
  block,              \* of the instructions in IFETCH_BUFFER
  IFETCH_BUFFER, DIB_HIT_BUFFER, DECODE_BUFFER, DISPATCH_BUFFER,   \* queues
  dib_checked, fetch_issued, fetch_completed, decoded,   \* flags of IFETCH_BUFFER, as sets
  branch_mispredicted,   \* the branches that have not resumed the reading
  found_at_decode,       \* those of them that decode can tell
  requests,           \* L1I requests not returned: sequences of instructions
  executing,          \* dispatched, not completed
  stalled,            \* fetch_resume_time is time_point::max()
  warmup

flagVars == <<dib_checked, fetch_issued, fetch_completed, decoded>>
branchVars == <<branch_mispredicted, found_at_decode>>
queueVars == <<IFETCH_BUFFER, DIB_HIT_BUFFER, DECODE_BUFFER, DISPATCH_BUFFER>>
vars == <<read, block, queueVars, flagVars, branchVars, requests,
          executing, stalled, warmup>>

In(queue) == {queue[k] : k \in 1..Len(queue)}
Least(S) == CHOOSE i \in S : \A j \in S : i <= j

Init ==
  /\ read = 0
  /\ block = <<>>
  /\ IFETCH_BUFFER = <<>> /\ DIB_HIT_BUFFER = <<>>
  /\ DECODE_BUFFER = <<>> /\ DISPATCH_BUFFER = <<>>
  /\ dib_checked = {} /\ fetch_issued = {} /\ fetch_completed = {} /\ decoded = {}
  /\ branch_mispredicted = {} /\ found_at_decode = {}
  /\ requests = {} /\ executing = {} /\ stalled = FALSE
  /\ warmup \in BOOLEAN

----------------------------------------------------------------------------
(* initialize_instruction, do_init_instruction, do_predict_branch *)

\* During warmup a misprediction costs nothing.
StopsFetch(o) == o # "predicted" /\ ~warmup

ReadInstruction(b, o) ==
  /\ ~stalled
  /\ read < MaxInstrs /\ Len(IFETCH_BUFFER) < IFETCH_BUFFER_SIZE
  /\ LET i == read + 1
     IN  /\ read' = i
         /\ IFETCH_BUFFER' = Append(IFETCH_BUFFER, i)
         /\ block' = [j \in In(IFETCH_BUFFER) \cup {i} |-> IF j = i THEN b ELSE block[j]]
         /\ IF StopsFetch(o)
            THEN /\ stalled' = TRUE
                 /\ branch_mispredicted' = branch_mispredicted \cup {i}
                 /\ found_at_decode' = IF o = "wrong_at_decode" THEN found_at_decode \cup {i}
                                       ELSE found_at_decode
            ELSE UNCHANGED <<stalled, branchVars>>
  /\ UNCHANGED <<DIB_HIT_BUFFER, DECODE_BUFFER, DISPATCH_BUFFER, flagVars, requests,
                 executing, warmup>>

----------------------------------------------------------------------------
(* check_dib, do_check_dib *)

Unchecked == In(IFETCH_BUFFER) \ dib_checked

CheckDib(hit) ==
  /\ Unchecked # {}
  /\ LET i == Least(Unchecked)
     IN  /\ dib_checked' = dib_checked \cup {i}
         /\ fetch_completed' = IF hit THEN fetch_completed \cup {i} ELSE fetch_completed
         /\ decoded' = IF hit THEN decoded \cup {i} ELSE decoded
  /\ UNCHANGED <<read, block, queueVars, fetch_issued, branchVars,
                 requests, executing, stalled, warmup>>

----------------------------------------------------------------------------
(* fetch_instruction, do_fetch_instruction *)

FetchReady == (In(IFETCH_BUFFER) \cap dib_checked) \ fetch_issued

\* From the first instruction that is ready, as far as the block goes,
\* whether or not the others have been checked against the DIB.
Chunk ==
  LET first == Least(FetchReady)
  IN  SelectSeq(IFETCH_BUFFER,
                LAMBDA i : i >= first /\ \A j \in first..i : block[j] = block[first])

\* L1I may refuse the request; it is then made again in a later cycle.
FetchBlock ==
  /\ FetchReady # {}
  /\ requests' = requests \cup {Chunk}
  /\ fetch_issued' = fetch_issued \cup In(Chunk)
  /\ UNCHANGED <<read, block, queueVars, dib_checked, fetch_completed, decoded,
                 branchVars, executing, stalled, warmup>>

----------------------------------------------------------------------------
(* handle_memory_return, for L1I *)

\* L1I answers in any order; the instructions that wait for the block are
\* served one by one, and those that have left the buffer are skipped.
FetchReturn(request) ==
  /\ request \in requests
  /\ LET i == Head(request)
     IN  fetch_completed' = IF i \in In(IFETCH_BUFFER) /\ i \in fetch_issued
                            THEN fetch_completed \cup {i} ELSE fetch_completed
  /\ requests' = (requests \ {request})
                   \cup (IF Len(request) = 1 THEN {} ELSE {Tail(request)})
  /\ UNCHANGED <<read, block, queueVars, dib_checked, fetch_issued, decoded,
                 branchVars, executing, stalled, warmup>>

----------------------------------------------------------------------------
(* promote_to_decode *)

\* The buffer is left in order, and needs room on both sides.
CanPromote ==
  /\ IFETCH_BUFFER # <<>> /\ Head(IFETCH_BUFFER) \in fetch_completed
  /\ Len(DIB_HIT_BUFFER) < DIB_HIT_BUFFER_SIZE
  /\ Len(DECODE_BUFFER) < DECODE_BUFFER_SIZE

PromoteToDecode ==
  /\ CanPromote
  /\ LET i == Head(IFETCH_BUFFER)
     IN  /\ IF i \in decoded
            THEN DIB_HIT_BUFFER' = Append(DIB_HIT_BUFFER, i) /\ UNCHANGED DECODE_BUFFER
            ELSE DECODE_BUFFER' = Append(DECODE_BUFFER, i) /\ UNCHANGED DIB_HIT_BUFFER
         /\ block' = [j \in In(IFETCH_BUFFER) \ {i} |-> block[j]]
         /\ dib_checked' = dib_checked \ {i} /\ fetch_issued' = fetch_issued \ {i}
         /\ fetch_completed' = fetch_completed \ {i} /\ decoded' = decoded \ {i}
  /\ IFETCH_BUFFER' = Tail(IFETCH_BUFFER)
  /\ UNCHANGED <<read, DISPATCH_BUFFER, branchVars,
                 requests, executing, stalled, warmup>>

----------------------------------------------------------------------------
(* decode_instruction *)

\* Mutant of OlderThanAll: the other buffer is not looked at.
OlderThanAll_Ignored(i, queue) == TRUE

OlderThanAll(i, queue) == \A j \in In(queue) : i < j

\* A hit of the DIB goes to dispatch when it is older than all that must be
\* decoded; its misprediction is found later, when it completes.
TakeDibHit ==
  /\ DIB_HIT_BUFFER # <<>> /\ OlderThanAll(Head(DIB_HIT_BUFFER), DECODE_BUFFER)
  /\ Len(DISPATCH_BUFFER) < DISPATCH_BUFFER_SIZE
  /\ DISPATCH_BUFFER' = Append(DISPATCH_BUFFER, Head(DIB_HIT_BUFFER))
  /\ DIB_HIT_BUFFER' = Tail(DIB_HIT_BUFFER)
  /\ UNCHANGED <<read, block, IFETCH_BUFFER, DECODE_BUFFER, flagVars,
                 branchVars, requests, executing, stalled, warmup>>

\* Mutant of Decode: the branch is not marked as resolved.
Decode_KeepsFlag ==
  /\ DECODE_BUFFER # <<>> /\ OlderThanAll(Head(DECODE_BUFFER), DIB_HIT_BUFFER)
  /\ Len(DISPATCH_BUFFER) < DISPATCH_BUFFER_SIZE
  /\ DISPATCH_BUFFER' = Append(DISPATCH_BUFFER, Head(DECODE_BUFFER))
  /\ stalled' = IF Head(DECODE_BUFFER) \in found_at_decode THEN FALSE ELSE stalled
  /\ DECODE_BUFFER' = Tail(DECODE_BUFFER)
  /\ UNCHANGED <<read, block, IFETCH_BUFFER, DIB_HIT_BUFFER, flagVars, branchVars, requests,
                 executing, warmup>>

Decode ==
  /\ DECODE_BUFFER # <<>> /\ OlderThanAll(Head(DECODE_BUFFER), DIB_HIT_BUFFER)
  /\ Len(DISPATCH_BUFFER) < DISPATCH_BUFFER_SIZE
  /\ LET i == Head(DECODE_BUFFER)
     IN  /\ DISPATCH_BUFFER' = Append(DISPATCH_BUFFER, i)
         /\ stalled' = IF i \in found_at_decode THEN FALSE ELSE stalled
         /\ branch_mispredicted' = branch_mispredicted \ ({i} \cap found_at_decode)
         /\ found_at_decode' = found_at_decode \ {i}
  /\ DECODE_BUFFER' = Tail(DECODE_BUFFER)
  /\ UNCHANGED <<read, block, IFETCH_BUFFER, DIB_HIT_BUFFER, flagVars, requests,
                 executing, warmup>>

----------------------------------------------------------------------------
(* dispatch_instruction, and do_complete_execution in the back end *)

Dispatch ==
  /\ DISPATCH_BUFFER # <<>>
  /\ executing' = executing \cup {Head(DISPATCH_BUFFER)}
  /\ DISPATCH_BUFFER' = Tail(DISPATCH_BUFFER)
  /\ UNCHANGED <<read, block, IFETCH_BUFFER, DIB_HIT_BUFFER, DECODE_BUFFER,
                 flagVars, branchVars, requests, stalled, warmup>>

\* Mutant of CompleteExecution: what decode can tell is left to decode.
CompleteExecution_NotAtDecode(i) ==
  /\ i \in executing
  /\ executing' = executing \ {i}
  /\ stalled' = IF i \in branch_mispredicted \ found_at_decode THEN FALSE ELSE stalled
  /\ branch_mispredicted' = branch_mispredicted \ {i}
  /\ found_at_decode' = found_at_decode \ {i}
  /\ UNCHANGED <<read, block, queueVars, flagVars, requests, warmup>>

CompleteExecution(i) ==
  /\ i \in executing
  /\ executing' = executing \ {i}
  /\ stalled' = IF i \in branch_mispredicted THEN FALSE ELSE stalled
  /\ branch_mispredicted' = branch_mispredicted \ {i}
  /\ found_at_decode' = found_at_decode \ {i}
  /\ UNCHANGED <<read, block, queueVars, flagVars, requests, warmup>>

EndWarmup ==
  /\ warmup /\ warmup' = FALSE
  /\ UNCHANGED <<read, block, queueVars, flagVars, branchVars,
                 requests, executing, stalled>>

----------------------------------------------------------------------------
Next ==
  \/ \E b \in Blocks, o \in Outcomes : ReadInstruction(b, o)
  \/ \E hit \in BOOLEAN : CheckDib(hit)
  \/ FetchBlock
  \/ \E request \in requests : FetchReturn(request)
  \/ PromoteToDecode
  \/ TakeDibHit \/ Decode \/ Dispatch
  \/ \E i \in executing : CompleteExecution(i)
  \/ EndWarmup

Spec == Init /\ [][Next]_vars

\* operate() runs every stage every cycle, L1I answers what it accepts, the
\* back end completes what is dispatched (AllRetire of ReorderBuffer), and
\* the trace goes on.
Fairness ==
  /\ WF_vars(\E b \in Blocks, o \in Outcomes : ReadInstruction(b, o))
  /\ WF_vars(\E hit \in BOOLEAN : CheckDib(hit))
  /\ WF_vars(FetchBlock) /\ WF_vars(\E request \in requests : FetchReturn(request))
  /\ WF_vars(PromoteToDecode)
  /\ WF_vars(TakeDibHit \/ Decode) /\ WF_vars(Dispatch)
  /\ WF_vars(\E i \in executing : CompleteExecution(i))

----------------------------------------------------------------------------
(* Properties *)

\* Two buffers may overtake each other inside the front end, yet dispatch
\* sees every instruction once and in program order: what has been read is,
\* from the youngest backwards, in IFETCH_BUFFER, then in the two middle
\* buffers, then in DISPATCH_BUFFER, without a gap.
Consecutive(S) == S = {} \/ \E a, b \in 1..read : S = a..b
DispatchInOrder ==
  LET middle == In(DIB_HIT_BUFFER) \cup In(DECODE_BUFFER)
      Increasing(q) == \A k \in 1..(Len(q) - 1) : q[k] < q[k + 1]
      Older(S, T) == \A i \in S, j \in T : i < j
  IN  /\ Increasing(IFETCH_BUFFER) /\ Increasing(DIB_HIT_BUFFER)
      /\ Increasing(DECODE_BUFFER) /\ Increasing(DISPATCH_BUFFER)
      /\ Older(middle, In(IFETCH_BUFFER)) /\ Older(In(DISPATCH_BUFFER), middle)
      /\ Older(executing, In(DISPATCH_BUFFER) \cup middle \cup In(IFETCH_BUFFER))
      /\ Consecutive(In(DISPATCH_BUFFER) \cup middle \cup In(IFETCH_BUFFER))

InFlight ==
  In(IFETCH_BUFFER) \cup In(DIB_HIT_BUFFER) \cup In(DECODE_BUFFER) \cup In(DISPATCH_BUFFER)

\* No lost wake-up: reading is stopped exactly while the one mispredicted
\* branch that is not resolved is in the pipeline, and that is the youngest
\* instruction, so whatever resolves it can only resume its own path.
StalledByTheYoungest ==
  /\ branch_mispredicted = (IF stalled THEN {read} ELSE {})
  /\ branch_mispredicted \subseteq InFlight \cup executing

\* The whole trace is read and dispatched: neither a misprediction, whichever
\* way its branch takes through the buffers, nor a full buffer stops the
\* front end for good.
TraceDispatched == <>[](read = MaxInstrs /\ InFlight = {})
==============================================================================
