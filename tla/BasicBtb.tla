------------------------------ MODULE BasicBtb -------------------------------
(***************************************************************************)
(* basic_btb (btb/basic_btb): a table of targets with LRU replacement, a   *)
(* table of indirect targets hashed with the last directions, and a stack  *)
(* of return addresses that learns how long the calls are.  Every branch   *)
(* of the program is predicted and then updated with (do_predict_branch).  *)
(***************************************************************************)
EXTENDS Recency, Integers, FiniteSets, FiniteSetsExt

CONSTANTS
  Sites,                   \* address -> [type, size, targets]: the branches of the program
  BTB_SETS, BTB_WAYS, MAX_SIZE, TRACKERS, INDIRECT_SIZE, HISTORY_BITS,
  MaxDepth                 \* bound on the calls of the program

VARIABLE btb

NoTarget == 0
BranchIps == DOMAIN Sites

\* Addresses and sizes are naturals, and nothing of the predictor is empty.
ASSUME BtbAssumption ==
  /\ {BTB_SETS, BTB_WAYS, MAX_SIZE, TRACKERS} \subseteq Nat \ {0}
  /\ BranchIps \subseteq Nat
  /\ \A ip \in BranchIps : Sites[ip].size \in Nat

\* direct_predictor: branches of the same four bytes share their entry.
SetOf(ip) == (ip \div 4) % BTB_SETS
Tag(ip) == ip \div 4
BranchTags == {Tag(ip) : ip \in BranchIps}

BtbInit ==
  btb = [direct |-> [s \in 0..(BTB_SETS - 1) |-> <<>>],
         indirect |-> [h \in 0..(INDIRECT_SIZE - 1) |-> NoTarget], history |-> 0,
         ras |-> <<>>, call_size |-> [t \in 0..(TRACKERS - 1) |-> 4],
         \* history: the calls of the program that have not returned, what the last
         \* branch taken with each tag was, the calls whose size is known, and the
         \* last return
         calls |-> <<>>, last |-> [tag \in BranchTags |-> [target |-> NoTarget, type |-> "NONE"]],
         known |-> {}, returned |-> [expected |-> TRUE, right |-> TRUE]]

----------------------------------------------------------------------------
(* return_stack: the last element is the top. *)

RasPrediction(b) ==
  IF b.ras = <<>> THEN NoTarget ELSE Last(b.ras) + b.call_size[Last(b.ras) % TRACKERS]

\* Mutant of RasPush: on an overflow the newest goes, not the oldest.
RasPush_DropsNewest(b, ip) ==
  [b EXCEPT !.ras = IF Len(@) = MAX_SIZE THEN @ ELSE Append(@, ip)]

RasPush(b, ip) ==
  [b EXCEPT !.ras = IF Len(@) = MAX_SIZE THEN Tail(@) \o <<ip>> ELSE Append(@, ip)]

Distance(a, b) == IF a > b THEN a - b ELSE b - a

calibrate_call_size(b, target) ==
  IF b.ras = <<>> THEN b
  ELSE LET call == Last(b.ras)
           size == Distance(call, target)
       IN  [b EXCEPT !.ras = Front(@),
                     !.call_size = IF size <= 10 THEN [@ EXCEPT ![call % TRACKERS] = size]
                                   ELSE @]

----------------------------------------------------------------------------
(* direct_predictor *)

direct_check_hit(b, ip) == [b EXCEPT !.direct[SetOf(ip)] = Touch(@, Tag(ip))]

Class(type) ==
  CASE type \in {"indirect", "indirect_call"} -> "INDIRECT"
    [] type = "return" -> "RETURN"
    [] type = "conditional" -> "CONDITIONAL"
    [] OTHER -> "ALWAYS_TAKEN"

\* A branch with no target, one that was not taken, changes the type at most,
\* and only of a copy.
DirectUpdate(b, ip, target, type) ==
  LET set == b.direct[SetOf(ip)]
  IN  IF target = NoTarget THEN direct_check_hit(b, ip)
      ELSE [b EXCEPT !.direct[SetOf(ip)] =
              Insert(set, [tag |-> Tag(ip), target |-> target, type |-> Class(type)], BTB_WAYS)]

----------------------------------------------------------------------------
(* indirect_predictor *)

Xor(x, y, bits) ==
  MapThenSumSet(LAMBDA k : ((x \div 2^k + y \div 2^k) % 2) * 2^k, 0..(bits - 1))
IndirectSlot(b, ip) == Xor(ip \div 4, b.history, 8) % INDIRECT_SIZE
update_target(b, ip, target) == [b EXCEPT !.indirect[IndirectSlot(b, ip)] = target]
update_direction(b, taken) ==
  [b EXCEPT !.history = (2 * @ + (IF taken THEN 1 ELSE 0)) % 2 ^ HISTORY_BITS]

----------------------------------------------------------------------------
(* basic_btb *)

btb_prediction(b, ip) ==
  LET set == b.direct[SetOf(ip)]
      entry == ElementOf(set, Tag(ip))
  IN  IF ~IsIn(set, Tag(ip)) THEN NoTarget
      ELSE CASE entry.type = "RETURN" -> RasPrediction(b)
             [] entry.type = "INDIRECT" -> b.indirect[IndirectSlot(b, ip)]
             [] OTHER -> entry.target

update_btb(b, ip, target, taken, type) ==
  LET pushed == IF type \in {"call", "indirect_call"} THEN RasPush(b, ip) ELSE b
      aimed == IF type \in {"indirect", "indirect_call"}
               THEN update_target(pushed, ip, target) ELSE pushed
      turned == IF type = "conditional" THEN update_direction(aimed, taken) ELSE aimed
      sized == IF type = "return" THEN calibrate_call_size(turned, target) ELSE turned
  IN  DirectUpdate(sized, ip, target, type)

\* The program: calls nest, a return goes behind the call that is open.
ReturnAddress(call) == call + Sites[call].size
CallsAfter(ip) ==
  LET type == Sites[ip].type
  IN  IF type \in {"call", "indirect_call"} THEN Append(btb.calls, ip)
      ELSE IF type = "return" THEN Front(btb.calls) ELSE btb.calls

\* A return is expected to be right when it is known as one, its call is still
\* on the stack, and the size of the call is the one that was learnt last.
ReturnIsDue(ip) ==
  /\ IsIn(btb.direct[SetOf(ip)], Tag(ip))
  /\ btb.last[Tag(ip)].type = "RETURN"
  /\ btb.ras # <<>>
  /\ Last(btb.calls) \in btb.known

\* A call that is longer than ten bytes is not believed.
KnownAfter(ip) ==
  LET call == Last(btb.calls)
  IN  IF Sites[ip].type # "return" \/ btb.ras = <<>> \/ Sites[call].size > 10 THEN btb.known
      ELSE {c \in btb.known : c % TRACKERS # call % TRACKERS} \cup {call}

Branch(ip, target, taken) ==
  LET type == Sites[ip].type
      looked == direct_check_hit(btb, ip)
  IN  btb' = [update_btb(looked, ip, target, taken, type) EXCEPT
                !.calls = CallsAfter(ip),
                !.last = IF target = NoTarget THEN @
                         ELSE [@ EXCEPT ![Tag(ip)] =
                                 [target |-> target, type |-> Class(type)]],
                !.known = KnownAfter(ip),
                !.returned = IF type = "return"
                             THEN [expected |-> ReturnIsDue(ip),
                                   right |-> btb_prediction(btb, ip) = target] ELSE @]

BtbNext ==
  \E ip \in BranchIps :
    LET type == Sites[ip].type
    IN  \/ /\ type \in {"call", "indirect_call"} /\ Len(btb.calls) < MaxDepth
           /\ \E target \in Sites[ip].targets : Branch(ip, target, TRUE)
        \/ /\ type = "return" /\ btb.calls # <<>>
           /\ Branch(ip, ReturnAddress(Last(btb.calls)), TRUE)
        \/ /\ type \in {"jump", "indirect"}
           /\ \E target \in Sites[ip].targets : Branch(ip, target, TRUE)
        \/ /\ type = "conditional"
           /\ \/ \E target \in Sites[ip].targets : Branch(ip, target, TRUE)
              \/ Branch(ip, NoTarget, FALSE)

BtbSpec == BtbInit /\ [][BtbNext]_btb

----------------------------------------------------------------------------
\* The stack holds the innermost calls of the program, however often it ran over,
\* so that a return it can know is predicted to where the program goes.
ReturnsPredicted ==
  /\ \E n \in 0..Len(btb.calls) : btb.ras = SubSeq(btb.calls, n + 1, Len(btb.calls))
  /\ btb.returned.expected => btb.returned.right

\* An untaken branch and the traffic of the other ways never spoil a target.
TargetsAreLast ==
  \A ip \in BranchIps : LET set == btb.direct[SetOf(ip)]
                  IN  IsIn(set, Tag(ip)) =>
                        ElementOf(set, Tag(ip)).target = btb.last[Tag(ip)].target

PredictsWhatItSaw == ReturnsPredicted /\ TargetsAreLast
==============================================================================
