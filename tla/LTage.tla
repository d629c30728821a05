-------------------------------- MODULE LTage --------------------------------
(***************************************************************************)
(* The L-TAGE predictor (branch/LTage/ltage.cc): Tage and LoopPredictor    *)
(* side by side.  Both predict every instruction and both learn from every *)
(* branch; a confident loop entry overrules the global prediction.  The    *)
(* loop predictor's half is the extended module's, its predict_branch and  *)
(* last_branch_result; what this module adds is named after ltage.         *)
(* Addresses are numbers, as the loop predictor uses them; Tage sees the   *)
(* same address as the set of its 1 bits.                                  *)
(***************************************************************************)
EXTENDS LoopPredictor

CONSTANTS TAG_WIDTHS, HIST_LENS, TAGE_INDEX_BITS, BIMODAL_INDEX_BITS, PHIST_BITS,
          GHIST_BITS, PRED_MAX, U_MAX, BIMODAL_MAX, USE_ALT_MAX, RESET_USEFUL_INTERVAL

VARIABLES tage_table, bimodal_table, branch_info, num_branches, phist, ghist,
          USE_ALT_ON_NA

ltageVars == <<tage_table, bimodal_table, branch_info, num_branches, phist, ghist,
               USE_ALT_ON_NA, loop_component, loop_branch_info, pending>>

\* The hashes look at the low 20 bits of an address at most.
HashedBits == 0..19
Bits(n) == {i \in HashedBits : (n \div 2^i) % 2 = 1}

tage_predictor == INSTANCE Tage WITH
  Ips <- {Bits(ip) : ip \in Ips},
  pending <- IF pending = <<>> THEN <<>> ELSE <<Bits(pending[1]), pending[2]>>

ASSUME LTageAssumption == tage_predictor!TageAssumption

LTageInit == Init /\ tage_predictor!TageInit

ltage_predict_branch(ip) ==
  /\ predict_branch(ip)
  /\ tage_predictor!predict_branch(Bits(ip))

\* Mutant of prediction: a tagged component of TAGE that hits comes first.
prediction_TageFirst ==
  IF loop_branch_info.valid /\ branch_info.provider = -1
  THEN loop_branch_info.prediction ELSE branch_info.ultimate

\* What predict_branch returned for the pending branch.
prediction ==
  IF loop_branch_info.valid THEN loop_branch_info.prediction ELSE branch_info.ultimate

ltage_last_branch_result(ip, taken, skip) ==
  /\ last_branch_result(ip, taken)
  /\ tage_predictor!last_branch_result(Bits(ip), taken, skip)

LTagePredictBranch(ip, taken) ==
  /\ pending = <<>>
  /\ ltage_predict_branch(ip)
  /\ pending' = <<ip, taken>>

LTagePredictOther(ip) ==
  /\ pending = <<>>
  /\ ltage_predict_branch(ip)
  /\ UNCHANGED pending

LTageResolve(skip) ==
  /\ pending # <<>>
  /\ ltage_last_branch_result(pending[1], pending[2], skip)
  /\ pending' = <<>>

LTageNext ==
  \/ \E ip \in Ips, taken \in BOOLEAN : LTagePredictBranch(ip, taken)
  \/ \E ip \in Ips : LTagePredictOther(ip)
  \/ \E skip \in tage_predictor!Skips : LTageResolve(skip)

LTageSpec == LTageInit /\ [][LTageNext]_ltageVars
=============================================================================
