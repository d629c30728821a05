----------------------------- MODULE FwCounter -----------------------------
(***************************************************************************)
(* champsim::msl::base_fwcounter (inc/msl/fwcounter.h): the fixed-width    *)
(* saturating counter every predictor of the repository is built from.     *)
(* An unsigned fwcounter<WIDTH> is an integer in 0..2^WIDTH-1; the modules *)
(* that use it pass the maximum, so that small widths can be checked.      *)
(***************************************************************************)
EXTENDS Integers

\* base_fwcounter::clamp with MINVAL = 0, applied by every assignment.
Clamp(v, max) == IF v < 0 THEN 0 ELSE IF v > max THEN max ELSE v

\* operator+= and operator-= with a Numeric operand.
Add(v, n, max) == Clamp(v + n, max)
Sub(v, n, max) == Clamp(v - n, max)

\* `counter += taken ? 1 : -1`, the update every direction counter uses.
Steer(v, up, max) == IF up THEN Add(v, 1, max) ELSE Sub(v, 1, max)

\* `counter.value() > counter.maximum / 2`, the direction a counter votes for.
Taken(v, max) == v > max \div 2
=============================================================================
