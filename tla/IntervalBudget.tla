--------------------------- MODULE IntervalBudget ---------------------------
(***************************************************************************)
(* The byte budget of both pacers, ReCapABR/pacing/interval_budget.c, for  *)
(* can_build_up_underuse = -1: what a pass does not use is not carried to  *)
(* the next, what it overdraws is.                                         *)
(***************************************************************************)
EXTENDS Integers

k_window_ms == 500

Least(a, b)    == IF a < b THEN a ELSE b
Greatest(a, b) == IF a > b THEN a ELSE b
Clamp(x, m)    == Least(Greatest(-m, x), m)

set_target_rate_kbps(b, rate) ==
  LET max == (k_window_ms * rate) \div 8
  IN  [rate |-> rate, max |-> max, remaining |-> Clamp(b.remaining, max)]

increase_budget(b, elapsed) ==
  LET bytes == (b.rate * elapsed) \div 8
  IN  [b EXCEPT !.remaining = IF b.remaining < 0 THEN Least(b.remaining + bytes, b.max)
                              ELSE Least(bytes, b.max)]

use_budget(b, bytes) ==
  [b EXCEPT !.remaining = Greatest(-b.max, b.remaining - bytes)]
=============================================================================
