-------------------------- MODULE AimdRateControl --------------------------
(***************************************************************************)
(* The bitrate that GCC allows for by the delay of packets: additive or    *)
(* multiplicative increase, multiplicative decrease                        *)
(* (estimator/aimd_rate_control.c), and when delay_base_bwe.c calls for    *)
(* either, as operators on the record of the code.  The session sets the   *)
(* bitrates as soon as it has a sender, so inited is always set.           *)
(*                                                                         *)
(* How much an increase adds, which depends on time and on the round trip, *)
(* is any of Increments.  Of the mean of what came through at overuse      *)
(* (avg_max_bitrate_kbps) and its deviation, what differs by more than     *)
(* three deviations is a choice among what differs at all.                 *)
(***************************************************************************)
EXTENDS Integers

CONSTANTS
  reduce_interval,    \* SU_MAX(SU_MIN(200, rtt), 10) ms
  headroom,           \* 10000 bps: what the estimate may be above 3/2 of what comes through
  Increments          \* what an increase may add

ASSUME AimdAssumption == reduce_interval \in Nat /\ headroom \in Nat /\ Increments \subseteq Nat

Unknown == -1

Lower(a, b)  == IF a < b THEN a ELSE b
Higher(a, b) == IF a > b THEN a ELSE b

(* beta, rounded                                                            *)
Shrunk(rate) == (85 * rate + 50) \div 100

aimd_set_bitrates(a, min, start, max) ==
  [a EXCEPT !.min_rate = min, !.max_rate = max, !.curr_rate = start]

aimd_create(min, start, max) ==
  [min_rate |-> min, max_rate |-> max, curr_rate |-> start, avg_max |-> Unknown,
   state |-> "Hold", region |-> "MaxUnknown", time_last_bitrate_change |-> -1]

clamp_bitrate(a, new_bitrate, coming_rate) ==
  LET most == (3 * coming_rate) \div 2 + headroom
      new  == IF new_bitrate > a.curr_rate /\ new_bitrate > most THEN Higher(a.curr_rate, most) ELSE new_bitrate
  IN  Lower(Higher(new, a.min_rate), a.max_rate)

aimd_time_reduce_further(a, now, incoming) ==
  now - a.time_last_bitrate_change >= reduce_interval \/ a.curr_rate \div 2 > incoming

aimd_change_state(a, detected, now) ==
  CASE detected = "Normal" /\ a.state = "Hold" -> [a EXCEPT !.time_last_bitrate_change = now, !.state = "Increase"]
    [] detected = "Overusing"  -> [a EXCEPT !.state = "Decrease"]
    [] detected = "Underusing" -> [a EXCEPT !.state = "Hold"]
    [] OTHER -> a

(* Mutant: what comes through at overuse is forgotten, but not that it is   *)
(* near.                                                                    *)
Forgotten_Region(a, incoming) ==
  {a} \cup IF a.avg_max # Unknown /\ incoming > a.avg_max THEN {[a EXCEPT !.avg_max = Unknown]} ELSE {}

(* Much more comes through than at overuse before: the maximum is unknown.  *)
Forgotten(a, incoming) ==
  {a} \cup IF a.avg_max # Unknown /\ incoming > a.avg_max
           THEN {[a EXCEPT !.region = "MaxUnknown", !.avg_max = Unknown]} ELSE {}

(* kRcIncrease                                                              *)
Increased(a, incoming, now) ==
  UNION {{[b EXCEPT !.curr_rate = clamp_bitrate(b, b.curr_rate + increment, incoming),
                    !.time_last_bitrate_change = now] :
            increment \in IF b.region = "NearMax" THEN Increments \cup {0} ELSE Increments}
         : b \in Forgotten(a, incoming)}

(* Mutant: what came through may be more than the estimate.                 *)
Decrease_Incoming(a, incoming) == Shrunk(incoming)

(* What kRcDecrease makes of the estimate before it is clamped.             *)
Decrease(a, incoming) ==
  IF Shrunk(incoming) <= a.curr_rate THEN Shrunk(incoming)
  ELSE Lower(a.curr_rate, IF a.region # "MaxUnknown" THEN Shrunk(a.avg_max) ELSE Shrunk(incoming))

(* kRcDecrease, and update_max_bitrate_estimate: much less may come through *)
(* than at overuse before.                                                  *)
Decreased(a, incoming, now) ==
  {[a EXCEPT !.curr_rate = clamp_bitrate(a, Decrease(a, incoming), incoming),
             !.region = "NearMax", !.state = "Hold", !.time_last_bitrate_change = now,
             !.avg_max = IF avg = Unknown THEN incoming ELSE (19 * avg + incoming) \div 20] :
     avg \in {a.avg_max} \cup IF incoming < a.avg_max THEN {Unknown} ELSE {}}

(* aimd_update: the results of it.                                          *)
aimd_update(a, detected, acked, now) ==
  LET incoming == IF acked = 0 THEN a.curr_rate ELSE acked
      b == aimd_change_state(a, detected, now)
  IN  CASE b.state = "Hold"     -> {[b EXCEPT !.curr_rate = clamp_bitrate(b, b.curr_rate, incoming)]}
        [] b.state = "Increase" -> Increased(b, incoming, now)
        [] b.state = "Decrease" -> Decreased(b, incoming, now)

aimd_set_estimate(a, bitrate, now) ==
  [a EXCEPT !.curr_rate = clamp_bitrate(a, bitrate, bitrate), !.time_last_bitrate_change = now]

(* delay_bwe_maybe_update, for what the detector has found: the results,    *)
(* each with whether it is passed on.                                       *)
delay_bwe_maybe_update(a, detected, acked, now) ==
  LET updates == {[aimd |-> b, updated |-> b.curr_rate # a.curr_rate] : b \in aimd_update(a, detected, acked, now)}
  IN  IF detected # "Overusing" THEN updates
      ELSE IF acked > 0 THEN IF aimd_time_reduce_further(a, now, acked) THEN updates ELSE {[aimd |-> a, updated |-> FALSE]}
      ELSE IF aimd_time_reduce_further(a, now, a.curr_rate \div 2 - 1)
      THEN {[aimd |-> aimd_set_estimate(a, (3 * a.curr_rate) \div 4, now), updated |-> TRUE]}
      ELSE {[aimd |-> a, updated |-> FALSE]}
=============================================================================
