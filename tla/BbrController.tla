--------------------------- MODULE BbrController ---------------------------
(***************************************************************************)
(* The BBR controller, ReCapABR/bbr/bbr_controller.c, under the default    *)
(* configuration: its modes and gains, the round trips it counts, the      *)
(* least RTT and how it expires, loss recovery and the two windows.  The   *)
(* state is the record bbr with the fields of bbr_controller_t, and each   *)
(* function of the source that changes it is an operator on that record.   *)
(*                                                                         *)
(* Bandwidth is left out.  What the code decides by comparing bytes with   *)
(* the bandwidth-delay product, or the bandwidth with that of an earlier   *)
(* round, may go either way here, so an operator with such a decision      *)
(* yields the set of its results.  Pacing rates, the loss rate and the     *)
(* aggregation of acknowledgements change nothing else and are left out.   *)
(***************************************************************************)
EXTENDS Integers, FiniteSets

CONSTANTS
  kGainCycleLength,        \* 8
  num_startup_rtts,        \* 3
  kMinRttExpiry,           \* 10000 ms
  kProbeRttTimeMs,         \* 200 ms
  min_congestion_window,   \* 4 segments
  initial_congestion_window,
  max_congestion_window,
  kMaxSegmentSize,         \* 1460 bytes
  RttSamples,              \* RTTs of packets
  Amounts,                 \* bytes acknowledged, lost or under way
  Targets,                 \* congestion windows that a gain on the bandwidth-delay product gives
  MaxNumber,               \* bound: packets sent
  MaxWindow,               \* bound: recovery windows, which only GROWTH and what is under way raise
  MaxNow                   \* bound of the clock

ASSUME BbrConstants ==
  /\ kGainCycleLength \in Nat \ {0, 1} /\ num_startup_rtts \in Nat \ {0}
  /\ kMinRttExpiry \in Nat /\ kProbeRttTimeMs \in Nat /\ kMaxSegmentSize \in Nat
  /\ min_congestion_window \in Nat \ {0} /\ max_congestion_window \in Nat
  /\ initial_congestion_window \in min_congestion_window .. max_congestion_window
  /\ RttSamples \subseteq Nat \ {0} /\ Amounts \subseteq Nat
  /\ Targets \subseteq {w \in Nat : w >= min_congestion_window}
  /\ MaxNumber \in Nat /\ MaxNow \in Nat /\ MaxWindow \in Nat

None == -1

VARIABLES
  bbr,     \* the bbr_controller_t, and is_app_limited and end_of_app_limited_phase of its sampler
  bbrNow,  \* GET_SYS_MS()
  entered  \* history: when the mode PROBE_RTT was entered last

controllerVars == <<bbr, bbrNow, entered>>

CappedAt(a, b) == IF a < b THEN a ELSE b
AtLeast(a, b) == IF a > b THEN a ELSE b

bbr_in_recovery(b) == b.recovery_state # "NOT_IN_RECOVERY"

-----------------------------------------------------------------------------
bbr_enter_startup_mode(b) == [b EXCEPT !.mode = "STARTUP", !.pacing_gain = "high"]

bbr_get_pacing_gain(index) == CASE index = 0 -> "up" [] index = 1 -> "down" [] OTHER -> "one"

(* rand() % (kGainCycleLength - 1), where 1 and above move up by one: the   *)
(* cycle never starts with its draining phase.                              *)
EntryOffsets == (0 .. kGainCycleLength - 1) \ {1}

bbr_enter_probe_bandwidth_mode(b) ==
  {[b EXCEPT !.mode = "PROBE_BW", !.cycle_current_offset = offset,
             !.pacing_gain = bbr_get_pacing_gain(offset)] : offset \in EntryOffsets}

(* bbr_create, after the packet number 0 was sent.                          *)
BbrControllerInit ==
  /\ bbr = [mode |-> "STARTUP", pacing_gain |-> "high", cycle_current_offset |-> 0,
            is_at_full_bandwidth |-> FALSE, rounds_without_bandwidth_gain |-> 0,
            last_sent_packet |-> 0, current_round_trip_end |-> 0,
            min_rtt |-> 0, min_rtt_timestamp |-> 0,
            exit_probe_rtt_at |-> None, probe_rtt_round_passed |-> FALSE, exiting_quiescence |-> FALSE,
            is_app_limited |-> FALSE, end_of_app_limited_phase |-> 0,
            recovery_state |-> "NOT_IN_RECOVERY", end_recovery_at |-> None,
            recovery_window |-> max_congestion_window,
            congestion_window |-> initial_congestion_window]
  /\ bbrNow = 0
  /\ entered = 0

(* bbr_on_send_packet, when data_in_flight is zero or more.                 *)
bbr_on_send_packet(idle) ==
  /\ bbr.last_sent_packet < MaxNumber
  /\ bbr' = [bbr EXCEPT !.last_sent_packet = bbr.last_sent_packet + 1,
                        !.exiting_quiescence = bbr.exiting_quiescence \/ (idle /\ bbr.is_app_limited)]
  /\ UNCHANGED <<bbrNow, entered>>

-----------------------------------------------------------------------------
(* bbr_on_feedback, step by step.                                           *)

RoundStart(b, last_acked) == last_acked > b.current_round_trip_end

bbr_update_round_trip_counter(b, last_acked) ==
  IF RoundStart(b, last_acked) THEN [b EXCEPT !.current_round_trip_end = b.last_sent_packet] ELSE b

MinRttExpired(b, now) == b.min_rtt > 0 /\ now > b.min_rtt_timestamp + kMinRttExpiry

(* bbr_update_bandwidth_and_min_rtt, for the least RTT of the samples, if   *)
(* there is one.  Among the packets acknowledged may be one sent after the  *)
(* last app-limited one, which ends that phase.                             *)
bbr_update_min_rtt(b, now, last_acked, rtt) ==
  LET c == IF rtt # None /\ (MinRttExpired(b, now) \/ rtt < b.min_rtt \/ b.min_rtt = 0)
           THEN [b EXCEPT !.min_rtt = AtLeast(5, rtt), !.min_rtt_timestamp = now] ELSE b
  IN  {c} \cup IF last_acked > b.end_of_app_limited_phase THEN {[c EXCEPT !.is_app_limited = FALSE]} ELSE {}

(* bbr_update_recovery_state                                                *)
bbr_update_recovery_state(b, last_acked, losses, round_start) ==
  LET c == IF losses THEN [b EXCEPT !.end_recovery_at = last_acked] ELSE b
  IN  IF ~bbr_in_recovery(b)
      THEN IF losses THEN [c EXCEPT !.recovery_state = "CONSERVATION", !.recovery_window = 0,
                                    !.current_round_trip_end = last_acked]
           ELSE c
      ELSE IF ~losses /\ (c.end_recovery_at = None \/ c.end_recovery_at < last_acked)
      THEN [c EXCEPT !.recovery_state = "NOT_IN_RECOVERY"]
      ELSE IF round_start THEN [c EXCEPT !.recovery_state = "GROWTH"] ELSE c

(* bbr_update_gain_cycle_phase: the next phase starts when more than the    *)
(* least RTT is over, but a probing phase that lost nothing goes on until   *)
(* it has filled its window, and a draining phase ends early.               *)
bbr_update_gain_cycle_phase(b) ==
  IF b.mode # "PROBE_BW" THEN {b}
  ELSE LET next == (b.cycle_current_offset + 1) % kGainCycleLength
       IN  {b, [b EXCEPT !.cycle_current_offset = next, !.pacing_gain = bbr_get_pacing_gain(next)]}

(* bbr_check_if_full_bandwidth_reached: unless the last sample was app-     *)
(* limited, a round either raised the bandwidth by a quarter or counts as   *)
(* one without gain.                                                        *)
bbr_check_if_full_bandwidth_reached(b) ==
  LET n == b.rounds_without_bandwidth_gain + 1
  IN  {b, [b EXCEPT !.rounds_without_bandwidth_gain = 0],
       [b EXCEPT !.rounds_without_bandwidth_gain = n,
                 !.is_at_full_bandwidth = n >= num_startup_rtts \/ bbr_in_recovery(b)]}

(* bbr_maybe_exit_startup_or_drain; the RTT threshold for leaving startup   *)
(* is 100000 s.                                                             *)
bbr_maybe_exit_startup_or_drain(b) ==
  LET c == IF b.mode = "STARTUP" /\ b.is_at_full_bandwidth
           THEN [b EXCEPT !.mode = "DRAIN", !.pacing_gain = "drain"] ELSE b
  IN  {c} \cup IF c.mode = "DRAIN" THEN bbr_enter_probe_bandwidth_mode(c) ELSE {}

(* Mutant: probing the RTT always ends in startup.                          *)
LeaveProbeRtt_Startup(b, now) == {bbr_enter_startup_mode([b EXCEPT !.min_rtt_timestamp = now])}

LeaveProbeRtt(b, now) ==
  LET c == [b EXCEPT !.min_rtt_timestamp = now]
  IN  IF ~b.is_at_full_bandwidth THEN {bbr_enter_startup_mode(c)} ELSE bbr_enter_probe_bandwidth_mode(c)

(* Mutant: the time or a round is enough.                                   *)
ProbeRttDone_Either(b, now) == now >= b.exit_probe_rtt_at \/ b.probe_rtt_round_passed

ProbeRttDone(b, now) == now >= b.exit_probe_rtt_at /\ b.probe_rtt_round_passed

(* The mode PROBE_RTT of bbr_maybe_enter_or_exit_probe_rtt: it lasts until  *)
(* what is under way has fallen to its window, and from then on some time   *)
(* and to the end of a round.                                               *)
ProbingRtt(b, now, round_start) ==
  LET c == [b EXCEPT !.is_app_limited = TRUE, !.end_of_app_limited_phase = b.last_sent_packet]
      d == [c EXCEPT !.probe_rtt_round_passed = c.probe_rtt_round_passed \/ round_start]
  IN  IF c.exit_probe_rtt_at = None
      THEN {c, [c EXCEPT !.exit_probe_rtt_at = now + kProbeRttTimeMs, !.probe_rtt_round_passed = FALSE]}
      ELSE IF ProbeRttDone(d, now) THEN LeaveProbeRtt(d, now) ELSE {d}

EnterProbeRtt(b) == [b EXCEPT !.mode = "PROBE_RTT", !.pacing_gain = "one", !.exit_probe_rtt_at = None]

(* Mutant: an expired RTT is probed for once startup is over only.          *)
ProbeRttDue_AfterStartup(b, expired) == expired /\ ~b.exiting_quiescence /\ b.mode = "PROBE_BW"

ProbeRttDue(b, expired) == expired /\ ~b.exiting_quiescence /\ b.mode # "PROBE_RTT"

bbr_maybe_enter_or_exit_probe_rtt(b, now, round_start, min_rtt_expired) ==
  LET c == IF ProbeRttDue(b, min_rtt_expired) THEN EnterProbeRtt(b) ELSE b
      after == IF c.mode = "PROBE_RTT" THEN ProbingRtt(c, now, round_start) ELSE {c}
  IN  {[d EXCEPT !.exiting_quiescence = FALSE] : d \in after}

(* bbr_calculate_congestion_window, where the window that the gain on the   *)
(* bandwidth-delay product and the aggregation give is any of Targets, and  *)
(* startup may have sent less than its initial window.                      *)
bbr_calculate_congestion_window(b, acked) ==
  IF b.mode = "PROBE_RTT" THEN {b}
  ELSE LET grown == b.congestion_window + acked
           windows == IF b.is_at_full_bandwidth THEN {CappedAt(w, grown) : w \in Targets}
                      ELSE {b.congestion_window, grown}
       IN  {[b EXCEPT !.congestion_window = CappedAt(AtLeast(w, min_congestion_window), max_congestion_window)]
              : w \in windows}

(* Mutant: a loss takes its bytes off last.                                 *)
bbr_calculate_recovery_window_LossLast(b, acked, lost, in_flight) ==
  IF ~bbr_in_recovery(b) THEN b
  ELSE IF b.recovery_window = 0
  THEN [b EXCEPT !.recovery_window = AtLeast(min_congestion_window, in_flight + acked)]
  ELSE [b EXCEPT !.recovery_window = AtLeast(0, AtLeast(min_congestion_window, AtLeast(b.recovery_window, in_flight + acked)) - lost)]

(* bbr_calculate_recovery_window                                            *)
bbr_calculate_recovery_window(b, acked, lost, in_flight) ==
  LET left  == IF b.recovery_window >= lost THEN b.recovery_window - lost ELSE kMaxSegmentSize
      grown == IF b.recovery_state = "GROWTH" THEN left + acked ELSE left
  IN  IF ~bbr_in_recovery(b) THEN b
      ELSE IF b.recovery_window = 0
      THEN [b EXCEPT !.recovery_window = AtLeast(min_congestion_window, in_flight + acked)]
      ELSE [b EXCEPT !.recovery_window = AtLeast(min_congestion_window, AtLeast(grown, in_flight + acked))]

-----------------------------------------------------------------------------
(* The two windows after so many bytes are acknowledged or lost.            *)
Windows(b, acked_amounts, lost_amounts) ==
  UNION {{bbr_calculate_recovery_window(c, acked, lost, in_flight) :
            c \in bbr_calculate_congestion_window(b, acked), lost \in lost_amounts, in_flight \in Amounts}
         : acked \in acked_amounts}

(* bbr_on_feedback of packets that are acknowledged, up to last_acked, or   *)
(* lost.                                                                    *)
bbr_on_feedback(last_acked, rtt, losses) ==
  LET some    == last_acked # None
      round   == some /\ RoundStart(bbr, last_acked)
      expired == some /\ rtt # None /\ MinRttExpired(bbr, bbrNow)
      counted == IF some
                 THEN {bbr_update_recovery_state(b, last_acked, losses, round) :
                         b \in bbr_update_min_rtt(bbr_update_round_trip_counter(bbr, last_acked), bbrNow, last_acked, rtt)}
                 ELSE {bbr}
  IN  /\ \E b1 \in counted :
         \E b2 \in bbr_update_gain_cycle_phase(b1) :
         \E b3 \in (IF round /\ ~b2.is_at_full_bandwidth THEN bbr_check_if_full_bandwidth_reached(b2) ELSE {b2}) :
         \E b4 \in bbr_maybe_exit_startup_or_drain(b3) :
         \E b5 \in bbr_maybe_enter_or_exit_probe_rtt(b4, bbrNow, round, expired) :
           bbr' \in Windows(b5, IF some THEN Amounts ELSE {0}, IF losses THEN Amounts \ {0} ELSE {0})
      /\ bbr'.recovery_window <= MaxWindow
      /\ entered' = IF bbr'.mode = "PROBE_RTT" /\ bbr.mode # "PROBE_RTT" THEN bbrNow ELSE entered
      /\ UNCHANGED bbrNow

ControllerTick == bbrNow < MaxNow /\ bbrNow' = bbrNow + 1 /\ UNCHANGED <<bbr, entered>>

BbrControllerNext ==
  \/ \E idle \in BOOLEAN : bbr_on_send_packet(idle)
  \/ \E last_acked \in 0 .. bbr.last_sent_packet, rtt \in RttSamples \cup {None}, losses \in BOOLEAN :
       bbr_on_feedback(last_acked, rtt, losses)
  \/ bbr_on_feedback(None, None, TRUE)
  \/ ControllerTick

BbrControllerSpec == BbrControllerInit /\ [][BbrControllerNext]_controllerVars

-----------------------------------------------------------------------------
(* The mode and what the controller has found out agree: it starts up until *)
(* it has found the full bandwidth, and neither drains nor probes for more  *)
(* before; and each mode has its pacing gain.                               *)
ModesSound ==
  /\ bbr.mode = "STARTUP" => ~bbr.is_at_full_bandwidth /\ bbr.pacing_gain = "high"
  /\ bbr.mode = "DRAIN" => bbr.is_at_full_bandwidth /\ bbr.pacing_gain = "drain"
  /\ bbr.mode = "PROBE_BW" => /\ bbr.is_at_full_bandwidth
                              /\ bbr.pacing_gain = bbr_get_pacing_gain(bbr.cycle_current_offset)
  /\ bbr.mode = "PROBE_RTT" => bbr.pacing_gain = "one"

(* What may be under way never falls below the least window, in recovery    *)
(* either: however much is reported lost, a feedback leaves a window that   *)
(* lets packets out, so that there is a next feedback.                      *)
WindowFloor ==
  /\ bbr.congestion_window \in min_congestion_window .. max_congestion_window
  /\ bbr_in_recovery(bbr) => bbr.recovery_window >= min_congestion_window

ControllerSound == ModesSound /\ WindowFloor

(* "The minimum time the connection can spend in PROBE_RTT mode"            *)
(* (bbr_common.h, kProbeRttTimeMs), counted from when it was entered.       *)
ProbeRttLasts ==
  [][bbr.mode = "PROBE_RTT" /\ bbr'.mode # "PROBE_RTT" => bbrNow >= entered + kProbeRttTimeMs]_controllerVars

(* The least RTT is only given up for a greater one while the controller    *)
(* probes for it, or when the sender comes out of an idle time, in which    *)
(* nothing was queued.                                                      *)
RttGivenUp ==
  [][bbr.min_rtt > 0 /\ bbr'.min_rtt > bbr.min_rtt =>
       "PROBE_RTT" \in {bbr.mode, bbr'.mode} \/ bbr.exiting_quiescence]_controllerVars
=============================================================================
