----------------------------- MODULE GccSender -----------------------------
(***************************************************************************)
(* The sender of GCC congestion control: the estimates by delay and by     *)
(* loss, bound together by cc/sender_congestion_controller.c and           *)
(* estimator/bitrate_controller.c, from the first call that sets bitrates  *)
(* on.  What the detector finds in a feedback, and what the                *)
(* acknowledgement estimator measures, is a choice; no bitrate is          *)
(* reserved, as nothing in the repository reserves one.                    *)
(***************************************************************************)
EXTENDS AimdRateControl, SenderEstimation

CONSTANTS
  heartbeat_interval,      \* 100
  k_normal_notify_timer,   \* 2000
  Settings,        \* bitrates the application sets: records [min, start, max]
  AckedRates,      \* what the acknowledgement estimator measures; 0 when it has not yet
  Rembs,           \* bitrates the receiver allows for
  Losses,          \* loss reports: records [fraction, number]
  RoundTrips,      \* round trip times the session tells of
  Waits,           \* times between two calls
  MaxCalls,        \* bound: calls that set bitrates
  MaxFeedbacks,    \* bound: feedbacks that arrive
  MaxTime          \* bound of the clock

ASSUME SettingsAssumption ==
  /\ Settings \subseteq [min : Nat \ {0}, start : Nat, max : Nat]
  /\ \A s \in Settings : s.min <= s.max

ASSUME InputsAssumption ==
  /\ AckedRates \subseteq Nat /\ Rembs \subseteq Nat
  /\ Losses \subseteq [fraction : Nat, number : Nat]
  /\ RoundTrips \subseteq Nat /\ Waits \subseteq Nat
  /\ heartbeat_interval \in Nat /\ k_normal_notify_timer \in Nat \ {0}

VARIABLES
  aimd,        \* the aimd_rate_controller_t
  est,         \* the sender_estimation_t
  ctrl,        \* the bitrate_controller_t, and the bitrate the pacer has for an estimate
  gccTime,     \* GET_SYS_MS(), from the creation on
  calls,       \* how often bitrates were set
  feedbacks,   \* how many feedbacks arrived
  record,      \* history: the estimates that went into min_bitrates since it was emptied last
  kept,        \* history: the delay's estimate was passed on since bitrates were set last
  heard        \* history: what the detector and the acknowledgement estimator said last

gccSenderVars == <<aimd, est, ctrl, gccTime, calls, feedbacks, record, kept, heard>>

Nothing == [detected |-> "Nothing", acked |-> 0]

Start(s) == Min({Max({s.start, s.min}), s.max})

(* Mutant: a new loss is not told with the bitrate that comes with it.      *)
Changed_Loss(c, e) == c.last_fraction_loss # e.last_fraction_loss \/ c.last_rtt # e.last_rtt

(* bitrate_controller_get_parameter: something the trigger has not heard.   *)
Changed(c, e) ==
  c.last_fraction_loss # e.last_fraction_loss \/ c.last_rtt # e.last_rtt \/ c.last_bitrate_bps # e.curr_bitrate

(* Mutant: the pacer is not told.                                           *)
Triggered_Unpaced(c, e) ==
  [c EXCEPT !.last_bitrate_bps = e.curr_bitrate, !.last_fraction_loss = e.last_fraction_loss, !.last_rtt = e.last_rtt,
            !.notify_ts = gccTime]

(* sender_cc_on_change_bitrate                                              *)
Triggered(c, e) ==
  [c EXCEPT !.last_bitrate_bps = e.curr_bitrate, !.last_fraction_loss = e.last_fraction_loss, !.last_rtt = e.last_rtt,
            !.notify_ts = gccTime, !.paced = e.curr_bitrate]

(* maybe_trigger_network_changed                                            *)
Told(c, e) == IF Changed(c, e) THEN Triggered(c, e) ELSE c

SetBitrates(e, s) ==
  sender_estimation_set_send_bitrate(sender_estimation_set_minmax_bitrate(e, s.min, s.max), Start(s))

(* sender_cc_create and the first sender_cc_set_bitrates, in the same       *)
(* millisecond.  The bounds the estimates are created with give way to      *)
(* those that are set, which are greater.                                   *)
GccSenderInit ==
  /\ \E s \in Settings :
       /\ aimd = aimd_create(s.min, Start(s), s.max)
       /\ est = SetBitrates(sender_estimation_create(1, s.max), s)
       /\ ctrl = [last_bitrate_bps |-> Start(s), last_fraction_loss |-> 0, last_rtt |-> 0,
                  last_bitrate_update_ts |-> 0, notify_ts |-> 0, paced |-> Start(s)]
  /\ gccTime = 0
  /\ calls = 1
  /\ feedbacks = 0
  /\ record = {}
  /\ kept = FALSE
  /\ heard = Nothing

sender_cc_set_bitrates(s) ==
  /\ calls < MaxCalls
  /\ calls' = calls + 1
  /\ aimd' = aimd_set_bitrates(aimd, s.min, Start(s), s.max)
  /\ est' = SetBitrates(est, s)
  /\ ctrl' = [Told(ctrl, est') EXCEPT !.paced = Start(s)]
  /\ record' = {}
  /\ kept' = FALSE
  /\ heard' = Nothing
  /\ UNCHANGED <<gccTime, feedbacks>>

Within(r) == r.ts + k_bwe_increase_interval_ms >= gccTime

(* What sender_estimation_update adds to the history.                       *)
Recorded(e) ==
  LET now == [ts |-> gccTime, bitrate |-> e.curr_bitrate]
  IN  IF Started(e, gccTime) # e.curr_bitrate THEN {now} ELSE {r \in record \cup {now} : Within(r)}

(* bitrate_controller_on_basedelay_result and what comes before it, when    *)
(* the feedback lists packets that were found.                              *)
ByDelay(detected, acked) ==
  {[aimd |-> r.aimd, updated |-> r.updated,
    est  |-> IF r.updated THEN sender_estimation_update_delay_base(est, r.aimd.curr_rate, detected) ELSE est] :
     r \in delay_bwe_maybe_update(aimd, detected, acked, gccTime)}

Undelayed == {[aimd |-> aimd, updated |-> FALSE, est |-> est]}

(* sender_on_feedback: arrivals, what the receiver allows for and a loss    *)
(* report, each of which may be missing, one after the other.  A feedback   *)
(* whose packets are unknown does nothing.                                  *)
sender_on_feedback(detected, remb, loss, acked, rtt, steady) ==
  /\ feedbacks < MaxFeedbacks
  /\ feedbacks' = feedbacks + 1
  /\ \E d \in IF detected = "Nothing" THEN Undelayed ELSE ByDelay(detected, acked) :
       LET e1      == IF remb > 0 THEN sender_estimation_update_remb(d.est, remb) ELSE d.est
           e2      == IF loss.number = 0 THEN e1
                      ELSE sender_estimation_update_block(e1, loss.fraction, rtt, loss.number, gccTime, acked, steady)
           updated == loss.number > 0 /\ e1.expected + loss.number >= k_limit_num_packets
       IN  /\ aimd' = d.aimd
           /\ est' = e2
           /\ ctrl' = Told(Told(Told(ctrl, d.est), e1), e2)
           /\ kept' = (kept \/ d.updated)
           /\ record' = IF ~updated THEN record
                        ELSE Recorded([e1 EXCEPT !.last_fraction_loss = e2.last_fraction_loss,
                                                 !.first_report_ts = e2.first_report_ts])
  /\ heard' = [detected |-> detected, acked |-> acked]
  /\ UNCHANGED <<gccTime, calls>>

(* Mutant: what has been told is not told again.                            *)
Notified_Once(c, e) == Told(c, e)

(* What the heartbeat tells: a change, and now and then the same again.     *)
Notified(c, e) == IF Changed(c, e) \/ c.notify_ts + k_normal_notify_timer <= gccTime THEN Triggered(c, e) ELSE c

bitrate_controller_heartbeat(acked, steady) ==
  /\ gccTime >= ctrl.last_bitrate_update_ts + heartbeat_interval
  /\ est' = sender_estimation_update(est, gccTime, acked, steady)
  /\ ctrl' = [Notified(ctrl, est') EXCEPT !.last_bitrate_update_ts = gccTime]
  /\ record' = Recorded(est)
  /\ heard' = [Nothing EXCEPT !.acked = acked]
  /\ UNCHANGED <<aimd, gccTime, calls, feedbacks, kept>>

GccWait(ms) ==
  /\ gccTime + ms <= MaxTime
  /\ gccTime' = gccTime + ms
  /\ record' = {r \in record : r.ts + k_bwe_increase_interval_ms >= gccTime'}
  /\ heard' = Nothing
  /\ UNCHANGED <<aimd, est, ctrl, calls, feedbacks, kept>>

NoLoss == [fraction |-> 0, number |-> 0]

Detected == {"Nothing", "Normal", "Overusing", "Underusing"}

GccSenderNext ==
  \/ \E s \in Settings : sender_cc_set_bitrates(s)
  \/ \E detected \in Detected, remb \in Rembs \cup {0}, loss \in Losses \cup {NoLoss},
        acked \in AckedRates, rtt \in RoundTrips, steady \in BOOLEAN :
       sender_on_feedback(detected, remb, loss, acked, rtt, steady)
  \/ \E acked \in AckedRates, steady \in BOOLEAN : bitrate_controller_heartbeat(acked, steady)
  \/ \E ms \in Waits : GccWait(ms)

GccSenderSpec == GccSenderInit /\ [][GccSenderNext]_gccSenderVars

-----------------------------------------------------------------------------
(* Both estimates stay within the bounds of their own, which two orders of  *)
(* clamping and the least bound that never sinks might part.                *)
RatesBounded ==
  /\ aimd.curr_rate \in aimd.min_rate .. aimd.max_rate
  /\ est.curr_bitrate \in est.min_conf_bitrate .. est.max_conf_bitrate
  /\ aimd.min_rate <= est.min_conf_bitrate

(* Near the maximum, the maximum is known: otherwise the next overuse would *)
(* make a bitrate of -1 (aimd_rate_control.c:217).                          *)
NearMaxKnown == aimd.region = "NearMax" => aimd.avg_max # Unknown

(* Updates that change nothing are not passed on to the loss's side, and    *)
(* still it is capped by what the delay's side holds, once one was passed   *)
(* on since the application set bitrates.                                   *)
DelayCapTrue == kept => est.delay_base_bitrate = aimd.curr_rate

(* The history begins with the least estimate of the last interval, and     *)
(* that is what an increase starts from; but for what has grown too old     *)
(* since it was looked at last.                                             *)
HistoryLeast ==
  LET h == est.min_bitrates
  IN  record # {} => \E i \in DOMAIN h : /\ h[i].bitrate = Min({r.bitrate : r \in record})
                                         /\ \A j \in 1 .. i - 1 : ~Within(h[j])

(* What was told last is the estimate, and it is told again with the first  *)
(* heartbeat after the time of a notice, if not earlier.                    *)
EstimateTold ==
  /\ ctrl.last_bitrate_bps = est.curr_bitrate
  /\ ctrl.last_bitrate_update_ts < ctrl.notify_ts + k_normal_notify_timer

GccRateSound == RatesBounded /\ NearMaxKnown /\ DelayCapTrue /\ HistoryLeast /\ EstimateTold

(* An overuse never raises the estimate by delay, whatever came through and *)
(* whatever the maximum was taken for.                                      *)
OveruseLowers == heard'.detected = "Overusing" => aimd'.curr_rate <= aimd.curr_rate

(* Past the start phase the estimate by loss rises by a step from the least *)
(* estimate of the last interval, or, where a loss is heavy, to what comes  *)
(* through; never beyond both.                                              *)
RisesByStep ==
  /\ est'.curr_bitrate > est.curr_bitrate /\ calls' = calls
  /\ ~(is_start_phare(est', gccTime) /\ est'.last_fraction_loss = 0)
  => \/ est'.last_decrease_ts # est.last_decrease_ts /\ est'.curr_bitrate <= heard'.acked
     \/ \E r \in record' : \A x \in record' : r.bitrate <= x.bitrate /\ est'.curr_bitrate <= RaisedByStep(r.bitrate)

(* What is told, and so every change of the estimate, reaches the pacer:    *)
(* only the application sets it past what the loss, the delay and the       *)
(* receiver allow for, until the next that is told.                         *)
PacerFollows ==
  calls' = calls => \/ ctrl'.paced = est'.curr_bitrate
                    \/ /\ est'.curr_bitrate = est.curr_bitrate
                       /\ ctrl'.paced = ctrl.paced /\ ctrl'.notify_ts = ctrl.notify_ts

GccReacts == [][OveruseLowers /\ RisesByStep /\ PacerFollows]_gccSenderVars
=============================================================================
