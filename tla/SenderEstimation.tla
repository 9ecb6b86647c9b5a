-------------------------- MODULE SenderEstimation --------------------------
(***************************************************************************)
(* The bitrate that GCC allows for by the loss of packets, and by what the *)
(* delay and the receiver allow for                                        *)
(* (estimator/sender_bandwidth_estimator.c), as operators on the record of *)
(* the code.  Whether the slope of the losses is less than 0.8 is a choice *)
(* (steady).  Bitrates are small enough for the products of the code.      *)
(***************************************************************************)
EXTENDS Integers, Sequences, FiniteSets, FiniteSetsExt

CONSTANTS
  k_bwe_increase_interval_ms,    \* 1000
  k_limit_num_packets,           \* 20
  k_start_phase_ms,              \* 2000
  k_feelback_interval_ms,        \* 5000
  k_feelback_timeout_intervals,  \* 3
  k_timeout_interval_ms,         \* 1000
  k_bwe_decrease_interval_ms,    \* 300
  MIN_HISTORY_ARR_SIZE,          \* 128
  least_increase                 \* 1000 bps

ASSUME EstimationAssumption ==
  /\ k_bwe_increase_interval_ms \in Nat /\ k_limit_num_packets \in Nat \ {0} /\ k_start_phase_ms \in Nat
  /\ k_feelback_interval_ms \in Nat /\ k_feelback_timeout_intervals \in Nat /\ k_timeout_interval_ms \in Nat
  /\ k_bwe_decrease_interval_ms \in Nat \ {0} /\ MIN_HISTORY_ARR_SIZE \in Nat \ {0}
  /\ least_increase \in Nat

Never == -1

(* An increase: by 8 percent and at least something.                        *)
RaisedByStep(rate) == (108 * rate + 50) \div 100 + least_increase

sender_estimation_create(min, max) ==
  [curr_bitrate |-> 0, min_conf_bitrate |-> min, max_conf_bitrate |-> max, bwe_incoming |-> 0, delay_base_bitrate |-> 0,
   state |-> "Normal", last_fraction_loss |-> 0, has_decreased |-> FALSE, last_rtt |-> 0, lost_Q8 |-> 0, expected |-> 0,
   last_feelback_ts |-> Never, last_packet_report_ts |-> Never, last_timeout_ts |-> Never, first_report_ts |-> Never,
   last_decrease_ts |-> 0, min_bitrates |-> <<>>]

(* cap_bitrate_to_threshold                                                 *)
Capped(e, bitrate) ==
  LET limits == {e.max_conf_bitrate} \cup ({e.bwe_incoming, e.delay_base_bitrate} \ {0})
  IN  [e EXCEPT !.curr_bitrate = Max({e.min_conf_bitrate, Min({bitrate} \cup limits)})]

(* sender_estimation_set_minmax_bitrate: the least bitrate never sinks.     *)
sender_estimation_set_minmax_bitrate(e, min, max) ==
  LET least == Max({e.min_conf_bitrate, min})
  IN  [e EXCEPT !.min_conf_bitrate = least, !.max_conf_bitrate = Max({least, max})]

sender_estimation_set_send_bitrate(e, bitrate) == [Capped(e, bitrate) EXCEPT !.min_bitrates = <<>>]

sender_estimation_update_remb(e, bitrate) == Capped([e EXCEPT !.bwe_incoming = bitrate], e.curr_bitrate)

sender_estimation_update_delay_base(e, bitrate, state) ==
  Capped([e EXCEPT !.delay_base_bitrate = bitrate, !.state = state], e.curr_bitrate)

is_start_phare(e, now) == e.first_report_ts = Never \/ now < e.first_report_ts + k_start_phase_ms

(* Mutant: greater bitrates stay before a lesser one.                       *)
Above_Kept(h, bitrate) == h

(* Of a history, what is left when the last that are not less are dropped.  *)
Above(h, bitrate) == SubSeq(h, 1, Max({0} \cup {i \in DOMAIN h : h[i].bitrate < bitrate}))

(* sender_estimation_update_history: old bitrates leave at the front, those *)
(* that are not less than the present one at the end.                       *)
sender_estimation_update_history(e, now) ==
  LET h     == e.min_bitrates
      old   == Max({0} \cup {i \in DOMAIN h : \A j \in 1 .. i : h[j].ts + k_bwe_increase_interval_ms < now})
      lower == Above(SubSeq(h, old + 1, Len(h)), e.curr_bitrate)
      room  == IF Len(lower) = MIN_HISTORY_ARR_SIZE THEN Tail(lower) ELSE lower
  IN  [e EXCEPT !.min_bitrates = Append(room, [ts |-> now, bitrate |-> e.curr_bitrate])]

LowLoss(e)  == e.last_fraction_loss * 50 < 256
HighLoss(e) == e.last_fraction_loss * 10 >= 256

MayDecrease(e, now) == ~e.has_decreased /\ now >= e.last_decrease_ts + k_bwe_decrease_interval_ms + e.last_rtt

(* The second part of sender_estimation_update: increase from the least of  *)
(* the history, decrease by a share of the loss, or wait; without feedback  *)
(* for long, decrease by a fifth.                                           *)
Reacted(e, now, acked, steady) ==
  LET c        == e.curr_bitrate
      reported == e.last_packet_report_ts # Never
      recent   == 6 * (now - e.last_packet_report_ts) < 5 * k_feelback_interval_ms
      timeout  == /\ now - e.last_feelback_ts > k_feelback_timeout_intervals * k_feelback_interval_ms
                  /\ e.last_timeout_ts = Never \/ now > e.last_timeout_ts + k_timeout_interval_ms
  IN  IF ~reported THEN Capped(e, c)
      ELSE IF recent
      THEN IF LowLoss(e) \/ (steady /\ e.last_fraction_loss * 50 > 256 /\ e.state # "Overusing")
           THEN Capped(e, RaisedByStep(e.min_bitrates[1].bitrate))
           ELSE IF HighLoss(e) /\ MayDecrease(e, now)
           THEN Capped([e EXCEPT !.last_decrease_ts = now, !.has_decreased = TRUE],
                       Max({acked, (c * (512 - e.last_fraction_loss)) \div 512}))
           ELSE Capped(e, c)
      ELSE IF timeout
      THEN Capped([e EXCEPT !.lost_Q8 = 0, !.expected = 0, !.last_timeout_ts = now], (c * 4) \div 5)
      ELSE Capped(e, c)

(* In the first seconds, without loss, an estimate of the receiver or the   *)
(* delay that is greater is taken at once.                                  *)
Started(e, now) ==
  LET new == Max({e.bwe_incoming, e.delay_base_bitrate, e.curr_bitrate})
  IN  IF e.last_fraction_loss = 0 /\ is_start_phare(e, now) THEN new ELSE e.curr_bitrate

sender_estimation_update(e, now, acked, steady) ==
  IF Started(e, now) # e.curr_bitrate
  THEN Capped([e EXCEPT !.min_bitrates = <<[ts |-> now, bitrate |-> e.curr_bitrate]>>], Started(e, now))
  ELSE Reacted(sender_estimation_update_history(e, now), now, acked, steady)

(* sender_estimation_update_block                                           *)
sender_estimation_update_block(e, fraction_loss, rtt, number_of_packets, now, acked, steady) ==
  LET heard == [e EXCEPT !.last_feelback_ts = now,
                         !.last_rtt = IF rtt > 0 THEN rtt ELSE e.last_rtt,
                         !.first_report_ts = IF e.first_report_ts = Never THEN now ELSE e.first_report_ts,
                         !.lost_Q8 = e.lost_Q8 + fraction_loss * number_of_packets,
                         !.expected = e.expected + number_of_packets]
  IN  IF heard.expected < k_limit_num_packets THEN heard
      ELSE sender_estimation_update([heard EXCEPT !.has_decreased = FALSE,
                                                  !.last_fraction_loss = heard.lost_Q8 \div heard.expected,
                                                  !.lost_Q8 = 0, !.expected = 0,
                                                  !.last_packet_report_ts = now], now, acked, steady)
=============================================================================
