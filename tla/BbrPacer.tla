------------------------------ MODULE BbrPacer ------------------------------
(***************************************************************************)
(* The pacer of the BBR and REMB senders, ReCapABR/bbr/bbr_pacer.c.  Its   *)
(* queue, rates and time are those of the GCC pacer (PaceSender), whose    *)
(* variables stand for its fields of the same names; it has a second       *)
(* budget, from which padding fills what media leaves of the padding rate. *)
(*                                                                         *)
(* bbr_pacer_congestion answers 0 whatever is under way, so the congestion *)
(* window and the bytes under way are no part of the state, and the branch *)
(* for a congested pacer is never taken.                                   *)
(***************************************************************************)
EXTENDS PaceSender

CONSTANTS
  PacingRates,    \* rates bbr_sender sets, kbps
  PaddingRates    \* padding rates, kbps

ASSUME PadRatesAssumption == PacingRates \subseteq Nat /\ PaddingRates \subseteq Nat

k_bbr_max_interval_ms == 30
PADDING_SIZE          == 500

VARIABLES
  media_budget,
  padding_budget,
  padded,     \* padding packets the last pass sent
  disturbed   \* history: the padding rate ever changed while the media budget was
              \* overdrawn, or was above the pacing rate in a pass

bbrVars == <<media_budget, padding_budget, padded, disturbed>>

(* rate * k_default_pace_factor, which is 1.5 here.                         *)
Paced(rate) == (3 * rate) \div 2

-----------------------------------------------------------------------------
BbrPacerInit ==
  /\ Init
  /\ media_budget = budget
  /\ padding_budget = budget
  /\ padded = 0
  /\ disturbed = FALSE

bbr_pacer_insert_packet(s, size) == pace_insert_packet(s, size) /\ UNCHANGED bbrVars

bbr_pacer_set_estimate_bitrate(bps) ==
  /\ pc = "idle"
  /\ estimated_bitrate' = bps
  /\ pacing_bitrate_kpbs' = Greatest(Paced(bps) \div 1000, min_sender_bitrate_kpbs)
  /\ UNCHANGED <<que, budget, min_sender_bitrate_kpbs, last_update_ts, now, pc, out, bbrVars>>

bbr_pacer_set_bitrate_limits(bps) ==
  /\ pc = "idle"
  /\ min_sender_bitrate_kpbs' = bps \div 1000
  /\ pacing_bitrate_kpbs' = Greatest(Paced(estimated_bitrate) \div 1000, min_sender_bitrate_kpbs')
  /\ UNCHANGED <<que, budget, estimated_bitrate, last_update_ts, now, pc, out, bbrVars>>

(* bbr_pacer_set_pacing_rate, which no limit holds back.                    *)
bbr_pacer_set_pacing_rate(kbps) ==
  /\ pc = "idle"
  /\ pacing_bitrate_kpbs' = Paced(kbps)
  /\ UNCHANGED <<que, budget, estimated_bitrate, min_sender_bitrate_kpbs, last_update_ts, now, pc, out, bbrVars>>

bbr_pacer_set_padding_rate(kbps) ==
  /\ pc = "idle"
  /\ padding_budget' = set_target_rate_kbps(padding_budget, kbps)
  /\ disturbed' = (disturbed \/ (kbps # padding_budget.rate /\ media_budget.remaining < 0))
  /\ UNCHANGED <<que, budget, media_budget, rates, last_update_ts, now, pc, out, padded>>

(* bbr_pacer_try_transmit up to the loop over the queue.                    *)
BbrTransmitBegin ==
  /\ pc = "idle"
  /\ now - last_update_ts >= k_min_packet_limit_ms
  /\ LET elapsed == Least(now - last_update_ts, k_bbr_max_interval_ms)
         target  == IF que.total_size > 0
                    THEN Greatest(pacing_bitrate_kpbs, pacer_queue_target_bitrate_kbps(que, now))
                    ELSE pacing_bitrate_kpbs
     IN  /\ media_budget' = increase_budget(set_target_rate_kbps(media_budget, target), elapsed)
         /\ padding_budget' = increase_budget(padding_budget, elapsed)
  /\ last_update_ts' = now
  /\ pc' = "sending"
  /\ padded' = 0
  /\ disturbed' = (disturbed \/ padding_budget.rate > pacing_bitrate_kpbs)
  /\ UNCHANGED <<que, budget, rates, now, out>>

(* Mutant: a packet leaves the padding budget alone.                        *)
BbrTransmitOne_MediaOnly ==
  /\ pc = "sending"
  /\ ~pacer_queue_empty(que)
  /\ media_budget.remaining > 0
  /\ LET ev == pacer_queue_front(que)
     IN  /\ out' = [seq |-> ev, turn |-> 1 - out.turn]
         /\ media_budget' = use_budget(media_budget, que.cache[ev].size)
         /\ que' = pacer_queue_sent(que, ev)
  /\ UNCHANGED <<budget, padding_budget, rates, last_update_ts, now, pc, padded, disturbed>>

(* One turn of that loop, bbr_pacer_send and pacer_queue_sent: a packet     *)
(* uses both budgets.                                                       *)
BbrTransmitOne ==
  /\ pc = "sending"
  /\ ~pacer_queue_empty(que)
  /\ media_budget.remaining > 0
  /\ LET ev == pacer_queue_front(que)
     IN  /\ out' = [seq |-> ev, turn |-> 1 - out.turn]
         /\ media_budget' = use_budget(media_budget, que.cache[ev].size)
         /\ padding_budget' = use_budget(padding_budget, que.cache[ev].size)
         /\ que' = pacer_queue_sent(que, ev)
  /\ UNCHANGED <<budget, rates, last_update_ts, now, pc, padded, disturbed>>

(* How often the padding loop turns: while more than PADDING_SIZE / 4 is    *)
(* left of the padding budget.                                              *)
Paddings(b) ==
  IF b.remaining > PADDING_SIZE \div 4
  THEN (b.remaining - PADDING_SIZE \div 4 - 1) \div PADDING_SIZE + 1
  ELSE 0

(* The loop over the queue has ended, and the padding loop runs.            *)
BbrTransmitEnd ==
  /\ pc = "sending"
  /\ pacer_queue_empty(que) \/ media_budget.remaining <= 0
  /\ padded' = Paddings(padding_budget)
  /\ media_budget' = use_budget(media_budget, padded' * PADDING_SIZE)
  /\ padding_budget' = use_budget(padding_budget, padded' * PADDING_SIZE)
  /\ pc' = "idle"
  /\ UNCHANGED <<que, budget, rates, last_update_ts, now, out, disturbed>>

BbrPacerNext ==
  \/ \E s \in PacketSeqs, size \in Sizes : bbr_pacer_insert_packet(s, size)
  \/ \E bps \in Bitrates : bbr_pacer_set_estimate_bitrate(bps)
  \/ \E bps \in Bitrates : bbr_pacer_set_bitrate_limits(bps)
  \/ \E kbps \in PacingRates : bbr_pacer_set_pacing_rate(kbps)
  \/ \E kbps \in PaddingRates : bbr_pacer_set_padding_rate(kbps)
  \/ BbrTransmitBegin
  \/ BbrTransmitOne
  \/ BbrTransmitEnd
  \/ \E d \in Delays : Tick(d) /\ UNCHANGED bbrVars

BbrPacerSpec == BbrPacerInit /\ [][BbrPacerNext]_<<vars, bbrVars>>

-----------------------------------------------------------------------------
(* Padding is for the rate that media leaves: no padding packet is sent     *)
(* while a media packet waits, as long as the padding rate is never above   *)
(* the pacing rate of a pass nor changed while media has overdrawn its      *)
(* budget.  The code relies on that unsaid: a rate that is lowered, or zero *)
(* for a time, forgets what media overdrew, and padding then passes media.  *)
PaddingYields ==
  [][pc = "sending" /\ pc' = "idle" /\ padded' > 0 /\ ~disturbed => pacer_queue_empty(que)]_<<vars, bbrVars>>
=============================================================================
