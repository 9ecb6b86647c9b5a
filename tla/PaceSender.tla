----------------------------- MODULE PaceSender -----------------------------
(***************************************************************************)
(* The GCC pacer, ReCapABR/pacing/pace_sender.c, with its media budget     *)
(* (interval_budget.c) and its queue (PacerQueue).  Everything runs under  *)
(* the session's mutex: a caller inserts packets, the session's heartbeat  *)
(* calls pace_try_transmit.  The sending loop of pace_try_transmit is one  *)
(* step per packet, since each one leaves through the send callback; pc    *)
(* keeps any other operation out until the handler has returned.           *)
(* The ALR detector is left out: nothing here reads it.                    *)
(***************************************************************************)
EXTENDS PacerQueue, IntervalBudget

CONSTANTS
  Sizes,      \* packet sizes in bytes
  Bitrates,   \* estimates the congestion controller sets, bits per second
  Delays,     \* what the clock may advance by between two steps, ms
  MaxNow      \* bound of the clock, ms

ASSUME SizesAssumption    == Sizes \subseteq Nat \ {0} /\ Sizes # {}
ASSUME BitratesAssumption == Bitrates \subseteq Nat
ASSUME DelaysAssumption   == Delays \subseteq Nat
ASSUME MaxNowAssumption   == MaxNow \in Nat

k_min_packet_limit_ms == 5
k_max_interval_ms     == 50
k_default_pace_factor == 3
k_min_pacing_bitrate  == 50 * 1000 * 8

VARIABLES
  que,                  \* pace->que
  budget,               \* pace->media_budget: [rate, max, remaining]
  estimated_bitrate,
  min_sender_bitrate_kpbs,
  pacing_bitrate_kpbs,
  last_update_ts,
  now,                  \* GET_SYS_MS()
  pc,                   \* "idle", or "sending" inside the loop of pace_try_transmit
  out                   \* the packet the send callback got last, and a bit that flips with each

rates == <<estimated_bitrate, min_sender_bitrate_kpbs, pacing_bitrate_kpbs>>
vars  == <<que, budget, rates, last_update_ts, now, pc, out>>

-----------------------------------------------------------------------------
Init ==
  /\ que = EmptyQue
  /\ budget = [rate |-> 0, max |-> 0, remaining |-> 0]
  /\ estimated_bitrate = 0
  /\ min_sender_bitrate_kpbs = 0
  /\ pacing_bitrate_kpbs = 0
  /\ last_update_ts = 0
  /\ now = 0
  /\ pc = "idle"
  /\ out = [seq |-> -1, turn |-> 0]

(* pace_insert_packet *)
pace_insert_packet(s, size) ==
  /\ pc = "idle"
  /\ que' = pacer_queue_push(que, s, size, now)
  /\ UNCHANGED <<budget, rates, last_update_ts, now, pc, out>>

(* pace_set_estimate_bitrate *)
pace_set_estimate_bitrate(bps) ==
  /\ pc = "idle"
  /\ estimated_bitrate' = bps
  /\ pacing_bitrate_kpbs' = Greatest(bps \div 1000, min_sender_bitrate_kpbs) * k_default_pace_factor
  /\ UNCHANGED <<que, budget, min_sender_bitrate_kpbs, last_update_ts, now, pc, out>>

(* pace_set_bitrate_limits: the limit its caller passes is not used.        *)
pace_set_bitrate_limits ==
  /\ pc = "idle"
  /\ min_sender_bitrate_kpbs' = k_min_pacing_bitrate \div 1000
  /\ pacing_bitrate_kpbs' = Greatest(estimated_bitrate \div 1000, min_sender_bitrate_kpbs')
                              * k_default_pace_factor
  /\ UNCHANGED <<que, budget, estimated_bitrate, last_update_ts, now, pc, out>>

(* pace_try_transmit up to the loop: too early, it returns at once; else    *)
(* the target rate covers the backlog and the budget grows by the time      *)
(* elapsed, at most k_max_interval_ms of it.                                *)
TransmitBegin ==
  /\ pc = "idle"
  /\ now - last_update_ts >= k_min_packet_limit_ms
  /\ LET elapsed == Least(now - last_update_ts, k_max_interval_ms)
         target  == IF que.total_size > 0
                    THEN Greatest(pacing_bitrate_kpbs, pacer_queue_target_bitrate_kbps(que, now))
                    ELSE pacing_bitrate_kpbs
     IN  budget' = increase_budget(set_target_rate_kbps(budget, target), elapsed)
  /\ pc' = "sending"
  /\ UNCHANGED <<que, rates, last_update_ts, now, out>>

(* Mutant: the loop drains the queue whatever the budget says.              *)
TransmitOne_NoBudgetGuard ==
  /\ pc = "sending"
  /\ ~pacer_queue_empty(que)
  /\ LET ev == pacer_queue_front(que)
     IN  /\ out' = [seq |-> ev, turn |-> 1 - out.turn]
         /\ budget' = use_budget(budget, que.cache[ev].size)
         /\ que' = pacer_queue_sent(que, ev)
  /\ UNCHANGED <<rates, last_update_ts, now, pc>>

(* One turn of the loop: pace_send hands the front packet to the callback   *)
(* and uses the budget, then pacer_queue_sent takes it off the queue.       *)
TransmitOne ==
  /\ pc = "sending"
  /\ ~pacer_queue_empty(que)
  /\ budget.remaining > 0
  /\ LET ev == pacer_queue_front(que)
     IN  /\ out' = [seq |-> ev, turn |-> 1 - out.turn]
         /\ budget' = use_budget(budget, que.cache[ev].size)
         /\ que' = pacer_queue_sent(que, ev)
  /\ UNCHANGED <<rates, last_update_ts, now, pc>>

(* The loop ends on an empty queue or a used-up budget.                     *)
TransmitEnd ==
  /\ pc = "sending"
  /\ pacer_queue_empty(que) \/ budget.remaining <= 0
  /\ last_update_ts' = now
  /\ pc' = "idle"
  /\ UNCHANGED <<que, budget, rates, now, out>>

Tick(d) ==
  /\ pc = "idle"
  /\ now + d <= MaxNow
  /\ now' = now + d
  /\ UNCHANGED <<que, budget, rates, last_update_ts, pc, out>>

Next ==
  \/ \E s \in PacketSeqs, size \in Sizes : pace_insert_packet(s, size)
  \/ \E bps \in Bitrates : pace_set_estimate_bitrate(bps)
  \/ pace_set_bitrate_limits
  \/ TransmitBegin
  \/ TransmitOne
  \/ TransmitEnd
  \/ \E d \in Delays : Tick(d)

Spec == Init /\ [][Next]_vars

-----------------------------------------------------------------------------
Budget == [rate : Nat, max : Nat, remaining : Int]

(* The pacer's variables have the types of pace_sender_t and interval_budget_t. *)
TypeOK ==
  /\ IsQue(que)
  /\ budget \in Budget
  /\ estimated_bitrate \in Nat
  /\ min_sender_bitrate_kpbs \in Nat
  /\ pacing_bitrate_kpbs \in Nat
  /\ last_update_ts \in Nat
  /\ now \in Nat
  /\ pc \in {"idle", "sending"}
  /\ out \in [seq : PacketSeqs \cup {-1}, turn : 0 .. 1]

(* Skip list and insertion list of pacer_queue.c hold the same events, each *)
(* once, and pacer_queue_final has collected every sent event it can: an    *)
(* event marked sent in the middle and revived by a retransmission is       *)
(* never lost, freed twice or left behind.                                  *)
QueueConsistent == SameEvents(que) /\ NoDuplicates(que) /\ HeadUnsent(que)

(* The byte count of the queue, which sets the target rate and the expected *)
(* delay, is exact however often events are sent and revived.               *)
BytesExact == SizeExact(que)

(* The age of the queue, which pace_queue_ms reports to the congestion      *)
(* controller and the target rate divides by, is that of the oldest event.  *)
AgeExact == OldestExact(que)

(* One pass of the loop overdraws the budget by less than one packet: the   *)
(* burst a pass can send is bounded by the budget it began with.            *)
BurstBounded == \E size \in Sizes : budget.remaining > -size

(* The pacer implements the abstract one: sequence order, nothing sent that *)
(* does not wait, nothing that waits dropped.                               *)
Abstract == INSTANCE PaceSpec WITH waiting <- Unsent(que), out <- out
ImplementsPaceSpec == Abstract!Spec
=============================================================================
