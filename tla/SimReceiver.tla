---------------------------- MODULE SimReceiver ----------------------------
(***************************************************************************)
(* The receiver of a call, the second half of                              *)
(* ReCapABR/sim_transport/sim_receiver.c: which packets are missing, what  *)
(* is acknowledged and asked for again, and when a key frame is asked for. *)
(* Each operator is one handler: the set of what may come of it, a record  *)
(* of the receiver after it and the datagrams it sent.                     *)
(*                                                                         *)
(* The clock decides whether an acknowledgement is due and which missing   *)
(* packets are (each is asked for at most 15 times within 1.5 s): choices. *)
(* slow stands for s->rtt >= CACHE_MAX_DELAY.  fir_recent stands for a FIR *)
(* sent less than FIR_DELAY_TIME ago.  fir_state is never fir_flightting.  *)
(* waived is a history variable: the packets no longer asked for because a *)
(* key frame was asked for instead, or sent before the first frame put.    *)
(***************************************************************************)
EXTENDS FrameCache, Sequences, SequencesExt

CONSTANTS
  NACK_NUM,   \* packets asked for in one acknowledgement: 20 in the code
  ACK_NUM,    \* packets acknowledged one by one in it: 20 in the code
  LossDelay,  \* seconds of video missing at once for which a key frame is asked: 3 in the code
  Rtts        \* the round trip may be slow

ASSUME ReceiverAssumption ==
  /\ NACK_NUM \in Nat /\ ACK_NUM \in Nat \ {0} /\ LossDelay \in Nat
  /\ Rtts \subseteq BOOLEAN

Receiver == [actived : BOOLEAN, base_seq : Nat, max_seq : Nat, max_ts : Nat, loss : SUBSET Nat,
             ackeds : Seq(Nat), fir_seq : Nat, fir_recent : BOOLEAN, waived : SUBSET Nat,
             cache : Cache]

sim_receiver_create ==
  [actived |-> FALSE, base_seq |-> 0, max_seq |-> 0, max_ts |-> 0, loss |-> {},
   ackeds |-> <<>>, fir_seq |-> 0, fir_recent |-> FALSE, waived |-> {},
   cache |-> open_real_video_cache]

sim_receiver_reset(r) ==
  [sim_receiver_create EXCEPT !.fir_recent = r.fir_recent,
                              !.cache = reset_real_video_cache(r.cache)]

sim_receiver_active(r) == [r EXCEPT !.actived = TRUE]

FIR(seq) == [type |-> "FIR", fir_seq |-> seq]

(* sim_receiver_send_fir, unless one was sent a moment ago.                 *)
sim_receiver_send_fir(r) ==
  IF r.fir_recent THEN r ELSE [r EXCEPT !.fir_seq = r.fir_seq + 1, !.fir_recent = TRUE]

FirsSent(r, q) == IF q.fir_seq = r.fir_seq THEN {} ELSE {FIR(q.fir_seq)}

-----------------------------------------------------------------------------
(* Mutant: the stream starts a packet before the frame.                     *)
Started_TooLow(r, seg) ==
  IF r.max_seq # 0 THEN r
  ELSE [r EXCEPT !.max_seq = seg.packet_id - seg.index - 2,
                 !.base_seq = seg.packet_id - seg.index - 2,
                 !.max_ts = seg.timestamp,
                 !.waived = 1 .. seg.packet_id - seg.index - 1]

(* The first packet fixes where the stream starts, at its frame's first.    *)
Started(r, seg) ==
  IF r.max_seq # 0 THEN r
  ELSE [r EXCEPT !.max_seq = seg.packet_id - seg.index - 1,
                 !.base_seq = seg.packet_id - seg.index - 1,
                 !.max_ts = seg.timestamp,
                 !.waived = 1 .. seg.packet_id - seg.index - 1]

(* Mutant: the packets skipped are not noted.                               *)
sim_receiver_update_loss_Unnoted(r, seg, slow) == [r EXCEPT !.loss = r.loss \ {seg.packet_id}]

(* sim_receiver_update_loss.                                                *)
sim_receiver_update_loss(r, seg, slow) ==
  LET skipped == r.max_seq + 1 .. seg.packet_id - 1
      missing == r.loss \ {seg.packet_id}
  IN  IF slow \/ r.max_ts + LossDelay < seg.timestamp
        THEN [sim_receiver_send_fir(r) EXCEPT !.loss = {},
                                              !.waived = r.waived \cup missing \cup skipped]
        ELSE [r EXCEPT !.loss = missing \cup skipped]

(* A packet the receiver has no use for, before anything is noted of it.    *)
Unwanted(r, seg) == \/ ~r.actived
                    \/ r.max_seq = 0 /\ seg.ftype = 0
                    \/ seg.packet_id <= r.base_seq

(* ackeds is a ring of the last ACK_NUM packets put since the last          *)
(* acknowledgement.                                                         *)
Acked(r, id) == LET ids == Append(r.ackeds, id)
                IN  IF Len(ids) > ACK_NUM THEN Tail(ids) ELSE ids

PutInto(r, seg) ==
  [r EXCEPT !.cache = real_video_cache_put(r.cache, seg),
            !.max_seq = IF seg.packet_id > r.max_seq THEN seg.packet_id ELSE r.max_seq,
            !.max_ts = IF seg.timestamp > r.max_ts THEN seg.timestamp ELSE r.max_ts,
            !.ackeds = Acked(r, seg.packet_id)]

(* sim_receiver_internal_put: the receiver after it, and whether it was put.*)
sim_receiver_internal_put(r, seg, slow) ==
  LET q == sim_receiver_update_loss(Started(r, seg), seg, slow)
  IN  IF Unwanted(r, seg) THEN [receiver |-> r, put |-> FALSE]
      ELSE IF PutAccepted(q.cache, seg) THEN [receiver |-> PutInto(q, seg), put |-> TRUE]
      ELSE [receiver |-> [q EXCEPT !.cache = real_video_cache_put(q.cache, seg)], put |-> FALSE]

-----------------------------------------------------------------------------
(* Mutant: the base passes what is still missing.                           *)
video_real_update_base_Max(r) == [r EXCEPT !.base_seq = r.max_seq]

(* The base ends before the first packet missing; those of frames played or *)
(* given up are missing no more.                                            *)
video_real_update_base(r) ==
  LET missing == {p \in r.loss : ~(p > r.base_seq /\ p <= r.cache.min_seq)}
  IN  [r EXCEPT !.loss = missing,
                !.base_seq = IF missing = {} THEN r.max_seq ELSE Least(missing) - 1]

SegAck(base, seq, nack, acked) ==
  [type |-> "SEG_ACK", base_packet_id |-> base, acked_packet_id |-> seq, nack |-> nack, acked |-> acked]

(* video_real_ack when an acknowledgement is due, with any of the missing   *)
(* packets due.                                                             *)
video_real_ack(r, seq, slow) ==
  LET q     == video_real_update_base(r)
      acked == IF q.base_seq < q.max_seq THEN {p \in ToSet(q.ackeds) : q.base_seq < p} ELSE {}
      asked == {n \in SUBSET {p \in q.loss : p > q.base_seq} : Cardinality(n) <= NACK_NUM}
  IN  {LET given == slow /\ nack # {}
           z     == IF given THEN [sim_receiver_send_fir(q) EXCEPT !.loss = {}, !.waived = q.waived \cup q.loss]
                    ELSE q
       IN  [receiver |-> [z EXCEPT !.ackeds = <<>>],
            sent |-> {SegAck(q.base_seq, seq, IF given THEN {} ELSE nack, acked)} \cup FirsSent(q, z)]
       : nack \in asked}

(* What may come of a put: with no acknowledgement due, or with one.        *)
Acknowledged(r, seq, slow, firs) ==
  {[receiver |-> r, sent |-> firs]}
  \cup {[receiver |-> x.receiver, sent |-> x.sent \cup firs] : x \in video_real_ack(r, seq, slow)}

sim_receiver_put(r, seg, slow) ==
  LET x    == sim_receiver_internal_put(r, seg, slow)
      firs == FirsSent(r, x.receiver)
  IN  IF x.put THEN Acknowledged(x.receiver, seg.packet_id, slow, firs)
      ELSE {[receiver |-> x.receiver, sent |-> firs]}

(* A segment is recovered and put: by sim_receiver_put_fec, or by           *)
(* sim_receiver_put from the segment it was given, which is a put followed  *)
(* by one of these.                                                         *)
sim_receiver_put_fec(r, seg, slow) ==
  LET q == sim_receiver_internal_put(r, seg, slow).receiver
  IN  {[receiver |-> q, sent |-> FirsSent(r, q)]}

sim_receiver_timer(r, slow) == video_real_ack(r, 0, slow)

(* Mutant: the newest packet is reported for the base.                      *)
send_sim_feedback_Newest(r) == [type |-> "FEEDBACK", base_packet_id |-> r.max_seq]

(* send_sim_feedback, from the congestion controller.                       *)
send_sim_feedback(r) == [type |-> "FEEDBACK", base_packet_id |-> r.base_seq]

(* sim_receiver_get: what may come of it, and the frame played.             *)
sim_receiver_get(r) ==
  IF ~r.actived THEN {}
  ELSE {[receiver |-> [r EXCEPT !.cache = x.cache], frame |-> x.frame]
        : x \in real_video_cache_get(r.cache)}
=============================================================================
