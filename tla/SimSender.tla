----------------------------- MODULE SimSender -----------------------------
(***************************************************************************)
(* The sender of a call, ReCapABR/sim_transport/sim_sender.c: it cuts      *)
(* frames into segments, keeps them for as long as they may be asked for   *)
(* again, and hands the ids of what is to be sent to the pacer.            *)
(*                                                                         *)
(* A segment is looked up by its send id when the pacer sends it, and by   *)
(* its packet id when it is acknowledged or asked for again; both caches   *)
(* point to the same segments.  The pacer sends what waits in the order of *)
(* the ids (PaceSpec).  Clocks and round trips decide which of the         *)
(* segments asked for again are too young or too old: a choice.  Bitrates, *)
(* and what the congestion controller makes of them, are left out, and so  *)
(* is the flush of FEC packets in the middle of a frame of 100 segments.   *)
(***************************************************************************)
EXTENDS Integers, FiniteSets

Sender == [base_packet_id : Nat, packet_id_seed : Nat, send_id_seed : Nat, frame_id_seed : Nat,
           segs_cache : SUBSET [packet_id : Nat, send_id : Nat, fid : Nat, index : Nat, total : Nat,
                                ftype : {0, 1}, timestamp : Nat],
           ack_cache : SUBSET [packet_id : Nat, send_id : Nat, fid : Nat, index : Nat, total : Nat,
                               ftype : {0, 1}, timestamp : Nat],
           fecs_cache : SUBSET Nat,
           waiting : SUBSET [id : Nat, fec : BOOLEAN]]

(* sim_sender_create, and what sim_sender_reset makes of one.               *)
sim_sender_create ==
  [base_packet_id |-> 0, packet_id_seed |-> 0, send_id_seed |-> 0, frame_id_seed |-> 0,
   segs_cache |-> {}, ack_cache |-> {}, fecs_cache |-> {}, waiting |-> {}]

-----------------------------------------------------------------------------
(* The segments of the next frame.                                          *)
SplitFrame(s, ftype, total, timestamp) ==
  {[packet_id |-> s.packet_id_seed + 1 + i, send_id |-> s.send_id_seed + 1 + i,
    fid |-> s.frame_id_seed + 1, index |-> i, total |-> total,
    ftype |-> ftype, timestamp |-> timestamp] : i \in 0 .. total - 1}

(* sim_sender_put, with the number of FEC packets made of what was put: one *)
(* series of send ids counts both.                                          *)
sim_sender_put(s, ftype, total, timestamp, fecs) ==
  LET segs  == SplitFrame(s, ftype, total, timestamp)
      extra == s.send_id_seed + total + 1 .. s.send_id_seed + total + fecs
  IN  [s EXCEPT !.packet_id_seed = s.packet_id_seed + total,
                !.send_id_seed = s.send_id_seed + total + fecs,
                !.frame_id_seed = s.frame_id_seed + 1,
                !.segs_cache = s.segs_cache \cup segs,
                !.ack_cache = s.ack_cache \cup segs,
                !.fecs_cache = s.fecs_cache \cup extra,
                !.waiting = s.waiting \cup {[id |-> seg.send_id, fec |-> FALSE] : seg \in segs}
                                      \cup {[id |-> x, fec |-> TRUE] : x \in extra}]

(* What the pacer sends next.                                               *)
PacerFront(s) == CHOOSE x \in s.waiting : \A y \in s.waiting : x.id <= y.id

(* sim_send_packet on the pacer's front: the segments it sends, none if the *)
(* cache has lost it.                                                       *)
sim_send_packet(s) == [s EXCEPT !.waiting = s.waiting \ {PacerFront(s)}]
SegmentsSent(s)    == {seg \in s.segs_cache : ~PacerFront(s).fec /\ seg.send_id = PacerFront(s).id}

-----------------------------------------------------------------------------
(* Mutant: the packet after the base goes with it.                          *)
sim_sender_update_base_PastNext(s, base) ==
  IF base <= s.base_packet_id THEN s
  ELSE [s EXCEPT !.base_packet_id = base,
                 !.ack_cache = {seg \in s.ack_cache : seg.packet_id > base + 1}]

sim_sender_update_base(s, base) ==
  IF base <= s.base_packet_id THEN s
  ELSE [s EXCEPT !.base_packet_id = base,
                 !.ack_cache = {seg \in s.ack_cache : seg.packet_id > base}]

(* Acknowledgements of what was never sent are ignored.                     *)
Believable(s, ack) == /\ ack.acked_packet_id <= s.packet_id_seed
                      /\ ack.base_packet_id <= s.packet_id_seed

(* Mutant: the packet after the base is not sent again.                     *)
Askable_PastNext(s, ack) == {seg \in s.ack_cache : seg.packet_id \in ack.nack /\ seg.packet_id > s.base_packet_id + 1}

(* The segments asked for again that may be sent again.                     *)
Askable(s, ack) == {seg \in s.ack_cache : seg.packet_id \in ack.nack /\ seg.packet_id > s.base_packet_id}

(* sim_sender_ack: what may come of it, with any of those askable sent      *)
(* again.                                                                   *)
sim_sender_ack(s, ack) ==
  LET based == sim_sender_update_base(s, ack.base_packet_id)
      acked == [based EXCEPT !.ack_cache = {seg \in based.ack_cache : seg.packet_id \notin ack.acked}]
  IN  IF ~Believable(s, ack) THEN {s}
      ELSE {[acked EXCEPT !.waiting = acked.waiting \cup {[id |-> seg.send_id, fec |-> FALSE] : seg \in again}]
            : again \in SUBSET Askable(acked, ack)}

sim_sender_feedback(s, feedback) == sim_sender_update_base(s, feedback.base_packet_id)

(* process_sim_fir: nothing sent so far is sent again.                      *)
sim_clean_ack_cache(s) == [s EXCEPT !.ack_cache = {}]

(* Mutant: an expired segment stays where acknowledgements look for it.     *)
sim_sender_evict_cache_Dangling(s, time, fec) ==
  [s EXCEPT !.segs_cache = {seg \in s.segs_cache : seg.timestamp > time},
            !.fecs_cache = {x \in s.fecs_cache : x > fec}]

(* sim_sender_evict_cache of the segments encoded up to a time and the FEC  *)
(* packets up to an id.                                                     *)
sim_sender_evict_cache(s, time, fec) ==
  LET old == {seg \in s.segs_cache : seg.timestamp <= time}
  IN  [s EXCEPT !.segs_cache = s.segs_cache \ old,
                !.ack_cache = {seg \in s.ack_cache : \A o \in old : o.packet_id # seg.packet_id},
                !.fecs_cache = {x \in s.fecs_cache : x > fec}]
=============================================================================
