------------------------------- MODULE SimFec -------------------------------
(***************************************************************************)
(* Forward error correction from end to end: the groups the sender makes   *)
(* of the segments it puts (sim_sender.c, fec/flex_fec_sender.c), a        *)
(* network that loses, delays, reorders and repeats, and what the receiver *)
(* recovers (sim_fec.c, sim_receiver.c).                                   *)
(*                                                                         *)
(* A handler of the receiver ends when nothing recovered waits to be put,  *)
(* so it is one step and then as many Recover as there are segments.  Of   *)
(* the receiver itself, this module keeps what sim_receiver_internal_put   *)
(* answers: it refuses what it has and what belongs to frames gone by.     *)
(* The flush in the middle of a frame of 100 segments is left out.         *)
(***************************************************************************)
EXTENDS FlexFec

CONSTANTS
  FrameGaps,          \* seconds between two frames
  FrameTotals,        \* segments a frame may have
  ProtectFractions,   \* 1/256ths of packets lost, as the sender knows it
  FecDelays,          \* seconds a group's FEC packets may wait in the pacer
  RegroupDelay,       \* seconds after which an open group starts again: FEC_REPAIR_WINDOW * 4
  EVICT_FEC_DELAY,    \* seconds
  MaxFecId,           \* 65535
  MaxPackets,         \* bound: segments put
  MaxTime,            \* bound: seconds
  MaxPassed           \* bound: frames gone by

ASSUME FecAssumption ==
  /\ FrameGaps \subseteq Nat /\ FrameTotals \subseteq Nat \ {0} /\ ProtectFractions \subseteq 0 .. 255 /\ FecDelays \subseteq Nat
  /\ {RegroupDelay, EVICT_FEC_DELAY, MaxPackets, MaxTime, MaxPassed} \subseteq Nat /\ MaxFecId \in Nat \ {0, 1}

VARIABLES
  clock,   \* seconds, at the last frame
  flex,    \* the sender's open group
  segs,    \* segments sent
  fecs,    \* FEC packets made, each sent at its send_ts
  rec,     \* the receiver's sim_receiver_fec_t
  put,     \* packets the receiver has
  passed,  \* the last frame played or given up
  heard    \* FEC packets taken in time

fecVars == <<clock, flex, segs, fecs, rec, put, passed, heard>>

Group      == [fec_id : 1 .. MaxFecId, base_id : Nat, count : Nat, col : Nat, row : Nat]
Fec        == [group : Group, index : [column : BOOLEAN, at : Nat], xor : SUBSET Nat, send_ts : Nat]
FecSegment == [packet_id : Nat, fid : Nat, fec_id : 1 .. MaxFecId, timestamp : Nat]
FlexRecv   == [group : Group, fec_ts : Nat, segs : SUBSET Nat, fecs : SUBSET Fec]

sim_fec_create == [max_ts |-> 0, segs_cache |-> {}, flexes |-> {}, recover_packets |-> {}]

flex_fec_sender_create == [fec_id |-> 1, base_id |-> 0, segs |-> <<>>, fec_ts |-> 0]

FecInit == /\ clock = 0
           /\ flex = flex_fec_sender_create
           /\ segs = {} /\ fecs = {}
           /\ rec = sim_fec_create
           /\ put = {} /\ passed = 0
           /\ heard = {}

-----------------------------------------------------------------------------
(* Mutant: the group that starts again keeps its first packet.              *)
WithFrame_KeepsBase(first, total, now) ==
  LET added == [i \in 1 .. total |-> first + i - 1]
  IN  IF flex.segs = <<>> THEN [flex EXCEPT !.base_id = first, !.segs = added, !.fec_ts = now]
      ELSE IF flex.fec_ts + RegroupDelay < now THEN [flex EXCEPT !.segs = added, !.fec_ts = now]
      ELSE [flex EXCEPT !.segs = flex.segs \o added]

(* flex_fec_sender_add_segment for the segments of a frame from first on: a *)
(* group open for too long starts again, under the same id.                 *)
WithFrame(first, total, now) ==
  LET added == [i \in 1 .. total |-> first + i - 1]
  IN  IF flex.segs = <<>> \/ flex.fec_ts + RegroupDelay < now
        THEN [flex EXCEPT !.base_id = first, !.segs = added, !.fec_ts = now]
        ELSE [flex EXCEPT !.segs = flex.segs \o added]

(* flex_fec_sender_over: FEC_REPAIR_WINDOW is half a second.                *)
Over(g, now) == g.fec_ts < now \/ Len(g.segs) >= MATRIX_SIZE

NextFecId(id) == IF id = MaxFecId THEN 1 ELSE id + 1

LastFrame == IF segs = {} THEN 0 ELSE (CHOOSE s \in segs : s.packet_id = Cardinality(segs)).fid

(* sim_sender_put of a frame, and sim_sender_fec after it.                  *)
sim_sender_fec ==
  /\ \E gap \in FrameGaps, total \in FrameTotals, fraction \in ProtectFractions, delay \in FecDelays :
        LET now   == IF segs = {} THEN 0 ELSE clock + gap
            first == Cardinality(segs) + 1
            g     == WithFrame(first, total, now)
        IN  /\ now <= MaxTime /\ first + total - 1 <= MaxPackets
            /\ clock' = now
            /\ segs' = segs \cup {[packet_id |-> p, fid |-> LastFrame + 1, fec_id |-> flex.fec_id, timestamp |-> now]
                                  : p \in first .. first + total - 1}
            /\ IF Over(g, now)
                 THEN /\ fecs' = fecs \cup flex_fec_sender_update(g, fraction, now + delay)
                      /\ flex' = [flex_fec_sender_create EXCEPT !.fec_id = NextFecId(g.fec_id)]
                 ELSE /\ UNCHANGED fecs
                      /\ flex' = g
  /\ UNCHANGED <<rec, put, passed, heard>>

-----------------------------------------------------------------------------
(* The group of an id: none, or one.                                        *)
FlexOf(f, fec_id) == {x \in f.flexes : x.group.fec_id = fec_id}

(* sim_fec_packet_add_recover.                                              *)
AddRecover(f, out) == [f EXCEPT !.recover_packets = f.recover_packets \cup out]

(* sim_fec_evict_segment for these groups, which go with their segments.    *)
WithoutFlexes(f, gone) ==
  [f EXCEPT !.flexes = f.flexes \ gone,
            !.segs_cache = {s \in f.segs_cache : \A x \in gone :
                              ~(s.packet_id \in x.group.base_id .. x.group.base_id + x.group.count - 1)}]

(* Mutant: the segments that came before the group are not put into it.     *)
sim_fec_add_segment_to_flex_None(f, x) == x

(* sim_fec_add_segment_to_flex: with no FEC packet yet, nothing is          *)
(* recovered, as the code asserts.                                          *)
sim_fec_add_segment_to_flex(f, x) ==
  [x EXCEPT !.segs = {s.packet_id : s \in f.segs_cache} \cap (x.group.base_id .. x.group.base_id + x.group.count - 1)]

TooLate(f, fec) == fec.send_ts + EVICT_FEC_DELAY < f.max_ts

sim_fec_put_fec_packet(f, fec) ==
  LET known == FlexOf(f, fec.group.fec_id)
      x     == IF known = {}
                 THEN sim_fec_add_segment_to_flex(f, flex_fec_receiver_active(fec.group, fec.send_ts))
                 ELSE CHOOSE y \in known : TRUE
      after == flex_fec_receiver_on_fec(x, fec)
  IN  IF TooLate(f, fec) THEN f
      ELSE AddRecover([f EXCEPT !.flexes = (f.flexes \ known) \cup {after.flex}], after.out)

sim_fec_put_segment(f, seg) ==
  LET new   == [f EXCEPT !.segs_cache = f.segs_cache \cup {seg},
                         !.max_ts = IF seg.timestamp > f.max_ts THEN seg.timestamp ELSE f.max_ts]
      known == FlexOf(f, seg.fec_id)
      after == flex_fec_receiver_on_segment(CHOOSE x \in known : TRUE, seg.packet_id)
      added == AddRecover([new EXCEPT !.flexes = (f.flexes \ known) \cup {after.flex}], after.out)
  IN  IF \E s \in f.segs_cache : s.packet_id = seg.packet_id THEN f
      ELSE IF known = {} THEN new
      ELSE IF Full(after.flex) THEN WithoutFlexes(added, {after.flex}) ELSE added

(* Mutant: segments go as soon as groups.                                   *)
Evicted_SegmentsFirst(f) ==
  LET over(x)  == x.fec_ts + EVICT_FEC_DELAY <= f.max_ts \/ Full(x)
      gone     == {x \in f.flexes : \A y \in f.flexes : y.group.fec_id <= x.group.fec_id => over(y)}
      g        == WithoutFlexes(f, gone)
      stale(s) == s.timestamp + EVICT_FEC_DELAY < f.max_ts
  IN  [g EXCEPT !.segs_cache = {s \in g.segs_cache : \E t \in g.segs_cache : t.packet_id <= s.packet_id /\ ~stale(t)}]

(* sim_fec_evict: groups go in the order of their ids up to the first that  *)
(* is neither old nor complete, then segments in the order of theirs.       *)
Evicted(f) ==
  LET over(x)  == x.fec_ts + EVICT_FEC_DELAY <= f.max_ts \/ Full(x)
      gone     == {x \in f.flexes : \A y \in f.flexes : y.group.fec_id <= x.group.fec_id => over(y)}
      g        == WithoutFlexes(f, gone)
      stale(s) == s.timestamp + EVICT_FEC_DELAY * 2 < f.max_ts
  IN  [g EXCEPT !.segs_cache = {s \in g.segs_cache : \E t \in g.segs_cache : t.packet_id <= s.packet_id /\ ~stale(t)}]

-----------------------------------------------------------------------------
(* sim_receiver_internal_put returns 0.                                     *)
Accepts(seg) == seg.packet_id \notin put /\ seg.fid > passed

Idle == rec.recover_packets = {}

receive_segment ==
  /\ Idle
  /\ \E seg \in segs :
        /\ Accepts(seg)
        /\ put' = put \cup {seg.packet_id}
        /\ rec' = sim_fec_put_segment(rec, seg)
  /\ UNCHANGED <<clock, flex, segs, fecs, passed, heard>>

receive_fec ==
  /\ Idle
  /\ \E fec \in fecs :
        /\ fec.send_ts <= clock
        /\ rec' = sim_fec_put_fec_packet(rec, fec)
        /\ heard' = IF TooLate(rec, fec) THEN heard ELSE heard \cup {fec}
  /\ UNCHANGED <<clock, flex, segs, fecs, put, passed>>

(* The segment of a packet recovered.                                       *)
SegmentOf(r) == [(CHOOSE s \in segs : {s.packet_id} = r.ids) EXCEPT !.fec_id = r.fec_id]

(* A packet recovered that carries the header of a segment sent.            *)
Known(r) == \E s \in segs : r.ids = {s.packet_id}

(* One round of sim_receiver_recover's loop, on the first packet recovered. *)
(* What becomes of a packet with the header of none is left open: the       *)
(* behaviour ends there.                                                    *)
Recover ==
  /\ ~Idle
  /\ \A r \in rec.recover_packets : Known(r)
  /\ LET r    == CHOOSE x \in rec.recover_packets : \A y \in rec.recover_packets :
                   SegmentOf(x).packet_id <= SegmentOf(y).packet_id
         seg  == SegmentOf(r)
         rest == [rec EXCEPT !.recover_packets = rec.recover_packets \ {r}]
     IN  IF Accepts(seg)
           THEN put' = put \cup {seg.packet_id} /\ rec' = sim_fec_put_segment(rest, seg)
           ELSE rec' = rest /\ UNCHANGED put
  /\ UNCHANGED <<clock, flex, segs, fecs, passed, heard>>

sim_fec_evict ==
  /\ Idle
  /\ rec' = Evicted(rec)
  /\ UNCHANGED <<clock, flex, segs, fecs, put, passed, heard>>

(* Frames are played or given up.                                           *)
Pass ==
  /\ Idle
  /\ passed' \in passed + 1 .. LastFrame /\ passed' <= MaxPassed
  /\ UNCHANGED <<clock, flex, segs, fecs, rec, put, heard>>

FecNext == \/ sim_sender_fec
           \/ receive_segment
           \/ receive_fec
           \/ Recover
           \/ sim_fec_evict
           \/ Pass

FecSpec == FecInit /\ [][FecNext]_fecVars

-----------------------------------------------------------------------------
FecTypeOK == /\ clock \in 0 .. MaxTime
             /\ flex \in [fec_id : 1 .. MaxFecId, base_id : Nat, segs : Seq(Nat), fec_ts : Nat]
             /\ segs \subseteq FecSegment
             /\ fecs \subseteq Fec /\ heard \subseteq fecs
             /\ rec \in [max_ts : Nat, segs_cache : SUBSET FecSegment, flexes : SUBSET FlexRecv,
                         recover_packets : SUBSET [ids : SUBSET Nat, fec_id : 1 .. MaxFecId]]
             /\ put \subseteq Nat /\ passed \in Nat

(* The ids of the groups have not come round.  There are 65535 of them: at  *)
(* 30 groups a second, they do after 36 minutes.                            *)
Unwrapped == \A s, t \in segs : s.packet_id <= t.packet_id => s.fec_id <= t.fec_id

(* What is recovered is a segment that was lost: "X = xor(1,2,3,5,R0)", as  *)
(* flex_recover_row has it.  This fails once the ids come round.            *)
RecoversLost == \A r \in rec.recover_packets : \E s \in segs :
  r.ids = {s.packet_id} /\ r.fec_id = s.fec_id

(* Until then, what is recovered is a segment the sender sent, whatever of  *)
(* its group was lost, came late or in any order, and however often the     *)
(* group was started again: the receiver's arithmetic on the base and the   *)
(* shape finds the very segments the sender put together.                   *)
RecoveredGenuine == Unwrapped => RecoversLost

(* Until then, a group points only to segments that are still in the cache: *)
(* what is let go by age never leaves a group behind that would read it.    *)
FlexLive == Unwrapped => \A x \in rec.flexes : x.segs \subseteq {s.packet_id : s \in rec.segs_cache}

(* Nothing that can be recovered is left unrecovered: whenever a handler    *)
(* has ended, no FEC packet of a group still in time misses one segment     *)
(* only, however the segments and FEC packets came, unless the frame of     *)
(* that segment has gone by.                                                *)
InTime(fec) == \A f \in heard : f.group.fec_id = fec.group.fec_id => rec.max_ts < f.send_ts + EVICT_FEC_DELAY
DecoderComplete == Idle => \A fec \in heard : InTime(fec) =>
  LET missing == fec.xor \ put IN Cardinality(missing) = 1 => \A s \in segs : s.packet_id \in missing => s.fid <= passed
=============================================================================
