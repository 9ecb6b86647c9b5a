----------------------------- MODULE FrameCache -----------------------------
(***************************************************************************)
(* The receiver's play-out buffer, the first half of                       *)
(* ReCapABR/sim_transport/sim_receiver.c: a ring of slots for the frames   *)
(* after min_fid up to max_fid, each holding the segments that arrived.    *)
(*                                                                         *)
(* Time stamps are in seconds of the sender's clock.  The play-out clock   *)
(* (frame_ts, frame_timer, wait_timer, f) only delays a frame: whether the *)
(* next frame is due is a choice.  real_video_cache_discard has no caller, *)
(* so the list discard_loss is always empty and is left out.               *)
(***************************************************************************)
EXTENDS Integers, FiniteSets

CONSTANTS
  CacheSize,    \* slots of the ring: 1024 in the code
  EvictDelays   \* seconds of video after which a stalled group is given up: 3 to 6 in the code

ASSUME RingAssumption == CacheSize \in Nat \ {0} /\ EvictDelays \subseteq Nat

(* Least and greatest of a set of numbers.                                  *)
Least(S)    == CHOOSE x \in S : \A y \in S : x <= y
Greatest(S) == CHOOSE x \in S : \A y \in S : y <= x

Slots      == 0 .. CacheSize - 1
INDEX(fid) == fid % CacheSize

Segment == [packet_id : Nat, send_id : Nat, fid : Nat, index : Nat, total : Nat,
            ftype : {0, 1}, timestamp : Nat]

Frame == [fid : Nat, ts : Nat, ftype : {0, 1}, seg_number : Nat, segments : SUBSET Segment]

NoFrame == [fid |-> 0, ts |-> 0, ftype |-> 0, seg_number |-> 0, segments |-> {}]

Cache == [min_seq : Nat, min_fid : Nat, max_fid : Nat, play_frame_ts : Nat, max_ts : Nat,
          playing : BOOLEAN, frames : [Slots -> Frame]]

open_real_video_cache ==
  [min_seq |-> 0, min_fid |-> 0, max_fid |-> 0, play_frame_ts |-> 0, max_ts |-> 0,
   playing |-> FALSE, frames |-> [i \in Slots |-> NoFrame]]

-----------------------------------------------------------------------------
Occupied(c, i) == c.frames[i].seg_number # 0

(* A cleaned slot keeps the id of the frame it held.                        *)
Emptied(frame) == [NoFrame EXCEPT !.fid = frame.fid]

(* The last packet of the frame, from the last segment held of it.          *)
LastPacket(frame) ==
  LET seg == CHOOSE s \in frame.segments : \A t \in frame.segments : t.index <= s.index
  IN  seg.packet_id - seg.index + seg.total - 1

(* Mutant: the bounds stay behind.                                          *)
CleanFrames_BoundsStay(c, from, to) ==
  LET slots == {INDEX(f) : f \in from .. to}
  IN  [c EXCEPT !.frames = [i \in Slots |-> IF i \in slots /\ Occupied(c, i)
                                              THEN Emptied(c.frames[i])
                                              ELSE c.frames[i]]]

(* real_video_clean_frame on the frames from, ..., to, in this order: the   *)
(* bounds follow the last slot that held anything, which each slot does     *)
(* only the first time it is met.                                           *)
CleanFrames(c, from, to) ==
  LET slots == {INDEX(f) : f \in from .. to}
      held  == {f \in from .. to : f < from + CacheSize /\ Occupied(c, INDEX(f))}
      last  == c.frames[INDEX(Greatest(held))]
  IN  IF held = {}
        THEN c
        ELSE [c EXCEPT !.min_seq = LastPacket(last),
                       !.min_fid = last.fid,
                       !.play_frame_ts = last.ts,
                       !.frames = [i \in Slots |-> IF i \in slots /\ Occupied(c, i)
                                                     THEN Emptied(c.frames[i])
                                                     ELSE c.frames[i]]]

KeyFrames(c, from, to) == {f \in from .. to : c.frames[INDEX(f)].ftype = 1}

(* Mutant: the slots stay as they are.                                      *)
reset_real_video_cache_KeepsFrames(c) ==
  [c EXCEPT !.min_seq = 0, !.min_fid = 0, !.max_fid = 0, !.max_ts = 0, !.playing = FALSE]

(* reset_real_video_cache: every slot is cleaned, none forgets its id.      *)
reset_real_video_cache(c) ==
  [CleanFrames(c, 0, CacheSize - 1) EXCEPT !.min_seq = 0, !.min_fid = 0, !.max_fid = 0,
                                           !.max_ts = 0, !.playing = FALSE]

(* Mutant: the first frame kept is the one after the key frame.             *)
evict_gop_frame_PastKey(c) ==
  LET keys == KeyFrames(c, c.min_fid + 2, c.max_fid - 1)
  IN  IF keys = {}
        THEN c
        ELSE [CleanFrames(c, c.min_fid + 1, Least(keys)) EXCEPT !.min_fid = Least(keys)]

(* Mutant: the frames given up stay in their slots.                         *)
evict_gop_frame_KeepsSlots(c) ==
  LET keys == KeyFrames(c, c.min_fid + 2, c.max_fid - 1)
  IN  IF keys = {} THEN c ELSE [c EXCEPT !.min_fid = Least(keys) - 1]

(* The frames before the next key frame are given up.                       *)
evict_gop_frame(c) ==
  LET keys == KeyFrames(c, c.min_fid + 2, c.max_fid - 1)
  IN  IF keys = {}
        THEN c
        ELSE [CleanFrames(c, c.min_fid + 1, Least(keys) - 1) EXCEPT !.min_fid = Least(keys) - 1]

(* Room for a frame past max_fid: its slots are freed, and when that leaves *)
(* it a whole ring ahead, so are all frames before the next key frame.      *)
real_video_evict_frame(c, fid) ==
  LET d    == CleanFrames(c, c.max_fid + 1, fid)
      keys == KeyFrames(d, d.min_fid + 1, d.max_fid - 1)
  IN  IF fid < d.min_fid + CacheSize
        THEN d
        ELSE CleanFrames(d, d.min_fid + 1, (IF keys = {} THEN d.max_fid ELSE Least(keys)) - 1)

(* The ring made ready for a segment of a frame past max_fid.               *)
Advanced(c, seg) ==
  LET d == IF c.max_fid > 0
             THEN real_video_evict_frame(c, seg.fid)
             ELSE IF c.min_fid = 0
                    THEN [c EXCEPT !.min_fid = seg.fid - 1, !.play_frame_ts = seg.timestamp]
                    ELSE c
  IN  [d EXCEPT !.max_ts = seg.timestamp, !.max_fid = seg.fid]

(* The slot with the segment put in, if its place is free.                  *)
Filled(frame, seg) ==
  LET kept == IF frame.seg_number = 0 THEN {} ELSE frame.segments
  IN  [fid |-> seg.fid, ts |-> seg.timestamp, ftype |-> seg.ftype,
       seg_number |-> IF frame.seg_number = 0 THEN seg.total ELSE frame.seg_number,
       segments |-> IF \E s \in kept : s.index = seg.index THEN kept ELSE kept \cup {seg}]

Expired(c, seg) == seg.fid <= c.min_fid

(* real_video_cache_put: the cache after it.                                *)
real_video_cache_put(c, seg) ==
  LET d == IF seg.fid > c.max_fid THEN Advanced(c, seg) ELSE c
      i == INDEX(seg.fid)
  IN  IF Expired(c, seg) THEN c ELSE [d EXCEPT !.frames[i] = Filled(d.frames[i], seg)]

(* real_video_cache_put: it returns 0.                                      *)
PutAccepted(c, seg) ==
  LET d     == IF seg.fid > c.max_fid THEN Advanced(c, seg) ELSE c
      frame == d.frames[INDEX(seg.fid)]
  IN  ~Expired(c, seg) /\ ~ \E s \in frame.segments : frame.seg_number # 0 /\ s.index = seg.index

-----------------------------------------------------------------------------
(* seg_count = seg_number: true of an empty slot as well.                   *)
real_video_cache_check_frame_full(frame) == Cardinality(frame.segments) = frame.seg_number

(* real_video_cache_check_playing: a first frame is there.                  *)
MayPlay(c) == c.playing \/ c.max_fid > c.min_fid

(* The next slot holds the next frame or a key frame, all of it.            *)
Playable(c) ==
  LET frame == c.frames[INDEX(c.min_fid + 1)]
  IN  /\ frame.fid = c.min_fid + 1 \/ frame.ftype = 1
      /\ real_video_cache_check_frame_full(frame)

NotPlayed == [fid |-> 0, segments |-> 0]

(* What a stall may leave of the ring: a group that stalled for too long is *)
(* given up.                                                                *)
Unstalled(c) == {IF c.play_frame_ts + delay < c.max_ts THEN evict_gop_frame(c) ELSE c : delay \in EvictDelays}

(* The next frame leaves when it is due.                                    *)
Taken(c) ==
  LET frame == c.frames[INDEX(c.min_fid + 1)]
  IN  {[cache |-> c, frame |-> NotPlayed]}
      \cup (IF Playable(c)
              THEN {[cache |-> CleanFrames(c, c.min_fid + 1, c.min_fid + 1),
                     frame |-> [fid |-> frame.fid, segments |-> Cardinality(frame.segments)]]}
              ELSE {})

(* real_video_cache_get: what may come of it.  Nothing does until enough    *)
(* video is there.                                                          *)
real_video_cache_get(c) ==
  LET d == [c EXCEPT !.playing = TRUE]
  IN  IF ~MayPlay(c) THEN {}
      ELSE IF d.min_fid = d.max_fid THEN {[cache |-> d, frame |-> NotPlayed]}
      ELSE UNION {Taken(e) : e \in Unstalled(d)}
=============================================================================
