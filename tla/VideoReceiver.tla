--------------------------- MODULE VideoReceiver ---------------------------
(***************************************************************************)
(* A receiver of a call and the stream it is sent: its handlers as the     *)
(* session calls them, segments arriving in any order, more than once or   *)
(* never, and the player taking frames.                                    *)
(***************************************************************************)
EXTENDS SimReceiver

CONSTANTS
  Totals,      \* segments a frame may have
  Gaps,        \* seconds between two frames, in the sender's clock
  KeyEvery,    \* the encoder makes one frame in KeyEvery a key frame at least
  MaxFrames,   \* bound: frames encoded
  MaxPackets,  \* bound: segments of all of them
  Ahead,       \* frames a segment may come ahead of the newest received: 1 when none is lost whole
  Behind       \* frames it may come behind

ASSUME StreamAssumption ==
  /\ Totals \subseteq Nat \ {0} /\ Gaps \subseteq Nat
  /\ KeyEvery \in Nat \ {0} /\ MaxFrames \in Nat /\ MaxPackets \in Nat /\ Ahead \in Nat \ {0} /\ Behind \in Nat

VARIABLES
  rcv,      \* the receiver
  stream,   \* the frames encoded so far
  got,      \* the packets the receiver has had
  shown     \* the last frame the player got

vars == <<rcv, stream, got, shown>>

NewFrame == [ftype : {0, 1}, total : Totals, first : Nat, timestamp : Nat]

(* The frame encoded next.                                                  *)
FrameAfter(ftype, total, gap) ==
  [ftype |-> ftype, total |-> total,
   first |-> IF stream = <<>> THEN 1 ELSE stream[Len(stream)].first + stream[Len(stream)].total,
   timestamp |-> IF stream = <<>> THEN 0 ELSE stream[Len(stream)].timestamp + gap]

SegmentOf(fid, i) ==
  [packet_id |-> stream[fid].first + i, send_id |-> stream[fid].first + i, fid |-> fid, index |-> i,
   total |-> stream[fid].total, ftype |-> stream[fid].ftype, timestamp |-> stream[fid].timestamp]

Segments == UNION {{SegmentOf(f, i) : i \in 0 .. stream[f].total - 1} : f \in 1 .. Len(stream)}

(* The segments the network may deliver now.  The player is never a whole   *)
(* ring behind: 1024 frames, half a minute, in the code.                    *)
Arriving == {seg \in Segments : rcv.cache.max_fid > 0 =>
                /\ seg.fid <= rcv.cache.max_fid + Ahead
                /\ rcv.cache.max_fid <= seg.fid + Behind
                /\ seg.fid < rcv.cache.min_fid + CacheSize}

Init == /\ rcv = sim_receiver_active(sim_receiver_create)
        /\ stream = <<>>
        /\ got = {}
        /\ shown = NotPlayed

(* The sender's application encodes a frame: as soon as, and not before,    *)
(* the network may deliver it, which no receiver can tell.                  *)
Encode == /\ Len(stream) < MaxFrames
          /\ Len(stream) < rcv.cache.max_fid + Ahead
          /\ \E ftype \in {0, 1}, total \in Totals, gap \in Gaps :
                /\ ftype = 1 \/ \E f \in 1 .. Len(stream) : Len(stream) < f + KeyEvery - 1 /\ stream[f].ftype = 1
                /\ FrameAfter(ftype, total, gap).first + total - 1 <= MaxPackets
                /\ stream' = Append(stream, FrameAfter(ftype, total, gap))
          /\ UNCHANGED <<rcv, got, shown>>

process_sim_seg ==
  /\ \E seg \in Arriving, slow \in Rtts : \E x \in sim_receiver_put(rcv, seg, slow) :
        /\ rcv' = x.receiver
        /\ got' = IF Unwanted(rcv, seg) THEN got ELSE got \cup {seg.packet_id}
  /\ UNCHANGED <<stream, shown>>

process_sim_fec ==
  /\ \E seg \in Arriving, slow \in Rtts : \E x \in sim_receiver_put_fec(rcv, seg, slow) :
        /\ rcv' = x.receiver
        /\ got' = IF Unwanted(rcv, seg) THEN got ELSE got \cup {seg.packet_id}
  /\ UNCHANGED <<stream, shown>>

Heartbeat ==
  /\ \E slow \in Rtts : \E x \in sim_receiver_timer(rcv, slow) : rcv' = x.receiver
  /\ UNCHANGED <<stream, got, shown>>

(* FIR_DELAY_TIME passes.                                                   *)
FirDelayOver ==
  /\ rcv.fir_recent
  /\ rcv' = [rcv EXCEPT !.fir_recent = FALSE]
  /\ UNCHANGED <<stream, got, shown>>

sim_session_recv_video ==
  /\ \E x \in sim_receiver_get(rcv) :
        /\ rcv' = x.receiver
        /\ shown' = IF x.frame = NotPlayed THEN shown ELSE x.frame
  /\ UNCHANGED <<stream, got>>

Next == \/ Encode
        \/ process_sim_seg
        \/ process_sim_fec
        \/ Heartbeat
        \/ FirDelayOver
        \/ sim_session_recv_video

Spec == Init /\ [][Next]_vars

-----------------------------------------------------------------------------
(* A slot in use holds one frame only, the one whose place it is, and never *)
(* more segments than were made room for: a late or an early frame is never *)
(* mixed with the one a ring before it or after it.                         *)
SlotsOwned == \A i \in Slots : LET frame == rcv.cache.frames[i] IN
  frame.seg_number # 0 =>
    /\ INDEX(frame.fid) = i
    /\ frame.fid \in rcv.cache.min_fid + 1 .. rcv.cache.max_fid
    /\ \A s \in frame.segments : s.fid = frame.fid /\ s.index < frame.seg_number

Missing == (1 .. rcv.max_seq) \ got

(* Every packet up to the newest that has not come is asked for, unless its *)
(* frame was played or given up, or a key frame was asked for instead; and  *)
(* none is asked for that has come.                                         *)
LossExact ==
  /\ rcv.loss \cap got = {}
  /\ \A p \in Missing : p \in rcv.loss \/ p \in rcv.waived \/ p <= rcv.cache.min_seq

(* The base reported to the sender passes no packet that is still missing.  *)
BaseSound == \A p \in Missing : p <= rcv.base_seq => p \in rcv.waived \/ p <= rcv.cache.min_seq

(* No packet that is missing is forgotten by either end: the receiver asks  *)
(* for it, and its base, up to which the sender forgets, does not pass it.  *)
NoneForgotten == LossExact /\ BaseSound

(* What is played is whole, in order and decodable.                         *)
Video == INSTANCE VideoSpec
ImplementsVideoSpec == Video!Spec
=============================================================================
