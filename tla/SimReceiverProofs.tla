------------------------- MODULE SimReceiverProofs -------------------------
(***************************************************************************)
(* Lemmas about the receiver of a call (FrameCache, SimReceiver), for      *)
(* every size of its ring and every bound of its acknowledgements: a       *)
(* receiver that fits a stream fits it after each handler.                 *)
(*                                                                         *)
(* The invariant is a predicate of a stream, a receiver, the packets it    *)
(* has had and the last frame played, so that the lemmas can follow a      *)
(* receiver through the functions a handler calls, and so that they serve  *)
(* whatever brings the segments (VideoReceiver, VideoTransport).           *)
(***************************************************************************)
EXTENDS SimReceiver, NumberLemmas

Frames == [ftype : {0, 1}, total : Nat \ {0}, first : Nat \ {0}, timestamp : Nat]

(* The last packet of a frame of a stream.                                  *)
LastOf(str, f) == IF f = 0 THEN 0 ELSE str[f].first + str[f].total - 1

(* Frames take their packets one after the other.                           *)
StreamFits(str) ==
  /\ str \in Seq(Frames)
  /\ \A f, g \in DOMAIN str : f < g => LastOf(str, f) < str[g].first

(* The segments of a frame, sent by any id.                                 *)
SegmentsOf(str, f) ==
  {s \in Segment : /\ s.fid = f /\ s.index < str[f].total /\ s.total = str[f].total
                   /\ s.packet_id = str[f].first + s.index
                   /\ s.ftype = str[f].ftype /\ s.timestamp = str[f].timestamp}

(* A slot in use holds segments of the frame whose place it is, all of      *)
(* which have been had; one that is empty was left by a frame played or     *)
(* given up.                                                                *)
SlotFits(str, got_, c, i) ==
  LET frame == c.frames[i]
  IN  IF Occupied(c, i)
      THEN /\ frame.fid \in c.min_fid + 1 .. c.max_fid
           /\ INDEX(frame.fid) = i
           /\ frame.seg_number = str[frame.fid].total
           /\ frame.ftype = str[frame.fid].ftype
           /\ frame.segments # {}
           /\ frame.segments \subseteq SegmentsOf(str, frame.fid)
           /\ \A s \in frame.segments : s.packet_id \in got_
           /\ \A s, t \in frame.segments : s.index = t.index => s = t
      ELSE frame.segments = {} /\ frame.ftype = 0 /\ frame.fid <= c.min_fid

CacheFits(str, got_, c) ==
  /\ c \in Cache
  /\ c.min_fid <= c.max_fid
  /\ c.max_fid <= Len(str)
  /\ c.max_fid <= c.min_fid + CacheSize
  /\ c.min_seq <= LastOf(str, c.min_fid)
  /\ \A i \in Slots : SlotFits(str, got_, c, i)

(* The next frame needs none before it, or follows the last one played.     *)
NextDecodable(str, c, last) ==
  c.max_fid # 0 => \/ last.fid = c.min_fid /\ last.fid # 0
                   \/ c.min_fid + 1 <= c.max_fid /\ str[c.min_fid + 1].ftype = 1

(* What a receiver knows of each packet up to n.                            *)
PacketsKnown(got_, r, n) ==
  /\ got_ \subseteq 1 .. n
  /\ r.loss \subseteq 1 .. n
  /\ r.base_seq <= n
  /\ r.loss \cap got_ = {}
  /\ \A p \in (1 .. n) \ got_ : p \in r.loss \/ p \in r.waived \/ p <= r.cache.min_seq
  /\ \A p \in (1 .. n) \ got_ : p <= r.base_seq => p \in r.waived \/ p <= r.cache.min_seq

(* Nothing has come yet, in either half of the receiver.                    *)
FreshFits(got_, r) ==
  /\ r.cache.max_fid = 0 <=> r.max_seq = 0
  /\ r.max_seq = 0 => r.waived = {} /\ r.cache.min_fid = 0

ReceiverFits(str, got_, r, last) ==
  /\ r \in Receiver
  /\ CacheFits(str, got_, r.cache)
  /\ LastOf(str, r.cache.min_fid) <= r.max_seq
  /\ PacketsKnown(got_, r, r.max_seq)
  /\ FreshFits(got_, r)
  /\ last.fid <= r.cache.min_fid
  /\ NextDecodable(str, r.cache, last)

-----------------------------------------------------------------------------
(* Least and Greatest are what they are called.                             *)
LEMMA LeastIsLeast ==
  ASSUME NEW S, S \subseteq Nat, S # {}
  PROVE  Least(S) \in S /\ \A y \in S : Least(S) <= y
<1>1. \E x \in S : \A y \in S : x <= y
  BY LeastOfNat
<1> QED BY <1>1 DEF Least

LEMMA GreatestIsGreatest ==
  ASSUME NEW S, NEW n \in Nat, S \subseteq 0 .. n, S # {}
  PROVE  Greatest(S) \in S /\ \A y \in S : y <= Greatest(S)
<1> DEFINE T == {n - x : x \in S}
<1>1. T \subseteq Nat /\ T # {}
  <2>1. \A x \in S : x \in 0 .. n
    OBVIOUS
  <2>2. \A x \in 0 .. n : n - x \in Nat
    OBVIOUS
  <2> QED BY <2>1, <2>2
<1>2. PICK t \in T : \A u \in T : t <= u
  BY <1>1, LeastOfNat
<1>3. PICK x \in S : t = n - x
  BY <1>2
<1>4. \A y \in S : y <= x
  <2> TAKE y \in S
  <2>1. t <= n - y
    BY <1>2
  <2> QED BY <1>3, <2>1
<1> QED BY <1>3, <1>4 DEF Greatest

(* Of frames less than a ring apart, each has a slot of its own.            *)
LEMMA IndexInSlots ==
  ASSUME NEW f \in Int
  PROVE  INDEX(f) \in Slots
BY RingAssumption DEF INDEX, Slots

LEMMA SlotsApart ==
  ASSUME NEW f \in Int, NEW g \in Int, f <= g, g < f + CacheSize, INDEX(f) = INDEX(g)
  PROVE  f = g
<1> DEFINE R == CacheSize  p == f \div R  q == g \div R
<1>0. g - f \in Int /\ g < f + R /\ f <= g
  OBVIOUS
<1>1. R \in Nat \ {0}
  BY RingAssumption
<1>2. f = R * p + (f % R) /\ g = R * q + (g % R) /\ p \in Int /\ q \in Int
  BY <1>1
<1>3. f % R = g % R /\ f % R \in Int
  BY <1>1 DEF INDEX
<1> HIDE DEF p, q, R
<1>4. g - f = R * (q - p) /\ q - p \in Int
  BY <1>1, <1>2, <1>3
<1>5. 0 <= g - f /\ g - f < R
  BY <1>0, <1>1
<1>6. q - p = 0
  <2> DEFINE k == q - p
  <2>1. k \in Int /\ R * k = g - f
    BY <1>4
  <2> HIDE DEF k
  <2>2. ASSUME k >= 1 PROVE FALSE
    <3>1. R * k >= R
      BY <1>1, <2>1, <2>2
    <3> QED BY <1>1, <1>5, <2>1, <3>1
  <2>3. ASSUME k <= -1 PROVE FALSE
    <3>1. R * k <= -R
      BY <1>1, <2>1, <2>3
    <3> QED BY <1>1, <1>5, <2>1, <3>1
  <2>4. k = 0
    <3>1. k \in Int
      BY <2>1
    <3>2. ~(k >= 1) /\ ~(k <= -1)
      BY <2>2, <2>3
    <3> QED BY <3>1, <3>2
  <2> QED BY <2>4 DEF k
<1> QED BY <1>1, <1>4, <1>6

-----------------------------------------------------------------------------
(* The frames of a stream, and where they end.                              *)
LEMMA FrameOfStream ==
  ASSUME NEW str, StreamFits(str), NEW f \in 1 .. Len(str)
  PROVE  /\ f \in DOMAIN str /\ str[f] \in Frames
         /\ str[f].first \in Nat \ {0} /\ str[f].total \in Nat \ {0} /\ str[f].ftype \in {0, 1} /\ str[f].timestamp \in Nat
         /\ LastOf(str, f) = str[f].first + str[f].total - 1
         /\ LastOf(str, f) \in Nat
<1>1. f \in DOMAIN str /\ str[f] \in Frames
  BY DEF StreamFits
<1>2. /\ str[f].first \in Nat \ {0} /\ str[f].total \in Nat \ {0}
      /\ str[f].ftype \in {0, 1} /\ str[f].timestamp \in Nat
  BY <1>1 DEF Frames
<1>3. LastOf(str, f) = str[f].first + str[f].total - 1
  BY DEF LastOf
<1> QED BY <1>1, <1>2, <1>3

LEMMA LastOfRises ==
  ASSUME NEW str, StreamFits(str), NEW f \in 0 .. Len(str), NEW g \in 0 .. Len(str), f < g
  PROVE  LastOf(str, f) \in Nat /\ LastOf(str, f) < str[g].first /\ LastOf(str, f) < LastOf(str, g)
<1>1. str[g].first \in Nat \ {0} /\ str[g].total \in Nat \ {0} /\ LastOf(str, g) = str[g].first + str[g].total - 1
  BY FrameOfStream
<1>2. CASE f = 0
  BY <1>1, <1>2 DEF LastOf
<1>3. CASE f # 0
  <2>1. LastOf(str, f) \in Nat
    BY <1>3, FrameOfStream
  <2>2. LastOf(str, f) < str[g].first
    BY <1>3 DEF StreamFits
  <2> QED BY <1>1, <2>1, <2>2
<1> QED BY <1>2, <1>3

LEMMA SegmentFits ==
  ASSUME NEW str, StreamFits(str), NEW f \in 1 .. Len(str), NEW s \in SegmentsOf(str, f)
  PROVE  /\ s \in Segment
         /\ s.fid = f /\ s.index \in 0 .. str[f].total - 1 /\ s.total = str[f].total
         /\ s.packet_id = str[f].first + s.index
         /\ s.ftype = str[f].ftype /\ s.timestamp = str[f].timestamp
         /\ s.packet_id \in str[f].first .. LastOf(str, f)
<1>1. /\ s \in Segment /\ s.fid = f /\ s.index < str[f].total /\ s.total = str[f].total
      /\ s.packet_id = str[f].first + s.index /\ s.ftype = str[f].ftype /\ s.timestamp = str[f].timestamp
  BY DEF SegmentsOf
<1>2. str[f].first \in Nat \ {0} /\ str[f].total \in Nat \ {0} /\ str[f].ftype \in {0, 1} /\ str[f].timestamp \in Nat
  BY FrameOfStream
<1>3. s.index \in Nat
  BY <1>1 DEF Segment
<1> QED BY <1>1, <1>2, <1>3, FrameOfStream

(* The last packet of a frame is told from any of its segments.             *)
LEMMA LastPacketTrue ==
  ASSUME NEW str, StreamFits(str), NEW f \in 1 .. Len(str),
         NEW frame, frame.segments # {}, frame.segments \subseteq SegmentsOf(str, f)
  PROVE  LastPacket(frame) = LastOf(str, f)
<1> DEFINE n == str[f].total - 1
           S == {s.index : s \in frame.segments}
<1>1. n \in Nat
  BY FrameOfStream
<1>2. \A s \in frame.segments : s.index \in 0 .. n
  BY SegmentFits
<1>3. S \subseteq 0 .. n /\ S # {}
  BY <1>2
<1> HIDE DEF n
<1>4. Greatest(S) \in S /\ \A y \in S : y <= Greatest(S)
  BY <1>1, <1>3, GreatestIsGreatest
<1>5. \E s \in frame.segments : \A t \in frame.segments : t.index <= s.index
  BY <1>4
<1>6. PICK s \in frame.segments : LastPacket(frame) = s.packet_id - s.index + s.total - 1
  BY <1>5 DEF LastPacket
<1>7. /\ s.packet_id = str[f].first + s.index /\ s.total = str[f].total /\ s.index \in Nat
      /\ str[f].first \in Nat /\ str[f].total \in Nat
  BY <1>6, SegmentFits, FrameOfStream
<1> QED BY <1>6, <1>7, FrameOfStream

(* What a frame in the ring is.                                             *)
LEMMA HeldFits ==
  ASSUME NEW str, StreamFits(str), NEW gt, NEW c, CacheFits(str, gt, c), NEW i \in Slots, Occupied(c, i)
  PROVE  /\ c.frames[i] \in Frame
         /\ c.frames[i].fid \in c.min_fid + 1 .. c.max_fid
         /\ c.frames[i].fid \in 1 .. Len(str)
         /\ INDEX(c.frames[i].fid) = i
         /\ LastPacket(c.frames[i]) = LastOf(str, c.frames[i].fid)
<1>1. c.frames[i] \in Frame /\ c.min_fid \in Nat /\ c.max_fid \in Nat
  BY DEF CacheFits, Cache
<1>2. c.frames[i].fid \in c.min_fid + 1 .. c.max_fid /\ INDEX(c.frames[i].fid) = i
  BY DEF CacheFits, SlotFits
<1>3. c.frames[i].fid \in 1 .. Len(str)
  BY <1>1, <1>2 DEF CacheFits, StreamFits
<1>4. LastPacket(c.frames[i]) = LastOf(str, c.frames[i].fid)
  BY <1>3, LastPacketTrue DEF CacheFits, SlotFits
<1> QED BY <1>1, <1>2, <1>3, <1>4

(* A frame that may be in the ring is in its slot, or nothing is there.     *)
LEMMA InItsSlot ==
  ASSUME NEW str, StreamFits(str), NEW gt, NEW c, CacheFits(str, gt, c), NEW f \in c.min_fid + 1 .. c.max_fid,
         Occupied(c, INDEX(f))
  PROVE  INDEX(f) \in Slots /\ c.frames[INDEX(f)].fid = f
<1>1. c.min_fid \in Nat /\ c.max_fid \in Nat /\ c.max_fid <= c.min_fid + CacheSize
  BY DEF CacheFits, Cache
<1>2. f \in Int
  BY <1>1
<1>3. INDEX(f) \in Slots
  BY <1>2, IndexInSlots
<1> DEFINE g == c.frames[INDEX(f)].fid
<1>4. g \in c.min_fid + 1 .. c.max_fid /\ INDEX(g) = INDEX(f)
  BY <1>3, HeldFits
<1> HIDE DEF g
<1>5. g \in Int /\ (f <= g => g < f + CacheSize) /\ (g <= f => f < g + CacheSize)
  BY <1>1, <1>4, RingAssumption
<1>6. g = f
  BY <1>2, <1>4, <1>5, SlotsApart
<1> QED BY <1>3, <1>6 DEF g

-----------------------------------------------------------------------------
(* Frames next to be played are taken out of the ring: those held after it  *)
(* are left as they are, and min_fid is the last one that was held.         *)
LEMMA CleanFits ==
  ASSUME NEW str, StreamFits(str), NEW gt, NEW c, CacheFits(str, gt, c),
         NEW to \in Int, to <= c.max_fid, NEW d, d = CleanFrames(c, c.min_fid + 1, to)
  PROVE  /\ CacheFits(str, gt, d)
         /\ d.max_fid = c.max_fid /\ d.playing = c.playing /\ d.max_ts = c.max_ts
         /\ d.min_fid = c.min_fid \/ d.min_fid \in c.min_fid + 1 .. to
         /\ c.min_seq <= d.min_seq
         /\ \A i \in Slots : Occupied(d, i) => d.frames[i] = c.frames[i] /\ d.frames[i].fid > to
         /\ \A i \in Slots : Occupied(c, i) /\ c.frames[i].fid > to => d.frames[i] = c.frames[i]
         /\ \A i \in Slots : Occupied(c, i) /\ c.frames[i].fid \in c.min_fid + 1 .. to => c.frames[i].fid <= d.min_fid
<1> DEFINE from  == c.min_fid + 1
           slots == {INDEX(f) : f \in from .. to}
           held  == {f \in from .. to : f < from + CacheSize /\ Occupied(c, INDEX(f))}
           top   == Greatest(held)
           last  == c.frames[INDEX(top)]
           e     == [c EXCEPT !.min_seq = LastPacket(last),
                              !.min_fid = last.fid,
                              !.play_frame_ts = last.ts,
                              !.frames = [i \in Slots |-> IF i \in slots /\ Occupied(c, i)
                                                            THEN Emptied(c.frames[i])
                                                            ELSE c.frames[i]]]
<1>1. d = IF held = {} THEN c ELSE e
  BY Zenon DEF CleanFrames
<1>2. /\ c \in Cache /\ c.min_fid \in Nat /\ c.max_fid \in Nat /\ c.min_seq \in Nat
      /\ c.min_fid <= c.max_fid /\ c.max_fid <= c.min_fid + CacheSize /\ CacheSize \in Nat \ {0} /\ Len(str) \in Nat
      /\ c.max_fid <= Len(str) /\ c.min_seq <= LastOf(str, c.min_fid) /\ c.frames \in [Slots -> Frame]
  BY RingAssumption DEF CacheFits, Cache, StreamFits
<1>3. ASSUME NEW i \in Slots, Occupied(c, i)
      PROVE  /\ c.frames[i].fid \in c.min_fid + 1 .. c.max_fid
             /\ i \in slots <=> c.frames[i].fid <= to
             /\ c.frames[i].fid <= to => c.frames[i].fid \in held
  <2> DEFINE g == c.frames[i].fid
  <2>1. g \in c.min_fid + 1 .. c.max_fid /\ INDEX(g) = i
    BY <1>3, HeldFits
  <2> HIDE DEF g
  <2>2. g <= to => g \in held /\ i \in slots
    BY <1>2, <1>3, <2>1
  <2>3. ASSUME i \in slots PROVE g <= to
    <3>1. PICK f \in from .. to : i = INDEX(f)
      BY <2>3
    <3>2. f \in c.min_fid + 1 .. c.max_fid
      BY <1>2, <3>1
    <3>3. g = f
      BY <1>3, <3>1, <3>2, InItsSlot DEF g
    <3> QED BY <3>1, <3>3
  <2> QED BY <2>1, <2>2, <2>3 DEF g
<1>4. CASE held = {}
  <2>1. d = c
    BY <1>1, <1>4
  <2>2. \A i \in Slots : Occupied(c, i) => c.frames[i].fid > to
    <3> SUFFICES ASSUME NEW i \in Slots, Occupied(c, i) PROVE c.frames[i].fid > to
      OBVIOUS
    <3>1. c.frames[i].fid \in c.min_fid + 1 .. c.max_fid /\ ~(c.frames[i].fid <= to)
      BY <1>3, <1>4
    <3> QED BY <1>2, <3>1
  <2> QED BY <1>2, <2>1, <2>2
<1>5. CASE held # {}
  <2>1. top \in held /\ \A f \in held : f <= top
    <3>1. held \subseteq 0 .. c.max_fid
      BY <1>2
    <3> HIDE DEF held
    <3> QED BY <1>2, <1>5, <3>1, GreatestIsGreatest
  <2> HIDE DEF top
  <2>2. /\ top \in c.min_fid + 1 .. to /\ top \in c.min_fid + 1 .. c.max_fid /\ Occupied(c, INDEX(top))
        /\ top \in 1 .. Len(str)
    BY <1>2, <2>1
  <2>3. INDEX(top) \in Slots /\ last.fid = top
    BY <2>2, InItsSlot
  <2>4. last \in Frame /\ LastPacket(last) = LastOf(str, top)
    BY <2>2, <2>3, HeldFits
  <2> DEFINE fr == [i \in Slots |-> IF i \in slots /\ Occupied(c, i) THEN Emptied(c.frames[i]) ELSE c.frames[i]]
  <2>5. fr \in [Slots -> Frame]
    BY <1>2 DEF Emptied, NoFrame, Frame
  <2>6. /\ LastOf(str, top) \in Nat /\ LastOf(str, c.min_fid) \in Nat /\ LastOf(str, c.min_fid) < LastOf(str, top)
        /\ last.ts \in Nat
    <3>1. c.min_fid \in 0 .. Len(str) /\ top \in 0 .. Len(str) /\ c.min_fid < top
      BY <1>2, <2>2
    <3>2. LastOf(str, top) \in Nat
      BY <2>2, FrameOfStream
    <3>3. last.ts \in Nat
      BY <2>4 DEF Frame
    <3> QED BY <3>1, <3>2, <3>3, LastOfRises
  <2>7. d = [c EXCEPT !.min_seq = LastOf(str, top), !.min_fid = top, !.play_frame_ts = last.ts, !.frames = fr]
    BY <1>1, <1>5, <2>3, <2>4
  <2> HIDE DEF fr, last, held
  <2>8. /\ d.min_seq = LastOf(str, top) /\ d.min_fid = top /\ d.frames = fr /\ d.max_fid = c.max_fid
        /\ d.playing = c.playing /\ d.max_ts = c.max_ts
    BY <1>2, <2>7 DEF Cache
  <2>9. d \in Cache
    <3> DEFINE c1 == [c EXCEPT !.min_seq = LastOf(str, top)]
               c2 == [c1 EXCEPT !.min_fid = top]
               c3 == [c2 EXCEPT !.play_frame_ts = last.ts]
    <3>1. c1 \in Cache
      BY <1>2, <2>6 DEF Cache
    <3>2. c2 \in Cache
      <4> HIDE DEF c1
      <4> QED BY <2>2, <3>1 DEF Cache
    <3>3. c3 \in Cache
      <4> HIDE DEF c2
      <4> QED BY <2>6, <3>2 DEF Cache
    <3>4. d = [c3 EXCEPT !.frames = fr]
      BY <2>7
    <3> HIDE DEF c3
    <3> QED BY <2>5, <3>3, <3>4 DEF Cache
  <2>10. c.min_seq <= d.min_seq
    BY <1>2, <2>6, <2>8
  <2>11. ASSUME NEW i \in Slots, Occupied(c, i), c.frames[i].fid > to
         PROVE  d.frames[i] = c.frames[i]
    <3>1. i \notin slots
      BY <1>2, <1>3, <2>11
    <3> HIDE DEF slots
    <3> QED BY <2>8, <3>1 DEF fr
  <2>12. ASSUME NEW i \in Slots, Occupied(d, i)
         PROVE  d.frames[i] = c.frames[i] /\ d.frames[i].fid > to
    <3>1. CASE i \in slots /\ Occupied(c, i)
      <4>1. d.frames[i] = Emptied(c.frames[i])
        BY <2>8, <3>1 DEF fr
      <4> QED BY <2>12, <4>1 DEF Occupied, Emptied, NoFrame
    <3>2. CASE ~(i \in slots /\ Occupied(c, i))
      <4>1. d.frames[i] = c.frames[i]
        BY <2>8, <3>2 DEF fr
      <4>2. Occupied(c, i)
        BY <2>12, <4>1 DEF Occupied
      <4> QED BY <1>2, <1>3, <3>2, <4>1, <4>2
    <3> QED BY <3>1, <3>2
  <2>13. ASSUME NEW i \in Slots, Occupied(c, i), c.frames[i].fid \in c.min_fid + 1 .. to
         PROVE  c.frames[i].fid <= d.min_fid
    BY <1>2, <1>3, <2>1, <2>8, <2>13
  <2>14. ASSUME NEW i \in Slots PROVE SlotFits(str, gt, d, i)
    <3>1. SlotFits(str, gt, c, i)
      BY DEF CacheFits
    <3>2. CASE Occupied(d, i)
      <4>1. d.frames[i] = c.frames[i] /\ d.frames[i].fid > to /\ Occupied(c, i)
        BY <2>12, <3>2 DEF Occupied
      <4>2. d.frames[i].fid \in d.min_fid + 1 .. d.max_fid
        BY <1>2, <1>3, <2>2, <2>8, <4>1
      <4> QED BY <3>1, <3>2, <4>1, <4>2 DEF SlotFits
    <3>3. CASE ~Occupied(d, i)
      <4>1. CASE Occupied(c, i)
        <5>1. i \in slots
          BY <2>8, <3>3, <4>1 DEF Occupied, fr
        <5>2. d.frames[i] = Emptied(c.frames[i])
          BY <2>8, <4>1, <5>1 DEF fr
        <5>3. c.frames[i].fid <= d.min_fid
          BY <1>2, <1>3, <2>13, <4>1, <5>1
        <5> QED BY <3>3, <5>2, <5>3 DEF SlotFits, Emptied, NoFrame
      <4>2. CASE ~Occupied(c, i)
        <5>1. d.frames[i] = c.frames[i]
          BY <2>8, <4>2 DEF fr
        <5>2. c.frames[i] \in Frame /\ c.frames[i].fid \in Nat
          BY <1>2 DEF Frame
        <5>3. c.frames[i].fid <= c.min_fid
          BY <3>1, <4>2 DEF SlotFits
        <5>4. d.frames[i].fid <= d.min_fid
          BY <1>2, <2>2, <2>8, <5>1, <5>2, <5>3
        <5> QED BY <3>1, <3>3, <4>2, <5>1, <5>4 DEF SlotFits
      <4> QED BY <4>1, <4>2
    <3> QED BY <3>2, <3>3
  <2>15. CacheFits(str, gt, d)
    <3>1. d.min_fid <= d.max_fid /\ d.max_fid <= Len(str) /\ d.max_fid <= d.min_fid + CacheSize
      BY <1>2, <2>2, <2>8
    <3>2. d.min_seq <= LastOf(str, d.min_fid)
      BY <2>6, <2>8
    <3> QED BY <2>9, <2>14, <3>1, <3>2 DEF CacheFits
  <2> QED BY <2>2, <2>8, <2>10, <2>11, <2>12, <2>13, <2>15
<1> QED BY <1>4, <1>5

(* A key frame of the stream is in the ring, and a packet of it has come.   *)
KeyFrameFound(str, gt, c, f) ==
  /\ Occupied(c, INDEX(f)) /\ str[f].ftype = 1
  /\ \E p \in gt : \A g \in 0 .. f - 1 : LastOf(str, g) < p

LEMMA KeyFrameHeld ==
  ASSUME NEW str, StreamFits(str), NEW gt, gt \subseteq Nat, NEW c, CacheFits(str, gt, c), NEW a \in Nat, NEW b \in Int,
         c.min_fid < a, b <= c.max_fid, NEW f \in KeyFrames(c, a, b)
  PROVE  f \in a .. b /\ KeyFrameFound(str, gt, c, f)
<1>1. f \in a .. b /\ c.frames[INDEX(f)].ftype = 1
  BY DEF KeyFrames
<1>2. c.min_fid \in Nat /\ c.max_fid \in Nat /\ c.max_fid <= Len(str) /\ Len(str) \in Nat
  BY DEF CacheFits, Cache, StreamFits
<1>3. f \in c.min_fid + 1 .. c.max_fid /\ INDEX(f) \in Slots /\ f \in 1 .. Len(str)
  BY <1>1, <1>2, IndexInSlots
<1>4. Occupied(c, INDEX(f))
  BY <1>1, <1>3 DEF CacheFits, SlotFits
<1>5. c.frames[INDEX(f)].fid = f
  BY <1>3, <1>4, InItsSlot
<1>6. /\ str[f].ftype = 1
      /\ \E s \in c.frames[INDEX(f)].segments : s \in SegmentsOf(str, f) /\ s.packet_id \in gt
  BY <1>1, <1>3, <1>4, <1>5 DEF CacheFits, SlotFits
<1>7. PICK s \in SegmentsOf(str, f) : s.packet_id \in gt
  BY <1>6
<1>8. ASSUME NEW g \in 0 .. f - 1 PROVE LastOf(str, g) < s.packet_id
  <2>1. s.packet_id >= str[f].first /\ s.packet_id \in Nat /\ str[f].first \in Nat
    BY <1>3, <1>7, SegmentFits, FrameOfStream
  <2>2. g \in 0 .. Len(str) /\ f \in 0 .. Len(str) /\ g < f
    BY <1>2, <1>3
  <2> QED BY <2>1, <2>2, LastOfRises
<1> QED BY <1>1, <1>4, <1>6, <1>7, <1>8 DEF KeyFrameFound

(* Where giving up frames leaves off, a key frame is next.                  *)
GivenUp(str, gt, c, d) ==
  /\ c.min_fid < d.min_fid
  /\ d.min_fid + 1 <= d.max_fid
  /\ str[d.min_fid + 1].ftype = 1
  /\ \E p \in gt : LastOf(str, d.min_fid) < p

LEMMA GopFits ==
  ASSUME NEW str, StreamFits(str), NEW gt, gt \subseteq Nat, NEW c, CacheFits(str, gt, c), NEW d, d = evict_gop_frame(c)
  PROVE  /\ CacheFits(str, gt, d)
         /\ d.max_fid = c.max_fid /\ c.min_seq <= d.min_seq
         /\ d = c \/ GivenUp(str, gt, c, d)
<1> DEFINE keys == KeyFrames(c, c.min_fid + 2, c.max_fid - 1)
           key  == Least(keys)
           e    == CleanFrames(c, c.min_fid + 1, key - 1)
<1>1. d = IF keys = {} THEN c ELSE [e EXCEPT !.min_fid = key - 1]
  BY DEF evict_gop_frame
<1>2. c \in Cache /\ c.min_fid \in Nat /\ c.max_fid \in Nat /\ c.min_seq \in Nat /\ Len(str) \in Nat /\ c.max_fid <= Len(str)
  BY DEF CacheFits, Cache, StreamFits
<1>3. CASE keys = {}
  BY <1>1, <1>2, <1>3
<1>4. CASE keys # {}
  <2>1. keys \subseteq Nat
    BY <1>2 DEF KeyFrames
  <2>2. key \in keys
    <3> HIDE DEF keys
    <3> QED BY <1>4, <2>1, LeastIsLeast
  <2> HIDE DEF key
  <2>3. /\ key \in c.min_fid + 2 .. c.max_fid - 1 /\ Occupied(c, INDEX(key)) /\ str[key].ftype = 1
        /\ \E p \in gt : \A g \in 0 .. key - 1 : LastOf(str, g) < p
    <3>1. /\ c.min_fid + 2 \in Nat /\ c.max_fid - 1 \in Int /\ c.min_fid < c.min_fid + 2 /\ c.max_fid - 1 <= c.max_fid
          /\ key \in KeyFrames(c, c.min_fid + 2, c.max_fid - 1)
      BY <1>2, <2>2
    <3> DEFINE a == c.min_fid + 2
               b == c.max_fid - 1
    <3>2. a \in Nat /\ b \in Int /\ c.min_fid < a /\ b <= c.max_fid /\ key \in KeyFrames(c, a, b)
      BY <3>1
    <3> HIDE DEF keys, a, b
    <3>3. key \in a .. b /\ KeyFrameFound(str, gt, c, key)
      BY <3>2, KeyFrameHeld
    <3> QED BY <3>3 DEF a, b, KeyFrameFound
  <2>4. key - 1 \in Int /\ key - 1 <= c.max_fid /\ key \in Nat /\ key - 1 \in Nat
    <3>1. key \in c.min_fid + 2 .. c.max_fid - 1 /\ c.min_fid \in Nat /\ c.max_fid \in Nat
      BY <1>2, <2>3
    <3> HIDE DEF e, keys
    <3> QED BY <3>1
  <2>5. /\ CacheFits(str, gt, e) /\ e.max_fid = c.max_fid /\ c.min_seq <= e.min_seq
        /\ e.min_fid = c.min_fid \/ e.min_fid \in c.min_fid + 1 .. key - 1
        /\ \A i \in Slots : Occupied(e, i) => e.frames[i].fid > key - 1
    BY <2>4, CleanFits
  <2> HIDE DEF e, keys
  <2>6. e \in Cache /\ e.min_fid \in Nat /\ e.max_fid \in Nat /\ e.min_seq \in Nat /\ e.min_fid <= key - 1
    <3>1. e \in Cache
      BY <2>5 DEF CacheFits
    <3>2. e.min_fid \in Nat /\ e.max_fid \in Nat /\ e.min_seq \in Nat
      BY <3>1 DEF Cache
    <3>3. e.min_fid <= key - 1
      BY <1>2, <2>3, <2>5, <3>2
    <3> QED BY <3>1, <3>2, <3>3
  <2>7. d = [e EXCEPT !.min_fid = key - 1]
    BY <1>1, <1>4
  <2>8. d \in Cache /\ d.min_fid = key - 1 /\ d.max_fid = e.max_fid /\ d.min_seq = e.min_seq /\ d.frames = e.frames
    BY <2>4, <2>6, <2>7 DEF Cache
  <2>9. ASSUME NEW i \in Slots PROVE SlotFits(str, gt, d, i)
    <3>1. SlotFits(str, gt, e, i)
      BY <2>5 DEF CacheFits
    <3>2. e.frames[i].fid \in Nat
      BY <2>6 DEF Cache, Frame
    <3>3. CASE Occupied(e, i)
      <4>1. e.frames[i].fid > key - 1
        BY <2>5, <3>3
      <4> QED BY <2>4, <2>6, <2>8, <3>1, <3>2, <3>3, <4>1 DEF SlotFits, Occupied
    <3>4. CASE ~Occupied(e, i)
      BY <2>4, <2>6, <2>8, <3>1, <3>2, <3>4 DEF SlotFits, Occupied
    <3> QED BY <3>3, <3>4
  <2>10. d.min_fid <= d.max_fid /\ d.max_fid <= Len(str) /\ d.max_fid <= d.min_fid + CacheSize
    <3>1. key <= c.max_fid - 1 /\ c.max_fid \in Nat /\ c.max_fid <= Len(str) /\ Len(str) \in Nat
      BY <1>2, <2>3
    <3>2. e.max_fid = c.max_fid /\ e.max_fid <= e.min_fid + CacheSize /\ CacheSize \in Nat
      BY <2>5, RingAssumption DEF CacheFits
    <3> QED BY <2>4, <2>6, <2>8, <3>1, <3>2
  <2>11. d.min_seq <= LastOf(str, d.min_fid)
    <3>1. e.min_seq <= LastOf(str, e.min_fid)
      BY <2>5 DEF CacheFits
    <3>2. e.min_fid \in 0 .. Len(str) /\ key - 1 \in 0 .. Len(str) /\ key - 1 \in 1 .. Len(str)
      <4>1. key \in c.min_fid + 2 .. c.max_fid - 1 /\ c.min_fid \in Nat /\ c.max_fid \in Nat /\ c.max_fid <= Len(str)
        BY <1>2, <2>3
      <4>2. Len(str) \in Nat /\ e.min_fid \in Nat /\ e.min_fid <= key - 1
        BY <1>2, <2>6
      <4>3. key - 1 \in 1 .. Len(str)
        BY <4>1, <4>2
      <4> QED BY <4>2, <4>3
    <3>3. LastOf(str, key - 1) \in Nat
      BY <3>2, FrameOfStream
    <3>4. CASE e.min_fid = key - 1
      BY <2>8, <3>1, <3>4
    <3>5. CASE e.min_fid < key - 1
      <4>1. LastOf(str, e.min_fid) \in Nat /\ LastOf(str, e.min_fid) < LastOf(str, key - 1)
        BY <3>2, <3>5, LastOfRises
      <4> QED BY <2>6, <2>8, <3>1, <3>3, <4>1
    <3> QED BY <2>4, <2>6, <3>4, <3>5
  <2>12. GivenUp(str, gt, c, d)
    <3>1. c.min_fid < d.min_fid /\ d.min_fid + 1 = key /\ key <= d.max_fid /\ d.min_fid \in 0 .. key - 1
      <4>1. key \in c.min_fid + 2 .. c.max_fid - 1 /\ c.min_fid \in Nat /\ c.max_fid \in Nat
        BY <1>2, <2>3
      <4>2. d.min_fid = key - 1 /\ d.max_fid = c.max_fid
        BY <2>5, <2>8
      <4> QED BY <4>1, <4>2
    <3> QED BY <2>3, <3>1 DEF GivenUp
  <2> QED BY <2>5, <2>8, <2>9, <2>10, <2>11, <2>12 DEF CacheFits
<1> QED BY <1>3, <1>4

(* A frame with as many segments as it has is there to its last packet.     *)
LEMMA WholeFrame ==
  ASSUME NEW str, StreamFits(str), NEW f \in 1 .. Len(str),
         NEW S, S \subseteq SegmentsOf(str, f), \A s, u \in S : s.index = u.index => s = u,
         Cardinality(S) = str[f].total
  PROVE  \E s \in S : s.packet_id = LastOf(str, f)
<1> DEFINE n == str[f].total
           I == 0 .. n - 1
           J == {s.index : s \in S}
           h == [i \in J |-> CHOOSE s \in S : s.index = i]
<1>1. n \in Nat \ {0} /\ str[f].first \in Nat
  BY FrameOfStream
<1>2. IsFiniteSet(I) /\ Cardinality(I) = n
  <2> HIDE DEF n
  <2>1. 0 \in Int /\ n - 1 \in Int /\ ~(0 > n - 1) /\ (n - 1) - 0 + 1 = n
    BY <1>1
  <2> QED BY <2>1, FS_Interval
<1>3. J \subseteq I
  BY SegmentFits
<1>4. h \in Bijection(J, S)
  <2>1. \A i \in J : h[i] \in S /\ h[i].index = i
    OBVIOUS
  <2>2. h \in [J -> S] /\ \A i, j \in J : h[i] = h[j] => i = j
    BY <2>1
  <2>3. \A s \in S : s.index \in J /\ h[s.index] = s
    BY <2>1
  <2> HIDE DEF h, J
  <2> QED BY <2>2, <2>3 DEF Bijection, Injection, Surjection, IsInjective
<1>5. Cardinality(J) = n
  <2>1. IsFiniteSet(J)
    <3> HIDE DEF I, J
    <3> QED BY <1>2, <1>3, FS_Subset
  <2>2. ExistsBijection(J, S)
    BY <1>4 DEF ExistsBijection
  <2> HIDE DEF J, n
  <2>3. Cardinality(J) = Cardinality(S)
    BY <2>1, <2>2, FS_Bijection
  <2> QED BY <2>3 DEF n
<1>6. J = I
  <2> HIDE DEF I, J
  <2> QED BY <1>2, <1>3, <1>5, FS_Subset
<1>7. n - 1 \in J
  <2> HIDE DEF J
  <2> QED BY <1>1, <1>6
<1>8. PICK s \in S : s.index = n - 1
  BY <1>7
<1>9. s.packet_id = str[f].first + s.index
  BY SegmentFits
<1> QED BY <1>1, <1>8, <1>9, FrameOfStream

(* What the player may be given of a ring c: the next frame of it or, when  *)
(* frames are given up, a key frame; and all of it.                         *)
Given(str, gt, c, x) ==
  LET f == x.frame.fid
  IN  /\ x.frame = [fid |-> f, segments |-> str[f].total]
      /\ f = x.cache.min_fid /\ f \in c.min_fid + 1 .. Len(str)
      /\ f = c.min_fid + 1 \/ str[f].ftype = 1
      /\ LastOf(str, f) \in gt

LEMMA TakenFits ==
  ASSUME NEW str, StreamFits(str), NEW gt, gt \subseteq Nat, NEW c, CacheFits(str, gt, c), c.min_fid < c.max_fid,
         NEW x \in Taken(c)
  PROVE  /\ CacheFits(str, gt, x.cache)
         /\ x.cache.max_fid = c.max_fid /\ c.min_seq <= x.cache.min_seq
         /\ \/ x.frame = NotPlayed /\ x.cache = c
            \/ Given(str, gt, c, x) /\ x.frame.fid = c.min_fid + 1
<1> DEFINE next  == c.min_fid + 1
           frame == c.frames[INDEX(next)]
           d     == CleanFrames(c, next, next)
<1>1. c \in Cache /\ c.min_fid \in Nat /\ c.max_fid \in Nat /\ c.min_seq \in Nat /\ Len(str) \in Nat /\ c.max_fid <= Len(str)
  BY DEF CacheFits, Cache, StreamFits
<1>2. next \in c.min_fid + 1 .. c.max_fid /\ INDEX(next) \in Slots /\ next \in 1 .. Len(str) /\ next \in Int
  BY <1>1, IndexInSlots
<1>3. CASE x = [cache |-> c, frame |-> NotPlayed]
  BY <1>1, <1>3
<1>4. CASE Playable(c) /\ x = [cache |-> d, frame |-> [fid |-> frame.fid, segments |-> Cardinality(frame.segments)]]
  <2>1. /\ SlotFits(str, gt, c, INDEX(next))
        /\ frame.fid = next \/ frame.ftype = 1
        /\ Cardinality(frame.segments) = frame.seg_number
    BY <1>2, <1>4 DEF Playable, real_video_cache_check_frame_full, CacheFits
  <2>2. Occupied(c, INDEX(next))
    BY <1>1, <2>1 DEF SlotFits
  <2>3. frame.fid = next
    BY <1>2, <2>2, InItsSlot
  <2>4. /\ frame.seg_number = str[next].total /\ frame.segments \subseteq SegmentsOf(str, next)
        /\ \A s \in frame.segments : s.packet_id \in gt
        /\ \A s, u \in frame.segments : s.index = u.index => s = u
    BY <2>1, <2>2, <2>3 DEF SlotFits
  <2>5. LastOf(str, next) \in gt
    <3>1. \E s \in frame.segments : s.packet_id = LastOf(str, next)
      BY <1>2, <2>1, <2>4, WholeFrame
    <3> QED BY <2>4, <3>1
  <2> HIDE DEF d, frame
  <2>6. /\ CacheFits(str, gt, d) /\ d.max_fid = c.max_fid /\ c.min_seq <= d.min_seq
        /\ d.min_fid = c.min_fid \/ d.min_fid \in next .. next
        /\ frame.fid \in next .. next => frame.fid <= d.min_fid
    BY <1>1, <1>2, <2>2, CleanFits DEF d, frame
  <2>7. d.min_fid = next
    BY <1>1, <2>3, <2>6
  <2>8. x.cache = d /\ x.frame = [fid |-> next, segments |-> str[next].total]
    BY <1>4, <2>1, <2>3, <2>4
  <2> QED BY <1>2, <2>5, <2>6, <2>7, <2>8 DEF Given
<1>5. \/ x = [cache |-> c, frame |-> NotPlayed]
      \/ Playable(c) /\ x = [cache |-> d, frame |-> [fid |-> frame.fid, segments |-> Cardinality(frame.segments)]]
  BY DEF Taken
<1> QED BY <1>3, <1>4, <1>5

LEMMA GetFits ==
  ASSUME NEW str, StreamFits(str), NEW gt, gt \subseteq Nat, NEW c, CacheFits(str, gt, c), NEW x \in real_video_cache_get(c)
  PROVE  /\ CacheFits(str, gt, x.cache)
         /\ x.cache.max_fid = c.max_fid /\ c.min_seq <= x.cache.min_seq
         /\ \/ x.frame = NotPlayed /\ (x.cache.min_fid = c.min_fid \/ GivenUp(str, gt, c, x.cache))
            \/ Given(str, gt, c, x)
<1> DEFINE d == [c EXCEPT !.playing = TRUE]
<1>1. c \in Cache /\ c.min_fid \in Nat /\ c.max_fid \in Nat /\ c.min_seq \in Nat /\ c.min_fid <= c.max_fid
  BY DEF CacheFits, Cache
<1>2. /\ d \in Cache /\ d.min_fid = c.min_fid /\ d.max_fid = c.max_fid /\ d.min_seq = c.min_seq /\ d.frames = c.frames
  BY <1>1 DEF Cache
<1> HIDE DEF d
<1>3. CacheFits(str, gt, d)
  BY <1>2 DEF CacheFits, SlotFits, Occupied
<1>4. CASE x = [cache |-> d, frame |-> NotPlayed]
  BY <1>1, <1>2, <1>3, <1>4
<1>5. ASSUME d.min_fid # d.max_fid, NEW e \in Unstalled(d), x \in Taken(e)
      PROVE  /\ CacheFits(str, gt, x.cache)
             /\ x.cache.max_fid = c.max_fid /\ c.min_seq <= x.cache.min_seq
             /\ \/ x.frame = NotPlayed /\ (x.cache.min_fid = c.min_fid \/ GivenUp(str, gt, c, x.cache))
                \/ Given(str, gt, c, x)
  <2>1. e = d \/ e = evict_gop_frame(d)
    BY <1>5 DEF Unstalled
  <2>2. /\ CacheFits(str, gt, e) /\ e.max_fid = d.max_fid /\ d.min_seq <= e.min_seq
        /\ e = d \/ GivenUp(str, gt, d, e)
    <3>1. CASE e = d
      BY <1>1, <1>2, <1>3, <3>1
    <3>2. CASE e = evict_gop_frame(d)
      BY <1>3, <3>2, GopFits
    <3> QED BY <2>1, <3>1, <3>2
  <2>3. e \in Cache /\ e.min_fid \in Nat /\ e.min_seq \in Nat /\ e.max_fid \in Nat /\ e.min_fid < e.max_fid
    <3>1. e \in Cache /\ e.min_fid \in Nat /\ e.min_seq \in Nat /\ e.max_fid \in Nat
      BY <2>2 DEF CacheFits, Cache
    <3>2. CASE e = d
      BY <1>1, <1>2, <1>5, <2>2, <3>1, <3>2
    <3>3. CASE GivenUp(str, gt, d, e)
      BY <3>1, <3>3 DEF GivenUp
    <3> QED BY <2>2, <3>1, <3>2, <3>3
  <2>4. /\ CacheFits(str, gt, x.cache)
        /\ x.cache.max_fid = e.max_fid /\ e.min_seq <= x.cache.min_seq
        /\ \/ x.frame = NotPlayed /\ x.cache = e
           \/ Given(str, gt, e, x) /\ x.frame.fid = e.min_fid + 1
    BY <1>5, <2>2, <2>3, TakenFits
  <2>5. x.cache.max_fid = c.max_fid /\ c.min_seq <= x.cache.min_seq
    <3>1. x.cache.min_seq \in Nat
      BY <2>4 DEF CacheFits, Cache
    <3> QED BY <1>1, <1>2, <2>2, <2>3, <2>4, <3>1
  <2>6. CASE x.frame = NotPlayed /\ x.cache = e
    <3>1. CASE e = d
      BY <1>2, <2>4, <2>5, <2>6, <3>1
    <3>2. CASE GivenUp(str, gt, d, e)
      BY <1>2, <2>4, <2>5, <2>6, <3>2 DEF GivenUp
    <3> QED BY <2>2, <3>1, <3>2
  <2>7. CASE Given(str, gt, e, x) /\ x.frame.fid = e.min_fid + 1
    <3>1. CASE e = d
      BY <1>2, <2>4, <2>5, <2>7, <3>1 DEF Given
    <3>2. CASE GivenUp(str, gt, d, e)
      <4>1. str[x.frame.fid].ftype = 1 /\ c.min_fid < e.min_fid
        BY <1>2, <2>7, <3>2 DEF GivenUp
      <4>2. x.frame.fid \in e.min_fid + 1 .. Len(str) /\ Len(str) \in Nat
        BY <2>7 DEF Given, StreamFits
      <4>3. x.frame.fid \in c.min_fid + 1 .. Len(str)
        BY <1>1, <2>3, <4>1, <4>2
      <4>4. Given(str, gt, c, x)
        BY <2>7, <4>1, <4>3 DEF Given
      <4> QED BY <2>4, <2>5, <4>4
    <3> QED BY <2>2, <3>1, <3>2
  <2> QED BY <2>4, <2>6, <2>7
<1>6. x = [cache |-> d, frame |-> NotPlayed] \/ (d.min_fid # d.max_fid /\ \E e \in Unstalled(d) : x \in Taken(e))
  <2>1. x \in IF ~MayPlay(c) THEN {}
              ELSE IF d.min_fid = d.max_fid THEN {[cache |-> d, frame |-> NotPlayed]}
              ELSE UNION {Taken(e) : e \in Unstalled(d)}
    BY DEF real_video_cache_get, d
  <2> QED BY <2>1
<1> QED BY <1>4, <1>5, <1>6

-----------------------------------------------------------------------------
LEMMA HadGrows ==
  ASSUME NEW str, NEW gt, NEW hd, gt \subseteq hd, NEW c, CacheFits(str, gt, c)
  PROVE  CacheFits(str, hd, c)
BY DEF CacheFits, SlotFits

(* The slot of a frame that is new is free.                                 *)
LEMMA SlotFree ==
  ASSUME NEW str, StreamFits(str), NEW gt, NEW c, CacheFits(str, gt, c),
         NEW fid \in Nat, c.max_fid < fid, fid <= c.min_fid + CacheSize \/ c.max_fid = 0
  PROVE  ~Occupied(c, INDEX(fid))
<1> SUFFICES ASSUME Occupied(c, INDEX(fid)) PROVE FALSE
  OBVIOUS
<1> DEFINE g == c.frames[INDEX(fid)].fid
<1>1. c.min_fid \in Nat /\ c.max_fid \in Nat /\ CacheSize \in Nat
  BY RingAssumption DEF CacheFits, Cache
<1>2. INDEX(fid) \in Slots
  BY IndexInSlots
<1>3. g \in c.min_fid + 1 .. c.max_fid /\ INDEX(g) = INDEX(fid)
  BY <1>2, HeldFits
<1> HIDE DEF g
<1>4. g \in Int /\ g <= fid /\ fid < g + CacheSize
  BY <1>1, <1>3
<1>5. g = fid
  BY <1>3, <1>4, SlotsApart
<1> QED BY <1>1, <1>3, <1>5

LEMMA AdvancedFits ==
  ASSUME NEW str, StreamFits(str), NEW gt, NEW c, CacheFits(str, gt, c),
         NEW seg \in Segment, seg.fid \in 1 .. Len(str), c.max_fid < seg.fid,
         c.max_fid # 0 => seg.fid < c.min_fid + CacheSize,
         NEW d, d = Advanced(c, seg)
  PROVE  /\ CacheFits(str, gt, d)
         /\ d.max_fid = seg.fid /\ d.frames = c.frames /\ d.min_seq = c.min_seq
         /\ d.min_fid = IF c.max_fid = 0 THEN seg.fid - 1 ELSE c.min_fid
<1>1. /\ c \in Cache /\ c.min_fid \in Nat /\ c.max_fid \in Nat /\ c.min_seq \in Nat /\ c.min_fid <= c.max_fid
      /\ CacheSize \in Nat \ {0} /\ Len(str) \in Nat
      /\ c.min_seq <= LastOf(str, c.min_fid)
  BY RingAssumption DEF CacheFits, Cache, StreamFits
<1>2. seg.fid \in Nat /\ seg.timestamp \in Nat
  BY DEF Segment
<1> DEFINE ready == IF c.max_fid = 0 THEN [c EXCEPT !.min_fid = seg.fid - 1, !.play_frame_ts = seg.timestamp] ELSE c
<1>3. d = [ready EXCEPT !.max_ts = seg.timestamp, !.max_fid = seg.fid]
  <2> DEFINE room == IF c.max_fid > 0
                       THEN real_video_evict_frame(c, seg.fid)
                       ELSE IF c.min_fid = 0 THEN [c EXCEPT !.min_fid = seg.fid - 1, !.play_frame_ts = seg.timestamp] ELSE c
  <2>0. d = [room EXCEPT !.max_ts = seg.timestamp, !.max_fid = seg.fid]
    BY Zenon DEF Advanced
  <2> SUFFICES room = ready
    BY Zenon, <2>0
  <2>1. CASE c.max_fid = 0
    <3>1. ~(c.max_fid > 0) /\ c.min_fid = 0
      BY <1>1, <2>1
    <3> QED BY Zenon, <2>1, <3>1
  <2>2. CASE c.max_fid # 0
    <3>1. real_video_evict_frame(c, seg.fid) = c
      <4> DEFINE held == {f \in c.max_fid + 1 .. seg.fid : f < c.max_fid + 1 + CacheSize /\ Occupied(c, INDEX(f))}
      <4>1. held = {}
        <5> SUFFICES ASSUME NEW f \in held PROVE FALSE
          OBVIOUS
        <5>1. f \in Nat /\ c.max_fid < f /\ f <= c.min_fid + CacheSize /\ Occupied(c, INDEX(f))
          BY <1>1, <1>2, <2>2
        <5> QED BY <5>1, SlotFree
      <4>2. CleanFrames(c, c.max_fid + 1, seg.fid) = c
        BY <4>1 DEF CleanFrames
      <4> QED BY <2>2, <4>2 DEF real_video_evict_frame
    <3>2. c.max_fid > 0
      BY <1>1, <2>2
    <3> QED BY Zenon, <2>2, <3>1, <3>2
  <2> QED BY <2>1, <2>2
<1>4. ready \in Cache /\ ready.min_seq = c.min_seq /\ ready.frames = c.frames
      /\ ready.min_fid = IF c.max_fid = 0 THEN seg.fid - 1 ELSE c.min_fid
  <2>1. CASE c.max_fid = 0
    <3> DEFINE e == [c EXCEPT !.min_fid = seg.fid - 1]
    <3>1. seg.fid - 1 \in Nat
      BY <1>2
    <3>2. e \in Cache /\ e.min_seq = c.min_seq /\ e.frames = c.frames /\ e.min_fid = seg.fid - 1
      BY <1>1, <3>1 DEF Cache
    <3>3. ready = [e EXCEPT !.play_frame_ts = seg.timestamp]
      BY <2>1
    <3> HIDE DEF e, ready
    <3> QED BY <1>2, <2>1, <3>2, <3>3 DEF Cache
  <2>2. CASE c.max_fid # 0
    BY <1>1, <2>2
  <2> QED BY <2>1, <2>2
<1> HIDE DEF ready
<1>5. d \in Cache /\ d.max_fid = seg.fid /\ d.frames = c.frames /\ d.min_seq = c.min_seq /\ d.min_fid = ready.min_fid
  <2> DEFINE e == [ready EXCEPT !.max_ts = seg.timestamp]
  <2>1. e \in Cache /\ e.min_seq = c.min_seq /\ e.frames = c.frames /\ e.min_fid = ready.min_fid
    BY <1>2, <1>4 DEF Cache
  <2>2. d = [e EXCEPT !.max_fid = seg.fid]
    BY <1>3
  <2> HIDE DEF e
  <2> QED BY <1>2, <2>1, <2>2 DEF Cache
<1>6. d.min_fid \in Nat /\ d.min_fid <= seg.fid /\ seg.fid <= Len(str) /\ seg.fid <= d.min_fid + CacheSize /\ c.min_fid <= d.min_fid
  BY <1>1, <1>2, <1>4, <1>5
<1>7. d.min_seq <= LastOf(str, d.min_fid)
  <2>1. CASE c.max_fid = 0
    <3>1. c.min_seq = 0
      BY <1>1, <2>1 DEF LastOf
    <3>2. d.min_fid = 0 \/ d.min_fid \in 1 .. Len(str)
      BY <1>1, <1>6
    <3>3. LastOf(str, d.min_fid) \in Nat
      BY <3>2, FrameOfStream DEF LastOf
    <3> QED BY <1>5, <3>1, <3>3
  <2>2. CASE c.max_fid # 0
    BY <1>1, <1>4, <1>5, <2>2
  <2> QED BY <2>1, <2>2
<1>8. ASSUME NEW i \in Slots PROVE SlotFits(str, gt, d, i)
  <2>1. SlotFits(str, gt, c, i) /\ c.frames[i].fid \in Nat
    BY DEF CacheFits, Cache, Frame
  <2>2. CASE Occupied(c, i)
    <3>1. c.frames[i].fid \in c.min_fid + 1 .. c.max_fid
      BY <2>2, HeldFits
    <3>2. c.max_fid # 0 /\ c.frames[i].fid \in d.min_fid + 1 .. d.max_fid
      BY <1>1, <1>2, <1>4, <1>5, <3>1
    <3> QED BY <1>5, <2>1, <2>2, <3>2 DEF SlotFits, Occupied
  <2>3. CASE ~Occupied(c, i)
    BY <1>1, <1>5, <1>6, <2>1, <2>3 DEF SlotFits, Occupied
  <2> QED BY <2>2, <2>3
<1> QED BY <1>4, <1>5, <1>6, <1>7, <1>8 DEF CacheFits

(* What a put makes of a ring.                                              *)
PutInSlot(str, gt, c, seg, d) ==
  /\ CacheFits(str, gt \cup {seg.packet_id}, d)
  /\ d.min_seq = c.min_seq
  /\ Expired(c, seg) => d = c /\ ~PutAccepted(c, seg)
  /\ ~Expired(c, seg) => /\ d.max_fid = IF seg.fid > c.max_fid THEN seg.fid ELSE c.max_fid
                         /\ d.min_fid = IF c.max_fid = 0 THEN seg.fid - 1 ELSE c.min_fid
  /\ ~Expired(c, seg) /\ ~PutAccepted(c, seg) => seg.packet_id \in gt /\ seg.fid <= c.max_fid

(* A ring with another frame in a slot is the same ring otherwise.          *)
RingWith(c, i, frame) == [c EXCEPT !.frames[i] = frame]

LEMMA SlotSet ==
  ASSUME NEW e \in Cache, NEW i \in Slots, NEW new \in Frame
  PROVE  /\ RingWith(e, i, new) \in Cache /\ RingWith(e, i, new).frames = [e.frames EXCEPT ![i] = new]
         /\ RingWith(e, i, new).min_fid = e.min_fid /\ RingWith(e, i, new).max_fid = e.max_fid
         /\ RingWith(e, i, new).min_seq = e.min_seq
<1> DEFINE frames == [e.frames EXCEPT ![i] = new]
           d == RingWith(e, i, new)
<1>1. frames \in [Slots -> Frame]
  BY DEF Cache
<1>2. d = [e EXCEPT !.frames = frames]
  BY DEF RingWith
<1> HIDE DEF frames, d
<1>3. /\ d \in Cache /\ d.frames = frames /\ d.min_fid = e.min_fid /\ d.max_fid = e.max_fid
      /\ d.min_seq = e.min_seq
  BY <1>1, <1>2 DEF Cache
<1> QED BY <1>3 DEF frames, d

(* A segment put into its slot.                                             *)
LEMMA PutFits ==
  ASSUME NEW str, StreamFits(str), NEW gt, NEW c, CacheFits(str, gt, c),
         NEW seg, seg.fid \in 1 .. Len(str), seg \in SegmentsOf(str, seg.fid),
         c.max_fid # 0 => seg.fid < c.min_fid + CacheSize,
         NEW d, d = real_video_cache_put(c, seg)
  PROVE  PutInSlot(str, gt, c, seg, d)
<1> USE DEF PutInSlot
<1> DEFINE hd == gt \cup {seg.packet_id}
           i  == INDEX(seg.fid)
           e  == IF seg.fid > c.max_fid THEN Advanced(c, seg) ELSE c
           new == Filled(e.frames[i], seg)
<1>1. c \in Cache /\ c.min_fid \in Nat /\ c.max_fid \in Nat /\ c.min_fid <= c.max_fid /\ CacheFits(str, hd, c)
  BY HadGrows DEF CacheFits, Cache
<1>2. /\ seg \in Segment /\ seg.index \in 0 .. str[seg.fid].total - 1 /\ seg.total = str[seg.fid].total
      /\ seg.ftype = str[seg.fid].ftype /\ seg.fid \in Nat /\ i \in Slots /\ str[seg.fid].total \in Nat \ {0}
      /\ seg.packet_id = str[seg.fid].first + seg.index /\ seg.timestamp \in Nat /\ seg.ftype \in {0, 1}
      /\ seg.packet_id \in hd /\ Len(str) \in Nat /\ seg.fid <= Len(str)
  BY SegmentFits, FrameOfStream, IndexInSlots DEF Segment, StreamFits
<1>3. CASE Expired(c, seg)
  <2>1. d = c /\ ~PutAccepted(c, seg)
    BY <1>3 DEF real_video_cache_put, PutAccepted
  <2> QED BY <1>1, <1>3, <2>1
<1>4. CASE ~Expired(c, seg)
  <2>1. d = [e EXCEPT !.frames[i] = new]
    BY Zenon, <1>4 DEF real_video_cache_put
  <2>2. PutAccepted(c, seg) <=> ~ \E s \in e.frames[i].segments : e.frames[i].seg_number # 0 /\ s.index = seg.index
    BY Zenon, <1>4 DEF PutAccepted
  <2>3. c.min_fid < seg.fid
    BY <1>1, <1>2, <1>4 DEF Expired
  <2>4. /\ CacheFits(str, hd, e) /\ e.frames = c.frames /\ e.min_seq = c.min_seq
        /\ e.max_fid = IF seg.fid > c.max_fid THEN seg.fid ELSE c.max_fid
        /\ e.min_fid = IF c.max_fid = 0 THEN seg.fid - 1 ELSE c.min_fid
    <3>1. CASE seg.fid > c.max_fid
      BY <1>1, <1>2, <3>1, AdvancedFits
    <3>2. CASE ~(seg.fid > c.max_fid)
      <4>1. c.max_fid # 0
        BY <1>1, <1>2, <3>2
      <4> QED BY <1>1, <3>2, <4>1
    <3> QED BY <3>1, <3>2
  <2> HIDE DEF e
  <2>5. /\ e \in Cache /\ e.frames \in [Slots -> Frame] /\ e.min_fid \in Nat /\ e.max_fid \in Nat
        /\ seg.fid \in e.min_fid + 1 .. e.max_fid
    <3>1. e \in Cache /\ e.frames \in [Slots -> Frame] /\ e.min_fid \in Nat /\ e.max_fid \in Nat
      BY <2>4 DEF CacheFits, Cache
    <3> QED BY <1>1, <1>2, <2>3, <2>4, <3>1
  <2>6. CASE ~Occupied(e, i)
    <3>1. e.frames[i].seg_number = 0
      BY <2>6 DEF Occupied
    <3>2. /\ new.fid = seg.fid /\ new.seg_number = seg.total /\ new.ftype = seg.ftype /\ new.segments = {seg}
          /\ new \in Frame
      BY <1>2, <3>1 DEF Filled, Frame
    <3>3. PutAccepted(c, seg)
      BY <2>2, <3>1
    <3> HIDE DEF new, i
    <3>4. d \in Cache /\ d.frames = [e.frames EXCEPT ![i] = new] /\ d.min_fid = e.min_fid /\ d.max_fid = e.max_fid
          /\ d.min_seq = e.min_seq
      <4>1. e \in Cache /\ i \in Slots /\ new \in Frame
        BY <1>2, <2>5, <3>2
      <4>2. d = RingWith(e, i, new)
        BY <2>1 DEF RingWith
      <4> QED BY <4>1, <4>2, SlotSet
    <3>5. ASSUME NEW j \in Slots PROVE SlotFits(str, hd, d, j)
      <4>1. CASE j = i
        <5>1. d.frames[j] = new
          BY <1>2, <2>5, <3>4, <4>1
        <5> QED BY <1>2, <2>5, <3>2, <3>4, <4>1, <5>1 DEF SlotFits, Occupied, i
      <4>2. CASE j # i
        <5>1. d.frames[j] = e.frames[j] /\ SlotFits(str, hd, e, j)
          BY <2>4, <2>5, <3>4, <4>2 DEF CacheFits
        <5> QED BY <3>4, <5>1 DEF SlotFits, Occupied
      <4> QED BY <4>1, <4>2
    <3>6. CacheFits(str, hd, d)
      BY <2>4, <3>4, <3>5 DEF CacheFits
    <3> QED BY <1>4, <2>4, <3>3, <3>4, <3>6
  <2>7. CASE Occupied(e, i)
    <3> DEFINE old == e.frames[i]
    <3>1. old.fid = seg.fid /\ SlotFits(str, hd, e, i) /\ old \in Frame
      <4>1. old.fid = seg.fid
        <5> HIDE DEF hd
        <5> QED BY <2>4, <2>5, <2>7, InItsSlot
      <4>2. SlotFits(str, hd, e, i) /\ old \in Frame
        BY <1>2, <2>4, <2>5 DEF CacheFits
      <4> QED BY <4>1, <4>2
    <3>2. /\ old.seg_number = str[seg.fid].total /\ old.segments # {} /\ old.segments \subseteq SegmentsOf(str, seg.fid)
          /\ old.ftype = str[seg.fid].ftype /\ \A s \in old.segments : s.packet_id \in hd
          /\ \A s, u \in old.segments : s.index = u.index => s = u
      BY <2>7, <3>1 DEF SlotFits
    <3>3. old.seg_number # 0
      BY <2>7 DEF Occupied
    <3>4. /\ new.fid = seg.fid /\ new.ftype = seg.ftype /\ new.seg_number = old.seg_number
          /\ new.segments = IF \E s \in old.segments : s.index = seg.index THEN old.segments
                             ELSE old.segments \cup {seg}
      BY Zenon, <3>3 DEF Filled
    <3>5. new \in Frame
      <4>1. old.segments \subseteq Segment /\ old.seg_number \in Nat
        BY <3>1 DEF Frame
      <4>2. new.segments \subseteq Segment
        BY <1>2, <3>4, <4>1
      <4> HIDE DEF old
      <4> QED BY <1>2, <3>3, <3>4, <4>1, <4>2 DEF Filled, Frame
    <3>6. ~PutAccepted(c, seg) => seg.packet_id \in gt /\ seg.fid <= c.max_fid
      <4> SUFFICES ASSUME ~PutAccepted(c, seg) PROVE seg.packet_id \in gt /\ seg.fid <= c.max_fid
        OBVIOUS
      <4>1. PICK s \in old.segments : s.index = seg.index
        BY <2>2
      <4>2. s.packet_id = seg.packet_id
        BY <1>2, <3>2, <4>1, SegmentFits
      <4>3. Occupied(c, i) /\ s \in c.frames[i].segments
        BY <2>4, <2>7, <4>1 DEF Occupied
      <4>4. s.packet_id \in gt
        BY <1>2, <4>3 DEF CacheFits, SlotFits
      <4>5. c.frames[i].fid = seg.fid /\ c.frames[i].fid \in c.min_fid + 1 .. c.max_fid
        BY <1>2, <2>4, <3>1, <4>3, HeldFits
      <4> QED BY <1>1, <1>2, <4>2, <4>4, <4>5
    <3>7. /\ new.segments # {} /\ new.segments \subseteq SegmentsOf(str, seg.fid) /\ \A s \in new.segments : s.packet_id \in hd
          /\ \A s, u \in new.segments : s.index = u.index => s = u
      <4> HIDE DEF new, i, old
      <4>1. CASE \E s \in old.segments : s.index = seg.index
        <5>1. new.segments = old.segments
          BY <3>4, <4>1
        <5> QED BY <3>2, <5>1
      <4>2. CASE ~ \E s \in old.segments : s.index = seg.index
        <5>1. new.segments = old.segments \cup {seg} /\ seg.packet_id \in hd
          BY <1>2, <3>4, <4>2
        <5> HIDE DEF hd
        <5> QED BY <3>2, <4>2, <5>1
      <4> QED BY <4>1, <4>2
    <3> HIDE DEF new, i, old
    <3>8. d \in Cache /\ d.frames = [e.frames EXCEPT ![i] = new] /\ d.min_fid = e.min_fid /\ d.max_fid = e.max_fid
          /\ d.min_seq = e.min_seq
      <4>1. e \in Cache /\ i \in Slots /\ new \in Frame
        BY <1>2, <2>5, <3>5
      <4>2. d = RingWith(e, i, new)
        BY <2>1 DEF RingWith
      <4> QED BY <4>1, <4>2, SlotSet
    <3>9. ASSUME NEW j \in Slots PROVE SlotFits(str, hd, d, j)
      <4>1. CASE j = i
        <5>1. d.frames[j] = new
          BY <1>2, <2>5, <3>8, <4>1
        <5> QED BY <1>2, <2>5, <3>2, <3>3, <3>4, <3>7, <3>8, <4>1, <5>1 DEF SlotFits, Occupied, i
      <4>2. CASE j # i
        <5>1. d.frames[j] = e.frames[j] /\ SlotFits(str, hd, e, j)
          BY <2>4, <2>5, <3>8, <4>2 DEF CacheFits
        <5> QED BY <3>8, <5>1 DEF SlotFits, Occupied
      <4> QED BY <4>1, <4>2
    <3>10. CacheFits(str, hd, d)
      BY <2>4, <3>8, <3>9 DEF CacheFits
    <3> QED BY <1>4, <2>4, <3>6, <3>8, <3>10
  <2> QED BY <2>6, <2>7
<1> QED BY <1>3, <1>4

-----------------------------------------------------------------------------
(* A FIR changes nothing that the invariant is about.                       *)
LEMMA FirFits ==
  ASSUME NEW r \in Receiver, NEW q, q = sim_receiver_send_fir(r)
  PROVE  /\ q \in Receiver /\ q.base_seq = r.base_seq /\ q.max_seq = r.max_seq /\ q.loss = r.loss
         /\ q.waived = r.waived /\ q.cache = r.cache /\ q.ackeds = r.ackeds /\ q.max_ts = r.max_ts
<1>1. CASE r.fir_recent
  BY <1>1 DEF sim_receiver_send_fir
<1>2. CASE ~r.fir_recent
  <2> DEFINE g == [r EXCEPT !.fir_seq = r.fir_seq + 1]
  <2>1. /\ g \in Receiver /\ g.base_seq = r.base_seq /\ g.max_seq = r.max_seq /\ g.loss = r.loss
        /\ g.waived = r.waived /\ g.cache = r.cache /\ g.ackeds = r.ackeds /\ g.max_ts = r.max_ts
    <3> DEFINE k == r.fir_seq + 1
    <3>1. k \in Nat
      BY DEF Receiver
    <3>2. g = [r EXCEPT !.fir_seq = k]
      OBVIOUS
    <3> HIDE DEF k, g
    <3> QED BY <3>1, <3>2 DEF Receiver
  <2>2. q = [g EXCEPT !.fir_recent = TRUE]
    BY <1>2 DEF sim_receiver_send_fir
  <2> HIDE DEF g
  <2> QED BY <2>1, <2>2 DEF Receiver
<1> QED BY <1>1, <1>2

(* The packets noted as missing when a segment comes, the first included.   *)
Newest(r, seg) == IF seg.packet_id > r.max_seq THEN seg.packet_id ELSE r.max_seq

LEMMA StartedFits ==
  ASSUME NEW str, StreamFits(str), NEW gt, NEW last, NEW r, ReceiverFits(str, gt, r, last),
         NEW seg, seg.fid \in 1 .. Len(str), seg \in SegmentsOf(str, seg.fid),
         NEW q, q = Started(r, seg)
  PROVE  /\ q \in Receiver /\ q.cache = r.cache /\ q.ackeds = r.ackeds /\ r.max_seq <= q.max_seq
         /\ PacketsKnown(gt, q, q.max_seq)
         /\ r.max_seq = 0 => q.max_seq < seg.packet_id
<1>1. r \in Receiver /\ r.max_seq \in Nat /\ PacketsKnown(gt, r, r.max_seq) /\ FreshFits(gt, r)
  BY DEF ReceiverFits, Receiver
<1>2. /\ seg.packet_id = str[seg.fid].first + seg.index /\ seg.index \in Nat /\ str[seg.fid].first \in Nat \ {0}
      /\ seg.timestamp \in Nat /\ seg.packet_id \in Nat
  BY SegmentFits, FrameOfStream DEF Segment
<1>3. CASE r.max_seq # 0
  BY <1>1, <1>3 DEF Started
<1>4. CASE r.max_seq = 0
  <2> DEFINE m == seg.packet_id - seg.index - 1
             q1 == [r EXCEPT !.max_seq = m]
             q2 == [q1 EXCEPT !.base_seq = m]
             q3 == [q2 EXCEPT !.max_ts = seg.timestamp]
  <2>1. m \in Nat /\ m < seg.packet_id /\ m + 1 = seg.packet_id - seg.index
    <3> DEFINE a == str[seg.fid].first
    <3>1. a \in Nat \ {0} /\ seg.index \in Nat /\ seg.packet_id = a + seg.index
      BY <1>2
    <3> HIDE DEF a
    <3>2. seg.packet_id - seg.index = a
      BY <3>1
    <3> QED BY <3>1, <3>2
  <2>2. q = [q3 EXCEPT !.waived = 1 .. m]
    BY <1>4 DEF Started
  <2> HIDE DEF m
  <2>3. q1 \in Receiver /\ q1.max_seq = m /\ q1.cache = r.cache /\ q1.loss = r.loss /\ q1.ackeds = r.ackeds
    BY <1>1, <2>1 DEF Receiver
  <2> HIDE DEF q1
  <2>4. q2 \in Receiver /\ q2.max_seq = m /\ q2.base_seq = m /\ q2.cache = r.cache /\ q2.loss = r.loss /\ q2.ackeds = r.ackeds
    BY <2>1, <2>3 DEF Receiver
  <2> HIDE DEF q2
  <2>5. q3 \in Receiver /\ q3.max_seq = m /\ q3.base_seq = m /\ q3.cache = r.cache /\ q3.loss = r.loss /\ q3.ackeds = r.ackeds
    BY <1>2, <2>4 DEF Receiver
  <2> HIDE DEF q3
  <2>6. /\ q \in Receiver /\ q.max_seq = m /\ q.base_seq = m /\ q.cache = r.cache /\ q.loss = r.loss /\ q.ackeds = r.ackeds
        /\ q.waived = 1 .. m
    <3> DEFINE w == 1 .. m
    <3>1. w \in SUBSET Nat
      BY <2>1
    <3>2. q = [q3 EXCEPT !.waived = w]
      BY <2>2
    <3> HIDE DEF w
    <3>3. /\ q \in Receiver /\ q.max_seq = m /\ q.base_seq = m /\ q.cache = r.cache /\ q.loss = r.loss /\ q.ackeds = r.ackeds
          /\ q.waived = w
      BY <2>5, <3>1, <3>2 DEF Receiver
    <3> QED BY <3>3 DEF w
  <2>7. gt = {} /\ r.loss = {}
    BY <1>1, <1>4 DEF PacketsKnown
  <2>8. PacketsKnown(gt, q, m)
    BY <2>1, <2>6, <2>7 DEF PacketsKnown
  <2> QED BY <1>1, <1>4, <2>1, <2>6, <2>8
<1> QED BY <1>3, <1>4

(* The same receiver but for what is missing, with its packets known to n.  *)
LossNoted(hd, r, n, q) ==
  /\ q \in Receiver /\ q.cache = r.cache /\ q.ackeds = r.ackeds /\ q.max_seq = r.max_seq
  /\ PacketsKnown(hd, q, n)

LEMMA LossFits ==
  ASSUME NEW gt, NEW r \in Receiver, PacketsKnown(gt, r, r.max_seq),
         NEW seg \in Segment, seg.packet_id # 0, NEW slow \in BOOLEAN,
         NEW q, q = sim_receiver_update_loss(r, seg, slow)
  PROVE  LossNoted(gt \cup {seg.packet_id}, r, Newest(r, seg), q)
<1> USE DEF LossNoted
<1> DEFINE id == seg.packet_id
           n  == Newest(r, seg)
           hd == gt \cup {id}
           skipped == r.max_seq + 1 .. id - 1
           missing == r.loss \ {id}
           f  == sim_receiver_send_fir(r)
<1>1. id \in Nat /\ id # 0 /\ r.max_seq \in Nat /\ r.base_seq \in Nat /\ r.loss \in SUBSET Nat /\ r.waived \in SUBSET Nat
  BY DEF Segment, Receiver
<1>2. /\ n \in Nat /\ r.max_seq <= n /\ id <= n /\ skipped \in SUBSET Nat /\ missing \in SUBSET Nat
      /\ \A p \in 1 .. n : p <= r.max_seq \/ p \in skipped \/ p = id
      /\ \A p \in skipped : p \in 1 .. n /\ p > r.max_seq /\ p # id
  BY <1>1 DEF Newest
<1> HIDE DEF id, n, skipped
<1>3. /\ gt \subseteq 1 .. r.max_seq /\ r.loss \subseteq 1 .. r.max_seq /\ r.base_seq <= r.max_seq /\ r.loss \cap gt = {}
      /\ \A p \in (1 .. r.max_seq) \ gt : p \in r.loss \/ p \in r.waived \/ p <= r.cache.min_seq
      /\ \A p \in (1 .. r.max_seq) \ gt : p <= r.base_seq => p \in r.waived \/ p <= r.cache.min_seq
  BY DEF PacketsKnown
<1>4. hd \subseteq 1 .. n
  BY <1>1, <1>2, <1>3
<1>5. ASSUME NEW p \in (1 .. n) \ hd
      PROVE  /\ p \in missing \cup skipped \/ p \in r.waived \/ p <= r.cache.min_seq
             /\ p <= r.base_seq => p \in r.waived \/ p <= r.cache.min_seq
  <2>1. CASE p <= r.max_seq
    <3>1. p \in (1 .. r.max_seq) \ gt /\ p # id
      BY <1>1, <1>2, <2>1
    <3> QED BY <1>3, <3>1
  <2>2. CASE p \in skipped
    BY <1>1, <1>2, <1>3, <2>2
  <2> QED BY <1>2, <2>1, <2>2
<1>6. CASE slow \/ r.max_ts + LossDelay < seg.timestamp
  <2>1. q = [f EXCEPT !.loss = {}, !.waived = r.waived \cup missing \cup skipped]
    BY <1>6 DEF sim_receiver_update_loss, skipped, id
  <2>2. /\ f \in Receiver /\ f.base_seq = r.base_seq /\ f.max_seq = r.max_seq
        /\ f.cache = r.cache /\ f.ackeds = r.ackeds
    BY FirFits
  <2> HIDE DEF f, missing
  <2>3. q \in Receiver /\ q.cache = r.cache /\ q.ackeds = r.ackeds /\ q.max_seq = r.max_seq /\ q.base_seq = r.base_seq
        /\ q.loss = {} /\ q.waived = r.waived \cup missing \cup skipped
    <3> DEFINE g == [f EXCEPT !.loss = {}]
               w == r.waived \cup missing \cup skipped
    <3>1. g \in Receiver /\ g.base_seq = r.base_seq /\ g.max_seq = r.max_seq /\ g.cache = r.cache /\ g.ackeds = r.ackeds /\ g.loss = {}
      BY <2>2 DEF Receiver
    <3>2. q = [g EXCEPT !.waived = w] /\ w \in SUBSET Nat
      BY <1>1, <1>2, <2>1
    <3> HIDE DEF g, w
    <3>3. q \in Receiver /\ q.cache = r.cache /\ q.ackeds = r.ackeds /\ q.max_seq = r.max_seq /\ q.base_seq = r.base_seq
          /\ q.loss = {} /\ q.waived = w
      BY <3>1, <3>2 DEF Receiver
    <3> QED BY <3>3 DEF w
  <2>4. PacketsKnown(hd, q, n)
    BY <1>1, <1>2, <1>3, <1>4, <1>5, <2>3 DEF PacketsKnown
  <2> QED BY <2>3, <2>4 DEF id, n
<1>7. CASE ~(slow \/ r.max_ts + LossDelay < seg.timestamp)
  <2>1. q = [r EXCEPT !.loss = missing \cup skipped]
    BY <1>7 DEF sim_receiver_update_loss, skipped, id
  <2>2. q \in Receiver /\ q.cache = r.cache /\ q.ackeds = r.ackeds /\ q.max_seq = r.max_seq /\ q.base_seq = r.base_seq
        /\ q.loss = missing \cup skipped /\ q.waived = r.waived
    BY <1>1, <1>2, <2>1 DEF Receiver
  <2>3. q.loss \subseteq 1 .. n /\ q.loss \cap hd = {}
    BY <1>1, <1>2, <1>3, <2>2
  <2>4. PacketsKnown(hd, q, n)
    BY <1>1, <1>2, <1>3, <1>4, <1>5, <2>2, <2>3 DEF PacketsKnown
  <2> QED BY <2>2, <2>4 DEF id, n
<1> QED BY <1>6, <1>7

LEMMA AckedFits ==
  ASSUME NEW r \in Receiver, NEW id \in Nat
  PROVE  Acked(r, id) \in Seq(Nat)
<1>1. r.ackeds \in Seq(Nat)
  BY DEF Receiver
<1> DEFINE ids == Append(r.ackeds, id)
<1>2. ids \in Seq(Nat) /\ Len(ids) = Len(r.ackeds) + 1 /\ Len(r.ackeds) \in Nat /\ Len(ids) # 0
  BY <1>1
<1> HIDE DEF ids
<1>3. ids # <<>>
  BY <1>2
<1>4. Tail(ids) \in Seq(Nat)
  BY <1>2, <1>3
<1> QED BY <1>2, <1>4 DEF Acked, ids

(* What a receiver with the cache c and the newest packet n has of the put. *)
Arrived(r, q, n, c) ==
  /\ q \in Receiver /\ q.max_seq = n /\ q.cache = c
  /\ q.base_seq = r.base_seq /\ q.loss = r.loss /\ q.waived = r.waived

LEMMA PutIntoFits ==
  ASSUME NEW r \in Receiver, NEW seg \in Segment, real_video_cache_put(r.cache, seg) \in Cache
  PROVE  Arrived(r, PutInto(r, seg), Newest(r, seg), real_video_cache_put(r.cache, seg))
<1> DEFINE c  == real_video_cache_put(r.cache, seg)
           n  == Newest(r, seg)
           t  == IF seg.timestamp > r.max_ts THEN seg.timestamp ELSE r.max_ts
           a  == Acked(r, seg.packet_id)
           q1 == [r EXCEPT !.cache = c]
           q2 == [q1 EXCEPT !.max_seq = n]
           q3 == [q2 EXCEPT !.max_ts = t]
           q4 == [q3 EXCEPT !.ackeds = a]
<1>1. n \in Nat /\ t \in Nat /\ a \in Seq(Nat) /\ c \in Cache
  BY AckedFits DEF Newest, Receiver, Segment
<1>2. PutInto(r, seg) = q4
  BY DEF PutInto, Newest
<1> HIDE DEF c, n, t, a
<1>3. Arrived(r, q1, r.max_seq, c)
  BY <1>1 DEF Arrived, Receiver
<1> HIDE DEF q1
<1>4. Arrived(r, q2, n, c)
  BY <1>1, <1>3 DEF Arrived, Receiver
<1> HIDE DEF q2
<1>5. Arrived(r, q3, n, c)
  BY <1>1, <1>4 DEF Arrived, Receiver
<1> HIDE DEF q3
<1>6. Arrived(r, q4, n, c)
  BY <1>1, <1>5 DEF Arrived, Receiver
<1> QED BY <1>2, <1>6 DEF c, n

(* A segment that is put, or refused, or not wanted.                        *)
LEMMA InternalPutFits ==
  ASSUME NEW str, StreamFits(str), NEW gt, NEW last, last.fid \in Nat, NEW r, ReceiverFits(str, gt, r, last),
         NEW seg, seg.fid \in 1 .. Len(str), seg \in SegmentsOf(str, seg.fid),
         r.cache.max_fid # 0 => seg.fid < r.cache.min_fid + CacheSize,
         NEW slow \in BOOLEAN, NEW z, z = sim_receiver_internal_put(r, seg, slow).receiver,
         NEW hd, hd = IF Unwanted(r, seg) THEN gt ELSE gt \cup {seg.packet_id}
  PROVE  ReceiverFits(str, hd, z, last)
<1> DEFINE s == Started(r, seg)
           q == sim_receiver_update_loss(s, seg, slow)
           c == r.cache
           d == real_video_cache_put(c, seg)
           n == Newest(s, seg)
<1>1. CASE Unwanted(r, seg)
  BY <1>1 DEF sim_receiver_internal_put
<1>2. CASE ~Unwanted(r, seg)
  <2>1. /\ r \in Receiver /\ r.max_seq \in Nat /\ PacketsKnown(gt, r, r.max_seq) /\ FreshFits(gt, r)
        /\ CacheFits(str, gt, c) /\ LastOf(str, c.min_fid) <= r.max_seq /\ last.fid <= c.min_fid /\ NextDecodable(str, c, last)
        /\ c \in Cache /\ c.min_fid \in Nat /\ c.max_fid \in Nat /\ c.min_fid <= c.max_fid /\ c.max_fid <= Len(str)
        /\ Len(str) \in Nat
    <3>1. /\ r \in Receiver /\ PacketsKnown(gt, r, r.max_seq) /\ FreshFits(gt, r)
          /\ CacheFits(str, gt, c) /\ LastOf(str, c.min_fid) <= r.max_seq /\ last.fid <= c.min_fid /\ NextDecodable(str, c, last)
      BY DEF ReceiverFits
    <3>2. r.max_seq \in Nat /\ c \in Cache
      BY <3>1 DEF Receiver
    <3> HIDE DEF c
    <3>3. c.min_fid \in Nat /\ c.max_fid \in Nat
      BY <3>2 DEF Cache
    <3>4. c.min_fid <= c.max_fid /\ c.max_fid <= Len(str)
      BY <3>1 DEF CacheFits
    <3>5. Len(str) \in Nat
      BY DEF StreamFits
    <3> QED BY <3>1, <3>2, <3>3, <3>4, <3>5
  <2>2. /\ seg \in Segment /\ seg.packet_id \in Nat /\ seg.packet_id # 0 /\ seg.fid \in Nat /\ seg.fid # 0
        /\ seg.packet_id \in str[seg.fid].first .. LastOf(str, seg.fid) /\ seg.ftype = str[seg.fid].ftype
        /\ str[seg.fid].first \in Nat \ {0} /\ LastOf(str, seg.fid) \in Nat /\ seg.fid <= Len(str)
    BY <2>1, SegmentFits, FrameOfStream DEF Segment
  <2>3. hd = gt \cup {seg.packet_id}
    BY <1>2
  <2>4. /\ s \in Receiver /\ s.cache = c /\ r.max_seq <= s.max_seq /\ PacketsKnown(gt, s, s.max_seq) /\ s.max_seq \in Nat
        /\ r.max_seq = 0 => s.max_seq < seg.packet_id
    BY StartedFits DEF Receiver
  <2> HIDE DEF s
  <2>5. q \in Receiver /\ q.cache = c /\ q.max_seq = s.max_seq /\ PacketsKnown(hd, q, n)
    <3>1. s \in Receiver /\ PacketsKnown(gt, s, s.max_seq) /\ seg \in Segment /\ seg.packet_id # 0
      BY <2>2, <2>4
    <3>2. LossNoted(gt \cup {seg.packet_id}, s, n, q)
      BY <3>1, LossFits
    <3> QED BY <2>3, <2>4, <3>2 DEF LossNoted
  <2> HIDE DEF q
  <2>6. /\ CacheFits(str, hd, d) /\ d.min_seq = c.min_seq
        /\ Expired(c, seg) => d = c /\ ~PutAccepted(c, seg)
        /\ ~Expired(c, seg) => /\ d.max_fid = IF seg.fid > c.max_fid THEN seg.fid ELSE c.max_fid
                               /\ d.min_fid = IF c.max_fid = 0 THEN seg.fid - 1 ELSE c.min_fid
        /\ ~Expired(c, seg) /\ ~PutAccepted(c, seg) => seg.packet_id \in gt /\ seg.fid <= c.max_fid
    <3>1. PutInSlot(str, gt, c, seg, d)
      BY <2>1, PutFits
    <3> QED BY <2>3, <3>1 DEF PutInSlot
  <2> HIDE DEF d
  <2>7. d \in Cache
    BY <2>6 DEF CacheFits
  <2>8. n \in Nat /\ s.max_seq <= n /\ seg.packet_id <= n /\ n # 0 /\ (n = s.max_seq \/ n = seg.packet_id)
    BY <2>2, <2>4 DEF Newest
  <2>9. ~PutAccepted(c, seg) => n = q.max_seq
    <3> SUFFICES ASSUME ~PutAccepted(c, seg) PROVE seg.packet_id <= s.max_seq
      BY <2>2, <2>4, <2>5 DEF Newest
    <3>1. CASE Expired(c, seg)
      <4>1. seg.fid <= c.min_fid /\ c.min_fid \in 0 .. Len(str) /\ seg.fid \in 0 .. Len(str) /\ c.min_fid \in 1 .. Len(str)
        BY <2>1, <2>2, <3>1 DEF Expired
      <4>2. LastOf(str, seg.fid) <= LastOf(str, c.min_fid) /\ LastOf(str, c.min_fid) \in Nat
        <5>1. CASE seg.fid = c.min_fid
          BY <2>2, <5>1
        <5>2. CASE seg.fid < c.min_fid
          BY <4>1, <5>2, LastOfRises, FrameOfStream
        <5> QED BY <2>1, <2>2, <4>1, <5>1, <5>2
      <4> QED BY <2>1, <2>2, <2>4, <4>2
    <3>2. CASE ~Expired(c, seg)
      BY <2>1, <2>2, <2>4, <2>6, <3>2 DEF PacketsKnown
    <3> QED BY <3>1, <3>2
  <2>10. Arrived(q, z, n, d)
    <3>1. CASE PutAccepted(c, seg)
      <4>1. z = PutInto(q, seg)
        BY <1>2, <2>5, <3>1 DEF sim_receiver_internal_put, q, s
      <4>2. Newest(q, seg) = n
        BY <2>5 DEF Newest
      <4> QED BY <2>2, <2>5, <2>7, <4>1, <4>2, PutIntoFits DEF d
    <3>2. CASE ~PutAccepted(c, seg)
      <4>1. z = [q EXCEPT !.cache = d]
        BY <1>2, <2>5, <3>2 DEF sim_receiver_internal_put, q, s, d
      <4> QED BY <2>5, <2>7, <2>9, <3>2, <4>1 DEF Arrived, Receiver
    <3> QED BY <3>1, <3>2
  <2> HIDE DEF n
  <2>11. PacketsKnown(hd, z, n) /\ z.max_seq = n
    BY <2>5, <2>6, <2>10 DEF PacketsKnown, Arrived
  <2>12. c.max_fid = 0 => ~Expired(c, seg)
    BY <2>1, <2>2 DEF Expired
  <2>13. FreshFits(hd, z)
    <3>1. d.max_fid # 0
      BY <2>1, <2>2, <2>6, <2>12
    <3> QED BY <2>8, <2>10, <3>1 DEF FreshFits, Arrived
  <2>14. CASE c.max_fid = 0
    <3>1. r.max_seq = 0 /\ c.min_fid = 0 /\ str[seg.fid].ftype = 1
      BY <1>2, <2>1, <2>2, <2>14, SegmentFits, FrameOfStream DEF FreshFits, Unwanted
    <3>2. d.max_fid = seg.fid /\ d.min_fid = seg.fid - 1
      BY <2>1, <2>2, <2>6, <2>12, <2>14
    <3>3. LastOf(str, d.min_fid) < seg.packet_id /\ LastOf(str, d.min_fid) \in Nat
      <4>1. d.min_fid \in 0 .. Len(str) /\ seg.fid \in 0 .. Len(str) /\ d.min_fid < seg.fid
        BY <2>2, <3>2
      <4> QED BY <2>2, <4>1, LastOfRises
    <3>4. LastOf(str, d.min_fid) <= n
      BY <2>2, <2>8, <3>3
    <3>5. last.fid <= d.min_fid
      BY <2>1, <2>2, <3>1, <3>2
    <3>6. NextDecodable(str, d, last)
      BY <2>2, <3>1, <3>2 DEF NextDecodable
    <3> QED BY <2>6, <2>10, <2>11, <2>13, <3>4, <3>5, <3>6 DEF ReceiverFits, Arrived
  <2>15. CASE c.max_fid # 0
    <3>1. d.min_fid = c.min_fid /\ d.max_fid \in Nat /\ c.max_fid <= d.max_fid
      BY <2>1, <2>2, <2>6, <2>15
    <3>2. LastOf(str, d.min_fid) <= n
      <4>1. c.min_fid = 0 \/ c.min_fid \in 1 .. Len(str)
        BY <2>1
      <4>2. LastOf(str, c.min_fid) \in Nat
        BY <4>1, FrameOfStream DEF LastOf
      <4> QED BY <2>1, <2>4, <2>8, <3>1, <4>2
    <3>3. NextDecodable(str, d, last)
      BY <2>1, <2>15, <3>1 DEF NextDecodable
    <3> QED BY <2>1, <2>6, <2>10, <2>11, <2>13, <3>1, <3>2, <3>3 DEF ReceiverFits, Arrived
  <2> QED BY <2>14, <2>15
<1> QED BY <1>1, <1>2

-----------------------------------------------------------------------------
(* A receiver that differs in what it knows of the packets only.            *)
LEMMA SameCacheFits ==
  ASSUME NEW str, NEW gt, NEW last, NEW r, ReceiverFits(str, gt, r, last),
         NEW q \in Receiver, q.cache = r.cache, q.max_seq = r.max_seq,
         PacketsKnown(gt, q, r.max_seq), r.max_seq = 0 => q.waived = {}
  PROVE  ReceiverFits(str, gt, q, last)
BY DEF ReceiverFits, FreshFits

(* The base moves up to the first packet that is still asked for.           *)
LEMMA UpdateBaseFits ==
  ASSUME NEW str, NEW gt, NEW last, NEW r, ReceiverFits(str, gt, r, last),
         NEW q, q = video_real_update_base(r)
  PROVE  ReceiverFits(str, gt, q, last) /\ q.cache = r.cache /\ q.max_seq = r.max_seq
<1> DEFINE n == r.max_seq
           missing == {p \in r.loss : ~(p > r.base_seq /\ p <= r.cache.min_seq)}
           base    == IF missing = {} THEN n ELSE Least(missing) - 1
           q1      == [r EXCEPT !.loss = missing]
<1>1. /\ r \in Receiver /\ r.loss \in SUBSET Nat /\ n \in Nat /\ r.base_seq \in Nat /\ r.cache.min_seq \in Nat
      /\ gt \subseteq 1 .. n /\ r.loss \subseteq 1 .. n /\ r.loss \cap gt = {}
      /\ \A p \in (1 .. n) \ gt : p \in r.loss \/ p \in r.waived \/ p <= r.cache.min_seq
      /\ r.max_seq = 0 => r.waived = {}
  BY DEF ReceiverFits, Receiver, Cache, PacketsKnown, FreshFits
<1>2. missing \subseteq r.loss /\ missing \subseteq Nat /\ missing \subseteq 1 .. n
  BY <1>1
<1>3. \A p \in r.loss : p \in missing \/ p <= r.cache.min_seq
  OBVIOUS
<1>4. q = [q1 EXCEPT !.base_seq = base]
  BY Zenon DEF video_real_update_base
<1> HIDE DEF n, missing
<1>5. base \in Nat /\ base <= n /\ \A p \in missing : base < p
  <2>1. CASE missing = {}
    BY <1>1, <2>1
  <2>2. CASE missing # {}
    <3>1. Least(missing) \in missing /\ \A p \in missing : Least(missing) <= p
      BY <1>2, <2>2, LeastIsLeast
    <3>2. Least(missing) \in 1 .. n
      BY <1>2, <3>1
    <3>3. \A p \in missing : p \in Nat
      BY <1>2
    <3> DEFINE l == Least(missing)
    <3>4. base = l - 1 /\ l \in 1 .. n /\ \A p \in missing : l <= p
      BY <2>2, <3>1, <3>2
    <3> HIDE DEF l, base
    <3> QED BY <1>1, <3>3, <3>4
  <2> QED BY <2>1, <2>2
<1> HIDE DEF base
<1>6. /\ q1 \in Receiver /\ q1.cache = r.cache /\ q1.max_seq = n /\ q1.waived = r.waived /\ q1.loss = missing
  BY <1>1, <1>2 DEF Receiver, n
<1> HIDE DEF q1
<1>7. /\ q \in Receiver /\ q.cache = r.cache /\ q.max_seq = n /\ q.waived = r.waived /\ q.loss = missing /\ q.base_seq = base
  BY <1>4, <1>5, <1>6 DEF Receiver
<1>8. PacketsKnown(gt, q, n)
  <2>1. missing \cap gt = {}
    BY <1>1, <1>2
  <2>2. ASSUME NEW p \in (1 .. n) \ gt
        PROVE  /\ p \in missing \/ p \in r.waived \/ p <= r.cache.min_seq
               /\ p <= base => p \in r.waived \/ p <= r.cache.min_seq
    <3>1. p \in missing \/ p \in r.waived \/ p <= r.cache.min_seq
      BY <1>1, <1>3, <2>2
    <3>2. p \in missing => ~(p <= base)
      BY <1>1, <1>5
    <3> QED BY <3>1, <3>2
  <2> QED BY <1>1, <1>2, <1>5, <1>7, <2>1, <2>2 DEF PacketsKnown
<1> QED BY <1>1, <1>7, <1>8, SameCacheFits DEF n

LEMMA ReleasedFits ==
  ASSUME NEW str, NEW gt, NEW last, NEW r, ReceiverFits(str, gt, r, last),
         NEW q, q = [r EXCEPT !.ackeds = <<>>]
  PROVE  ReceiverFits(str, gt, q, last)
<1>1. r \in Receiver /\ PacketsKnown(gt, r, r.max_seq) /\ FreshFits(gt, r)
  BY DEF ReceiverFits
<1>2. /\ q \in Receiver /\ q.cache = r.cache /\ q.max_seq = r.max_seq
      /\ q.loss = r.loss /\ q.waived = r.waived /\ q.base_seq = r.base_seq
  <2> DEFINE none == <<>>
  <2>1. none \in Seq(Nat) /\ q = [r EXCEPT !.ackeds = none]
    OBVIOUS
  <2> HIDE DEF none
  <2> QED BY <1>1, <2>1 DEF Receiver
<1>3. PacketsKnown(gt, q, r.max_seq)
  BY <1>1, <1>2 DEF PacketsKnown
<1>4. r.max_seq = 0 => q.waived = {}
  BY <1>1, <1>2 DEF FreshFits
<1> QED BY <1>2, <1>3, <1>4, SameCacheFits

(* A key frame is asked for, and what was missing no more.                  *)
WaivedLoss(q) == [sim_receiver_send_fir(q) EXCEPT !.loss = {}, !.waived = q.waived \cup q.loss]

LEMMA WaivedFits ==
  ASSUME NEW str, NEW gt, NEW last, NEW q, ReceiverFits(str, gt, q, last), NEW h, h = WaivedLoss(q)
  PROVE  ReceiverFits(str, gt, h, last)
<1> DEFINE f == sim_receiver_send_fir(q)
           g == [f EXCEPT !.loss = {}]
           w == q.waived \cup q.loss
<1>1. /\ q \in Receiver /\ q.loss \in SUBSET Nat /\ q.waived \in SUBSET Nat /\ q.max_seq \in Nat
      /\ PacketsKnown(gt, q, q.max_seq) /\ FreshFits(gt, q)
  BY DEF ReceiverFits, Receiver
<1>2. f \in Receiver /\ f.base_seq = q.base_seq /\ f.max_seq = q.max_seq /\ f.cache = q.cache
  BY <1>1, FirFits
<1>3. h = [g EXCEPT !.waived = w]
  BY DEF WaivedLoss
<1> HIDE DEF f
<1>4. g \in Receiver /\ g.base_seq = q.base_seq /\ g.max_seq = q.max_seq /\ g.cache = q.cache /\ g.loss = {}
  BY <1>2 DEF Receiver
<1>5. w \in SUBSET Nat
  BY <1>1
<1> HIDE DEF g, w
<1>6. h \in Receiver /\ h.base_seq = q.base_seq /\ h.max_seq = q.max_seq /\ h.cache = q.cache /\ h.loss = {} /\ h.waived = w
  BY <1>3, <1>4, <1>5 DEF Receiver
<1>7. PacketsKnown(gt, h, q.max_seq)
  BY <1>1, <1>6 DEF PacketsKnown, w
<1>8. q.max_seq = 0 => h.waived = {}
  <2> SUFFICES ASSUME q.max_seq = 0 PROVE q.waived = {} /\ q.loss = {}
    BY <1>6 DEF w
  <2> QED BY <1>1 DEF PacketsKnown, FreshFits
<1> QED BY <1>6, <1>7, <1>8, SameCacheFits

(* An acknowledgement: what is asked for no more is waived.                 *)
LEMMA AckFits ==
  ASSUME NEW str, NEW gt, NEW last, NEW r, ReceiverFits(str, gt, r, last),
         NEW seq, NEW slow \in BOOLEAN, NEW x \in video_real_ack(r, seq, slow)
  PROVE  ReceiverFits(str, gt, x.receiver, last)
<1> DEFINE q == video_real_update_base(r)
<1>1. ReceiverFits(str, gt, q, last)
  BY UpdateBaseFits
<1>2. \E z \in {q, WaivedLoss(q)} : x.receiver = [z EXCEPT !.ackeds = <<>>]
  <2> DEFINE after(nack) == IF slow /\ nack # {} THEN WaivedLoss(q) ELSE q
  <2>1. \E nack \in SUBSET {p \in q.loss : p > q.base_seq} : x.receiver = [after(nack) EXCEPT !.ackeds = <<>>]
    <3> DEFINE asked == {n \in SUBSET {p \in q.loss : p > q.base_seq} : Cardinality(n) <= NACK_NUM}
               acked == IF q.base_seq < q.max_seq THEN {p \in ToSet(q.ackeds) : q.base_seq < p} ELSE {}
               sent(nack) == {SegAck(q.base_seq, seq, IF slow /\ nack # {} THEN {} ELSE nack, acked)}
                             \cup FirsSent(q, after(nack))
               full(nack) == [receiver |-> [after(nack) EXCEPT !.ackeds = <<>>], sent |-> sent(nack)]
    <3>1. x \in {full(nack) : nack \in asked}
      BY Zenon DEF video_real_ack, WaivedLoss
    <3> HIDE DEF sent, after
    <3>2. PICK nack \in asked : x = full(nack)
      BY <3>1
    <3> QED BY <3>2
  <2>2. \A nack : after(nack) \in {q, WaivedLoss(q)}
    OBVIOUS
  <2> QED BY <2>1, <2>2
<1> HIDE DEF q
<1>3. ReceiverFits(str, gt, WaivedLoss(q), last)
  BY <1>1, WaivedFits
<1>4. PICK z \in {q, WaivedLoss(q)} : x.receiver = [z EXCEPT !.ackeds = <<>>]
  BY <1>2
<1> DEFINE y == [z EXCEPT !.ackeds = <<>>]
<1>5. ReceiverFits(str, gt, z, last)
  BY <1>1, <1>3
<1>6. ReceiverFits(str, gt, y, last)
  BY <1>5, ReleasedFits
<1> QED BY <1>4, <1>6

(* FIR_DELAY_TIME passes.                                                   *)
LEMMA FirOverFits ==
  ASSUME NEW str, NEW gt, NEW last, NEW r, ReceiverFits(str, gt, r, last),
         NEW q, q = [r EXCEPT !.fir_recent = FALSE]
  PROVE  ReceiverFits(str, gt, q, last)
<1>1. /\ q \in Receiver /\ q.cache = r.cache /\ q.max_seq = r.max_seq
      /\ q.loss = r.loss /\ q.waived = r.waived /\ q.base_seq = r.base_seq
  BY DEF ReceiverFits, Receiver
<1>2. PacketsKnown(gt, q, r.max_seq) /\ (r.max_seq = 0 => q.waived = {})
  BY <1>1 DEF ReceiverFits, PacketsKnown, FreshFits
<1> QED BY <1>1, <1>2, SameCacheFits

(* A put, with an acknowledgement or without one.                           *)
LEMMA AcknowledgedFits ==
  ASSUME NEW str, NEW gt, NEW last, NEW r, ReceiverFits(str, gt, r, last),
         NEW seq, NEW slow \in BOOLEAN, NEW firs, NEW x \in Acknowledged(r, seq, slow, firs)
  PROVE  ReceiverFits(str, gt, x.receiver, last)
<1>1. CASE x.receiver = r
  BY <1>1
<1>2. CASE \E y \in video_real_ack(r, seq, slow) : x.receiver = y.receiver
  BY <1>2, AckFits
<1>3. x.receiver = r \/ \E y \in video_real_ack(r, seq, slow) : x.receiver = y.receiver
  BY DEF Acknowledged
<1> QED BY <1>1, <1>2, <1>3

(* The whole handler of a segment that came, or that was recovered.         *)
LEMMA PutHandlerFits ==
  ASSUME NEW str, StreamFits(str), NEW gt, NEW last, last.fid \in Nat, NEW r, ReceiverFits(str, gt, r, last),
         NEW seg, seg.fid \in 1 .. Len(str), seg \in SegmentsOf(str, seg.fid),
         r.cache.max_fid # 0 => seg.fid < r.cache.min_fid + CacheSize,
         NEW slow \in BOOLEAN, NEW x \in sim_receiver_put(r, seg, slow) \cup sim_receiver_put_fec(r, seg, slow),
         NEW hd, hd = IF Unwanted(r, seg) THEN gt ELSE gt \cup {seg.packet_id}
  PROVE  ReceiverFits(str, hd, x.receiver, last)
<1> DEFINE z == sim_receiver_internal_put(r, seg, slow).receiver
<1>1. ReceiverFits(str, hd, z, last)
  BY InternalPutFits
<1>2. x.receiver = z \/ \E firs : x \in Acknowledged(z, seg.packet_id, slow, firs)
  <2>1. CASE x \in sim_receiver_put(r, seg, slow)
    BY <2>1 DEF sim_receiver_put
  <2>2. CASE x \in sim_receiver_put_fec(r, seg, slow)
    BY <2>2 DEF sim_receiver_put_fec
  <2> QED BY <2>1, <2>2
<1> HIDE DEF z
<1>3. ASSUME NEW firs, x \in Acknowledged(z, seg.packet_id, slow, firs) PROVE ReceiverFits(str, hd, x.receiver, last)
  BY <1>1, <1>3, AcknowledgedFits
<1> QED BY <1>1, <1>2, <1>3

(* The player gets the frame new after the frame last: what VideoSpec says. *)
ShowsNext(str, last, new) ==
  \E fid \in last.fid + 1 .. Len(str) :
     /\ str[fid].ftype = 1 \/ (last.fid # 0 /\ fid = last.fid + 1)
     /\ new = [fid |-> fid, segments |-> str[fid].total]

PlaysOn(str, gt, r, last, new) ==
  /\ new \in [fid : Nat, segments : Nat]
  /\ ReceiverFits(str, gt, r, new)
  /\ new = last \/ ShowsNext(str, last, new)

LEMMA GetHandlerFits ==
  ASSUME NEW str, StreamFits(str), NEW gt, NEW last \in [fid : Nat, segments : Nat],
         NEW r, ReceiverFits(str, gt, r, last), NEW x \in sim_receiver_get(r),
         NEW new, new = IF x.frame = NotPlayed THEN last ELSE x.frame
  PROVE  PlaysOn(str, gt, x.receiver, last, new)
<1> DEFINE c == r.cache  n == r.max_seq
<1>1. PICK y \in real_video_cache_get(c) : x.receiver = [r EXCEPT !.cache = y.cache] /\ x.frame = y.frame
  BY DEF sim_receiver_get
<1> DEFINE d == y.cache  q == x.receiver
<1>2. /\ r \in Receiver /\ CacheFits(str, gt, c) /\ LastOf(str, c.min_fid) <= n /\ n \in Nat
      /\ PacketsKnown(gt, r, n) /\ FreshFits(gt, r) /\ last.fid <= c.min_fid /\ NextDecodable(str, c, last)
      /\ c \in Cache /\ c.min_fid \in Nat /\ c.max_fid \in Nat /\ c.min_fid <= c.max_fid /\ c.max_fid <= Len(str)
      /\ Len(str) \in Nat /\ gt \subseteq 1 .. n /\ gt \subseteq Nat /\ last.fid \in Nat /\ c.min_seq \in Nat
  <2>1. /\ r \in Receiver /\ CacheFits(str, gt, c) /\ LastOf(str, c.min_fid) <= n
        /\ PacketsKnown(gt, r, n) /\ FreshFits(gt, r) /\ last.fid <= c.min_fid /\ NextDecodable(str, c, last)
    BY DEF ReceiverFits
  <2>2. n \in Nat /\ c \in Cache
    BY <2>1 DEF Receiver
  <2> HIDE DEF c, n
  <2>3. c.min_fid \in Nat /\ c.max_fid \in Nat /\ c.min_seq \in Nat
    BY <2>2 DEF Cache
  <2>4. c.min_fid <= c.max_fid /\ c.max_fid <= Len(str)
    BY <2>1 DEF CacheFits
  <2>5. Len(str) \in Nat /\ last.fid \in Nat
    BY DEF StreamFits
  <2>6. gt \subseteq 1 .. n
    BY <2>1 DEF PacketsKnown
  <2>7. gt \subseteq Nat
    BY <2>2, <2>6
  <2> QED BY <2>1, <2>2, <2>3, <2>4, <2>5, <2>6, <2>7
<1>3. /\ CacheFits(str, gt, d) /\ d.max_fid = c.max_fid /\ c.min_seq <= d.min_seq
      /\ \/ y.frame = NotPlayed /\ (d.min_fid = c.min_fid \/ GivenUp(str, gt, c, d))
         \/ Given(str, gt, c, y)
  BY <1>2, GetFits
<1> HIDE DEF c, n, d
<1>4. d \in Cache /\ d.min_fid \in Nat /\ d.max_fid \in Nat /\ d.min_seq \in Nat /\ d.min_fid <= d.max_fid
  <2>1. d \in Cache /\ d.min_fid <= d.max_fid
    BY <1>3 DEF CacheFits
  <2> QED BY <2>1 DEF Cache
<1>5. /\ q \in Receiver /\ q.cache = d /\ q.max_seq = n /\ q.loss = r.loss /\ q.waived = r.waived /\ q.base_seq = r.base_seq
  BY <1>1, <1>2, <1>4 DEF Receiver, d, n
<1> HIDE DEF q
<1>6. PacketsKnown(gt, q, n)
  BY <1>2, <1>3, <1>4, <1>5 DEF PacketsKnown, c
<1>7. CASE y.frame = NotPlayed /\ d.min_fid = c.min_fid
  <2>1. new = last
    BY <1>1, <1>7
  <2>2. FreshFits(gt, q)
    BY <1>2, <1>3, <1>5, <1>7 DEF FreshFits, c, n
  <2>3. NextDecodable(str, d, last)
    BY <1>2, <1>3, <1>7 DEF NextDecodable
  <2>4. ReceiverFits(str, gt, q, last)
    BY <1>2, <1>3, <1>5, <1>6, <1>7, <2>2, <2>3 DEF ReceiverFits
  <2> QED BY <2>1, <2>4 DEF PlaysOn, q
<1>8. ASSUME NEW p \in gt, LastOf(str, d.min_fid) <= p, d.min_fid # 0
      PROVE  LastOf(str, d.min_fid) <= n /\ n # 0
  <2>1. LastOf(str, d.min_fid) \in Nat
    BY <1>2, <1>3, <1>4, <1>8, FrameOfStream
  <2> QED BY <1>2, <1>8, <2>1
<1>9. CASE y.frame = NotPlayed /\ GivenUp(str, gt, c, d)
  <2>1. new = last
    BY <1>1, <1>9
  <2>2. c.min_fid < d.min_fid /\ d.min_fid # 0 /\ last.fid <= d.min_fid
    BY <1>2, <1>4, <1>9 DEF GivenUp
  <2>3. PICK p \in gt : LastOf(str, d.min_fid) < p
    BY <1>9 DEF GivenUp
  <2>4. LastOf(str, d.min_fid) \in Nat /\ p \in Nat
    <3>1. d.min_fid \in 1 .. Len(str)
      BY <1>2, <1>3, <1>4, <2>2
    <3> QED BY <1>2, <3>1, FrameOfStream
  <2>5. LastOf(str, d.min_fid) <= n /\ n # 0
    BY <1>8, <2>2, <2>3, <2>4
  <2>6. FreshFits(gt, q)
    BY <1>2, <1>3, <1>5, <2>5 DEF FreshFits, c, n
  <2>7. NextDecodable(str, d, last)
    BY <1>9 DEF NextDecodable, GivenUp
  <2>8. ReceiverFits(str, gt, q, last)
    BY <1>3, <1>5, <1>6, <2>2, <2>5, <2>6, <2>7 DEF ReceiverFits
  <2> QED BY <2>1, <2>8 DEF PlaysOn, q
<1>10. CASE Given(str, gt, c, y)
  <2> DEFINE f == y.frame.fid
  <2>1. /\ y.frame = [fid |-> f, segments |-> str[f].total] /\ f = d.min_fid /\ f \in c.min_fid + 1 .. Len(str)
        /\ f = c.min_fid + 1 \/ str[f].ftype = 1
        /\ LastOf(str, f) \in gt
    BY <1>10 DEF Given, d
  <2> HIDE DEF f
  <2>2. f # 0 /\ f \in 1 .. Len(str) /\ f \in last.fid + 1 .. Len(str) /\ c.max_fid # 0
    BY <1>2, <1>3, <1>4, <2>1
  <2>3. str[f].total \in Nat /\ LastOf(str, f) \in Nat
    BY <2>2, FrameOfStream
  <2>4. new = [fid |-> f, segments |-> str[f].total]
    BY <1>1, <2>1, <2>2 DEF NotPlayed
  <2>5. new \in [fid : Nat, segments : Nat] /\ new.fid = d.min_fid
    BY <2>1, <2>2, <2>3, <2>4
  <2>6. str[f].ftype = 1 \/ (last.fid # 0 /\ f = last.fid + 1)
    BY <1>2, <2>1, <2>2 DEF NextDecodable
  <2>7. ShowsNext(str, last, new)
    BY <2>2, <2>4, <2>6 DEF ShowsNext
  <2>8. LastOf(str, d.min_fid) <= n /\ n # 0
    BY <1>8, <2>1, <2>2, <2>3
  <2>9. FreshFits(gt, q)
    BY <1>2, <1>3, <1>5, <2>8 DEF FreshFits, c, n
  <2>10. NextDecodable(str, d, new)
    BY <2>1, <2>2, <2>5 DEF NextDecodable
  <2>11. ReceiverFits(str, gt, q, new)
    BY <1>3, <1>4, <1>5, <1>6, <2>5, <2>8, <2>9, <2>10 DEF ReceiverFits
  <2> QED BY <2>5, <2>7, <2>11 DEF PlaysOn, q
<1> QED BY <1>3, <1>7, <1>9, <1>10 DEF q

-----------------------------------------------------------------------------
(* The receiver of a new call fits a stream without frames.                 *)
LEMMA NewFits ==
  StreamFits(<<>>) /\ ReceiverFits(<<>>, {}, sim_receiver_active(sim_receiver_create), NotPlayed)
<1> DEFINE r0 == sim_receiver_create  r == sim_receiver_active(r0)  c == open_real_video_cache  str == <<>>
<1>1. c \in Cache /\ c.min_seq = 0 /\ c.min_fid = 0 /\ c.max_fid = 0 /\ \A i \in Slots : c.frames[i] = NoFrame
  BY DEF open_real_video_cache, Cache, Frame, NoFrame
<1>2. r0.cache = c /\ r0.max_seq = 0 /\ r0.base_seq = 0 /\ r0.loss = {} /\ r0.waived = {}
  BY DEF sim_receiver_create
<1> HIDE DEF c
<1>3. r0 \in Receiver
  BY <1>1 DEF sim_receiver_create, Receiver, c
<1>4. r \in Receiver /\ r.cache = c /\ r.max_seq = 0 /\ r.base_seq = 0 /\ r.loss = {} /\ r.waived = {}
  BY <1>2, <1>3 DEF sim_receiver_active, Receiver
<1>5. NotPlayed.fid = 0
  BY DEF NotPlayed
<1>6. StreamFits(str) /\ LastOf(str, 0) = 0 /\ Len(str) = 0
  BY DEF StreamFits, LastOf
<1> HIDE DEF r, str
<1>7. \A i \in Slots : SlotFits(str, {}, c, i)
  BY <1>1 DEF SlotFits, Occupied, NoFrame
<1>8. CacheFits(str, {}, c)
  BY <1>1, <1>6, <1>7, RingAssumption DEF CacheFits
<1>9. PacketsKnown({}, r, 0)
  BY <1>4 DEF PacketsKnown
<1>10. FreshFits({}, r) /\ NextDecodable(str, c, NotPlayed)
  BY <1>1, <1>4 DEF FreshFits, NextDecodable
<1>11. ReceiverFits(str, {}, r, NotPlayed)
  BY <1>1, <1>4, <1>5, <1>6, <1>8, <1>9, <1>10 DEF ReceiverFits
<1> QED BY <1>6, <1>11 DEF r, str

(* The stream grows by a frame that follows the ones it has.                *)
LEMMA LongerStream ==
  ASSUME NEW str, StreamFits(str), NEW fr \in Frames, LastOf(str, Len(str)) < fr.first,
         NEW new, new = Append(str, fr)
  PROVE  /\ StreamFits(new) /\ Len(new) = Len(str) + 1
         /\ \A f \in 1 .. Len(str) : new[f] = str[f]
         /\ \A f \in 0 .. Len(str) : LastOf(new, f) = LastOf(str, f)
<1>1. /\ str \in Seq(Frames) /\ Len(str) \in Nat /\ new \in Seq(Frames) /\ Len(new) = Len(str) + 1
      /\ DOMAIN new = 1 .. Len(str) + 1 /\ DOMAIN str = 1 .. Len(str) /\ new[Len(str) + 1] = fr
      /\ \A f \in 1 .. Len(str) : new[f] = str[f]
  BY DEF StreamFits
<1>2. \A f \in 0 .. Len(str) : LastOf(new, f) = LastOf(str, f)
  BY <1>1 DEF LastOf
<1>3. ASSUME NEW f \in DOMAIN new, NEW g \in DOMAIN new, f < g PROVE LastOf(new, f) < new[g].first
  <2>0. f \in 1 .. Len(str) /\ f \in 0 .. Len(str) /\ f \in Nat
    BY <1>1, <1>3
  <2>1. CASE g \in 1 .. Len(str)
    <3>1. LastOf(str, f) < str[g].first
      BY <1>1, <1>3, <2>0, <2>1 DEF StreamFits
    <3> QED BY <1>1, <1>2, <2>0, <2>1, <3>1
  <2>2. CASE g = Len(str) + 1
    <3>1. LastOf(str, f) <= LastOf(str, Len(str)) /\ LastOf(str, f) \in Nat /\ LastOf(str, Len(str)) \in Nat
      <4>1. Len(str) \in 1 .. Len(str) /\ Len(str) \in 0 .. Len(str)
        BY <1>1, <2>0
      <4>2. LastOf(str, f) \in Nat /\ LastOf(str, Len(str)) \in Nat
        BY <2>0, <4>1, FrameOfStream
      <4>3. CASE f = Len(str)
        BY <4>2, <4>3
      <4>4. CASE f < Len(str)
        BY <2>0, <4>1, <4>2, <4>4, LastOfRises
      <4> QED BY <2>0, <4>1, <4>3, <4>4
    <3>2. fr.first \in Nat
      BY DEF Frames
    <3> QED BY <1>1, <1>2, <2>0, <2>2, <3>1, <3>2
  <2> QED BY <1>1, <1>3, <2>1, <2>2
<1>4. StreamFits(new)
  BY <1>1, <1>3 DEF StreamFits
<1> QED BY <1>1, <1>2, <1>4

(* What the receiver has fits the longer stream as well.                    *)
LEMMA LongerFits ==
  ASSUME NEW str, StreamFits(str), NEW new, Len(str) <= Len(new), Len(new) \in Nat,
         \A f \in 1 .. Len(str) : new[f] = str[f],
         NEW gt, NEW last, NEW r, ReceiverFits(str, gt, r, last)
  PROVE  ReceiverFits(new, gt, r, last)
<1> DEFINE c == r.cache
<1>1. /\ CacheFits(str, gt, c) /\ c \in Cache /\ c.min_fid \in Nat /\ c.max_fid \in Nat /\ c.min_fid <= c.max_fid
      /\ c.max_fid <= Len(str) /\ Len(str) \in Nat /\ NextDecodable(str, c, last)
  BY DEF ReceiverFits, CacheFits, Cache, StreamFits
<1>2. LastOf(new, c.min_fid) = LastOf(str, c.min_fid)
  BY <1>1 DEF LastOf
<1> HIDE DEF c
<1>3. ASSUME NEW i \in Slots PROVE SlotFits(new, gt, c, i)
  <2>1. SlotFits(str, gt, c, i)
    BY <1>1 DEF CacheFits
  <2>2. CASE Occupied(c, i)
    <3>1. c.frames[i].fid \in 1 .. Len(str)
      BY <1>1, <2>2, HeldFits
    <3>2. new[c.frames[i].fid] = str[c.frames[i].fid]
      BY <3>1
    <3>3. SegmentsOf(new, c.frames[i].fid) = SegmentsOf(str, c.frames[i].fid)
      BY <3>2 DEF SegmentsOf
    <3> QED BY <2>1, <2>2, <3>2, <3>3 DEF SlotFits
  <2>3. CASE ~Occupied(c, i)
    BY <2>1, <2>3 DEF SlotFits
  <2> QED BY <2>2, <2>3
<1>4. CacheFits(new, gt, c)
  BY <1>1, <1>2, <1>3 DEF CacheFits
<1>5. NextDecodable(new, c, last)
  <2>1. c.min_fid + 1 <= c.max_fid => c.min_fid + 1 \in 1 .. Len(str)
    BY <1>1
  <2> QED BY <1>1, <2>1 DEF NextDecodable
<1> QED BY <1>2, <1>4, <1>5 DEF ReceiverFits, c

-----------------------------------------------------------------------------
(* What the receiver tells the sender.  Its base, the packets waived and    *)
(* those of frames played or given up only grow.                            *)
Grown(r, q) ==
  /\ r.base_seq <= q.base_seq
  /\ r.cache.min_seq <= q.cache.min_seq
  /\ r.waived \subseteq q.waived

(* What is asked for is after the base, what is acknowledged has come.      *)
AsksAhead(gt, r) ==
  /\ \A p \in r.loss : r.base_seq < p
  /\ ToSet(r.ackeds) \subseteq gt

(* A datagram is true of the receiver.                                      *)
Told(gt, r, m) ==
  /\ m.type \in {"SEG_ACK", "FEEDBACK", "FIR"}
  /\ m.type # "FIR" => m.base_packet_id \in Nat /\ m.base_packet_id <= r.base_seq
  /\ m.type = "SEG_ACK" => m.acked \subseteq gt

GrownTo(gt, r, q) == Grown(r, q) /\ AsksAhead(gt, q)

Follows(gt, r, q, sent) ==
  /\ Grown(r, q)
  /\ AsksAhead(gt, q)
  /\ \A m \in sent : Told(gt, q, m)

LEMMA SelfGrown ==
  ASSUME NEW r \in Receiver
  PROVE  Grown(r, r)
BY DEF Grown, Receiver, Cache

LEMMA GrownOn ==
  ASSUME NEW r \in Receiver, NEW q \in Receiver, NEW z \in Receiver, Grown(r, q), Grown(q, z)
  PROVE  Grown(r, z)
<1>1. \A x \in {r, q, z} : x.base_seq \in Nat /\ x.cache.min_seq \in Nat
  BY DEF Receiver, Cache
<1>2. r.base_seq <= z.base_seq /\ r.cache.min_seq <= z.cache.min_seq
  BY <1>1 DEF Grown
<1>3. r.waived \subseteq z.waived
  BY DEF Grown
<1> QED BY <1>2, <1>3 DEF Grown

(* What was told stays true.                                                *)
LEMMA StillTold ==
  ASSUME NEW r \in Receiver, NEW q \in Receiver, Grown(r, q), NEW gt, NEW hd, gt \subseteq hd, NEW m, Told(gt, r, m)
  PROVE  Told(hd, q, m)
BY DEF Grown, Told, Receiver

LEMMA FirsTold ==
  ASSUME NEW gt, NEW r, NEW q, NEW z, NEW m \in FirsSent(r, q)
  PROVE  Told(gt, z, m)
<1>1. m = FIR(q.fir_seq)
  BY DEF FirsSent
<1>2. m.type = "FIR"
  BY <1>1 DEF FIR
<1> QED BY <1>2 DEF Told

LEMMA StartedGrows ==
  ASSUME NEW gt, NEW r \in Receiver, PacketsKnown(gt, r, r.max_seq), FreshFits(gt, r), AsksAhead(gt, r),
         NEW seg \in Segment, seg.index < seg.packet_id, NEW q \in Receiver, q = Started(r, seg)
  PROVE  Grown(r, q) /\ AsksAhead(gt, q)
<1>1. CASE r.max_seq # 0
  BY <1>1, SelfGrown DEF Started
<1>2. CASE r.max_seq = 0
  <2> DEFINE m == seg.packet_id - seg.index - 1
             q1 == [r EXCEPT !.max_seq = m]
             q2 == [q1 EXCEPT !.base_seq = m]
             q3 == [q2 EXCEPT !.max_ts = seg.timestamp]
  <2>1. m \in Nat /\ m + 1 = seg.packet_id - seg.index /\ seg.timestamp \in Nat
    BY DEF Segment
  <2>2. q = [q3 EXCEPT !.waived = 1 .. m]
    BY <1>2 DEF Started
  <2> HIDE DEF m
  <2>3. q1 \in Receiver /\ q1.cache = r.cache /\ q1.loss = r.loss /\ q1.ackeds = r.ackeds
    BY <2>1 DEF Receiver
  <2> HIDE DEF q1
  <2>4. q2 \in Receiver /\ q2.base_seq = m /\ q2.cache = r.cache /\ q2.loss = r.loss /\ q2.ackeds = r.ackeds
    BY <2>1, <2>3 DEF Receiver
  <2> HIDE DEF q2
  <2>5. q3 \in Receiver /\ q3.base_seq = m /\ q3.cache = r.cache /\ q3.loss = r.loss /\ q3.ackeds = r.ackeds
    BY <2>1, <2>4 DEF Receiver
  <2> HIDE DEF q3
  <2>6. q.base_seq = m /\ q.cache = r.cache /\ q.loss = r.loss /\ q.ackeds = r.ackeds
    BY <2>2, <2>5 DEF Receiver
  <2>7. r.loss = {} /\ r.waived = {} /\ r.base_seq = 0
    BY <1>2 DEF PacketsKnown, FreshFits, Receiver
  <2>8. r.cache.min_seq \in Nat
    BY DEF Receiver, Cache
  <2> QED BY <2>1, <2>6, <2>7, <2>8 DEF Grown, AsksAhead
<1> QED BY <1>1, <1>2

LEMMA LossGrows ==
  ASSUME NEW gt, NEW r \in Receiver, AsksAhead(gt, r), r.base_seq <= r.max_seq,
         NEW seg \in Segment, NEW slow, NEW q \in Receiver, q = sim_receiver_update_loss(r, seg, slow)
  PROVE  Grown(r, q) /\ AsksAhead(gt, q)
<1> DEFINE skipped == r.max_seq + 1 .. seg.packet_id - 1
           missing == r.loss \ {seg.packet_id}
           f == sim_receiver_send_fir(r)
<1>1. r.base_seq \in Nat /\ r.max_seq \in Nat /\ r.cache.min_seq \in Nat /\ seg.packet_id \in Nat
  BY DEF Receiver, Cache, Segment
<1>2. \A p \in skipped \cup missing : r.base_seq < p
  BY <1>1 DEF AsksAhead
<1>3. f \in Receiver /\ f.base_seq = r.base_seq /\ f.cache = r.cache /\ f.ackeds = r.ackeds
  BY FirFits
<1>4. CASE slow \/ r.max_ts + LossDelay < seg.timestamp
  <2> DEFINE g == [f EXCEPT !.loss = {}]  w == r.waived \cup missing \cup skipped
  <2>1. q = [g EXCEPT !.waived = w]
    BY <1>4 DEF sim_receiver_update_loss
  <2> HIDE DEF f, w
  <2>2. g.base_seq = r.base_seq /\ g.cache = r.cache /\ g.ackeds = r.ackeds /\ g.loss = {} /\ g \in Receiver
    BY <1>3 DEF Receiver
  <2> HIDE DEF g
  <2>3. q.base_seq = r.base_seq /\ q.cache = r.cache /\ q.ackeds = r.ackeds /\ q.loss = {} /\ q.waived = w
    BY <2>1, <2>2 DEF Receiver
  <2> QED BY <1>1, <2>3 DEF Grown, AsksAhead, w
<1>5. CASE ~(slow \/ r.max_ts + LossDelay < seg.timestamp)
  <2> DEFINE l == missing \cup skipped
  <2>1. q = [r EXCEPT !.loss = l]
    BY <1>5 DEF sim_receiver_update_loss
  <2>2. \A p \in l : r.base_seq < p
    BY <1>2
  <2> HIDE DEF l
  <2>3. q.base_seq = r.base_seq /\ q.cache = r.cache /\ q.ackeds = r.ackeds /\ q.loss = l /\ q.waived = r.waived
    BY <2>1 DEF Receiver
  <2> QED BY <1>1, <2>2, <2>3 DEF Grown, AsksAhead
<1> QED BY <1>4, <1>5

LEMMA AckedHad ==
  ASSUME NEW r \in Receiver, NEW gt, ToSet(r.ackeds) \subseteq gt, NEW id \in Nat
  PROVE  ToSet(Acked(r, id)) \subseteq gt \cup {id}
<1> DEFINE ids == Append(r.ackeds, id)
<1>1. r.ackeds \in Seq(Nat) /\ ids \in Seq(Nat) /\ Len(ids) = Len(r.ackeds) + 1
      /\ \A i \in 1 .. Len(ids) : ids[i] \in gt \cup {id}
  <2>1. r.ackeds \in Seq(Nat)
    BY DEF Receiver
  <2>2. \A i \in 1 .. Len(r.ackeds) : r.ackeds[i] \in gt
    BY <2>1 DEF ToSet
  <2> QED BY <2>1, <2>2
<1>2. Len(ids) \in Nat /\ Len(ids) # 0
  BY <1>1
<1> HIDE DEF ids
<1>3. /\ Tail(ids) \in Seq(Nat) /\ Len(Tail(ids)) = Len(ids) - 1
      /\ \A i \in 1 .. Len(Tail(ids)) : Tail(ids)[i] = ids[i + 1]
  <2>1. ids # <<>>
    BY <1>2
  <2> QED BY <1>1, <2>1
<1>4. \A i \in 1 .. Len(Tail(ids)) : Tail(ids)[i] \in gt \cup {id}
  BY <1>1, <1>2, <1>3
<1>5. ToSet(ids) \subseteq gt \cup {id} /\ ToSet(Tail(ids)) \subseteq gt \cup {id}
  <2>1. DOMAIN ids = 1 .. Len(ids) /\ DOMAIN Tail(ids) = 1 .. Len(Tail(ids))
    BY <1>1, <1>3
  <2>2. ToSet(ids) \subseteq gt \cup {id}
    BY <1>1, <2>1 DEF ToSet
  <2>3. ToSet(Tail(ids)) \subseteq gt \cup {id}
    BY <1>4, <2>1 DEF ToSet
  <2> QED BY <2>2, <2>3
<1> QED BY <1>5 DEF Acked, ids

(* A segment put, refused or not wanted.                                    *)
LEMMA InternalPutGrows ==
  ASSUME NEW str, StreamFits(str), NEW gt, NEW last, last.fid \in Nat, NEW r, ReceiverFits(str, gt, r, last),
         AsksAhead(gt, r),
         NEW seg, seg.fid \in 1 .. Len(str), seg \in SegmentsOf(str, seg.fid),
         r.cache.max_fid # 0 => seg.fid < r.cache.min_fid + CacheSize,
         NEW slow \in BOOLEAN, NEW z, z = sim_receiver_internal_put(r, seg, slow).receiver,
         NEW hd, hd = IF Unwanted(r, seg) THEN gt ELSE gt \cup {seg.packet_id}
  PROVE  GrownTo(hd, r, z)
<1> USE DEF GrownTo
<1> DEFINE s == Started(r, seg)
           q == sim_receiver_update_loss(s, seg, slow)
           d == real_video_cache_put(r.cache, seg)
           n == Newest(s, seg)
<1>1. /\ r \in Receiver /\ PacketsKnown(gt, r, r.max_seq) /\ FreshFits(gt, r) /\ CacheFits(str, gt, r.cache)
  BY DEF ReceiverFits
<1>2. CASE Unwanted(r, seg)
  BY <1>1, <1>2, SelfGrown DEF sim_receiver_internal_put
<1>3. CASE ~Unwanted(r, seg)
  <2>1. /\ seg \in Segment /\ seg.packet_id \in Nat /\ seg.packet_id # 0 /\ seg.index < seg.packet_id
    <3>1. /\ seg \in Segment /\ seg.packet_id = str[seg.fid].first + seg.index /\ seg.index \in 0 .. str[seg.fid].total - 1
          /\ str[seg.fid].first \in Nat \ {0} /\ str[seg.fid].total \in Nat
      BY SegmentFits, FrameOfStream
    <3> DEFINE k == str[seg.fid].first
    <3>2. seg.packet_id = k + seg.index /\ k \in Nat \ {0} /\ seg.index \in Nat
      BY <3>1
    <3> HIDE DEF k
    <3> QED BY <3>1, <3>2
  <2>2. /\ s \in Receiver /\ s.cache = r.cache /\ s.ackeds = r.ackeds /\ PacketsKnown(gt, s, s.max_seq)
    BY StartedFits
  <2>3. Grown(r, s) /\ AsksAhead(gt, s)
    BY <1>1, <2>1, <2>2, StartedGrows
  <2> HIDE DEF s
  <2>4. LossNoted(gt \cup {seg.packet_id}, s, n, q)
    BY <2>1, <2>2, LossFits
  <2>5. q \in Receiver /\ q.cache = r.cache
    BY <2>2, <2>4 DEF LossNoted
  <2>6. Grown(s, q) /\ AsksAhead(gt, q)
    <3>1. s.base_seq <= s.max_seq
      BY <2>2 DEF PacketsKnown
    <3> QED BY <2>1, <2>2, <2>3, <2>5, <3>1, LossGrows
  <2> HIDE DEF q
  <2>7. Grown(r, q)
    BY <1>1, <2>2, <2>3, <2>5, <2>6, GrownOn
  <2>8. PutInSlot(str, gt, r.cache, seg, d)
    BY <1>1, PutFits
  <2>9. d \in Cache /\ d.min_seq = r.cache.min_seq
    BY <2>8 DEF PutInSlot, CacheFits
  <2>10. hd = gt \cup {seg.packet_id}
    BY <1>3
  <2>11. CASE PutAccepted(q.cache, seg)
    <3>1. z = PutInto(q, seg)
      BY <1>3, <2>11 DEF sim_receiver_internal_put, q, s
    <3>2. Arrived(q, z, Newest(q, seg), d)
      BY <2>1, <2>5, <2>9, <3>1, PutIntoFits
    <3>3. z.ackeds = Acked(q, seg.packet_id)
      <4> DEFINE t == IF seg.timestamp > q.max_ts THEN seg.timestamp ELSE q.max_ts
                 m == IF seg.packet_id > q.max_seq THEN seg.packet_id ELSE q.max_seq
                 e == real_video_cache_put(q.cache, seg)
      <4>1. z = [q EXCEPT !.cache = e, !.max_seq = m, !.max_ts = t, !.ackeds = Acked(q, seg.packet_id)]
        BY <3>1 DEF PutInto
      <4> HIDE DEF t, m, e
      <4> QED BY <2>5, <4>1 DEF Receiver
    <3>4. ToSet(z.ackeds) \subseteq hd
      BY <2>1, <2>5, <2>6, <2>10, <3>3, AckedHad DEF AsksAhead
    <3>5. z.base_seq = q.base_seq /\ z.loss = q.loss /\ z.waived = q.waived /\ z.cache.min_seq = q.cache.min_seq
          /\ z \in Receiver
      BY <2>5, <2>9, <3>2 DEF Arrived
    <3> QED BY <2>6, <2>7, <3>4, <3>5 DEF Grown, AsksAhead
  <2>12. CASE ~PutAccepted(q.cache, seg)
    <3>1. z = [q EXCEPT !.cache = d]
      <4>1. z = [q EXCEPT !.cache = real_video_cache_put(q.cache, seg)]
        BY <1>3, <2>12 DEF sim_receiver_internal_put, q, s
      <4> QED BY <2>5, <4>1
    <3> HIDE DEF d
    <3>2. /\ z.base_seq = q.base_seq /\ z.loss = q.loss /\ z.waived = q.waived /\ z.cache = d
          /\ z.ackeds = q.ackeds
      BY <2>5, <2>9, <3>1 DEF Receiver
    <3>3. ToSet(z.ackeds) \subseteq hd
      BY <2>6, <2>10, <3>2 DEF AsksAhead
    <3>4. z.cache.min_seq = q.cache.min_seq
      BY <2>5, <2>9, <3>2
    <3> QED BY <2>6, <2>7, <3>2, <3>3, <3>4 DEF Grown, AsksAhead
  <2> QED BY <2>11, <2>12
<1> QED BY <1>2, <1>3

LEMMA UpdateBaseGrows ==
  ASSUME NEW str, NEW gt, NEW last, NEW r, ReceiverFits(str, gt, r, last), AsksAhead(gt, r),
         NEW q, q = video_real_update_base(r)
  PROVE  Grown(r, q) /\ AsksAhead(gt, q) /\ q.ackeds = r.ackeds
<1> DEFINE missing == {p \in r.loss : ~(p > r.base_seq /\ p <= r.cache.min_seq)}
           base    == IF missing = {} THEN r.max_seq ELSE Least(missing) - 1
           q1      == [r EXCEPT !.loss = missing]
<1>1. /\ r \in Receiver /\ r.loss \in SUBSET Nat /\ r.max_seq \in Nat /\ r.base_seq \in Nat /\ r.cache.min_seq \in Nat
      /\ r.base_seq <= r.max_seq
  BY DEF ReceiverFits, Receiver, Cache, PacketsKnown
<1>2. missing \subseteq Nat /\ \A p \in missing : r.base_seq < p
  BY <1>1 DEF AsksAhead
<1>3. q = [q1 EXCEPT !.base_seq = base]
  BY Zenon DEF video_real_update_base
<1> HIDE DEF missing
<1>4. base \in Nat /\ r.base_seq <= base /\ \A p \in missing : base < p
  <2>1. CASE missing = {}
    BY <1>1, <2>1
  <2>2. CASE missing # {}
    <3> DEFINE l == Least(missing)
    <3>1. l \in missing /\ (\A p \in missing : l <= p) /\ base = l - 1
      BY <1>2, <2>2, LeastIsLeast
    <3> HIDE DEF l, base
    <3>2. l \in Nat /\ r.base_seq < l
      BY <1>2, <3>1
    <3> QED BY <1>1, <1>2, <3>1, <3>2
  <2> QED BY <2>1, <2>2
<1> HIDE DEF base
<1>5. /\ q.cache = r.cache /\ q.waived = r.waived /\ q.loss = missing /\ q.base_seq = base /\ q.ackeds = r.ackeds
  BY <1>1, <1>3 DEF Receiver
<1> QED BY <1>1, <1>4, <1>5 DEF Grown, AsksAhead

LEMMA WaivedGrows ==
  ASSUME NEW gt, NEW q \in Receiver, AsksAhead(gt, q)
  PROVE  Grown(q, WaivedLoss(q)) /\ AsksAhead(gt, WaivedLoss(q)) /\ WaivedLoss(q) \in Receiver
<1> DEFINE f == sim_receiver_send_fir(q)
           g == [f EXCEPT !.loss = {}]
           w == q.waived \cup q.loss
           h == [g EXCEPT !.waived = w]
<1>1. f \in Receiver /\ f.base_seq = q.base_seq /\ f.cache = q.cache /\ f.ackeds = q.ackeds
  BY FirFits
<1>2. w \in SUBSET Nat /\ q.waived \subseteq w
  BY DEF Receiver
<1>3. WaivedLoss(q) = h
  BY DEF WaivedLoss
<1> HIDE DEF f, w
<1>4. g \in Receiver /\ g.base_seq = q.base_seq /\ g.cache = q.cache /\ g.ackeds = q.ackeds /\ g.loss = {}
  BY <1>1 DEF Receiver
<1> HIDE DEF g
<1>5. /\ h \in Receiver /\ h.base_seq = q.base_seq /\ h.cache = q.cache /\ h.ackeds = q.ackeds /\ h.loss = {} /\ h.waived = w
  BY <1>2, <1>4 DEF Receiver
<1>6. q.base_seq \in Nat /\ q.cache.min_seq \in Nat
  BY DEF Receiver, Cache
<1> HIDE DEF h
<1> QED BY <1>2, <1>3, <1>5, <1>6 DEF Grown, AsksAhead

(* Of an acknowledgement, all that is sent is true.                         *)
LEMMA AckGrows ==
  ASSUME NEW str, NEW gt, NEW last, NEW r, ReceiverFits(str, gt, r, last), AsksAhead(gt, r),
         NEW seq, NEW slow \in BOOLEAN, NEW x \in video_real_ack(r, seq, slow)
  PROVE  Follows(gt, r, x.receiver, x.sent)
<1> DEFINE q == video_real_update_base(r)
           acked == IF q.base_seq < q.max_seq THEN {p \in ToSet(q.ackeds) : q.base_seq < p} ELSE {}
           after(nack) == IF slow /\ nack # {} THEN WaivedLoss(q) ELSE q
           ack(nack) == SegAck(q.base_seq, seq, IF slow /\ nack # {} THEN {} ELSE nack, acked)
           full(nack) == [receiver |-> [after(nack) EXCEPT !.ackeds = <<>>],
                          sent |-> {ack(nack)} \cup FirsSent(q, after(nack))]
<1>1. PICK nack : x = full(nack)
  BY Zenon DEF video_real_ack, WaivedLoss
<1>2. r \in Receiver /\ q \in Receiver /\ Grown(r, q) /\ AsksAhead(gt, q)
  BY UpdateBaseFits, UpdateBaseGrows DEF ReceiverFits
<1>3. acked \subseteq gt
  BY <1>2 DEF AsksAhead
<1> HIDE DEF q, acked
<1> DEFINE z == after(nack)
           y == [z EXCEPT !.ackeds = <<>>]
<1>4. z \in Receiver /\ Grown(q, z) /\ AsksAhead(gt, z)
  BY <1>2, WaivedGrows, SelfGrown
<1> HIDE DEF z
<1>5. y.cache = z.cache /\ y.base_seq = z.base_seq /\ y.loss = z.loss /\ y.waived = z.waived /\ y.ackeds = <<>> /\ y \in Receiver
  <2> DEFINE none == <<>>
  <2>1. none \in Seq(Nat) /\ y = [z EXCEPT !.ackeds = none]
    OBVIOUS
  <2> HIDE DEF none, y
  <2>2. y.cache = z.cache /\ y.base_seq = z.base_seq /\ y.loss = z.loss /\ y.waived = z.waived /\ y.ackeds = none
        /\ y \in Receiver
    BY <1>4, <2>1 DEF Receiver
  <2> QED BY <2>2 DEF none
<1> HIDE DEF y
<1>6. Grown(q, y) /\ AsksAhead(gt, y)
  <2>1. ToSet(y.ackeds) = {}
    BY <1>5 DEF ToSet
  <2>2. ToSet(y.ackeds) \subseteq gt
    BY <2>1
  <2> QED BY <1>4, <1>5, <2>2 DEF Grown, AsksAhead
<1>7. Grown(r, y)
  BY <1>2, <1>5, <1>6, GrownOn
<1>8. Told(gt, y, ack(nack))
  <2>1. /\ ack(nack).type = "SEG_ACK" /\ ack(nack).base_packet_id = q.base_seq /\ ack(nack).acked = acked
    BY DEF SegAck
  <2>2. q.base_seq \in Nat /\ q.base_seq <= y.base_seq
    BY <1>2, <1>6 DEF Grown, Receiver
  <2> QED BY <1>3, <2>1, <2>2 DEF Told
<1>9. x.receiver = y /\ x.sent = {ack(nack)} \cup FirsSent(q, z)
  BY <1>1 DEF y, z
<1>10. \A m \in x.sent : Told(gt, y, m)
  <2> HIDE DEF ack
  <2> QED BY <1>8, <1>9, FirsTold
<1> QED BY <1>6, <1>7, <1>9, <1>10 DEF Follows

(* The handler of a segment that came.                                      *)
LEMMA PutHandlerGrows ==
  ASSUME NEW str, StreamFits(str), NEW gt, NEW last, last.fid \in Nat, NEW r, ReceiverFits(str, gt, r, last),
         AsksAhead(gt, r),
         NEW seg, seg.fid \in 1 .. Len(str), seg \in SegmentsOf(str, seg.fid),
         r.cache.max_fid # 0 => seg.fid < r.cache.min_fid + CacheSize,
         NEW slow \in BOOLEAN, NEW x \in sim_receiver_put(r, seg, slow),
         NEW hd, hd = IF Unwanted(r, seg) THEN gt ELSE gt \cup {seg.packet_id}
  PROVE  Follows(hd, r, x.receiver, x.sent)
<1> DEFINE in == sim_receiver_internal_put(r, seg, slow)
           z  == in.receiver
           firs == FirsSent(r, z)
<1>1. ReceiverFits(str, hd, z, last) /\ Grown(r, z) /\ AsksAhead(hd, z)
  <2>1. z = sim_receiver_internal_put(r, seg, slow).receiver
    OBVIOUS
  <2> HIDE DEF in, z, firs
  <2>2. ReceiverFits(str, hd, z, last)
    BY <2>1, InternalPutFits
  <2>3. Grown(r, z) /\ AsksAhead(hd, z)
    <3>1. GrownTo(hd, r, z)
      BY <2>1, InternalPutGrows
    <3> QED BY <3>1 DEF GrownTo
  <2> QED BY <2>2, <2>3
<1>2. r \in Receiver /\ z \in Receiver
  BY <1>1 DEF ReceiverFits
<1>3. \A m \in firs : \A q : Told(hd, q, m)
  BY FirsTold
<1>4. x \in IF in.put THEN Acknowledged(z, seg.packet_id, slow, firs) ELSE {[receiver |-> z, sent |-> firs]}
  BY Zenon DEF sim_receiver_put
<1> HIDE DEF in, z, firs
<1>5. (x.receiver = z /\ x.sent = firs) \/ \E y \in video_real_ack(z, seg.packet_id, slow) :
                                               x.receiver = y.receiver /\ x.sent = y.sent \cup firs
  BY <1>4 DEF Acknowledged
<1>6. CASE x.receiver = z /\ x.sent = firs
  BY <1>1, <1>3, <1>6 DEF Follows
<1>7. ASSUME NEW y \in video_real_ack(z, seg.packet_id, slow), x.receiver = y.receiver, x.sent = y.sent \cup firs
      PROVE  Follows(hd, r, x.receiver, x.sent)
  <2>1. Follows(hd, z, y.receiver, y.sent) /\ y.receiver \in Receiver
    BY <1>1, AckGrows, AckFits DEF ReceiverFits
  <2>2. Grown(r, y.receiver)
    BY <1>1, <1>2, <2>1, GrownOn DEF Follows
  <2> QED BY <1>3, <1>7, <2>1, <2>2 DEF Follows
<1> QED BY <1>5, <1>6, <1>7

(* The player takes a frame, or none.                                       *)
LEMMA GetHandlerGrows ==
  ASSUME NEW str, StreamFits(str), NEW gt, NEW last, NEW r, ReceiverFits(str, gt, r, last), AsksAhead(gt, r),
         NEW x \in sim_receiver_get(r)
  PROVE  Follows(gt, r, x.receiver, {})
<1>1. PICK y \in real_video_cache_get(r.cache) : x.receiver = [r EXCEPT !.cache = y.cache]
  BY DEF sim_receiver_get
<1>2. r \in Receiver /\ CacheFits(str, gt, r.cache) /\ gt \subseteq Nat
  BY DEF ReceiverFits, PacketsKnown, Receiver
<1>3. CacheFits(str, gt, y.cache) /\ r.cache.min_seq <= y.cache.min_seq
  BY <1>2, GetFits
<1> DEFINE d == y.cache  q == x.receiver
<1>4. d \in Cache
  BY <1>3 DEF CacheFits
<1>5. q = [r EXCEPT !.cache = d]
  BY <1>1
<1> HIDE DEF d, q
<1>6. q.cache = d /\ q.base_seq = r.base_seq /\ q.loss = r.loss /\ q.waived = r.waived /\ q.ackeds = r.ackeds
  BY <1>2, <1>4, <1>5 DEF Receiver
<1>7. r.base_seq \in Nat
  BY <1>2 DEF Receiver
<1>8. Grown(r, q) /\ AsksAhead(gt, q)
  BY <1>3, <1>6, <1>7 DEF Grown, AsksAhead, d
<1> QED BY <1>8 DEF Follows, q
=============================================================================
