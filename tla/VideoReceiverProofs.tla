------------------------ MODULE VideoReceiverProofs ------------------------
(***************************************************************************)
(* Proofs about the receiver of a call with any network before it: for     *)
(* every stream and any loss, repetition and reordering of what arrives, a *)
(* slot holds segments of one frame only, no packet missing is forgotten,  *)
(* and the player is given what VideoSpec promises.                        *)
(***************************************************************************)
EXTENDS VideoReceiver, SimReceiverProofs

IInv ==
  /\ StreamFits(stream)
  /\ shown \in [fid : Nat, segments : Nat]
  /\ ReceiverFits(stream, got, rcv, shown)

(* What the network may deliver is a segment of the stream.                 *)
LEMMA ArrivingFits ==
  ASSUME StreamFits(stream), rcv.cache.max_fid \in Nat, NEW seg \in Arriving
  PROVE  /\ seg.fid \in 1 .. Len(stream) /\ seg \in SegmentsOf(stream, seg.fid)
         /\ rcv.cache.max_fid # 0 => seg.fid < rcv.cache.min_fid + CacheSize
<1>1. PICK f \in 1 .. Len(stream) : \E i \in 0 .. stream[f].total - 1 : seg = SegmentOf(f, i)
  BY DEF Arriving, Segments
<1>2. seg \in SegmentsOf(stream, f) /\ seg.fid = f
  <2>1. PICK i \in 0 .. stream[f].total - 1 : seg = SegmentOf(f, i)
    BY <1>1
  <2>2. /\ stream[f].first \in Nat /\ stream[f].total \in Nat /\ stream[f].ftype \in {0, 1}
        /\ stream[f].timestamp \in Nat /\ f \in Nat
    BY FrameOfStream
  <2>3. stream[f].first + i \in Nat /\ i \in Nat /\ i < stream[f].total
    BY <2>2
  <2> QED BY <2>1, <2>2, <2>3 DEF SegmentsOf, SegmentOf, Segment
<1>3. rcv.cache.max_fid # 0 => seg.fid < rcv.cache.min_fid + CacheSize
  BY DEF Arriving
<1> QED BY <1>2, <1>3

-----------------------------------------------------------------------------
(* The receiver of a new call fits a stream without frames.                 *)
LEMMA InitFits == Init => IInv
<1>1. StreamFits(<<>>) /\ ReceiverFits(<<>>, {}, sim_receiver_active(sim_receiver_create), NotPlayed)
  BY NewFits
<1>2. NotPlayed \in [fid : Nat, segments : Nat]
  BY DEF NotPlayed
<1> QED BY <1>1, <1>2 DEF IInv, Init

LEMMA EncodeStep ==
  ASSUME IInv, Encode
  PROVE  IInv' /\ Video!Encode
<1>1. PICK ftype \in {0, 1}, total \in Totals, gap \in Gaps : stream' = Append(stream, FrameAfter(ftype, total, gap))
  BY DEF Encode
<1> DEFINE fr == FrameAfter(ftype, total, gap)  n == Len(stream)
<1>2. total \in Nat \ {0} /\ gap \in Nat
  BY StreamAssumption
<1>3. StreamFits(stream) /\ n \in Nat /\ stream \in Seq(Frames) /\ ReceiverFits(stream, got, rcv, shown)
  BY DEF IInv, StreamFits
<1>4. fr \in Frames /\ LastOf(stream, n) < fr.first /\ fr \in NewFrame
  <2>1. CASE stream = <<>>
    <3>1. fr.first = 1 /\ fr.timestamp = 0 /\ n = 0
      BY <2>1 DEF FrameAfter
    <3> QED BY <1>2, <3>1 DEF FrameAfter, Frames, NewFrame, LastOf
  <2>2. CASE stream # <<>>
    <3>1. n \in 1 .. Len(stream)
      BY <1>3, <2>2
    <3>2. /\ stream[n].first \in Nat \ {0} /\ stream[n].total \in Nat \ {0} /\ stream[n].timestamp \in Nat
          /\ LastOf(stream, n) = stream[n].first + stream[n].total - 1
      BY <1>3, <3>1, FrameOfStream
    <3> DEFINE a == stream[n].first + stream[n].total  b == stream[n].timestamp + gap
    <3>3. fr = [ftype |-> ftype, total |-> total, first |-> a, timestamp |-> b]
      BY <2>2 DEF FrameAfter
    <3>4. a \in Nat \ {0} /\ b \in Nat /\ LastOf(stream, n) < a
      <4> DEFINE k == stream[n].first  m == stream[n].total
      <4>1. k \in Nat \ {0} /\ m \in Nat \ {0} /\ a = k + m /\ LastOf(stream, n) = k + m - 1
        BY <3>2
      <4>2. b \in Nat
        BY <1>2, <3>2
      <4> HIDE DEF a, b, k, m
      <4> QED BY <4>1, <4>2
    <3> HIDE DEF a, b, fr
    <3>5. fr \in Frames /\ fr \in NewFrame /\ fr.first = a
      BY <1>2, <3>3, <3>4 DEF Frames, NewFrame
    <3> QED BY <3>4, <3>5
  <2> QED BY <2>1, <2>2
<1>5. stream' = Append(stream, fr)
  BY <1>1
<1> HIDE DEF fr
<1>6. /\ StreamFits(stream') /\ Len(stream') = n + 1 /\ \A f \in 1 .. n : stream'[f] = stream[f]
      /\ stream' \in Seq(Frames)
  BY <1>3, <1>4, <1>5, LongerStream DEF StreamFits
<1>7. ReceiverFits(stream', got, rcv, shown)
  <2>1. n <= Len(stream') /\ Len(stream') \in Nat
    BY <1>3, <1>6
  <2> QED BY <1>3, <1>6, <2>1, LongerFits
<1>8. UNCHANGED <<rcv, got, shown>>
  BY DEF Encode
<1>9. IInv'
  BY <1>6, <1>7, <1>8 DEF IInv
<1>10. Video!Encode
  <2>1. SubSeq(stream', 1, n) = stream
    BY <1>3, <1>4, <1>5
  <2>2. stream'[Len(stream')] = fr
    BY <1>3, <1>4, <1>5
  <2> QED BY <1>4, <1>6, <1>8, <2>1, <2>2 DEF Video!Encode
<1> QED BY <1>9, <1>10

LEMMA PutStep ==
  ASSUME IInv, process_sim_seg \/ process_sim_fec
  PROVE  IInv' /\ UNCHANGED <<stream, shown>>
<1>1. PICK seg \in Arriving, slow \in Rtts : \E x \in sim_receiver_put(rcv, seg, slow) \cup sim_receiver_put_fec(rcv, seg, slow) :
         /\ rcv' = x.receiver
         /\ got' = IF Unwanted(rcv, seg) THEN got ELSE got \cup {seg.packet_id}
  BY DEF process_sim_seg, process_sim_fec
<1>2. PICK x \in sim_receiver_put(rcv, seg, slow) \cup sim_receiver_put_fec(rcv, seg, slow) :
         rcv' = x.receiver /\ got' = IF Unwanted(rcv, seg) THEN got ELSE got \cup {seg.packet_id}
  BY <1>1
<1>3. UNCHANGED <<stream, shown>>
  BY DEF process_sim_seg, process_sim_fec
<1>4. /\ StreamFits(stream) /\ ReceiverFits(stream, got, rcv, shown) /\ shown.fid \in Nat
      /\ rcv.cache.max_fid \in Nat /\ slow \in BOOLEAN
  BY ReceiverAssumption DEF IInv, ReceiverFits, Receiver, Cache
<1>5. /\ seg.fid \in 1 .. Len(stream) /\ seg \in SegmentsOf(stream, seg.fid)
      /\ rcv.cache.max_fid # 0 => seg.fid < rcv.cache.min_fid + CacheSize
  BY <1>4, ArrivingFits
<1>6. ReceiverFits(stream, got', x.receiver, shown)
  BY <1>2, <1>4, <1>5, PutHandlerFits
<1> QED BY <1>2, <1>3, <1>6 DEF IInv

LEMMA HeartbeatStep ==
  ASSUME IInv, Heartbeat
  PROVE  IInv' /\ UNCHANGED <<stream, shown>>
<1>1. PICK slow \in Rtts : \E x \in sim_receiver_timer(rcv, slow) : rcv' = x.receiver
  BY DEF Heartbeat
<1>2. PICK x \in video_real_ack(rcv, 0, slow) : rcv' = x.receiver
  BY <1>1 DEF sim_receiver_timer
<1>3. UNCHANGED <<stream, got, shown>>
  BY DEF Heartbeat
<1>4. ReceiverFits(stream, got, rcv, shown) /\ slow \in BOOLEAN
  BY ReceiverAssumption DEF IInv
<1>5. ReceiverFits(stream, got, x.receiver, shown)
  BY <1>4, AckFits
<1> QED BY <1>2, <1>3, <1>5 DEF IInv

LEMMA FirDelayStep ==
  ASSUME IInv, FirDelayOver
  PROVE  IInv' /\ UNCHANGED <<stream, shown>>
<1>1. rcv' = [rcv EXCEPT !.fir_recent = FALSE] /\ UNCHANGED <<stream, got, shown>>
  BY DEF FirDelayOver
<1>2. ReceiverFits(stream, got, rcv', shown)
  BY <1>1, FirOverFits DEF IInv
<1> QED BY <1>1, <1>2 DEF IInv

LEMMA GetStep ==
  ASSUME IInv, sim_session_recv_video
  PROVE  IInv' /\ (UNCHANGED <<stream, shown>> \/ Video!Show)
<1>1. PICK x \in sim_receiver_get(rcv) : rcv' = x.receiver /\ shown' = IF x.frame = NotPlayed THEN shown ELSE x.frame
  BY DEF sim_session_recv_video
<1>2. UNCHANGED <<stream, got>>
  BY DEF sim_session_recv_video
<1>3. StreamFits(stream) /\ ReceiverFits(stream, got, rcv, shown) /\ shown \in [fid : Nat, segments : Nat]
  BY DEF IInv
<1>4. PlaysOn(stream, got, x.receiver, shown, shown')
  BY <1>1, <1>3, GetHandlerFits
<1>5. IInv'
  BY <1>1, <1>2, <1>3, <1>4 DEF IInv, PlaysOn
<1>6. ASSUME ShowsNext(stream, shown, shown') PROVE Video!Show
  BY <1>2, <1>6 DEF ShowsNext, Video!Show, Video!Decodable
<1> QED BY <1>2, <1>4, <1>5, <1>6 DEF PlaysOn

LEMMA StepFits ==
  ASSUME IInv, [Next]_vars
  PROVE  IInv' /\ [Video!Next]_<<stream, shown>>
<1>1. CASE Encode
  BY <1>1, EncodeStep DEF Video!Next
<1>2. CASE process_sim_seg \/ process_sim_fec
  BY <1>2, PutStep
<1>3. CASE Heartbeat
  BY <1>3, HeartbeatStep
<1>4. CASE FirDelayOver
  BY <1>4, FirDelayStep
<1>5. CASE sim_session_recv_video
  BY <1>5, GetStep DEF Video!Next
<1>6. CASE UNCHANGED vars
  <2>1. UNCHANGED <<rcv, stream, got, shown>>
    BY <1>6 DEF vars
  <2> QED BY <2>1 DEF IInv
<1> QED BY <1>1, <1>2, <1>3, <1>4, <1>5, <1>6 DEF Next

-----------------------------------------------------------------------------
(* The receiver's invariant holds always: of every stream, for every ring,  *)
(* and whatever arrives in whatever order, is repeated or is lost.          *)
THEOREM InvariantHolds == Spec => []IInv
<1>1. Init => IInv
  BY InitFits
<1>2. IInv /\ [Next]_vars => IInv'
  BY StepFits
<1> QED BY <1>1, <1>2, PTL DEF Spec

(* A slot of the ring never holds segments of two frames, nor more of them  *)
(* than it was made for, and it holds its own frame: what reuse of a slot   *)
(* a ring later could break (real_video_cache_put, real_video_evict_frame). *)
THEOREM SlotsAlwaysOwned == Spec => []SlotsOwned
<1>1. IInv => SlotsOwned
  <2> SUFFICES ASSUME IInv, NEW i \in Slots, Occupied(rcv.cache, i)
               PROVE  /\ INDEX(rcv.cache.frames[i].fid) = i
                      /\ rcv.cache.frames[i].fid \in rcv.cache.min_fid + 1 .. rcv.cache.max_fid
                      /\ \A s \in rcv.cache.frames[i].segments :
                            s.fid = rcv.cache.frames[i].fid /\ s.index < rcv.cache.frames[i].seg_number
    BY DEF SlotsOwned, Occupied
  <2> DEFINE c == rcv.cache  frame == c.frames[i]
  <2>1. StreamFits(stream) /\ CacheFits(stream, got, c)
    BY DEF IInv, ReceiverFits
  <2>2. frame.fid \in c.min_fid + 1 .. c.max_fid /\ frame.fid \in 1 .. Len(stream) /\ INDEX(frame.fid) = i
    BY <2>1, HeldFits
  <2>3. frame.segments \subseteq SegmentsOf(stream, frame.fid) /\ frame.seg_number = stream[frame.fid].total
    BY <2>1 DEF CacheFits, SlotFits
  <2>4. ASSUME NEW s \in frame.segments PROVE s.fid = frame.fid /\ s.index < frame.seg_number
    <3> HIDE DEF frame
    <3>1. s.fid = frame.fid /\ s.index \in 0 .. stream[frame.fid].total - 1 /\ stream[frame.fid].total \in Nat
      BY <2>1, <2>2, <2>3, <2>4, SegmentFits, FrameOfStream
    <3> QED BY <2>3, <3>1
  <2> QED BY <2>2, <2>4
<1> QED BY <1>1, InvariantHolds, PTL

(* No packet that is missing is forgotten by either end, whatever the order *)
(* of arrival, the acknowledgements and the FIRs (sim_receiver_update_loss, *)
(* video_real_update_base).                                                 *)
THEOREM NoneEverForgotten == Spec => []NoneForgotten
<1>1. IInv => NoneForgotten
  BY DEF IInv, ReceiverFits, PacketsKnown, NoneForgotten, LossExact, BaseSound, Missing
<1> QED BY <1>1, InvariantHolds, PTL

(* The receiver implements what VideoSpec promises the player: every frame  *)
(* it gives out (sim_receiver_get) is whole, later than all before it, and  *)
(* needs none that was not given.                                           *)
THEOREM ReceiverImplementsVideo == Spec => ImplementsVideoSpec
<1>1. Init => Video!Init
  BY DEF Init, Video!Init, NotPlayed
<1>2. IInv /\ [Next]_vars => [Video!Next]_<<stream, shown>>
  BY StepFits
<1> QED BY <1>1, <1>2, InvariantHolds, PTL DEF Spec, ImplementsVideoSpec, Video!Spec
=============================================================================
