----------------------- MODULE VideoTransportProofs -----------------------
(***************************************************************************)
(* Proofs about the video of a call from the encoder to the player: over a *)
(* network that loses, delays and reorders in both directions, the sender  *)
(* keeps what the receiver wants and the player is given what VideoSpec    *)
(* promises.                                                               *)
(***************************************************************************)
EXTENDS VideoTransport, SimReceiverProofs

(* A ring's worth of frames is never in the way at once: 1024 frames, half  *)
(* a minute, in the code.                                                   *)
KeepsUp == rcv.cache.max_fid > 0 => Len(stream) < rcv.cache.min_fid + CacheSize

OneCall == call = [phase |-> "up", placed |-> 1, answered |-> 1]

(* What the sender counts is what it has put.                               *)
SenderFits ==
  /\ snd \in Sender
  /\ snd.frame_id_seed = Len(stream)
  /\ snd.packet_id_seed = LastOf(stream, Len(stream))

(* What is kept, or in flight, is of the stream.                            *)
SegmentsFit == \A seg \in snd.segs_cache \cup data : seg.fid \in 1 .. Len(stream) /\ seg \in SegmentsOf(stream, seg.fid)

ShownFits == shown \in [fid : Nat, segments : Nat] /\ NoneEmpty

(* What is in flight to the sender is true, however late it comes.          *)
AllTold == \A m \in ctrl : Told(got, rcv, m)

IInv ==
  /\ OneCall
  /\ StreamFits(stream)
  /\ SenderFits
  /\ SegmentsFit
  /\ AckCacheLive
  /\ ShownFits
  /\ ReceiverFits(stream, got, rcv, shown)
  /\ AsksAhead(got, rcv)
  /\ AllTold
  /\ SenderBaseSound
  /\ KeptWhileWanted

-----------------------------------------------------------------------------
(* The sender.  From s to q it forgets nothing but what a base or an        *)
(* acknowledgement takes away.                                              *)
Forgets(s, q, base, acked) ==
  /\ q \in Sender
  /\ q.frame_id_seed = s.frame_id_seed /\ q.packet_id_seed = s.packet_id_seed
  /\ q.segs_cache = s.segs_cache
  /\ q.ack_cache \subseteq s.ack_cache
  /\ \A seg \in s.ack_cache \ q.ack_cache : seg.packet_id <= base \/ seg.packet_id \in acked
  /\ q.base_packet_id \in {s.base_packet_id, base}

LEMMA BaseForgets ==
  ASSUME NEW s \in Sender, NEW base \in Nat, NEW q, q = sim_sender_update_base(s, base)
  PROVE  Forgets(s, q, base, {})
<1>1. CASE base <= s.base_packet_id
  BY <1>1 DEF sim_sender_update_base, Forgets
<1>2. CASE ~(base <= s.base_packet_id)
  <2> DEFINE kept == {seg \in s.ack_cache : seg.packet_id > base}
             q1 == [s EXCEPT !.base_packet_id = base]
  <2>1. q = [q1 EXCEPT !.ack_cache = kept]
    BY <1>2 DEF sim_sender_update_base
  <2>2. kept \subseteq s.ack_cache /\ \A seg \in s.ack_cache \ kept : seg.packet_id \in Nat /\ seg.packet_id <= base
    BY DEF Sender
  <2> HIDE DEF kept
  <2>3. /\ q1 \in Sender /\ q1.frame_id_seed = s.frame_id_seed /\ q1.packet_id_seed = s.packet_id_seed
        /\ q1.segs_cache = s.segs_cache /\ q1.ack_cache = s.ack_cache /\ q1.base_packet_id = base
    BY DEF Sender
  <2> HIDE DEF q1
  <2>4. /\ q \in Sender /\ q.frame_id_seed = s.frame_id_seed /\ q.packet_id_seed = s.packet_id_seed
        /\ q.segs_cache = s.segs_cache /\ q.ack_cache = kept /\ q.base_packet_id = base
    BY <2>1, <2>2, <2>3 DEF Sender
  <2> QED BY <2>2, <2>4 DEF Forgets
<1> QED BY <1>1, <1>2

LEMMA WaitingFits ==
  ASSUME NEW w \in SUBSET [id : Nat, fec : BOOLEAN], NEW segs, \A seg \in segs : seg.send_id \in Nat
  PROVE  w \cup {[id |-> seg.send_id, fec |-> FALSE] : seg \in segs} \in SUBSET [id : Nat, fec : BOOLEAN]
<1> DEFINE a == {[id |-> seg.send_id, fec |-> FALSE] : seg \in segs}
<1>1. ASSUME NEW x \in a PROVE x \in [id : Nat, fec : BOOLEAN]
  <2>1. PICK seg \in segs : x = [id |-> seg.send_id, fec |-> FALSE]
    OBVIOUS
  <2> QED BY <2>1
<1> QED BY <1>1

LEMMA AckForgets ==
  ASSUME NEW s \in Sender, NEW m, m.base_packet_id \in Nat, NEW q \in sim_sender_ack(s, m)
  PROVE  Forgets(s, q, m.base_packet_id, m.acked)
<1> DEFINE based == sim_sender_update_base(s, m.base_packet_id)
           kept  == {seg \in based.ack_cache : seg.packet_id \notin m.acked}
           acked == [based EXCEPT !.ack_cache = kept]
<1>1. CASE ~Believable(s, m)
  BY <1>1 DEF sim_sender_ack, Forgets
<1>2. CASE Believable(s, m)
  <2>1. PICK again \in SUBSET Askable(acked, m) :
           q = [acked EXCEPT !.waiting = acked.waiting \cup {[id |-> seg.send_id, fec |-> FALSE] : seg \in again}]
    BY <1>2, Zenon DEF sim_sender_ack
  <2>2. Forgets(s, based, m.base_packet_id, {})
    BY BaseForgets
  <2> HIDE DEF based
  <2>3. kept \subseteq based.ack_cache /\ \A seg \in based.ack_cache \ kept : seg.packet_id \in m.acked
    OBVIOUS
  <2> HIDE DEF kept
  <2>4. /\ acked \in Sender /\ acked.frame_id_seed = based.frame_id_seed /\ acked.packet_id_seed = based.packet_id_seed
        /\ acked.segs_cache = based.segs_cache /\ acked.ack_cache = kept /\ acked.base_packet_id = based.base_packet_id
    BY <2>2, <2>3 DEF Forgets, Sender
  <2> HIDE DEF acked
  <2> DEFINE w == acked.waiting \cup {[id |-> seg.send_id, fec |-> FALSE] : seg \in again}
  <2>5. w \in SUBSET [id : Nat, fec : BOOLEAN]
    <3>1. acked.waiting \in SUBSET [id : Nat, fec : BOOLEAN] /\ \A seg \in again : seg.send_id \in Nat
      BY <2>4 DEF Sender, Askable
    <3> HIDE DEF acked
    <3> QED BY <3>1, WaitingFits
  <2>6. q = [acked EXCEPT !.waiting = w]
    BY <2>1
  <2> HIDE DEF w
  <2>7. /\ q \in Sender /\ q.frame_id_seed = acked.frame_id_seed /\ q.packet_id_seed = acked.packet_id_seed
        /\ q.segs_cache = acked.segs_cache /\ q.ack_cache = acked.ack_cache /\ q.base_packet_id = acked.base_packet_id
    BY <2>4, <2>5, <2>6 DEF Sender
  <2> QED BY <2>2, <2>3, <2>4, <2>7 DEF Forgets
<1> QED BY <1>1, <1>2

(* What the pacer sends is what was kept of it.                             *)
LEMMA PacketSent ==
  ASSUME NEW s \in Sender, NEW q, q = sim_send_packet(s)
  PROVE  /\ q \in Sender /\ q.frame_id_seed = s.frame_id_seed /\ q.packet_id_seed = s.packet_id_seed
         /\ q.segs_cache = s.segs_cache /\ q.ack_cache = s.ack_cache /\ q.base_packet_id = s.base_packet_id
         /\ SegmentsSent(s) \subseteq s.segs_cache
<1> DEFINE w == s.waiting \ {PacerFront(s)}
<1>1. w \in SUBSET [id : Nat, fec : BOOLEAN]
  BY DEF Sender
<1>2. q = [s EXCEPT !.waiting = w]
  BY DEF sim_send_packet
<1> HIDE DEF w
<1>3. /\ q \in Sender /\ q.frame_id_seed = s.frame_id_seed /\ q.packet_id_seed = s.packet_id_seed
      /\ q.segs_cache = s.segs_cache /\ q.ack_cache = s.ack_cache /\ q.base_packet_id = s.base_packet_id
  BY <1>1, <1>2 DEF Sender
<1>4. SegmentsSent(s) \subseteq s.segs_cache
  BY DEF SegmentsSent
<1> QED BY <1>3, <1>4

(* A frame put: its segments take the next packets.                         *)
Puts(s, total, segs, q) ==
  /\ q \in Sender
  /\ q.frame_id_seed = s.frame_id_seed + 1 /\ q.packet_id_seed = s.packet_id_seed + total
  /\ q.base_packet_id = s.base_packet_id
  /\ q.segs_cache = s.segs_cache \cup segs /\ q.ack_cache = s.ack_cache \cup segs

Splits(s, total, str, segs) ==
  /\ \A seg \in segs : seg.fid = Len(str) /\ seg \in SegmentsOf(str, Len(str))
  /\ \A p \in s.packet_id_seed + 1 .. s.packet_id_seed + total : \E seg \in segs : seg.packet_id = p

LEMMA PutSplits ==
  ASSUME NEW s \in Sender, NEW ftype \in {0, 1}, NEW total \in Nat \ {0}, NEW timestamp \in Nat, NEW fecs \in Nat,
         NEW q, q = sim_sender_put(s, ftype, total, timestamp, fecs),
         NEW segs, segs = SplitFrame(s, ftype, total, timestamp)
  PROVE  Puts(s, total, segs, q)
<1> DEFINE p == s.packet_id_seed + total
           i == s.send_id_seed + total + fecs
           f == s.frame_id_seed + 1
           a == s.segs_cache \cup segs
           b == s.ack_cache \cup segs
           extra == s.send_id_seed + total + 1 .. s.send_id_seed + total + fecs
           c == s.fecs_cache \cup extra
           w == s.waiting \cup {[id |-> seg.send_id, fec |-> FALSE] : seg \in segs} \cup {[id |-> x, fec |-> TRUE] : x \in extra}
<1>1. s.packet_id_seed \in Nat /\ s.send_id_seed \in Nat /\ s.frame_id_seed \in Nat
  BY DEF Sender
<1>2. segs \in SUBSET [packet_id : Nat, send_id : Nat, fid : Nat, index : Nat, total : Nat, ftype : {0, 1}, timestamp : Nat]
  BY <1>1 DEF SplitFrame
<1>3. p \in Nat /\ i \in Nat /\ f \in Nat /\ extra \subseteq Nat
  BY <1>1
<1>4. q = [s EXCEPT !.packet_id_seed = p, !.send_id_seed = i, !.frame_id_seed = f, !.segs_cache = a, !.ack_cache = b,
                    !.fecs_cache = c, !.waiting = w]
  BY Zenon DEF sim_sender_put
<1> HIDE DEF extra
<1>5. w \in SUBSET [id : Nat, fec : BOOLEAN]
  <2>1. \A seg \in segs : seg.send_id \in Nat
    BY <1>2
  <2>2. s.waiting \in SUBSET [id : Nat, fec : BOOLEAN]
    BY DEF Sender
  <2>3. s.waiting \cup {[id |-> seg.send_id, fec |-> FALSE] : seg \in segs} \in SUBSET [id : Nat, fec : BOOLEAN]
    BY <2>1, <2>2, WaitingFits
  <2>4. \A y \in {[id |-> x, fec |-> TRUE] : x \in extra} : y \in [id : Nat, fec : BOOLEAN]
    <3>1. \A x \in extra : [id |-> x, fec |-> TRUE] \in [id : Nat, fec : BOOLEAN]
      BY <1>3
    <3> QED BY <3>1
  <2> QED BY <2>3, <2>4
<1>6. /\ a \in SUBSET [packet_id : Nat, send_id : Nat, fid : Nat, index : Nat, total : Nat, ftype : {0, 1}, timestamp : Nat]
      /\ b \in SUBSET [packet_id : Nat, send_id : Nat, fid : Nat, index : Nat, total : Nat, ftype : {0, 1}, timestamp : Nat]
      /\ c \in SUBSET Nat
  BY <1>2, <1>3 DEF Sender
<1>7. q = [base_packet_id |-> s.base_packet_id, packet_id_seed |-> p, send_id_seed |-> i, frame_id_seed |-> f,
           segs_cache |-> a, ack_cache |-> b, fecs_cache |-> c, waiting |-> w]
  <2> HIDE DEF p, i, f, a, b, c, w
  <2> QED BY <1>4 DEF Sender
<1>8. s.base_packet_id \in Nat
  BY DEF Sender
<1> HIDE DEF w, p, i, f, a, b, c
<1>9. /\ q \in Sender /\ q.frame_id_seed = f /\ q.packet_id_seed = p /\ q.base_packet_id = s.base_packet_id
      /\ q.segs_cache = a /\ q.ack_cache = b
  BY <1>3, <1>5, <1>6, <1>7, <1>8 DEF Sender
<1> QED BY <1>9 DEF p, f, a, b, Puts

LEMMA SplitFits ==
  ASSUME NEW str, StreamFits(str), NEW s \in Sender, s.frame_id_seed = Len(str), s.packet_id_seed \in Nat,
         NEW ftype \in {0, 1}, NEW total \in Nat \ {0}, NEW timestamp \in Nat,
         NEW new, new = Append(str, [ftype |-> ftype, total |-> total, first |-> s.packet_id_seed + 1, timestamp |-> timestamp]),
         NEW segs, segs = SplitFrame(s, ftype, total, timestamp)
  PROVE  Splits(s, total, new, segs)
<1> DEFINE n == Len(str) + 1  k == s.packet_id_seed + 1
<1>1. n \in Nat /\ k \in Nat /\ s.send_id_seed \in Nat
  BY DEF StreamFits, Sender
<1>2. new[n].first = k /\ new[n].total = total /\ new[n].ftype = ftype /\ new[n].timestamp = timestamp
  BY DEF StreamFits
<1>3. segs = {[packet_id |-> k + i, send_id |-> s.send_id_seed + 1 + i, fid |-> n, index |-> i, total |-> total,
               ftype |-> ftype, timestamp |-> timestamp] : i \in 0 .. total - 1}
  BY DEF SplitFrame
<1>4. ASSUME NEW seg \in segs PROVE seg.fid = n /\ seg \in SegmentsOf(new, n)
  <2>1. PICK i \in 0 .. total - 1 :
           seg = [packet_id |-> k + i, send_id |-> s.send_id_seed + 1 + i, fid |-> n, index |-> i, total |-> total,
                  ftype |-> ftype, timestamp |-> timestamp]
    BY <1>3, <1>4
  <2> HIDE DEF n, k
  <2>2. /\ seg.packet_id = k + i /\ seg.fid = n /\ seg.index = i /\ seg.total = total /\ seg.ftype = ftype
        /\ seg.timestamp = timestamp /\ i < total
    BY <2>1
  <2>3. seg \in Segment
    BY <1>1, <2>1 DEF Segment
  <2> QED BY <1>2, <2>2, <2>3 DEF SegmentsOf
<1>5. ASSUME NEW p \in k .. s.packet_id_seed + total PROVE \E seg \in segs : seg.packet_id = p
  <2>1. p - k \in 0 .. total - 1 /\ k + (p - k) = p
    BY <1>1
  <2> DEFINE i == p - k
             seg == [packet_id |-> k + i, send_id |-> s.send_id_seed + 1 + i, fid |-> n, index |-> i, total |-> total,
                     ftype |-> ftype, timestamp |-> timestamp]
  <2>2. seg \in segs
    BY <1>3, <2>1
  <2>3. seg.packet_id = p
    BY <2>1
  <2> QED BY <2>2, <2>3
<1>6. Len(new) = n
  BY DEF StreamFits
<1> QED BY <1>4, <1>5, <1>6 DEF Splits

-----------------------------------------------------------------------------
(* What the sender forgets by a base the receiver has reached, or by the    *)
(* acknowledgement of what has come, is not wanted.                         *)
LEMMA NotWanted ==
  ASSUME ReceiverFits(stream, got, rcv, shown), NEW base \in Nat, base <= rcv.base_seq, NEW acked, acked \subseteq got,
         NEW p \in Wanted
  PROVE  ~(p <= base) /\ p \notin acked
<1>1. p \in 1 .. snd.packet_id_seed /\ p \notin got /\ p \notin rcv.waived /\ p > rcv.cache.min_seq
  BY DEF Wanted
<1>2. rcv.base_seq \in Nat /\ rcv.max_seq \in Nat /\ rcv.cache.min_seq \in Nat /\ rcv.base_seq <= rcv.max_seq
  BY DEF ReceiverFits, Receiver, Cache, PacketsKnown
<1>3. ASSUME p <= base PROVE FALSE
  <2>1. p \in Int /\ 1 <= p
    BY <1>1
  <2>2. p <= rcv.base_seq /\ p <= rcv.max_seq
    BY <1>2, <1>3, <2>1
  <2>3. p \in 1 .. rcv.max_seq
    BY <1>2, <2>1, <2>2
  <2>4. p \in rcv.waived \/ p <= rcv.cache.min_seq
    BY <1>1, <2>2, <2>3 DEF ReceiverFits, PacketsKnown
  <2> QED BY <1>1, <1>2, <2>1, <2>4
<1> QED BY <1>1, <1>3

(* The sender hears of a base and of packets that came.                     *)
LEMMA SenderHears ==
  ASSUME IInv, UNCHANGED <<rcv, call, stream, got, shown, data, forgotten>>, ctrl' \subseteq ctrl,
         NEW base \in Nat, base <= rcv.base_seq, NEW acked, acked \subseteq got, Forgets(snd, snd', base, acked)
  PROVE  IInv'
<1>1. /\ OneCall' /\ StreamFits(stream)' /\ ShownFits' /\ ReceiverFits(stream, got, rcv, shown)' /\ AsksAhead(got, rcv)'
  BY DEF IInv, OneCall, ShownFits, NoneEmpty
<1>2. SenderFits'
  BY DEF IInv, SenderFits, Forgets
<1>3. SegmentsFit'
  BY DEF IInv, SegmentsFit, Forgets
<1>4. AckCacheLive'
  BY DEF IInv, AckCacheLive, Forgets
<1>5. AllTold'
  BY DEF IInv, AllTold
<1>6. SenderBaseSound'
  BY DEF IInv, SenderBaseSound, Forgets
<1>7. KeptWhileWanted'
  <2>1. Wanted' = Wanted
    BY DEF Wanted, Forgets
  <2>2. ASSUME NEW p \in Wanted PROVE p \in {seg.packet_id : seg \in snd'.ack_cache} \cup forgotten
    <3>1. p \in {seg.packet_id : seg \in snd.ack_cache} \cup forgotten
      BY <2>2 DEF IInv, KeptWhileWanted
    <3>2. ~(p <= base) /\ p \notin acked
      BY <2>2, NotWanted DEF IInv
    <3>3. ASSUME NEW seg \in snd.ack_cache, p = seg.packet_id PROVE seg \in snd'.ack_cache
      BY <3>2, <3>3 DEF Forgets
    <3> QED BY <3>1, <3>3
  <2> QED BY <2>1, <2>2 DEF KeptWhileWanted
<1> QED BY <1>1, <1>2, <1>3, <1>4, <1>5, <1>6, <1>7 DEF IInv

(* The sender lets segments go, and it is noted.                            *)
LEMMA SenderLetsGo ==
  ASSUME IInv, UNCHANGED <<rcv, call, stream, got, shown, data>>, ctrl' \subseteq ctrl,
         snd' \in Sender, snd'.frame_id_seed = snd.frame_id_seed, snd'.packet_id_seed = snd.packet_id_seed,
         snd'.base_packet_id = snd.base_packet_id, snd'.segs_cache \subseteq snd.segs_cache,
         snd'.ack_cache \subseteq snd.ack_cache \cap snd'.segs_cache,
         forgotten \cup {seg.packet_id : seg \in snd.ack_cache \ snd'.ack_cache} \subseteq forgotten'
  PROVE  IInv'
<1>1. /\ OneCall' /\ StreamFits(stream)' /\ ShownFits' /\ ReceiverFits(stream, got, rcv, shown)' /\ AsksAhead(got, rcv)'
  BY DEF IInv, OneCall, ShownFits, NoneEmpty
<1>2. SenderFits'
  BY DEF IInv, SenderFits
<1>3. SegmentsFit'
  BY DEF IInv, SegmentsFit
<1>4. AckCacheLive'
  BY DEF IInv, AckCacheLive
<1>5. AllTold'
  BY DEF IInv, AllTold
<1>6. SenderBaseSound'
  BY DEF IInv, SenderBaseSound
<1>7. KeptWhileWanted'
  <2>1. Wanted' = Wanted
    BY DEF Wanted
  <2>2. ASSUME NEW p \in Wanted PROVE p \in {seg.packet_id : seg \in snd'.ack_cache} \cup forgotten'
    <3>1. p \in {seg.packet_id : seg \in snd.ack_cache} \cup forgotten
      BY <2>2 DEF IInv, KeptWhileWanted
    <3>2. ASSUME NEW seg \in snd.ack_cache PROVE seg.packet_id \in {s.packet_id : s \in snd'.ack_cache} \cup forgotten'
      BY <3>2
    <3> QED BY <3>1, <3>2
  <2> QED BY <2>1, <2>2 DEF KeptWhileWanted
<1> QED BY <1>1, <1>2, <1>3, <1>4, <1>5, <1>6, <1>7 DEF IInv

(* The receiver handles what came, or its player or its clock, and tells of *)
(* it.                                                                      *)
LEMMA ReceiverTells ==
  ASSUME IInv, UNCHANGED <<snd, call, stream, forgotten>>, data' \subseteq data, got \subseteq got',
         ReceiverFits(stream, got', rcv', shown'), ShownFits',
         NEW sent, Follows(got', rcv, rcv', sent), ctrl' \subseteq ctrl \cup sent
  PROVE  IInv'
<1>1. OneCall' /\ StreamFits(stream)' /\ ReceiverFits(stream, got, rcv, shown)' /\ AsksAhead(got, rcv)'
  BY DEF IInv, OneCall, Follows
<1>2. SenderFits' /\ AckCacheLive'
  BY DEF IInv, SenderFits, AckCacheLive
<1>3. SegmentsFit'
  BY DEF IInv, SegmentsFit
<1>4. rcv \in Receiver /\ rcv' \in Receiver /\ Grown(rcv, rcv')
  BY DEF IInv, ReceiverFits, Follows
<1>5. AllTold'
  <2> SUFFICES ASSUME NEW m \in ctrl' PROVE Told(got', rcv', m)
    BY DEF AllTold
  <2>1. CASE m \in ctrl
    BY <1>4, <2>1, StillTold DEF IInv, AllTold
  <2>2. CASE m \in sent
    BY <2>2 DEF Follows
  <2> QED BY <2>1, <2>2
<1>6. SenderBaseSound'
  <2>1. snd.base_packet_id \in Nat /\ rcv.base_seq \in Nat /\ rcv'.base_seq \in Nat
    BY <1>4 DEF IInv, SenderFits, Sender, Receiver
  <2> QED BY <1>4, <2>1 DEF IInv, SenderBaseSound, Grown
<1>7. KeptWhileWanted'
  <2>1. rcv.cache.min_seq \in Nat /\ rcv'.cache.min_seq \in Nat /\ rcv.cache.min_seq <= rcv'.cache.min_seq
        /\ rcv.waived \subseteq rcv'.waived
    BY <1>4 DEF Receiver, Cache, Grown
  <2>2. ASSUME NEW p \in Wanted' PROVE p \in Wanted
    <3>1. p \in 1 .. snd.packet_id_seed /\ p \notin got' /\ p \notin rcv'.waived /\ p > rcv'.cache.min_seq
      BY <2>2 DEF Wanted
    <3>2. p > rcv.cache.min_seq
      BY <2>1, <3>1
    <3> QED BY <2>1, <3>1, <3>2 DEF Wanted
  <2> QED BY <2>2 DEF IInv, KeptWhileWanted
<1> QED BY <1>1, <1>2, <1>3, <1>5, <1>6, <1>7 DEF IInv

-----------------------------------------------------------------------------
(* At the start of the call nothing is sent and nothing has come.           *)
LEMMA InitFits == Init => IInv
<1> SUFFICES ASSUME Init PROVE IInv
  OBVIOUS
<1>1. StreamFits(<<>>) /\ ReceiverFits(<<>>, {}, sim_receiver_active(sim_receiver_create), NotPlayed)
  BY NewFits
<1>2. StreamFits(stream) /\ ReceiverFits(stream, got, rcv, shown)
  BY <1>1 DEF Init
<1>3. ShownFits /\ OneCall
  BY DEF Init, ShownFits, NoneEmpty, NotPlayed, OneCall
<1>4. /\ snd \in Sender /\ snd.frame_id_seed = 0 /\ snd.packet_id_seed = 0 /\ snd.base_packet_id = 0
      /\ snd.segs_cache = {} /\ snd.ack_cache = {}
  BY DEF Init, sim_sender_create, Sender
<1>5. Len(stream) = 0 /\ LastOf(stream, Len(stream)) = 0
  BY DEF Init, LastOf
<1>6. SenderFits /\ SegmentsFit /\ AckCacheLive
  BY <1>4, <1>5 DEF SenderFits, SegmentsFit, AckCacheLive, Init
<1>7. rcv.loss = {} /\ rcv.ackeds = <<>> /\ rcv.base_seq = 0
  BY DEF Init, sim_receiver_active, sim_receiver_create
<1>8. AsksAhead(got, rcv)
  <2>1. ToSet(rcv.ackeds) = {}
    BY <1>7 DEF ToSet
  <2> QED BY <1>7, <2>1 DEF AsksAhead
<1>9. AllTold /\ SenderBaseSound
  BY <1>4, <1>7 DEF AllTold, SenderBaseSound, Init
<1>10. KeptWhileWanted
  BY <1>4 DEF KeptWhileWanted, Wanted
<1> QED BY <1>2, <1>3, <1>6, <1>8, <1>9, <1>10 DEF IInv

(* A frame encoded: its segments are kept, and all of them are wanted.      *)
LEMMA EncodeStep ==
  ASSUME IInv, sim_session_send_video
  PROVE  IInv' /\ Video!Encode
<1>1. PICK ftype \in {0, 1}, total \in Totals, gap \in Gaps, fecs \in Fecs :
        LET timestamp == IF stream = <<>> THEN 0 ELSE Now + gap
        IN  /\ stream' = Append(stream, [ftype |-> ftype, total |-> total, first |-> snd.packet_id_seed + 1,
                                         timestamp |-> timestamp])
            /\ snd' = sim_sender_put(snd, ftype, total, timestamp, fecs)
  BY DEF sim_session_send_video
<1> DEFINE timestamp == IF stream = <<>> THEN 0 ELSE Now + gap
           fr == [ftype |-> ftype, total |-> total, first |-> snd.packet_id_seed + 1, timestamp |-> timestamp]
           segs == SplitFrame(snd, ftype, total, timestamp)
           n == Len(stream)
<1>2. total \in Nat \ {0} /\ gap \in Nat /\ fecs \in Nat
  BY TransportAssumption
<1>3. /\ StreamFits(stream) /\ n \in Nat /\ stream \in Seq(Frames) /\ ReceiverFits(stream, got, rcv, shown)
      /\ snd \in Sender /\ snd.frame_id_seed = n /\ snd.packet_id_seed = LastOf(stream, n) /\ snd.packet_id_seed \in Nat
  BY DEF IInv, StreamFits, SenderFits, Sender
<1>4. timestamp \in Nat
  <2>1. CASE stream = <<>>
    BY <2>1
  <2>2. CASE stream # <<>>
    <3>1. n \in 1 .. Len(stream)
      BY <1>3, <2>2
    <3>2. stream[n].timestamp \in Nat
      BY <1>3, <3>1, FrameOfStream
    <3> QED BY <1>2, <2>2, <3>2 DEF Now
  <2> QED BY <2>1, <2>2
<1>5. stream' = Append(stream, fr) /\ snd' = sim_sender_put(snd, ftype, total, timestamp, fecs)
  BY <1>1
<1> HIDE DEF timestamp
<1>6. fr \in Frames /\ LastOf(stream, n) < fr.first /\ fr \in NewFrame
  BY <1>2, <1>3, <1>4 DEF Frames, NewFrame
<1>7. /\ \A seg \in segs : seg.fid = n + 1 /\ seg \in SegmentsOf(stream', n + 1)
      /\ \A p \in snd.packet_id_seed + 1 .. snd.packet_id_seed + total : \E seg \in segs : seg.packet_id = p
  <2> DEFINE new == stream'
  <2>1. /\ segs = SplitFrame(snd, ftype, total, timestamp)
        /\ new = Append(stream, [ftype |-> ftype, total |-> total, first |-> snd.packet_id_seed + 1, timestamp |-> timestamp])
    BY <1>5
  <2> HIDE DEF segs, new
  <2>2. Splits(snd, total, new, segs)
    BY <1>2, <1>3, <1>4, <2>1, SplitFits
  <2>3. Len(new) = n + 1
    BY <1>3, <2>1
  <2> QED BY <2>2, <2>3 DEF new, Splits
<1>8. /\ snd' \in Sender /\ snd'.frame_id_seed = n + 1 /\ snd'.packet_id_seed = snd.packet_id_seed + total
      /\ snd'.base_packet_id = snd.base_packet_id
      /\ snd'.segs_cache = snd.segs_cache \cup segs /\ snd'.ack_cache = snd.ack_cache \cup segs
  <2> DEFINE q == snd'
  <2>1. segs = SplitFrame(snd, ftype, total, timestamp) /\ q = sim_sender_put(snd, ftype, total, timestamp, fecs)
    BY <1>5
  <2> HIDE DEF segs, q
  <2>2. Puts(snd, total, segs, q)
    BY <1>2, <1>3, <1>4, <2>1, PutSplits
  <2> QED BY <1>3, <2>2 DEF q, Puts
<1>9. fr.first = snd.packet_id_seed + 1 /\ fr.total = total
  OBVIOUS
<1> HIDE DEF fr, segs
<1>10. /\ StreamFits(stream') /\ Len(stream') = n + 1 /\ \A f \in 1 .. n : stream'[f] = stream[f]
       /\ stream' \in Seq(Frames)
  BY <1>3, <1>5, <1>6, LongerStream DEF StreamFits
<1>11. stream'[n + 1] = fr
  BY <1>3, <1>5, <1>6
<1>12. UNCHANGED <<rcv, call, data, ctrl, got, forgotten, shown>>
  BY DEF sim_session_send_video
<1>13. ReceiverFits(stream', got, rcv, shown)
  <2>1. n <= Len(stream') /\ Len(stream') \in Nat
    BY <1>3, <1>10
  <2> QED BY <1>3, <1>10, <2>1, LongerFits
<1>14. SenderFits'
  <2>1. LastOf(stream', n + 1) = snd.packet_id_seed + total
    <3>1. LastOf(stream', n + 1) = fr.first + fr.total - 1
      BY <1>3, <1>11 DEF LastOf
    <3> QED BY <1>2, <1>3, <1>9, <3>1
  <2> QED BY <1>8, <1>10, <2>1 DEF SenderFits
<1>15. SegmentsFit'
  <2> SUFFICES ASSUME NEW seg \in snd'.segs_cache \cup data'
               PROVE  seg.fid \in 1 .. Len(stream') /\ seg \in SegmentsOf(stream', seg.fid)
    BY DEF SegmentsFit
  <2>1. CASE seg \in segs
    <3>1. n + 1 \in 1 .. Len(stream')
      BY <1>3, <1>10
    <3> QED BY <1>7, <2>1, <3>1
  <2>2. CASE seg \in snd.segs_cache \cup data
    <3>1. seg.fid \in 1 .. n /\ seg \in SegmentsOf(stream, seg.fid)
      BY <2>2 DEF IInv, SegmentsFit
    <3>2. seg.fid \in 1 .. Len(stream') /\ stream'[seg.fid] = stream[seg.fid]
      BY <1>3, <1>10, <3>1
    <3> QED BY <3>1, <3>2 DEF SegmentsOf
  <2> QED BY <1>8, <1>12, <2>1, <2>2
<1>16. AckCacheLive' /\ SenderBaseSound'
  BY <1>8, <1>12 DEF IInv, AckCacheLive, SenderBaseSound
<1>17. OneCall' /\ ShownFits' /\ AllTold' /\ AsksAhead(got, rcv)'
  BY <1>12 DEF IInv, OneCall, ShownFits, NoneEmpty, AllTold
<1>18. KeptWhileWanted'
  <2> SUFFICES ASSUME NEW p \in Wanted' PROVE p \in {seg.packet_id : seg \in snd'.ack_cache} \cup forgotten'
    BY DEF KeptWhileWanted
  <2>1. /\ p \in 1 .. snd.packet_id_seed + total /\ p \notin got \cup rcv.waived /\ p > rcv.cache.min_seq
    BY <1>8, <1>12 DEF Wanted
  <2>2. CASE p \in 1 .. snd.packet_id_seed
    <3>1. p \in Wanted
      BY <2>1, <2>2 DEF Wanted
    <3>2. p \in {seg.packet_id : seg \in snd.ack_cache} \cup forgotten
      BY <3>1 DEF IInv, KeptWhileWanted
    <3> QED BY <1>8, <1>12, <3>2
  <2>3. CASE p \in snd.packet_id_seed + 1 .. snd.packet_id_seed + total
    BY <1>7, <1>8, <2>3
  <2>4. p \in 1 .. snd.packet_id_seed \/ p \in snd.packet_id_seed + 1 .. snd.packet_id_seed + total
    BY <1>2, <1>3, <2>1
  <2> QED BY <2>2, <2>3, <2>4
<1>19. IInv'
  BY <1>10, <1>12, <1>13, <1>14, <1>15, <1>16, <1>17, <1>18 DEF IInv
<1>20. Video!Encode
  <2>1. SubSeq(stream', 1, n) = stream
    BY <1>3, <1>5, <1>6
  <2> QED BY <1>6, <1>10, <1>11, <1>12, <2>1 DEF Video!Encode
<1> QED BY <1>19, <1>20

LEMMA TransmitStep ==
  ASSUME IInv, Transmit
  PROVE  IInv' /\ UNCHANGED <<stream, shown>>
<1>1. UNCHANGED <<rcv, call, ctrl, stream, got, forgotten, shown>> /\ snd' = sim_send_packet(snd)
      /\ data' \subseteq data \cup SegmentsSent(snd)
  BY DEF Transmit, SendData
<1>2. /\ snd' \in Sender /\ snd'.frame_id_seed = snd.frame_id_seed /\ snd'.packet_id_seed = snd.packet_id_seed
      /\ snd'.segs_cache = snd.segs_cache /\ snd'.ack_cache = snd.ack_cache /\ snd'.base_packet_id = snd.base_packet_id
      /\ SegmentsSent(snd) \subseteq snd.segs_cache
  BY <1>1, PacketSent DEF IInv, SenderFits
<1>3. SenderFits' /\ AckCacheLive' /\ SenderBaseSound' /\ KeptWhileWanted'
  BY <1>1, <1>2 DEF IInv, SenderFits, AckCacheLive, SenderBaseSound, KeptWhileWanted, Wanted
<1>4. SegmentsFit'
  BY <1>1, <1>2 DEF IInv, SegmentsFit
<1>5. OneCall' /\ StreamFits(stream)' /\ ShownFits' /\ ReceiverFits(stream, got, rcv, shown)' /\ AsksAhead(got, rcv)' /\ AllTold'
  BY <1>1 DEF IInv, OneCall, ShownFits, NoneEmpty, AllTold
<1> QED BY <1>1, <1>3, <1>4, <1>5 DEF IInv

LEMMA SegmentStep ==
  ASSUME IInv, KeepsUp, NEW seg \in data, process_sim_seg(seg)
  PROVE  IInv' /\ UNCHANGED <<stream, shown>>
<1>1. PICK slow \in Rtts : \E x \in sim_receiver_put(rcv, seg, slow) : rcv' = x.receiver /\ SendCtrl(ctrl, x.sent)
  BY DEF process_sim_seg
<1>2. PICK x \in sim_receiver_put(rcv, seg, slow) : rcv' = x.receiver /\ SendCtrl(ctrl, x.sent)
  BY <1>1
<1>3. /\ UNCHANGED <<snd, call, stream, forgotten, shown>> /\ data' \subseteq data
      /\ got' = IF Unwanted(rcv, seg) THEN got ELSE got \cup {seg.packet_id}
  BY DEF process_sim_seg
<1>4. /\ StreamFits(stream) /\ ReceiverFits(stream, got, rcv, shown) /\ AsksAhead(got, rcv) /\ shown.fid \in Nat
      /\ rcv.cache.max_fid \in Nat /\ rcv.cache.min_fid \in Nat /\ slow \in BOOLEAN
  BY ReceiverAssumption DEF IInv, ReceiverFits, Receiver, Cache, ShownFits
<1>5. seg.fid \in 1 .. Len(stream) /\ seg \in SegmentsOf(stream, seg.fid)
  BY DEF IInv, SegmentsFit
<1>6. rcv.cache.max_fid # 0 => seg.fid < rcv.cache.min_fid + CacheSize
  <2>1. Len(stream) \in Nat /\ CacheSize \in Nat
    BY <1>4, RingAssumption DEF StreamFits
  <2> QED BY <1>4, <1>5, <2>1 DEF KeepsUp
<1>7. ReceiverFits(stream, got', x.receiver, shown)
  BY <1>3, <1>4, <1>5, <1>6, PutHandlerFits
<1>8. Follows(got', rcv, x.receiver, x.sent)
  BY <1>3, <1>4, <1>5, <1>6, PutHandlerGrows
<1>9. ctrl' \subseteq ctrl \cup x.sent
  BY <1>2 DEF SendCtrl
<1>10. got \subseteq got' /\ ShownFits'
  BY <1>3 DEF IInv, ShownFits, NoneEmpty
<1> QED BY <1>2, <1>3, <1>7, <1>8, <1>9, <1>10, ReceiverTells

LEMMA SegAckStep ==
  ASSUME IInv, process_sim_seg_ack
  PROVE  IInv' /\ UNCHANGED <<stream, shown>>
<1>1. PICK m \in ctrl : m.type = "SEG_ACK" /\ ctrl' = ctrl \ {m} /\ snd' \in sim_sender_ack(snd, m)
  BY DEF process_sim_seg_ack, IInv, OneCall
<1>2. UNCHANGED <<rcv, call, data, stream, got, forgotten, shown>>
  BY DEF process_sim_seg_ack
<1>3. m.base_packet_id \in Nat /\ m.base_packet_id <= rcv.base_seq /\ m.acked \subseteq got
  BY <1>1 DEF IInv, AllTold, Told
<1>4. Forgets(snd, snd', m.base_packet_id, m.acked)
  BY <1>1, <1>3, AckForgets DEF IInv, SenderFits
<1> QED BY <1>1, <1>2, <1>3, <1>4, SenderHears

LEMMA SenderFeedbackStep ==
  ASSUME IInv, process_sim_feedback
  PROVE  IInv' /\ UNCHANGED <<stream, shown>>
<1>1. PICK m \in ctrl : m.type = "FEEDBACK" /\ ctrl' = ctrl \ {m} /\ snd' = sim_sender_feedback(snd, m)
  BY DEF process_sim_feedback, IInv, OneCall
<1>2. UNCHANGED <<rcv, call, data, stream, got, forgotten, shown>>
  BY DEF process_sim_feedback
<1>3. m.base_packet_id \in Nat /\ m.base_packet_id <= rcv.base_seq
  BY <1>1 DEF IInv, AllTold, Told
<1>4. Forgets(snd, snd', m.base_packet_id, {})
  BY <1>1, <1>3, BaseForgets DEF IInv, SenderFits, sim_sender_feedback
<1>5. {} \subseteq got
  OBVIOUS
<1> QED BY <1>1, <1>2, <1>3, <1>4, <1>5, SenderHears

LEMMA FirStep ==
  ASSUME IInv, process_sim_fir
  PROVE  IInv' /\ UNCHANGED <<stream, shown>>
<1>1. PICK m \in ctrl :
        /\ ctrl' = ctrl \ {m}
        /\ \/ snd' = sim_clean_ack_cache(snd) /\ forgotten' = forgotten \cup {seg.packet_id : seg \in snd.ack_cache}
           \/ UNCHANGED <<snd, forgotten>>
  BY DEF process_sim_fir, IInv, OneCall
<1>2. UNCHANGED <<rcv, call, data, stream, got, shown>>
  BY DEF process_sim_fir
<1>3. snd \in Sender /\ snd.ack_cache \subseteq snd.segs_cache
  BY DEF IInv, SenderFits, AckCacheLive
<1>4. CASE snd' = sim_clean_ack_cache(snd) /\ forgotten' = forgotten \cup {seg.packet_id : seg \in snd.ack_cache}
  <2>1. /\ snd' \in Sender /\ snd'.frame_id_seed = snd.frame_id_seed /\ snd'.packet_id_seed = snd.packet_id_seed
        /\ snd'.base_packet_id = snd.base_packet_id /\ snd'.segs_cache = snd.segs_cache /\ snd'.ack_cache = {}
    BY <1>3, <1>4 DEF Sender, sim_clean_ack_cache
  <2> QED BY <1>1, <1>2, <1>4, <2>1, SenderLetsGo
<1>5. CASE UNCHANGED <<snd, forgotten>>
  <2>1. snd.ack_cache \subseteq snd.ack_cache \cap snd.segs_cache
    BY <1>3
  <2> QED BY <1>1, <1>2, <1>3, <1>5, <2>1, SenderLetsGo
<1> QED BY <1>1, <1>2, <1>4, <1>5

LEMMA AcknowledgeStep ==
  ASSUME IInv, Acknowledge
  PROVE  IInv' /\ UNCHANGED <<stream, shown>>
<1>1. PICK slow \in Rtts : \E x \in sim_receiver_timer(rcv, slow) : rcv' = x.receiver /\ SendCtrl(ctrl, x.sent)
  BY DEF Acknowledge
<1>2. PICK x \in video_real_ack(rcv, 0, slow) : rcv' = x.receiver /\ SendCtrl(ctrl, x.sent)
  BY <1>1 DEF sim_receiver_timer
<1>3. UNCHANGED <<snd, call, stream, data, got, forgotten, shown>>
  BY DEF Acknowledge
<1>4. ReceiverFits(stream, got, rcv, shown) /\ AsksAhead(got, rcv) /\ slow \in BOOLEAN
  BY ReceiverAssumption DEF IInv
<1>5. ReceiverFits(stream, got, x.receiver, shown) /\ Follows(got, rcv, x.receiver, x.sent)
  BY <1>4, AckFits, AckGrows
<1>6. ctrl' \subseteq ctrl \cup x.sent /\ ShownFits'
  BY <1>2, <1>3 DEF SendCtrl, IInv, ShownFits, NoneEmpty
<1> QED BY <1>2, <1>3, <1>5, <1>6, ReceiverTells

LEMMA FeedbackStep ==
  ASSUME IInv, Feedback
  PROVE  IInv' /\ UNCHANGED <<stream, shown>>
<1> DEFINE m == send_sim_feedback(rcv)
<1>1. UNCHANGED <<snd, rcv, call, data, stream, got, forgotten, shown>> /\ ctrl' \subseteq ctrl \cup {m}
  BY DEF Feedback, SendCtrl
<1>2. ReceiverFits(stream, got, rcv, shown) /\ rcv \in Receiver /\ rcv.base_seq \in Nat /\ ShownFits'
  BY <1>1 DEF IInv, ReceiverFits, Receiver, ShownFits, NoneEmpty
<1>3. Told(got, rcv, m)
  BY <1>2 DEF send_sim_feedback, Told
<1> HIDE DEF m
<1>4. Follows(got, rcv, rcv, {m})
  BY <1>2, <1>3, SelfGrown DEF IInv, Follows
<1> QED BY <1>1, <1>2, <1>4, ReceiverTells

LEMMA FirDelayStep ==
  ASSUME IInv, FirDelayOver
  PROVE  IInv' /\ UNCHANGED <<stream, shown>>
<1>1. /\ rcv' = [rcv EXCEPT !.fir_recent = FALSE]
      /\ UNCHANGED <<snd, call, data, ctrl, stream, got, forgotten, shown>>
  BY DEF FirDelayOver
<1>2. ReceiverFits(stream, got, rcv', shown)
  BY <1>1, FirOverFits DEF IInv
<1>3. /\ rcv \in Receiver /\ rcv'.base_seq = rcv.base_seq /\ rcv'.cache = rcv.cache /\ rcv'.waived = rcv.waived
      /\ rcv'.loss = rcv.loss /\ rcv'.ackeds = rcv.ackeds
  BY <1>1 DEF IInv, ReceiverFits, Receiver
<1>4. rcv.base_seq \in Nat /\ rcv.cache.min_seq \in Nat
  BY <1>3 DEF Receiver, Cache
<1>5. Follows(got, rcv, rcv', {})
  BY <1>3, <1>4 DEF IInv, Follows, Grown, AsksAhead
<1>6. ShownFits'
  BY <1>1 DEF IInv, ShownFits, NoneEmpty
<1> QED BY <1>1, <1>2, <1>5, <1>6, ReceiverTells

LEMMA EvictStep ==
  ASSUME IInv, Evict
  PROVE  IInv' /\ UNCHANGED <<stream, shown>>
<1>1. PICK time \in 0 .. Now, fec \in {0} \cup snd.fecs_cache :
        /\ snd' = sim_sender_evict_cache(snd, time, fec)
        /\ forgotten' = forgotten \cup {seg.packet_id : seg \in snd.ack_cache \ snd'.ack_cache}
  BY DEF Evict
<1>2. UNCHANGED <<rcv, call, data, ctrl, stream, got, shown>>
  BY DEF Evict
<1> DEFINE old == {seg \in snd.segs_cache : seg.timestamp <= time}
           a == snd.segs_cache \ old
           b == {seg \in snd.ack_cache : \A o \in old : o.packet_id # seg.packet_id}
           c == {x \in snd.fecs_cache : x > fec}
           q1 == [snd EXCEPT !.segs_cache = a]
           q2 == [q1 EXCEPT !.ack_cache = b]
<1>3. snd \in Sender /\ snd.ack_cache \subseteq snd.segs_cache
  BY DEF IInv, SenderFits, AckCacheLive
<1>4. a \subseteq snd.segs_cache /\ b \subseteq snd.ack_cache /\ b \subseteq a /\ c \subseteq snd.fecs_cache
  <2>1. b \subseteq a
    BY <1>3
  <2> QED BY <2>1
<1>5. snd' = [q2 EXCEPT !.fecs_cache = c]
  BY <1>1 DEF sim_sender_evict_cache
<1> HIDE DEF a, b, c
<1>6. /\ q1 \in Sender /\ q1.frame_id_seed = snd.frame_id_seed /\ q1.packet_id_seed = snd.packet_id_seed
      /\ q1.base_packet_id = snd.base_packet_id /\ q1.segs_cache = a /\ q1.ack_cache = snd.ack_cache
      /\ q1.fecs_cache = snd.fecs_cache
  BY <1>3, <1>4 DEF Sender
<1> HIDE DEF q1
<1>7. /\ q2 \in Sender /\ q2.frame_id_seed = snd.frame_id_seed /\ q2.packet_id_seed = snd.packet_id_seed
      /\ q2.base_packet_id = snd.base_packet_id /\ q2.segs_cache = a /\ q2.ack_cache = b
      /\ q2.fecs_cache = snd.fecs_cache
  BY <1>3, <1>4, <1>6 DEF Sender
<1> HIDE DEF q2
<1>8. /\ snd' \in Sender /\ snd'.frame_id_seed = snd.frame_id_seed /\ snd'.packet_id_seed = snd.packet_id_seed
      /\ snd'.base_packet_id = snd.base_packet_id /\ snd'.segs_cache = a /\ snd'.ack_cache = b
  BY <1>3, <1>4, <1>5, <1>7 DEF Sender
<1> QED BY <1>1, <1>2, <1>4, <1>8, SenderLetsGo

LEMMA GetStep ==
  ASSUME IInv, sim_session_recv_video
  PROVE  IInv' /\ (UNCHANGED <<stream, shown>> \/ Video!Show)
<1>1. PICK x \in sim_receiver_get(rcv) : rcv' = x.receiver /\ shown' = IF x.frame = NotPlayed THEN shown ELSE x.frame
  BY DEF sim_session_recv_video
<1>2. UNCHANGED <<snd, call, data, ctrl, stream, got, forgotten>>
  BY DEF sim_session_recv_video
<1>3. /\ StreamFits(stream) /\ ReceiverFits(stream, got, rcv, shown) /\ shown \in [fid : Nat, segments : Nat]
      /\ AsksAhead(got, rcv)
  BY DEF IInv, ShownFits
<1>4. PlaysOn(stream, got, x.receiver, shown, shown')
  BY <1>1, <1>3, GetHandlerFits
<1>5. Follows(got, rcv, x.receiver, {})
  BY <1>3, GetHandlerGrows
<1>6. ReceiverFits(stream, got, x.receiver, shown') /\ ShownFits'
  <2>1. ReceiverFits(stream, got, x.receiver, shown') /\ shown' \in [fid : Nat, segments : Nat]
    BY <1>4 DEF PlaysOn
  <2>2. CASE shown' = shown
    BY <2>1, <2>2 DEF IInv, ShownFits, NoneEmpty
  <2>3. CASE ShowsNext(stream, shown, shown')
    <3>1. PICK fid \in shown.fid + 1 .. Len(stream) : shown' = [fid |-> fid, segments |-> stream[fid].total]
      BY <2>3 DEF ShowsNext
    <3>2. fid \in 1 .. Len(stream) /\ Len(stream) \in Nat
      BY <1>3 DEF StreamFits
    <3>3. stream[fid].total \in Nat \ {0}
      BY <1>3, <3>2, FrameOfStream
    <3>4. shown'.segments > 0
      BY <3>1, <3>3
    <3> QED BY <2>1, <3>4 DEF ShownFits, NoneEmpty
  <2> QED BY <1>4, <2>1, <2>2, <2>3 DEF PlaysOn
<1>7. IInv'
  BY <1>1, <1>2, <1>5, <1>6, ReceiverTells
<1>8. ASSUME ShowsNext(stream, shown, shown') PROVE Video!Show
  BY <1>2, <1>8 DEF ShowsNext, Video!Show, Video!Decodable
<1> QED BY <1>2, <1>4, <1>7, <1>8 DEF PlaysOn

(* A caller that places one call is never dialing again.                    *)
LEMMA StepFits ==
  ASSUME MaxCalls = 1, IInv, KeepsUp, [Next]_vars
  PROVE  IInv' /\ [Video!Next]_<<stream, shown>>
<1>1. CASE sim_session_send_video
  BY <1>1, EncodeStep DEF Video!Next
<1>2. CASE Transmit
  BY <1>2, TransmitStep
<1>3. ASSUME NEW seg \in data, process_sim_seg(seg) PROVE IInv' /\ UNCHANGED <<stream, shown>>
  BY <1>3, SegmentStep
<1>4. CASE process_sim_seg_ack
  BY <1>4, SegAckStep
<1>5. CASE process_sim_feedback
  BY <1>5, SenderFeedbackStep
<1>6. CASE process_sim_fir
  BY <1>6, FirStep
<1>7. CASE Acknowledge
  BY <1>7, AcknowledgeStep
<1>8. CASE Feedback
  BY <1>8, FeedbackStep
<1>9. CASE FirDelayOver
  BY <1>9, FirDelayStep
<1>10. CASE Evict
  BY <1>10, EvictStep
<1>11. CASE sim_session_recv_video
  BY <1>11, GetStep DEF Video!Next
<1>12. CASE sim_session_connect \/ process_sim_connect \/ process_sim_connect_ack
  BY <1>12 DEF IInv, OneCall, sim_session_connect, process_sim_connect, process_sim_connect_ack
<1>13. CASE UNCHANGED vars
  BY <1>13 DEF vars, IInv, OneCall, SenderFits, SegmentsFit, AckCacheLive, ShownFits, NoneEmpty, AllTold,
               SenderBaseSound, KeptWhileWanted, Wanted
<1> QED BY <1>1, <1>2, <1>3, <1>4, <1>5, <1>6, <1>7, <1>8, <1>9, <1>10, <1>11, <1>12, <1>13 DEF Next

-----------------------------------------------------------------------------
(* Of one call, however many frames, over any network: both ends keep what  *)
(* they must, as long as the player is never a whole ring behind.           *)
THEOREM InvariantHolds ==
  ASSUME MaxCalls = 1
  PROVE  Spec /\ []KeepsUp => []IInv
<1>1. Init => IInv
  BY InitFits
<1>2. IInv /\ KeepsUp /\ [Next]_vars => IInv'
  BY StepFits
<1> QED BY <1>1, <1>2, PTL DEF Spec

(* The base the sender holds, and below which it sends nothing again, is    *)
(* one the receiver has reached, whatever acknowledgements and feedbacks    *)
(* are lost or overtaken (sim_sender_update_base, video_real_update_base).  *)
THEOREM SenderBaseAlwaysSound ==
  ASSUME MaxCalls = 1
  PROVE  Spec /\ []KeepsUp => []SenderBaseSound
<1>1. IInv => SenderBaseSound
  BY DEF IInv
<1> QED BY <1>1, InvariantHolds, PTL

(* The sender can send again whatever the receiver may still want, unless   *)
(* it grew too old or a key frame was asked for: no acknowledgement, base   *)
(* or FIR, late or out of order, takes away what has not come               *)
(* (sim_sender_ack, sim_sender_feedback, process_sim_fir).                  *)
THEOREM AlwaysKeptWhileWanted ==
  ASSUME MaxCalls = 1
  PROVE  Spec /\ []KeepsUp => []KeptWhileWanted
<1>1. IInv => KeptWhileWanted
  BY DEF IInv
<1> QED BY <1>1, InvariantHolds, PTL

(* Sender, receiver and network together implement what VideoSpec promises  *)
(* the player: what it is given is whole, in order and decodable.           *)
THEOREM TransportImplementsVideo ==
  ASSUME MaxCalls = 1
  PROVE  Spec /\ []KeepsUp => ImplementsVideoSpec
<1>1. Init => Video!Init
  BY DEF Init, Video!Init, NotPlayed
<1>2. IInv /\ KeepsUp /\ [Next]_vars => [Video!Next]_<<stream, shown>>
  BY StepFits
<1> QED BY <1>1, <1>2, InvariantHolds, PTL DEF Spec, ImplementsVideoSpec, Video!Spec

(* Each slot in use holds segments of one frame, the one whose place it is  *)
(* (real_video_cache_put, real_video_clean_frame), and neither end keeps    *)
(* what it must not.                                                        *)
THEOREM CachesAlwaysSound ==
  ASSUME MaxCalls = 1
  PROVE  Spec /\ []KeepsUp => []CachesSound
<1>1. IInv => CachesSound
  <2> SUFFICES ASSUME IInv, NEW i \in Slots, Occupied(rcv.cache, i)
               PROVE  /\ INDEX(rcv.cache.frames[i].fid) = i
                      /\ rcv.cache.frames[i].fid \in rcv.cache.min_fid + 1 .. rcv.cache.max_fid
                      /\ \A s \in rcv.cache.frames[i].segments : s.fid = rcv.cache.frames[i].fid
    BY DEF IInv, CachesSound, SlotsOwned, Occupied
  <2> DEFINE c == rcv.cache  frame == c.frames[i]
  <2>1. StreamFits(stream) /\ CacheFits(stream, got, c)
    BY DEF IInv, ReceiverFits
  <2>2. frame.fid \in c.min_fid + 1 .. c.max_fid /\ INDEX(frame.fid) = i
    BY <2>1, HeldFits
  <2>3. frame.segments \subseteq SegmentsOf(stream, frame.fid)
    BY <2>1 DEF CacheFits, SlotFits
  <2>4. ASSUME NEW s \in frame.segments PROVE s.fid = frame.fid
    <3> HIDE DEF frame
    <3> QED BY <2>3, <2>4 DEF SegmentsOf
  <2> QED BY <2>2, <2>4
<1> QED BY <1>1, InvariantHolds, PTL

(* Within a call the player is given no empty frame: it takes the next call *)
(* (reset_real_video_cache) for one to come out.                            *)
THEOREM NoneEmptyInOneCall ==
  ASSUME MaxCalls = 1
  PROVE  Spec /\ []KeepsUp => []NoneEmpty
<1>1. IInv => NoneEmpty
  BY DEF IInv, ShownFits
<1> QED BY <1>1, InvariantHolds, PTL

-----------------------------------------------------------------------------
(* However many calls are placed, and whatever of the last is in flight:    *)
(* the segments looked up by acknowledgements are among those kept.         *)
SenderFields == {"base_packet_id", "packet_id_seed", "send_id_seed", "frame_id_seed", "segs_cache", "ack_cache",
                 "fecs_cache", "waiting"}

Live(s) == DOMAIN s = SenderFields /\ s.ack_cache \subseteq s.segs_cache

LEMMA NewLive == Live(sim_sender_create)
BY DEF Live, SenderFields, sim_sender_create

LEMMA FieldSet ==
  ASSUME NEW s, DOMAIN s = SenderFields, NEW f \in SenderFields, NEW v, NEW q, q = [s EXCEPT ![f] = v]
  PROVE  DOMAIN q = SenderFields /\ q[f] = v /\ \A g \in SenderFields : g # f => q[g] = s[g]
OBVIOUS

LEMMA LessLive ==
  ASSUME NEW s, Live(s), NEW a, a \subseteq s.ack_cache, NEW q, q = [s EXCEPT !.ack_cache = a]
  PROVE  Live(q)
<1>1. "ack_cache" \in SenderFields /\ "segs_cache" \in SenderFields
  BY DEF SenderFields
<1>2. DOMAIN q = SenderFields /\ q.ack_cache = a /\ q.segs_cache = s.segs_cache
  BY <1>1 DEF Live
<1> QED BY <1>2 DEF Live

LEMMA OtherLive ==
  ASSUME NEW s, Live(s), NEW f \in SenderFields, f # "ack_cache", f # "segs_cache", NEW v, NEW q, q = [s EXCEPT ![f] = v]
  PROVE  Live(q) /\ q.ack_cache = s.ack_cache
<1>1. "ack_cache" \in SenderFields /\ "segs_cache" \in SenderFields
  BY DEF SenderFields
<1>2. DOMAIN q = SenderFields /\ q.ack_cache = s.ack_cache /\ q.segs_cache = s.segs_cache
  BY <1>1 DEF Live
<1> QED BY <1>2 DEF Live

LEMMA BaseLive ==
  ASSUME NEW s, Live(s), NEW base
  PROVE  Live(sim_sender_update_base(s, base))
<1> DEFINE q == [s EXCEPT !.base_packet_id = base]
           kept == {seg \in s.ack_cache : seg.packet_id > base}
<1>1. Live(q) /\ q.ack_cache = s.ack_cache
  BY OtherLive DEF SenderFields
<1>2. sim_sender_update_base(s, base) \in {s, [q EXCEPT !.ack_cache = kept]}
  BY DEF sim_sender_update_base
<1>3. kept \subseteq q.ack_cache
  BY <1>1
<1> HIDE DEF q, kept
<1>4. Live([q EXCEPT !.ack_cache = kept])
  BY <1>1, <1>3, LessLive
<1> QED BY <1>2, <1>4

LEMMA AckLive ==
  ASSUME NEW s, Live(s), NEW m, NEW q \in sim_sender_ack(s, m)
  PROVE  Live(q)
<1> DEFINE based == sim_sender_update_base(s, m.base_packet_id)
           kept  == {seg \in based.ack_cache : seg.packet_id \notin m.acked}
           acked == [based EXCEPT !.ack_cache = kept]
           w(again) == acked.waiting \cup {[id |-> seg.send_id, fec |-> FALSE] : seg \in again}
<1>1. q = s \/ \E again : q = [acked EXCEPT !.waiting = w(again)]
  BY Zenon DEF sim_sender_ack
<1>2. Live(based)
  BY BaseLive
<1>3. kept \subseteq based.ack_cache
  OBVIOUS
<1> HIDE DEF based, kept
<1>4. Live(acked)
  BY <1>2, <1>3, LessLive
<1> HIDE DEF acked, w
<1>5. ASSUME NEW again PROVE Live([acked EXCEPT !.waiting = w(again)])
  <2>1. "waiting" \in SenderFields
    BY DEF SenderFields
  <2> QED BY <1>4, <2>1, OtherLive
<1> QED BY <1>1, <1>5

LEMMA PutLive ==
  ASSUME NEW s, Live(s), NEW ftype, NEW total, NEW timestamp, NEW fecs
  PROVE  Live(sim_sender_put(s, ftype, total, timestamp, fecs))
<1> DEFINE q == sim_sender_put(s, ftype, total, timestamp, fecs)
           segs == SplitFrame(s, ftype, total, timestamp)
<1>1. "ack_cache" \in DOMAIN s /\ "segs_cache" \in DOMAIN s
  BY DEF Live, SenderFields
<1>2. DOMAIN q = DOMAIN s /\ q.ack_cache = s.ack_cache \cup segs /\ q.segs_cache = s.segs_cache \cup segs
  <2> HIDE DEF segs
  <2> QED BY <1>1 DEF sim_sender_put, segs
<1> HIDE DEF q, segs
<1>3. Live(q)
  BY <1>2 DEF Live
<1> QED BY <1>3 DEF q

LEMMA EvictLive ==
  ASSUME NEW s, Live(s), NEW time, NEW fec
  PROVE  Live(sim_sender_evict_cache(s, time, fec))
<1> DEFINE old == {seg \in s.segs_cache : seg.timestamp <= time}
           a == s.segs_cache \ old
           b == {seg \in s.ack_cache : \A o \in old : o.packet_id # seg.packet_id}
           c == {x \in s.fecs_cache : x > fec}
           q1 == [s EXCEPT !.segs_cache = a]
           q2 == [q1 EXCEPT !.ack_cache = b]
           q3 == [q2 EXCEPT !.fecs_cache = c]
<1>1. sim_sender_evict_cache(s, time, fec) = q3
  BY DEF sim_sender_evict_cache
<1>2. b \subseteq a
  BY DEF Live
<1>3. "ack_cache" \in SenderFields /\ "segs_cache" \in SenderFields /\ DOMAIN s = SenderFields
  BY DEF Live, SenderFields
<1> HIDE DEF a, b, c
<1>4. DOMAIN q1 = SenderFields /\ q1.segs_cache = a
  BY <1>3
<1> HIDE DEF q1
<1>5. DOMAIN q2 = SenderFields /\ q2.segs_cache = a /\ q2.ack_cache = b
  BY <1>3, <1>4
<1> HIDE DEF q2
<1>6. DOMAIN q3 = SenderFields /\ q3.segs_cache = a /\ q3.ack_cache = b
  BY <1>3, <1>5
<1> QED BY <1>1, <1>2, <1>6 DEF Live

(* However many calls are placed, whatever arrives of whichever call, and   *)
(* whatever is let go in between (sim_sender_evict_cache, sim_sender_ack,   *)
(* process_sim_fir, sim_sender_reset): no segment that is freed is looked   *)
(* up again by an acknowledgement or a request.                             *)
THEOREM AckCacheAlwaysLive == Spec => []AckCacheLive
<1>1. Init => Live(snd)
  BY NewLive DEF Init
<1>2. Live(snd) /\ [Next]_vars => Live(snd)'
  <2> SUFFICES ASSUME Live(snd), [Next]_vars PROVE Live(snd')
    BY DEF Live
  <2>1. CASE sim_session_send_video
    BY <2>1, PutLive DEF sim_session_send_video
  <2>2. CASE Transmit
    <3>1. "waiting" \in SenderFields
      BY DEF SenderFields
    <3>2. snd' = [snd EXCEPT !["waiting"] = snd.waiting \ {PacerFront(snd)}]
      BY <2>2 DEF Transmit, sim_send_packet
    <3> QED BY <3>1, <3>2, OtherLive
  <2>3. CASE process_sim_seg_ack
    BY <2>3, AckLive DEF process_sim_seg_ack
  <2>4. CASE process_sim_feedback
    BY <2>4, BaseLive DEF process_sim_feedback, sim_sender_feedback
  <2>5. CASE process_sim_fir
    <3>1. Live(sim_clean_ack_cache(snd))
      <4>1. {} \subseteq snd.ack_cache
        OBVIOUS
      <4> QED BY <4>1, LessLive DEF sim_clean_ack_cache
    <3> QED BY <2>5, <3>1 DEF process_sim_fir
  <2>6. CASE Evict
    BY <2>6, EvictLive DEF Evict
  <2>7. CASE sim_session_connect
    BY <2>7, NewLive DEF sim_session_connect
  <2>8. CASE UNCHANGED snd
    BY <2>8
  <2> QED
    <3>1. ASSUME NEW seg \in data, process_sim_seg(seg) PROVE UNCHANGED snd
      BY <3>1 DEF process_sim_seg
    <3>2. ASSUME Acknowledge \/ Feedback \/ FirDelayOver \/ sim_session_recv_video \/ process_sim_connect \/ process_sim_connect_ack
          PROVE  UNCHANGED snd
      BY <3>2 DEF Acknowledge, Feedback, FirDelayOver, sim_session_recv_video, process_sim_connect, process_sim_connect_ack
    <3>3. CASE UNCHANGED vars
      BY <3>3 DEF vars
    <3> QED BY <2>1, <2>2, <2>3, <2>4, <2>5, <2>6, <2>7, <2>8, <3>1, <3>2, <3>3 DEF Next
<1>3. Live(snd) => AckCacheLive
  BY DEF Live, AckCacheLive
<1> QED BY <1>1, <1>2, <1>3, PTL DEF Spec
=============================================================================
