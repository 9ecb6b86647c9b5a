--------------------------- MODULE VideoTransport ---------------------------
(***************************************************************************)
(* The video of a call from the encoder to the player: the sender of one   *)
(* session (SimSender), the receiver of the other (SimReceiver), and what  *)
(* the sessions of ReCapABR/sim_transport/sim_session.c do with the        *)
(* datagrams between them, over a network that loses, delays and reorders. *)
(* The caller may give up a call the other end has not seen the end of and *)
(* place another; datagrams name no call.                                  *)
(***************************************************************************)
EXTENDS SimReceiver, SimSender

CONSTANTS
  Totals,     \* segments a frame may have
  Gaps,       \* seconds between two frames
  KeyEvery,   \* the encoder makes one frame in KeyEvery a key frame at least
  Fecs,       \* FEC packets made with a frame
  MaxFrames,  \* bound: frames encoded in a call
  MaxWaiting, \* bound: packets the pacer holds when a frame is encoded
  MaxCtrl,    \* bound: datagrams in flight from the receiver to the sender
  MaxLost,    \* bound: datagrams lost
  MaxEvicts,  \* bound: times the sender lets expired segments go
  MaxCalls    \* bound: calls placed

ASSUME TransportAssumption ==
  /\ Totals \subseteq Nat \ {0} /\ Gaps \subseteq Nat /\ Fecs \subseteq Nat
  /\ KeyEvery \in Nat \ {0} /\ {MaxFrames, MaxWaiting, MaxCtrl, MaxLost, MaxEvicts, MaxCalls} \subseteq Nat

VARIABLES
  snd,       \* the sender
  rcv,       \* the receiver
  call,      \* how far the caller is, its call, and the call the receiver belongs to
  fir_seq,   \* the newest FIR the caller's session has seen
  data,      \* segments in flight
  ctrl,      \* acknowledgements, feedbacks and FIRs in flight
  stream,    \* the frames of the call
  got,       \* packets of the call that reached its receiver
  forgotten, \* packets the sender will not send again, for their age or a FIR
  shown,     \* the last frame the player got
  lost, evicts

vars == <<snd, rcv, call, fir_seq, data, ctrl, stream, got, forgotten, shown, lost, evicts>>

(* A frame and, a history of its own, the id of its first packet.           *)
NewFrame == [ftype : {0, 1}, total : Totals, first : Nat, timestamp : Nat]

Calls == [phase : {"dialing", "answered", "up"}, placed : Nat, answered : Nat]

Init == /\ snd = sim_sender_create
        /\ rcv = sim_receiver_active(sim_receiver_create)
        /\ call = [phase |-> "up", placed |-> 1, answered |-> 1]
        /\ fir_seq = 0
        /\ data = {} /\ ctrl = {}
        /\ stream = <<>>
        /\ got = {} /\ forgotten = {}
        /\ shown = NotPlayed
        /\ lost = 0 /\ evicts = 0

Now == IF stream = <<>> THEN 0 ELSE stream[Len(stream)].timestamp

(* Some of what is sent may be lost; what is not is in flight.              *)
SendData(segs) == \/ data' = data \cup segs /\ UNCHANGED lost
                  \/ segs # {} /\ lost < MaxLost /\ lost' = lost + 1 /\ UNCHANGED data

SendCtrl(rest, msgs) ==
  \E kept \in SUBSET msgs :
     /\ lost' = lost + Cardinality(msgs \ kept) /\ lost' <= MaxLost
     /\ ctrl' = rest \cup kept /\ Cardinality(ctrl') <= MaxCtrl

-----------------------------------------------------------------------------
(* sim_session_send_video: the application encodes a frame.                 *)
sim_session_send_video ==
  /\ call.phase = "up"
  /\ Len(stream) < MaxFrames
  /\ Cardinality(snd.waiting) <= MaxWaiting
  /\ \E ftype \in {0, 1}, total \in Totals, gap \in Gaps, fecs \in Fecs :
        LET timestamp == IF stream = <<>> THEN 0 ELSE Now + gap
        IN  /\ ftype = 1 \/ \E f \in 1 .. Len(stream) : Len(stream) < f + KeyEvery - 1 /\ stream[f].ftype = 1
            /\ stream' = Append(stream, [ftype |-> ftype, total |-> total, first |-> snd.packet_id_seed + 1,
                                         timestamp |-> timestamp])
            /\ snd' = sim_sender_put(snd, ftype, total, timestamp, fecs)
  /\ UNCHANGED <<rcv, call, fir_seq, data, ctrl, got, forgotten, shown, lost, evicts>>

(* The pacer sends the packet it has waiting first.                         *)
Transmit ==
  /\ snd.waiting # {}
  /\ snd' = sim_send_packet(snd)
  /\ SendData(SegmentsSent(snd))
  /\ UNCHANGED <<rcv, call, fir_seq, ctrl, stream, got, forgotten, shown, evicts>>

process_sim_seg(seg) ==
  /\ data' = data \ {seg}
  /\ UNCHANGED <<snd, call, fir_seq, stream, forgotten, shown, evicts>>
  /\ \E slow \in Rtts : \E x \in sim_receiver_put(rcv, seg, slow) :
        /\ rcv' = x.receiver
        /\ SendCtrl(ctrl, x.sent)
  /\ got' = IF Unwanted(rcv, seg) THEN got ELSE got \cup {seg.packet_id}

process_sim_seg_ack ==
  /\ UNCHANGED <<rcv, call, fir_seq, data, stream, got, forgotten, shown, lost, evicts>>
  /\ \E m \in ctrl :
        /\ m.type = "SEG_ACK"
        /\ ctrl' = ctrl \ {m}
        /\ IF call.phase = "up" THEN snd' \in sim_sender_ack(snd, m) ELSE UNCHANGED snd

process_sim_feedback ==
  /\ \E m \in ctrl :
        /\ m.type = "FEEDBACK"
        /\ ctrl' = ctrl \ {m}
        /\ snd' = IF call.phase = "up" THEN sim_sender_feedback(snd, m) ELSE snd
  /\ UNCHANGED <<rcv, call, fir_seq, data, stream, got, forgotten, shown, lost, evicts>>

process_sim_fir ==
  /\ \E m \in ctrl :
        /\ m.type = "FIR"
        /\ ctrl' = ctrl \ {m}
        /\ IF fir_seq < m.fir_seq
             THEN /\ fir_seq' = m.fir_seq
                  /\ snd' = IF call.phase = "up" THEN sim_clean_ack_cache(snd) ELSE snd
                  /\ forgotten' = forgotten \cup {seg.packet_id : seg \in snd.ack_cache}
             ELSE UNCHANGED <<fir_seq, snd, forgotten>>
  /\ UNCHANGED <<rcv, call, data, stream, got, shown, lost, evicts>>

(* sim_receiver_timer, and the feedback its congestion controller sends.    *)
Acknowledge ==
  /\ UNCHANGED <<snd, call, fir_seq, data, stream, got, forgotten, shown, evicts>>
  /\ \E slow \in Rtts : \E x \in sim_receiver_timer(rcv, slow) :
        /\ rcv' = x.receiver
        /\ SendCtrl(ctrl, x.sent)

Feedback ==
  /\ SendCtrl(ctrl, {send_sim_feedback(rcv)})
  /\ UNCHANGED <<snd, rcv, call, fir_seq, data, stream, got, forgotten, shown, evicts>>

(* FIR_DELAY_TIME passes.                                                   *)
FirDelayOver ==
  /\ rcv.fir_recent
  /\ rcv' = [rcv EXCEPT !.fir_recent = FALSE]
  /\ UNCHANGED <<snd, call, fir_seq, data, ctrl, stream, got, forgotten, shown, lost, evicts>>

(* sim_sender_timer: segments are let go with their age.                    *)
Evict ==
  /\ evicts < MaxEvicts /\ evicts' = evicts + 1
  /\ \E time \in 0 .. Now, fec \in {0} \cup snd.fecs_cache :
        /\ \E seg \in snd.segs_cache : seg.timestamp <= time
        /\ snd' = sim_sender_evict_cache(snd, time, fec)
        /\ forgotten' = forgotten \cup {seg.packet_id : seg \in snd.ack_cache \ snd'.ack_cache}
  /\ UNCHANGED <<rcv, call, fir_seq, data, ctrl, stream, got, shown, lost>>

sim_session_recv_video ==
  /\ UNCHANGED <<snd, call, fir_seq, data, ctrl, stream, got, forgotten, lost, evicts>>
  /\ \E x \in sim_receiver_get(rcv) :
        /\ rcv' = x.receiver
        /\ shown' = IF x.frame = NotPlayed THEN shown ELSE x.frame

-----------------------------------------------------------------------------
(* The caller's session gives up a call, or is created again, and places    *)
(* the next; what is in flight stays so.                                    *)
sim_session_connect ==
  /\ call.placed < MaxCalls
  /\ call' = [call EXCEPT !.phase = "dialing", !.placed = call.placed + 1]
  /\ snd' = sim_sender_create
  /\ fir_seq' = 0
  /\ stream' = <<>> /\ forgotten' = {}
  /\ UNCHANGED <<rcv, data, ctrl, got, shown, lost, evicts>>

process_sim_connect ==
  /\ call.phase = "dialing"
  /\ call' = [call EXCEPT !.phase = "answered", !.answered = call.placed]
  /\ rcv' = sim_receiver_active(sim_receiver_reset(rcv))
  /\ got' = {} /\ shown' = NotPlayed
  /\ UNCHANGED <<snd, fir_seq, data, ctrl, stream, forgotten, lost, evicts>>

process_sim_connect_ack ==
  /\ call.phase = "answered"
  /\ call' = [call EXCEPT !.phase = "up"]
  /\ UNCHANGED <<snd, rcv, fir_seq, data, ctrl, stream, got, forgotten, shown, lost, evicts>>

Next == \/ sim_session_send_video
        \/ Transmit
        \/ \E seg \in data : process_sim_seg(seg)
        \/ process_sim_seg_ack
        \/ process_sim_feedback
        \/ process_sim_fir
        \/ Acknowledge
        \/ Feedback
        \/ FirDelayOver
        \/ Evict
        \/ sim_session_recv_video
        \/ sim_session_connect
        \/ process_sim_connect
        \/ process_sim_connect_ack

Spec == Init /\ [][Next]_vars

(* The n least of a set of numbers, or all.                                 *)
FirstOf(n, S) == {x \in S : Cardinality({y \in S : y < x}) < n}

(* What the threads and clocks see to, and the network once it has lost     *)
(* what it loses: packets leave and arrive, what is missing is asked for,   *)
(* the oldest first, what is asked for is sent again, and a frame that may  *)
(* be played comes due.                                                     *)
AskForAll == /\ rcv.loss # {}
             /\ Acknowledge
             /\ \E m \in ctrl' : m.type = "SEG_ACK" /\ m.nack = FirstOf(NACK_NUM, rcv'.loss)

SendAgain == process_sim_seg_ack /\ snd'.waiting # snd.waiting

(* Only process_sim_seg takes a segment from the network.                   *)
Arrive == \E seg \in data : data' = data \ {seg}

Play == sim_session_recv_video /\ shown' # shown

Fairness ==
  /\ WF_vars(Transmit)
  /\ WF_data(Arrive)
  /\ WF_vars(process_sim_seg_ack \/ process_sim_feedback \/ process_sim_fir)
  /\ SF_vars(AskForAll) /\ SF_vars(SendAgain) /\ WF_vars(Play)

FairSpec == Spec /\ Fairness

-----------------------------------------------------------------------------
TypeOK == /\ snd \in Sender
          /\ rcv \in Receiver
          /\ call \in Calls
          /\ stream \in Seq(NewFrame)
          /\ shown \in [fid : Nat, segments : Nat]
          /\ fir_seq \in Nat /\ lost \in 0 .. MaxLost /\ evicts \in 0 .. MaxEvicts

(* What acknowledgements and requests look up is still allocated: eviction, *)
(* FIRs and acknowledgements in any order leave no pointer to a freed       *)
(* segment.                                                                 *)
AckCacheLive == snd.ack_cache \subseteq snd.segs_cache

(* A slot in use holds segments of one frame id, the one whose place it is, *)
(* also in a receiver reset for the next call.                              *)
SlotsOwned == \A i \in Slots : LET frame == rcv.cache.frames[i] IN
  frame.seg_number # 0 =>
    /\ INDEX(frame.fid) = i
    /\ frame.fid \in rcv.cache.min_fid + 1 .. rcv.cache.max_fid
    /\ \A s \in frame.segments : s.fid = frame.fid

(* Neither end keeps what it must not, in either call: a segment freed, or  *)
(* segments of two frames in one slot.                                      *)
CachesSound == AckCacheLive /\ SlotsOwned

(* No frame the player was given is empty.                                  *)
NoneEmpty == shown.fid # 0 => shown.segments > 0

(* The base the sender holds, below which it sends nothing again, is one    *)
(* the receiver of this call has reached.                                   *)
SenderBaseSound == snd.base_packet_id <= rcv.base_seq

(* The sender can still send again whatever the receiver may still want,    *)
(* unless it grew too old or a key frame was asked for: acknowledgements    *)
(* and bases that come late or in the wrong order take nothing else away.   *)
Wanted == {p \in 1 .. snd.packet_id_seed : p \notin got \cup rcv.waived /\ p > rcv.cache.min_seq}
KeptWhileWanted == Wanted \subseteq {seg.packet_id : seg \in snd.ack_cache} \cup forgotten

(* The player catches up: no frame stays back once all before it are there  *)
(* and a packet of a later one has come.                                    *)
PlayerCatchesUp == []<>(rcv.cache.max_fid <= shown.fid + 1)

(* What is played is whole, in order and decodable, over any network.       *)
Video == INSTANCE VideoSpec
ImplementsVideoSpec == Video!Spec
=============================================================================
