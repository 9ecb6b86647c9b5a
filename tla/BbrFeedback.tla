----------------------------- MODULE BbrFeedback -----------------------------
(***************************************************************************)
(* The loop by which BBR learns what became of the packets it sent: each   *)
(* takes a number (sim_sender.c) and is remembered (sender_history.c,      *)
(* bbr_bandwidth_sample.c), the receiver reports the numbers that arrive   *)
(* (bbr_receiver.c), and the sender makes of a report the packets received *)
(* and lost (bbr_feedback_adpater.c).  Packets and reports are lost,       *)
(* repeated and reordered.                                                 *)
(*                                                                         *)
(* Times are left out: the receiver may have waited long enough or not,    *)
(* and any of the oldest packets may be too old.  So are rates, and the    *)
(* loss fraction that comes with a report.                                 *)
(***************************************************************************)
EXTENDS SenderHistory, BandwidthSampler, Sequences

CONSTANTS
  Sizes,                    \* of packets
  MAX_BBR_FEELBACK_COUNT,   \* 128
  BBR_FEEDBACK_THROLD,      \* 16
  Duplicating,              \* whether the network repeats packets
  Lag,                      \* bound: packets sent until one that arrives is reported to the sender
  MaxOld,                   \* bound: packets that get too old at once
  MaxReports,               \* bound: reports on their way
  MaxSent                   \* bound: packets sent

ASSUME FeedbackAssumption ==
  /\ Sizes \subseteq Nat \ {0} /\ Duplicating \in BOOLEAN
  /\ {MAX_BBR_FEELBACK_COUNT, BBR_FEEDBACK_THROLD, MaxOld, MaxReports, MaxSent} \subseteq Nat
  /\ Lag \in Nat \ {0} /\ Lag < SeqRange \div 2

VARIABLES
  sent,      \* the sizes of the packets sent, the first of which has number 0
  hist,      \* the sender's sender_history_t
  sampler,   \* and its bbr_bandwidth_sampler_t
  recv,      \* the receiver's bbr_receiver_t
  fresh,     \* packets that have not arrived
  reports,   \* reports on their way
  arrived    \* bytes that arrived

feedbackVars == <<sent, hist, sampler, recv, fresh, reports, arrived>>

Wire(id) == id % SeqRange

(* The numbers of a report's samplers; at names the first as it was sent.   *)
Report == [at : Nat, samplers : SUBSET (0 .. SeqRange - 1)]

bbr_receive_create == [last_value |-> 0, max_seq |-> -1, base_seq |-> -1, cache |-> {}]

FeedbackInit == /\ sent = <<>>
                /\ hist = sender_history_create
                /\ sampler = sampler_create
                /\ recv = bbr_receive_create
                /\ fresh = {} /\ reports = {} /\ arrived = 0

Recent(id) == id >= Len(sent) - Lag
SizeOf(id) == sent[id + 1]

-----------------------------------------------------------------------------
(* bbr_sender_send_packet.  Not more than half the range is sent without an *)
(* arrival, nor a ring of points without a report, nor more than Lag from   *)
(* a packet that arrived to its report's arrival.                           *)
bbr_sender_send_packet ==
  LET id == Len(sent)
  IN  /\ id < MaxSent
      /\ id < recv.last_value + SeqRange \div 2
      /\ id < sampler.start_pos + RingSize
      /\ \A key \in recv.cache : key > id - Lag
      /\ \E size \in Sizes, old \in {{p \in hist.l : p.key < key} : key \in 0 .. id} :
           /\ Cardinality(old) <= MaxOld
           /\ sent' = Append(sent, size)
           /\ hist' = sender_history_add(hist, Wire(id), size, old)
           /\ sampler' = sampler_on_packet_sent(sampler, hist'.last_value, size)
      /\ fresh' = {i \in fresh : i >= id + 1 - Lag} \cup {id}
      /\ reports' = {r \in reports : r.at >= id + 1 - Lag}
      /\ UNCHANGED <<recv, arrived>>

-----------------------------------------------------------------------------
(* The first key of the message a key is sent in: a message holds the keys  *)
(* from its first one up to a span of MAX_BBR_FEELBACK_COUNT - 1.           *)
StartIn(cache) ==
  LET start[k \in cache] ==
        LET below == {j \in cache : j < k}
        IN  IF below = {} THEN k
            ELSE IF start[Max(below)] + MAX_BBR_FEELBACK_COUNT - 1 > k THEN start[Max(below)] ELSE k
  IN  start

Reports(cache) ==
  LET start       == StartIn(cache)
      together(k) == {j \in cache : start[j] = start[k]}
  IN  {[at |-> Min(together(k)), samplers |-> {Wire(j) : j \in together(k)}] : k \in cache}

(* bbr_receive_on_received.                                                 *)
bbr_receive_on_received ==
  \E id \in {i \in 0 .. Len(sent) - 1 : Recent(i)}, waited \in BOOLEAN :
    LET sequence == wrap16_update(recv.last_value, Wire(id))
        newest   == recv.max_seq < sequence
        cleared  == newest /\ recv.base_seq = -1
        cache    == (IF cleared THEN {} ELSE recv.cache) \cup {sequence}
        due      == Cardinality(cache) >= BBR_FEEDBACK_THROLD \/ (Cardinality(cache) > 2 /\ waited)
        new      == [recv EXCEPT !.last_value = sequence,
                                 !.max_seq = IF newest THEN sequence ELSE recv.max_seq,
                                 !.base_seq = IF cleared THEN sequence ELSE recv.base_seq]
    IN  /\ id \in fresh \/ Duplicating
        /\ fresh' = fresh \ {id}
        /\ arrived' = arrived + (IF id \in fresh THEN SizeOf(id) ELSE 0)
        /\ IF ~newest /\ sequence \in recv.cache
             THEN recv' = new /\ UNCHANGED reports
           ELSE IF due
             THEN recv' = [new EXCEPT !.cache = {}] /\ reports' = reports \cup Reports(cache)
             ELSE recv' = [new EXCEPT !.cache = cache] /\ UNCHANGED reports
        /\ Cardinality(reports') <= MaxReports
        /\ UNCHANGED <<sent, hist, sampler>>

-----------------------------------------------------------------------------
(* bbr_feedback_on_feedback: every number from the first to the last of a   *)
(* report is looked up, and those found are listed as received or lost.     *)
(* The list starts again when it holds MAX_BBR_FEELBACK_COUNT - 1.          *)
Listed(found) ==
  LET full == MAX_BBR_FEELBACK_COUNT - 1
      n    == Cardinality(found)
  IN  {k \in found : Cardinality({j \in found : j <= k}) > n - (n % full)}

(* bbr_on_feedback's calls to the sampler, in the order of the keys, of     *)
(* which the last is the greatest: what is lost goes by the number on the   *)
(* wire, what is received by the key.                                       *)
WithoutLost(smp, lost) ==
  MapThenFoldSet(LAMBDA k, x : sampler_remove_point(x, Wire(k)), smp, LAMBDA k : k, Max, lost)

WithAcked(smp, received) ==
  MapThenFoldSet(LAMBDA k, x : sampler_on_packet_acked(x, k), smp, LAMBDA k : k, Max, received)

Sampled(smp, received, lost) ==
  LET acked == WithAcked(WithoutLost(smp, lost), received)
  IN  IF received = {} THEN acked ELSE sampler_remove_old(acked, Max(received))

(* bbr_sender_on_feedback.                                                  *)
bbr_sender_on_feedback ==
  \E r \in reports :
    LET offset(s) == (s - Wire(r.at)) % SeqRange
        first     == wrap16_update(hist.last_value, Wire(r.at))
        last      == first + Max({offset(s) : s \in r.samplers})
        listed    == Listed({p.key : p \in {q \in hist.l : q.key \in first .. last}})
        received  == listed \cap {first + offset(s) : s \in r.samplers}
    IN  /\ hist' = AckedUpTo(hist, last)
        /\ sampler' = IF listed = {} THEN sampler ELSE Sampled(sampler, received, listed \ received)
        /\ reports' \in {reports, reports \ {r}}
        /\ UNCHANGED <<sent, recv, fresh, arrived>>

FeedbackNext == bbr_sender_send_packet \/ bbr_receive_on_received \/ bbr_sender_on_feedback

FeedbackSpec == FeedbackInit /\ [][FeedbackNext]_feedbackVars

-----------------------------------------------------------------------------
TypeOK == /\ sent \in Seq(Sizes)
          /\ hist \in [last_value : Nat, last_ack_seq_num : Nat, l : SUBSET [key : Nat, size : Sizes], outstanding_bytes : Nat]
          /\ sampler \in [start_pos : Int, index : Int, total_data_acked : Nat, points : [0 .. RingSize - 1 -> Point]]
          /\ recv \in [last_value : Nat, max_seq : Int, base_seq : Int, cache : SUBSET Nat]
          /\ fresh \subseteq Nat /\ reports \subseteq Report /\ arrived \in Nat

Ids == 0 .. Len(sent) - 1

(* Numbers are told apart over the wrap: however packets and reports are    *)
(* reordered, what the sender remembers are the packets from some number to *)
(* the last one sent, each once and with its size, and the keys the         *)
(* receiver collects are numbers of packets sent.                           *)
KeysTrue == /\ \E first \in 0 .. Len(sent) : hist.l = {[key |-> id, size |-> SizeOf(id)] : id \in first .. Len(sent) - 1}
            /\ sent # <<>> => \E p \in hist.l : p.key = Len(sent) - 1
            /\ recv.cache \subseteq Ids
            /\ \A r \in reports : r.samplers \subseteq {Wire(id) : id \in Ids}

(* What is counted as under way is what neither a report nor its age has    *)
(* taken off the account, and at most the bytes of the first two packets    *)
(* more: it is never too little, and the error does not grow.  The code is  *)
(* not exact: sender_history_add raises last_ack_seq_num to seq - 1 while   *)
(* it is 0, so that packets 0 and 1 may be counted for ever.                *)
FirstTwo == Bytes({[key |-> i, size |-> SizeOf(i)] : i \in Ids \cap {0, 1}})
InFlightNearly ==
  hist.outstanding_bytes - Bytes(Unacked(hist)) \in 0 .. FirstTwo

(* Bytes are counted as acknowledged at most once, and only if they came,   *)
(* though reports come twice and packets reported lost come later.          *)
AckedArrived == sampler.total_data_acked <= arrived

(* The bytes the controller is told of are those of the network.            *)
BytesAccounted == InFlightNearly /\ AckedArrived
=============================================================================
