---------------------------- MODULE GccFeedback ----------------------------
(***************************************************************************)
(* The feedback of GCC: the receiver notes when each packet came and       *)
(* reports it (estimator/remote_estimator_proxy.c, encoded by              *)
(* estimator_common.c), the sender finds what it sent and gives packets    *)
(* and times to its estimators (estimator/cc_feedback_adapter.c).  Packets *)
(* and reports are lost, repeated and reordered.                           *)
(*                                                                         *)
(* When a report is due is a choice.  Arrivals too old are all forgotten   *)
(* at once, in the code at most 100 with a packet.                         *)
(***************************************************************************)
EXTENDS SenderHistory

CONSTANTS
  TsRange,             \* differences of times on the wire: 65536
  MAX_FEELBACK_COUNT,  \* packets in a report: 128 in the code
  BACK_WINDOWS_MS,     \* age at which an arrival is forgotten: 500 in the code
  GccPauses,           \* steps of the clock
  MaxGccSent,          \* bound: packets sent
  MaxGccLag,           \* bound: packets one may be overtaken by
  MaxGccReports,       \* bound: reports in flight
  MaxGccRepeats,       \* bound: packets and reports repeated
  MaxGccNow            \* bound: the clock

ASSUME GccAssumption ==
  /\ SeqRange > 2
  /\ {TsRange, MAX_FEELBACK_COUNT} \subseteq Nat \ {0}
  /\ {BACK_WINDOWS_MS, MaxGccSent, MaxGccLag, MaxGccReports, MaxGccRepeats, MaxGccNow} \subseteq Nat
  /\ GccPauses \subseteq Nat

VARIABLES
  gccSent,    \* packets sent; the n-th has n - 1 for its transport_seq, on the wire modulo SeqRange
  gccHist,    \* what the sender knows of them
  air,        \* packets the network may deliver
  proxy,      \* the receiver's estimator_proxy_t
  gccMsgs,    \* reports in flight
  given,      \* history: the bag of packets given to the estimators, with their times
  stamps,     \* history: the times at which each packet noted came
  accounted,  \* history: packets reported, or forgotten for their age
  gccRepeats, gccNow

gccVars == <<gccSent, gccHist, air, proxy, gccMsgs, given, stamps, accounted, gccRepeats, gccNow>>

Wired(n) == n % SeqRange

estimator_proxy_create ==
  [last_value |-> 0, wnd_start_seq |-> -1, max_arrival_seq |-> -1, arrival_times |-> <<>>]

GccInit == /\ gccSent = 0 /\ gccHist = sender_history_create
           /\ air = {} /\ proxy = estimator_proxy_create
           /\ gccMsgs = {} /\ given = <<>>
           /\ stamps = <<>> /\ accounted = {} /\ gccRepeats = 0 /\ gccNow = 0

-----------------------------------------------------------------------------
(* What is delivered may stay in flight, to be delivered again.             *)
MayRepeat(repeats) == gccRepeats + repeats <= MaxGccRepeats /\ gccRepeats' = gccRepeats + repeats

InFlight(S, m, repeats) == IF repeats = 1 THEN S ELSE S \ {m}

(* Records of packets older than two seconds go.                            *)
cc_feedback_add_packet ==
  /\ gccSent < MaxGccSent
  /\ gccSent' = gccSent + 1
  /\ air' = air \cup {gccSent}
  /\ \E oldest \in {0, gccSent - SeqRange \div 2} :
        gccHist' = sender_history_add(gccHist, Wired(gccSent), 1, {p \in gccHist.l : p.key < oldest})
  /\ UNCHANGED <<proxy, gccMsgs, given, stamps, accounted, gccRepeats, gccNow>>

-----------------------------------------------------------------------------
(* Arrivals to be forgotten as packet n comes: only when at most one is not *)
(* reported yet.                                                            *)
Forgotten(p, n, arrival_ts) ==
  IF p.max_arrival_seq > p.wnd_start_seq THEN {}
  ELSE {k \in DOMAIN p.arrival_times : k < n /\ arrival_ts >= p.arrival_times[k] + BACK_WINDOWS_MS}

(* skiplist_insert keeps the time of a packet that is in the list.          *)
Entered(times, gone, n, arrival_ts) ==
  [k \in (DOMAIN times \ gone) \cup {n} |-> IF k \in DOMAIN times THEN times[k] ELSE arrival_ts]

(* Mutant: a packet that comes late does not move the window back.          *)
Noted_LateLeft(p, n, arrival_ts) ==
  [p EXCEPT !.wnd_start_seq = IF p.wnd_start_seq = -1 THEN Wired(n) ELSE p.wnd_start_seq,
            !.max_arrival_seq = Max({p.max_arrival_seq, n}),
            !.arrival_times = Entered(p.arrival_times, Forgotten(p, n, arrival_ts), n, arrival_ts)]

Noted(p, n, arrival_ts) ==
  [p EXCEPT !.wnd_start_seq = IF p.wnd_start_seq = -1 THEN Wired(n) ELSE Min({p.wnd_start_seq, n}),
            !.max_arrival_seq = Max({p.max_arrival_seq, n}),
            !.arrival_times = Entered(p.arrival_times, Forgotten(p, n, arrival_ts), n, arrival_ts)]

(* A packet too far ahead of the window only moves the unwrapper.           *)
TooFar(p, n) == n > p.wnd_start_seq + SeqRange \div 2 - 1

Arrivals(packet) == IF packet \in DOMAIN stamps THEN stamps[packet] ELSE {}

(* What the network may deliver: from one packet that comes to the next it  *)
(* is less than half the range, either way.                                 *)
Deliverable(n) == /\ proxy.max_arrival_seq <= n + MaxGccLag
                  /\ n < proxy.last_value + SeqRange \div 2 /\ proxy.last_value < n + SeqRange \div 2

(* estimator_proxy_incoming of a packet, which may come again.              *)
estimator_proxy_incoming ==
  /\ UNCHANGED <<gccSent, gccHist, gccMsgs, given, gccNow>>
  /\ \E packet \in {n \in air : Deliverable(n)}, repeats \in {0, 1} :
        /\ MayRepeat(repeats)
        /\ air' = InFlight(air, packet, repeats)
        /\ LET n == wrap16_update(proxy.last_value, Wired(packet))
               p == [proxy EXCEPT !.last_value = n]
           IN  IF TooFar(p, n) THEN proxy' = p /\ UNCHANGED <<stamps, accounted>>
               ELSE /\ proxy' = Noted(p, n, gccNow)
                    /\ stamps' = [k \in DOMAIN stamps \cup {packet} |-> Arrivals(k) \cup IF k = packet THEN {gccNow} ELSE {}]
                    /\ accounted' = accounted \cup Forgotten(p, n, gccNow)

(* The packets of a report: the first of those from the window's start on.  *)
Pending(p) == {k \in DOMAIN p.arrival_times : k >= p.wnd_start_seq}

ReportedNow(p) == {k \in Pending(p) : Cardinality({j \in Pending(p) : j < k}) < MAX_FEELBACK_COUNT}

(* Where the next report starts.                                            *)
NextStart(p) == Max(ReportedNow(p)) + 1

(* feedback_msg_encode: differences to the earliest time, 16 bits of each.  *)
EncodedReport(p) ==
  LET min_ts == Min({p.arrival_times[k] : k \in ReportedNow(p)})
  IN  [min_ts |-> min_ts,
       samples |-> [k \in ReportedNow(p) |-> [seq |-> Wired(k), delta |-> (p.arrival_times[k] - min_ts) % TsRange]]]

(* estimator_proxy_heartbeat: no report of fewer than three packets.        *)
estimator_proxy_heartbeat ==
  /\ Cardinality(ReportedNow(proxy)) > 2
  /\ proxy' = [proxy EXCEPT !.wnd_start_seq = NextStart(proxy)]
  /\ gccMsgs' \in {gccMsgs, gccMsgs \cup {EncodedReport(proxy)}}
  /\ Cardinality(gccMsgs') <= MaxGccReports
  /\ accounted' = accounted \cup ReportedNow(proxy)
  /\ UNCHANGED <<gccSent, gccHist, air, given, stamps, gccRepeats, gccNow>>

-----------------------------------------------------------------------------
(* Mutant: a packet found stays in the list.                                *)
Found_Stays(h, key) == AckedUpTo(h, key)

(* sender_history_get, which removes what it found.                         *)
Found(h, key) == [AckedUpTo(h, key) EXCEPT !.l = {p \in h.l : p.key # key}]

(* How often each was given to the estimators, x once more.                 *)
OnceMore(bag, x) ==
  [y \in DOMAIN bag \cup {x} |-> (IF y \in DOMAIN bag THEN bag[y] ELSE 0) + IF y = x THEN 1 ELSE 0]

(* A sample of a report is looked up, and what is found goes with its time  *)
(* to the estimators.                                                       *)
LookedUp(x, sample, min_ts) ==
  LET key == wrap16_update(x.hist.last_value, sample.seq)
  IN  [hist  |-> Found(x.hist, key),
       given |-> IF \E p \in x.hist.l : p.key = key
                   THEN OnceMore(x.given, [packet |-> key, arrival_ts |-> min_ts + sample.delta])
                   ELSE x.given]

(* The samples of a report in the order of their packets, the greatest last.*)
AllLookedUp(x, r) ==
  MapThenFoldSet(LAMBDA k, y : LookedUp(y, r.samples[k], r.min_ts), x, LAMBDA k : k, Max, DOMAIN r.samples)

(* A report that the network may deliver: half the range was not sent since.*)
Lately(r) == \A k \in DOMAIN r.samples : k + SeqRange \div 2 >= gccSent

(* cc_feedback_on_feedback of a report, which may come again.               *)
cc_feedback_on_feedback ==
  /\ UNCHANGED <<gccSent, air, proxy, stamps, accounted, gccNow>>
  /\ \E r \in {m \in gccMsgs : Lately(m)}, repeats \in {0, 1} :
        /\ MayRepeat(repeats)
        /\ gccMsgs' = InFlight(gccMsgs, r, repeats)
        /\ LET x == AllLookedUp([hist |-> gccHist, given |-> given], r)
           IN  gccHist' = x.hist /\ given' = x.given

GccTick == /\ \E pause \in GccPauses : gccNow' = gccNow + pause
           /\ gccNow' <= MaxGccNow
           /\ UNCHANGED <<gccSent, gccHist, air, proxy, gccMsgs, given, stamps, accounted, gccRepeats>>

GccNext == \/ cc_feedback_add_packet
           \/ estimator_proxy_incoming
           \/ estimator_proxy_heartbeat
           \/ cc_feedback_on_feedback
           \/ GccTick

GccSpec == GccInit /\ [][GccNext]_gccVars

-----------------------------------------------------------------------------
(* However reports overlap and repeat, the estimators are given a packet    *)
(* once at most, and a time at which it came, but for what 16 bits do not    *)
(* hold (estimator_common.c:31).                                            *)
GivenTrue == \A x \in DOMAIN given :
  /\ given[x] = 1 /\ \A y \in DOMAIN given : x.packet = y.packet => x = y
  /\ \E ts \in Arrivals(x.packet) : (x.arrival_ts - ts) % TsRange = 0

(* A packet that came, late or not, has been reported or will be in a       *)
(* report, until it is forgotten for its age.                               *)
NoneLeftOut == DOMAIN stamps \subseteq
  accounted \cup Pending(proxy)

GccFeedbackSound == GivenTrue /\ NoneLeftOut
=============================================================================
