# Formal models of Artic's real-time video transport

Artic (`ReCapABR/`) is a C implementation of a real-time video transport built on
the *razor* congestion controllers, with an adaptive-bitrate rule on top, and a set
of Python scripts (`ZeCoStream/`). This directory holds TLA+ models of its core
logic, the TLC configurations that check them, and proofs checked by TLAPS.

Paths below are relative to `src/ReCapABR/` unless they begin otherwise.

1. [The system](#1-the-system)
2. [Modules](#2-modules)
3. [How state and actions correspond to the code](#3-how-state-and-actions-correspond-to-the-code)
4. [Runs and bounds](#4-runs-and-bounds)
5. [Fairness](#5-fairness)
6. [Proofs](#6-proofs)
7. [What the models show of the code](#7-what-the-models-show-of-the-code)
8. [Not modelled](#8-not-modelled)
9. [Plan](#9-plan)

## 1. The system

Two peers run one *session* each over UDP. The caller's session owns a *sender*,
the called session a *receiver*; either may be both.

| component | code | state | operations | what makes it correct |
|---|---|---|---|---|
| session | `sim_transport/sim_session.c`, `sim_external.c` | connection state, call ids, resend counter, time of the last command, interrupt flag, the sender and the receiver it owns | connect, disconnect, one handler per message, the heartbeat and its timers | both ends agree on a call; what a call holds is released when it ends; the application is told of every start, stop, pause and resume |
| sender | `sim_transport/sim_sender.c` | segment, FEC and acknowledgement caches, id seeds, base, the open FEC group | put a frame, send from the pacer, acknowledgement, feedback, FIR, eviction | what is asked for again is what was sent, and is still there; nothing freed is used |
| receiver | `sim_transport/sim_receiver.c` | what is missing, base and newest packet, ring of 1024 frames, FIR state | put a segment, put a FEC packet, acknowledge, play a frame, reset | frames are played whole and in order; the base never passes a missing packet |
| FEC | `sim_transport/fec/`, `sim_fec.c` | the sender's open group; the receiver's groups, pointing into a cache of segments | add, generate, put, recover, evict | what is recovered is what was sent; all that can be recovered is |
| GCC pacer | `pacing/` | skip list and insertion list of events, byte count, age, media budget | insert, transmit, set rates | order, exact byte count and age, bounded bursts |
| BBR feedback | `estimator/sender_history.c`, `bbr/bbr_feedback_adpater.c`, `bbr/bbr_receiver.c`, `bbr/bbr_bandwidth_sample.c`, `common/cf_unwrapper.c` | history of packets sent, bytes under way, the receiver's unreported packets, the sampler's ring | packet sent, packet received, report received | numbers are told apart over the wrap; bytes are counted once |
| BBR controller | `bbr/bbr_controller.c`, `windowed_filter.c` | mode, gain cycle, round trips, least RTT, recovery, both windows; three estimates per filter | on feedback, on sent | modes fit what is known; no window closes; the least RTT is measured over an empty queue; the best estimate is of the window and nothing since is greater |
| BBR sender | `bbr/bbr_sender.c`, `bbr_rtt_stats.c`, `bbr_loss_rate_filter.c` | smoothed RTT, loss fraction | on feedback, heartbeat | binds controller, pacer and feedback |
| BBR pacer | `bbr/bbr_pacer.c` | the same queue, budgets for media and for padding | insert, transmit, set rates | as the GCC pacer; padding waits for media |
| GCC estimators | `estimator/` | arrival groups, trend line, overuse state; bitrates by delay (AIMD) and by loss, and their histories; loss and rate windows; feedback proxy | packet in, feedback out, feedback in, rates | every packet that came is reported and counted once; the two bitrates stay in bounds and in step |
| facade | `cc/` | which controller, its objects; what the pacer was told | create, route calls, report changes | every change of the bitrate reaches the pacer |
| REMB | `remb/` | the receiver's statistics; the sender's slopes | packet in, report out, report in | the rate and the loss reported are those of what came |
| codec | `sim_transport/sim_proto.*`, `common/cf_stream.c` | none | encode, decode | decode inverts encode |
| containers | `common/` | skip list, list | | ordered map, FIFO |
| ALR detector | `pacing/alr_detector.c` | a budget, a start time | bytes sent | |
| limiter | `sim_transport/sim_limiter.c` | a window of counters | add bytes | (nothing calls it) |
| ABR rule | `sim_test/sim_sender/confidence.*`, `sim_sender_test.c` | table of confidences, last bitrate | adjust the bitrate | the bitrate settles while nothing changes |

**Interactions.** The application calls the session, the session calls sender and
receiver; the sender hands segments to the pacer by number, and the pacer calls
the sender back (`sim_send_packet`) when one may leave. Each packet sent takes a
transport number, which goes to the congestion controller; the receiver's
controller reports the numbers it saw in FEEDBACK datagrams, and the sender's
turns reports into rates, which set the pacer and, by a callback, the encoder.

**Concurrency.** All operations on a session run under its one mutex: the
application's threads and the session's thread (which receives a datagram, handles
it, and calls the heartbeat every 5 ms) interleave at the granularity of whole
handlers. So a handler is one action. What remains hard is between the two ends:
datagrams that are lost, repeated, late and reordered; a caller that gives up and
calls again while the other end does not know; timers against late answers; caches
that hold pointers into other caches and are emptied by other rules; counters of 16
bits; rings that wrap. `PROJECT.json` lists these hazards at their lines.

## 2. Modules

| module | models | composed with |
|---|---|---|
| `PacerQueue` | `pacing/pacer_queue.c`: operators on the queue | |
| `IntervalBudget` | `pacing/interval_budget.c`, as operators | |
| `PaceSender` | `pacing/pace_sender.c` | EXTENDS `PacerQueue`, `IntervalBudget` |
| `BbrPacer` | `bbr/bbr_pacer.c` | EXTENDS `PaceSender`, whose queue it has |
| `PaceSpec` | the abstract pacer: of the packets waiting, the lowest number leaves | implemented by `PaceSender` |
| `NumberLemmas` | a set of numbers has a least one; sums over finite sets | |
| `SimSession` | two sessions and the network, `sim_session.c` | |
| `SimSessionProofs` | proofs of `SimSession` | |
| `FrameCache` | the receiver's ring of frames (`sim_receiver.c:19-485`), as operators | |
| `SimReceiver` | the receiver (`sim_receiver.c:487-956`), as operators on its record | EXTENDS `FrameCache` |
| `SimSender` | the sender, as operators on its record | |
| `VideoReceiver` | the receiver with any network before it | EXTENDS `SimReceiver` |
| `SimReceiverProofs` | lemmas about `FrameCache` and `SimReceiver`, of any stream | EXTENDS them, `NumberLemmas` |
| `VideoReceiverProofs` | proofs of `VideoReceiver` | EXTENDS it, `SimReceiverProofs` |
| `VideoTransport` | sender, network, receiver, and the session's handlers between | EXTENDS `SimReceiver`, `SimSender` |
| `VideoTransportProofs` | proofs of `SimSender`, `VideoTransport` | EXTENDS it, `SimReceiverProofs` |
| `VideoSpec` | the abstract promise to the player | implemented by `VideoReceiver` and `VideoTransport` |
| `FlexFec` | geometry of the matrices and their decoding (`fec/`), as operators | |
| `SimFec` | the sender's groups, the receiver's groups and cache (`sim_fec.c`) | EXTENDS `FlexFec` |
| `SimFecProofs` | proofs of `FlexFec`, `SimFec` | EXTENDS `SimFec`, `NumberLemmas` |
| `SenderHistory` | `sender_history.c`, `cf_unwrapper.c`, as operators | |
| `BandwidthSampler` | the window of `bbr_bandwidth_sample.c`, as operators | |
| `BbrFeedback` | the loop of sent packets, reports and what is made of them | EXTENDS both |
| `BbrController` | `bbr/bbr_controller.c`: modes, round trips, least RTT, recovery, windows | |
| `WindowedFilter` | `bbr/windowed_filter.c` | |
| `GccFeedback` | `remote_estimator_proxy.c`, the encoding of `estimator_common.c`, `cc_feedback_adapter.c`, and the network between | EXTENDS `SenderHistory` |
| `CongestionProofs` | proofs of `SenderHistory`, `BbrFeedback`, `GccFeedback`, `BbrController`, `WindowedFilter`, `ReceiveStats`, `RembReceiver` | EXTENDS them, `NumberLemmas` |
| `AimdRateControl` | `aimd_rate_control.c` and the end of `delay_base_bwe.c`, as operators | |
| `SenderEstimation` | `sender_bandwidth_estimator.c`, as operators | |
| `GccSender` | `sender_congestion_controller.c`, `bitrate_controller.c`: from a feedback to the pacer's bitrate | EXTENDS both |
| `PacingProofs` | proofs of the rates of GCC (the three above), of the pacers they set (`PacerQueue`, `PaceSender`, `BbrPacer`), and of `AbrRule` | EXTENDS them, `NumberLemmas` |
| `ReceiveStats` | `rate_stat.c`, `cc_loss_stat.c`, as operators | |
| `RembReceiver` | `remb/remb_receiver.c` | EXTENDS `ReceiveStats` |
| `AbrRule` | `confidence.cpp` (`AdjustBitrate`) and its use by `try_send_video` | |

`MC*` modules give the constants their small values. Three of them also put the
models of several small components side by side, with a variable `part` that says
which of them a behaviour is of: `MCPaceSender` (both pacers, the estimates of GCC and
the ABR rule), `MCVideoReceiver` (video receiver, REMB receiver, and the feedback loop of
BBR), `MCVideoFec` (transport, FEC, the feedback of GCC, and the controller and the filter
of BBR). The parts do not touch each other; they share a run.

Operators whose name ends in
`_Something` after the name of a function (`Heard_KeepsResend`) and whose comment
begins with *Mutant* are wrong variants of the definition that follows them: each
property of each passing run is violated when its mutant takes the place of the
definition, which shows that the property says something about the code.

## 3. How state and actions correspond to the code

`PROJECT.json` maps every definition to its lines. In general: a C struct is a
record with the fields' names; a function that changes a struct is an operator from
the old record to the new; a handler is an action, which includes every call the
handler makes; a skip list is a function or a set ordered by key; a pointer into
another cache is the value it points to, or its key where its lifetime matters.

**PacerQueue / PaceSender.** `que.cache` is the skip list (a function from sequence
number to event), `que.l` the insertion list. The loop of `pace_try_transmit` is
`TransmitBegin`, one `TransmitOne` per packet (each leaves through a callback) and
`TransmitEnd`; `pc` keeps other operations out in between, as the mutex does.

**SimSession.** A session is `[state, scid, rcid, sender, receiver, interrupt,
resend, waited]`. Time is counted in quarters of a second, the ping's period;
`waited` is `now_ts - commad_ts` up to the second after which a connect or
disconnect is due again. `sim_session_process` applies `Heard` (which clears the
counter of resends and the interruption) and then the handler, as the code does.
`app` is what the application has been told, kept the way the programs in
`sim_test/` keep it; `silence` and `up` exist only in the model.

**SimReceiver / SimSender / VideoTransport.** The receiver's record has the loss
list (`loss`), bases, `fir_recent` (less than the minimum delay has passed since the
last FIR), and the `cache` with the ring. `waived` records packets that were taken
off the loss list because a key frame was asked for. Seconds are the unit of time:
frames have time stamps, a play-out may be due or not (the jitter arithmetic is a
choice), a round trip may be slow or not (which decides whether to wait). The
sender's caches are sets of segments; `waiting` is what the pacer holds. `first` of a
frame of `stream` and `got`, `forgotten`, `shown` are histories.

**FlexFec / SimFec.** The contents of a packet are its id, the exclusive or of
packets is the symmetric difference of their ids: exact for headers, data and
lengths alike, since all are combined by the same operation. What is recovered is
genuine when the difference is a single id, that of a segment sent with the same
header. The geometry (`flex_fec_sender_num_packets`) and the row and column
arithmetic are the code's; that rows and columns are told apart by the top bit of 8 is
enough for groups of less than 128 rows, and the code closes a group at 100 segments
(`sim_sender.c:370`). `Recover` is one round of the
loop in `sim_receiver_recover`. A FEC packet's `fec_id` comes round after 65535 groups;
`Unwrapped` says that it has not yet. A packet recovered whose difference is no single id
has a header of garbage: what the receiver does with it is not modelled, and a behaviour
ends there (`Known`).

**BbrFeedback.** `hist` is `sender_history_t` with the unwrapper's last value;
`sent`, `fresh` and `arrived` exist only in the model and say what is true. A
packet's number in the model is its true number; `Wire` is what the datagram
carries. `at` names the first packet of a report and serves the bounds; the sender
reads only `Wire(at)`.

**BbrController / WindowedFilter.** The record `bbr` has the fields of
`bbr_controller_t`; each function the code calls in a feedback is an operator on it.
Bandwidths are left out: where the code compares bytes under way with the product of
bandwidth and delay, or a bandwidth with an earlier one, the operator yields both
results as a set, so that the model has every behaviour of the code and some more.
`entered` is when PROBE_RTT was entered. In `WindowedFilter`, `marked` is any one of
the samples fed, chosen when it is fed: what holds of it holds of all.

**BbrPacer.** Queue, clock and rates are `PaceSender`'s; `media_budget` and
`padding_budget` are the two budgets, a pass is again begin, one step per packet, end.

**GccFeedback.** The receiver's `arrival_times` is a function from unwrapped number to
time, its window starts at a number; a report is a function from packet to number on the
wire and difference to the earliest time, modulo `TsRange`, and is read in the order
of its packets. `given` is the bag of packets the sender's estimators get, each with
its time.

**AimdRateControl / SenderEstimation / GccSender.** Each struct is a record and each
function an operator. What the detector finds and what the acknowledgement estimator
measures is a choice at each feedback, and so are amounts that depend on measured times
(how far an increase goes) and comparisons of averages with deviations. The calls
of `maybe_trigger_network_changed` within one feedback are applied one after the other,
since what the pacer is told depends on what it was told before. `ctrl.paced` is the
pacer's estimate. Bitrates are small numbers and the model's products do not wrap.

**ReceiveStats / RembReceiver.** The rate window is the code's ring of buckets with its
index and time; `bytes` and `seen` say what really came.

**AbrRule.** Confidences are whole numbers; interpolation is compared by multiplying
out. The published `confidence.cpp`, `confidence.hpp` and `sim_sender_test.c` do not
compile as they are; they are read as they are meant.

## 4. Runs and bounds

| run | checks | bounds, and why they suffice |
|---|---|---|
| `pace_sender` | types; the two structures of the queue agree (`QueueConsistent`); byte count and age exact; a pass overdraws the budget by less than a packet; `ImplementsPaceSpec`. `PaddingYields`: padding waits for media. `BitrateSettles`: the ABR rule moves no more once nothing changes. `GccRateSound`: bounds of both bitrates, the maximum known when it is near, the loss's side capped by the delay's, the history's least first, what was told is the estimate. `GccReacts`: an overuse never raises, past the start the bitrate rises by steps, every change reaches the pacer | 3 numbers, 2 sizes, one clock step of 125 ms up to the queue's 250 ms: an event can be sent out of the middle, revived, and collected later, and the age limit be passed; a padding rate and none; tables of 0 or 2 rows over 3 tiers; a bitrate from 20 within 10 and 24 with 0, less, or more coming through, set twice, 2 feedbacks with any combination of arrivals, REMB and loss, 3 instants apart by every timer |
| `session` | types; `SenderOfCall`, `CallKnown`, `RecordingExact`; a session gives up only after silence; no stale DISCONNECT ends a live call | two calls by either end, one re-created session, a network in which every datagram sent may arrive again at any time or never; a stale datagram meets the next call at either end. `GiveUp` 5 and `InterruptResends` 1 stand for 40 and 12 and keep their order. Heartbeats come in each quarter of a second (`Timely`). The two ends are symmetric |
| `session_live` | `PlayKnown`; `WaitingResolves`: a call being placed or an interruption ends one way or the other; `SilentPeerReleased`: a peer that is gone is let go | one call, a lossy network without repetition, so that the state graph is small enough for temporal checking |
| `session_disconnect` | violated: see section 7 | the same |
| `video_receiver` | `SlotsOwned`; `NoneForgotten`: what is missing is known and the base passes none of it; `ImplementsVideoSpec`. `RembTrue`: rate and loss of the reports. BBR feedback: types, `KeysTrue`, `BytesAccounted` | 5 frames of 1 or 2 segments in a ring of 4 slots, so that every slot is reused and frames arrive up to 2 ahead of and 3 behind the newest; segments arrive in any order, again, or never. The player is never a whole ring behind (1024 frames, half a minute, in the code; section 7 says what happens beyond). REMB: packets of 1 or 2 units, numbers 0 to 3 in any order with a list of 3, over 3 ms with a window of 2, pauses of 1, 2 and 3, shorter than the window, as long, and longer. Feedback: 9 packets over a range of 8 numbers, so that the counter wraps; a packet that arrives is reported before 3 more are sent (less than half the range, as in the code, where half the range is 32768 packets); 2 reports on the way, each delivered any number of times in any order; packets repeated and reordered; up to one packet at a time gets too old |
| `video_transport` | `SenderBaseSound`, `KeptWhileWanted`, `ImplementsVideoSpec`. FEC: `RecoveredGenuine`, `FlexLive`, `DecoderComplete`. `GccFeedbackSound`: every packet that came is reported or will be, and given once at most, with its time. `ControllerSound`, `ProbeRttLasts`, `RttGivenUp`. `FilterSound`. Types | 3 frames, 1 loss, 2 datagrams on the way back: acknowledgements and feedbacks overtake each other. FEC: 8 packets in frames of 2 or 5, which makes groups of one row and of rows and columns, two groups whose packets and segments overtake each other; groups are started again after 2 s and evicted after 3; a FEC packet leaves within a second. Feedback: 6 packets over a range of 8 numbers, a repetition, reports of at most 3 packets. Controller: a cycle of 3 gains, 2 rounds of startup, 3 ms, windows of 2 and 3 segments, any feedback at any time. Filter: 4 samples, 15 rounds, gaps of 0 to 5 rounds over a window of 10, which reach every quarter and half of it |
| `video_recall` | `CachesSound`: no pointer to a freed segment, no slot with two frames | a second call, one eviction, one loss, frames of one segment. How many segments a slot has room for is not claimed over two calls: a late segment of the last call may be put in a slot made for a shorter frame of the same id (section 7) |
| `video_live` | `PlayerCatchesUp` | 3 frames, up to 4 losses of segments, requests or FIRs |
| `receiver_again`, `video_stale`, `abr_minimal` | violated: see section 7 | |
| `fec_wrap` | violated: see section 7 | two group ids, so that the third group has the first one's; nothing late: every packet arrives in the second it is sent or never, and the receiver evicts before every frame |

Bounds are constants named in the modules (`MaxCalls`, `MaxFrames`, `Ahead`, `Lag`,
...) and appear only in guards. Runs say `CHECK_DEADLOCK FALSE` because the bounds
make the model stop: all packets sent, all calls placed.

What the properties say, and why each might fail, is in the comments above them.
Two abstract specifications carry most of the meaning:

* `PaceSpec`: whatever the queue does inside, what is outside is "of the packets
  waiting, the one with the lowest number leaves next; nothing is dropped".
* `VideoSpec`: the player is given frames whole, in the order they were encoded,
  none twice; the first after a gap is a key frame.

## 5. Fairness

* `SimSession!FairSpec`: weak fairness of each heartbeat (the session's thread
  wakes every 5 ms as long as it lives) and strong fairness of the delivery of
  connects, disconnects and their acknowledgements: the network loses, but not
  every copy of a command sent again and again. Pings and pongs get no fairness.
* `VideoTransport!FairSpec`: the pacer sends and the handlers run (weak fairness);
  what is missing is asked for and what is asked for is sent again (strong
  fairness: the heartbeat keeps asking, every round trip or so, and a request may be
  refused for a while but not for ever); a frame that may be played comes due.
  Segments in flight arrive (`WF_data(Arrive)`; losses are counted by `MaxLost` when
  they are sent, so what is in flight was not lost).

## 6. Proofs

All theorems hold for every value of the constants allowed by the named
assumptions. `PaceSender`:

* `TypeCorrect`, `QueueAlwaysConsistent`, `AgeAlwaysExact`, `BytesAlwaysExact`,
  `BurstAlwaysBounded`, `Implements` (every step of the code's pacer is a step of `PaceSpec` or a stutter).
* The inductive invariant `IInv` adds to the types: `QueInv` (list and skip list
  hold the same events once each, the head is unsent, `oldest_ts` is the head's
  stamp, events are listed by their stamp), `StampedBy` (no event is newer than the
  clock) and `QueuedSizes` (the sizes are those of packets inserted). The age is not
  inductive alone: that the head is oldest needs the order of the list, which needs
  that the clock bounds all stamps.
* There is a lemma for each operator of the queue, and `FrontIsLeastUnsent`, on which
  the refinement rests.
* `BytesExact` needs `QueInv` and nothing else: which events are in the skip list decides
  the sum. The code takes the size of a head it collects off twice or clamps the count at
  zero in places; the lemmas show, operation by operation, by how much the sum over the
  waiting events changes, and that the clamp is never what decides.

The sums of this project (`BytesExact`, the bytes of the BBR feedback) are folds over finite
sets, and of a fold over a finite set nothing follows by computing. `NumberLemmas`
derives what is needed by smallest counterexample: of the finite sets of which a claim
about sums were false there would be a minimal one (`SmallestSet`, from the library's
well-founded order of finite sets), and taking one element out of it contradicts that. This
gives that a sum does not depend on the order of its terms, is split by any subset
(`TotalSplit`), and does not shrink when the set grows (`TotalPart`).

`BbrPacer`, whose queue is the same (`BbrQueueAlwaysConsistent`, byte count included):

* `PaddingAlwaysYields` (`PaddingYields`): padding never passes media that waits. The
  invariant `PadInv` compares the two budgets: outside the cases the property excepts,
  the padding budget never has more left than the media budget (`Behind`), unless the
  padding rate is so low that one pass gives it less than a padding packet needs
  (`Little`). Both budgets are cut off below at half a second of their rate, and this is
  where the order could turn round: a packet larger than half a second of the padding
  rate would take more from the one than from the other. The theorem's hypothesis is
  therefore that no packet is larger than half a second of the least rate that pads at
  all, 34 kbps or 2125 bytes; datagrams of this program have some 1100.

`SimSession`:

* `TypeCorrect`, `SenderAlwaysOfCall`, `CallAlwaysKnown`, `RecordingAlwaysExact`
  follow from `IInv`, whose core is a predicate `Good` of one session and its
  application; lemmas show that each building block of the handlers keeps it, and
  one lemma per action that both sessions keep it.
* `CallsSurvive`, an action property of both ends and the network, needs the
  history of the network: call ids are drawn once, a DISCONNECT names a call that
  has ended, and a receiver's `rcid` names a call that was placed. These conjuncts
  of `IInv` are what makes a stale DISCONNECT harmless.
* They hold for any pair of ends, callers, beats, bounds and time limits, with or
  without repetition and loss.
* `PlayAlwaysKnown` (`PlayKnown`) has the hypothesis that one end calls, which section 7
  explains. Its invariant `PlayInv` says that the caller never has a receiver, the other
  end is never in a call of its own, and no CONNECT travels to the caller.
* `GivesUpOnlyOnSilence` (`GivesUpOnSilence`) has the hypothesis of a heartbeat in every
  quarter of a second. Pings and commands share the counter and the timer, and count at
  different paces; `SilenceInv` bounds the silence from below by what both say: with a
  sender or receiver a quarter per ping, without one four quarters per command, and the
  timer never runs when both would use it.

`BbrFeedback`:

* `UnwrapsTrue`: from a number's remainder, `wrap16_update` returns the number itself
  whenever it is less than half the range from the last one. The range is any even
  number, so the proof reasons about remainders with a symbolic divisor.
* `KeysAlwaysTrue` (`KeysTrue`). Its invariant says that both
  unwrappers are, after every step, less than half the range from every number they
  may be given next: the sender's is at most `Lag` behind, a report's first number at
  most `Lag`, and so is what the receiver has collected and not reported. The
  assumption that `Lag` is below half the range is what the code relies on
  (32768 packets within one round trip).
* `InFlightAlwaysNear` (`InFlightNearly`): the counter of bytes under way against the bytes of
  the packets that are. `HistInv` says when the difference (`Miscounted`) can change:
  only while `last_ack_seq_num` is 0, which is over after two packets. What gets too old
  is a prefix by key, so that the mark of what is acknowledged and the bytes taken off move
  together (`WithoutAccounts`, `AckAccounts`, `AddAccounts`).
* `AckedAlwaysArrived` (`AckedArrived`): the sampler's bytes against those that arrived. `SamplerInv`
  says that there is a set of packets that came whose bytes are `arrived`, which holds
  all that the receiver has collected or reported, and another of packets counted, within
  the first, none of which is still in the sampler's ring. A packet leaves the ring when it
  is counted (`AckedOnce`), and one taken out as lost by its number on the wire only makes
  the ring smaller (`Shrinks`): that is why the mistaken removals of section 7 do no harm
  here. That a report names only packets that came needs `KeysTrue`'s invariant. The sampler
  is a fold of these steps over the packets of a report, and what each step keeps, all keep
  (`LostKeeps`, `AckedKeeps`, by smallest counterexample again).
* `BytesAlwaysAccounted` (`BytesAccounted`) is both; `TypesAlwaysOK` (`TypeOK`) needs both
  invariants, since an unsigned counter is of its type only if nothing is taken off twice.

`WindowedFilter`:

* `FilterAlwaysSound` (`FilterSound`), for every window, sample and pause. The
  invariant orders the three estimates in time and in size; each of the three steps of
  an update (replace, shift, spread) has a lemma that it keeps the order, and that the
  marked sample stays below the best or leaves the window.

`BbrController`:

* `ControllerAlwaysSound`, `ProbeRttAlwaysLasts`, `RttGivenUpOnlyProbing`: for every
  gain cycle, window, time and feedback.
* The invariant `ControllerInv` is not kept by each step of a feedback: between the
  step that finds the full bandwidth and the one that leaves startup, the mode does not
  fit (`StartupFit`), and the recovery window may be below its least until it is
  calculated (`RecoveryFits`). The lemmas therefore follow a controller through the
  steps, each with what it needs and gives, and only the whole feedback keeps the
  invariant. `ExitFits` ties the time at which PROBE_RTT may end to the one at which it
  began.

`GccFeedback`, for every even range above two, every number of packets in a report, every
clock, and any loss, repetition, delay and overlap of packets and reports:

* `GccFeedbackAlwaysSound` (`GccFeedbackSound`). `GccInv` is its invariant. A report keeps,
  of each packet, a time at which it came, up to a multiple of `TsRange` (`ReportTrue`): the
  list keeps the first time of a packet that comes again, and another once it was forgotten. A
  packet given has left the sender's history (`GivenOnce`), so that a report that comes
  twice, or repeats what another said, gives nothing twice. A packet noted is pending
  or accounted for: a report takes the first of the pending and moves the window just
  past the last it took (`ReportGcc`), and a late packet moves it back.
* Both ends must unwrap what they get. `HalfIs` and `SenderKnows` hold the sender's unwrapper
  within half the range of what it sent, and it stays strictly within because a
  report names two packets at least, so its greatest is not its least (`LookUpKeeps`).
  `LookUpFolds` says what the fold over a report's samples is: a function on the sets of
  samples read so far, from which the smallest set that fails gives the induction that the
  prover lacks.
* Assumed of the network, as of the instance checked: from one packet delivered to the next
  it is less than half the range (`Deliverable`), and a report comes before more than half the
  range was sent since any packet it names (`Lately`). At 65536 numbers neither is ever near.

`SimFec`, for every size and spacing of frames, every loss the groups are shaped for, and
any loss, repetition, delay and reordering:

* `RecoversTheLost` (`RecoveredGenuine`): until the ids come round, what is recovered is a
  segment that was sent, under its own group's id. `SenderInv` says that segments are
  numbered without a gap, that a group is a run of them with its own id (`OwnIds`), and
  that each FEC packet is the sum of one line of the shape it carries (`GroupsMade`). The
  receiver cuts its lines from base, count and shape alone; that these are the sender's
  lines, that the segments it holds are of the group, and that hence all but the one
  missing cancel, is `Sound`. The shape itself is arithmetic of unbounded numbers: the lemmas
  on the root and on rounding up hold for every group size.
* `NoDanglingSegment` (`FlexLive`): `Live` compares ages. Groups are let go in the order of
  their ids, segments in the order of theirs, each up to the first that is young: until the
  ids come round these orders agree, so nothing old is kept behind something
  young. The hypothesis `TimelyFec` says that a FEC packet leaves the pacer before its
  group's segments are of the age at which a group goes; the instance checked has it,
  and section 7 says what a longer wait does.
* `FecTypes` holds of all behaviours, past the wrap as well; the run `fec_wrap` shows that the
  other two do not.

`VideoReceiver`:

* `SlotsAlwaysOwned`, `NoneEverForgotten`, `ReceiverImplementsVideo`: for every size of the
  ring, every stream of frames of any length, and any loss, repetition and reordering.
* `IInv` is a predicate `ReceiverFits` of a stream, a receiver, the packets had and the
  last frame played; the lemmas follow a receiver through the functions a handler
  calls (`AdvancedFits`, `PutFits`, `LossFits`, `UpdateBaseFits`, `CleanFits`, `GopFits`,
  `TakenFits`, ...), with one lemma for each handler at the end. Its parts are tied to
  each other. `CacheFits`: a slot in use holds segments of the one frame whose place
  it is, frames in the ring are less than a ring apart, an empty slot was left by a
  frame at or before `min_fid`. `PacketsKnown`: a packet up to the newest has come, is
  asked for, was waived for a key frame, or is of a frame played or given up; the base
  has passed no other. `NextDecodable`: the next frame follows the last played or is a
  key frame, without which giving up a group of pictures would not be
  known to end at a key frame. `FreshFits`: ring and loss list start together, which
  decides what the first segment of a stream does.
* That a frame played is whole needs that a slot counts its segments once each and
  that a segment's numbers fix its frame (`WholeFrame`, `SegmentFits`).

`VideoTransport`, for one call of any length:

* `SenderBaseAlwaysSound` (`SenderBaseSound`), `AlwaysKeptWhileWanted`
  (`KeptWhileWanted`), `TransportImplementsVideo`, `CachesAlwaysSound`,
  `NoneEmptyInOneCall`. The hypotheses are that one call is placed (`MaxCalls = 1`) and
  `[]KeepsUp`, that the player is never a whole ring behind. Both are needed: with a second
  call `video_stale` and `receiver_again` violate `SenderBaseSound` and `NoneEmpty`, where the
  theorems say that nothing within a call does; section 7 says what happens beyond a
  ring.
* The invariant is about what is in flight. `SegmentsFit`: a segment kept by the
  sender or under way is of the stream. `AllTold`: whatever a datagram says of the
  receiver is true of it now, however late it comes, because the base, the packets that
  came, the waived and those of frames done with only grow (`Grown`; one lemma for each
  function of the receiver, `LossGrows`, `UpdateBaseGrows`, `AckGrows`, ...). That the base
  only grows needs that what is asked for is after it (`AsksAhead`). What the sender
  forgets by a base or an acknowledgement (`Forgets`) is then not wanted (`NotWanted`), which
  is where `PacketsKnown` of the receiver meets the sender's caches.
* The receiver's half is the lemmas of `SimReceiverProofs`, which are stated of any
  stream and serve `VideoReceiver` and `VideoTransport` alike.
* `AckCacheAlwaysLive` has no hypothesis: it holds over any number of calls, and of
  whatever datagrams of the earlier ones say.

`GccSender`, for every setting of the bitrates, feedback, loss, measure and time between:

* `EstimatesInStep`: both estimates stay within their bounds, a near maximum is known,
  the loss's side is capped by what the delay's side holds, what was told is the
  estimate. `OveruseLowersAndPacerFollows`, an action property. `RateInv` is the invariant: that
  the least bitrate of the AIMD is not above that of the estimation, and that a notice
  is never older than its timer (`NoticeTimely`), make the parts agree after each of up
  to four changes within one feedback.
* `RatesSoundWithRoom`, `ReactsWithRoom`: all of `GccRateSound` and `GccReacts`, under the
  hypothesis `HistoryHasRoom`. The history holds the rising minima of the last second in
  an array of 128; when 128 estimates rise within a second, the oldest, which is the
  least, is dropped (`sender_bandwidth_estimator.c`), and an increase may
  start from a bitrate that is not the least. The code needs the hypothesis,
  and the theorem says so. `HistoryFits` is the invariant: the history rises in time and in
  bitrate and has, for each estimate of the last second, one not greater and not older.
* Assumed: the least bitrate set is positive and not above the greatest, and what is
  reported and measured is not negative.

`RembReceiver`, for every window, every size of packets, every pause between events and
packets in any order:

* `RembAlwaysTrue` (`RembTrue`, an action property). `RembFits` says that the two counters are
  the sums over the ring, read from its oldest bucket, and what a bucket tells of the
  bytes that came (`Tells`). Emptying and turning shifts that reading (`EmptiedHolds`,
  `TotalMoved`: a sum stays what it is when its terms are renamed). Where the loop of
  `rate_stat_erase` stops early, for lack of samples, the time jumps and the index does
  not: that this is sound is that natural numbers which add up to nothing are all zero,
  and that a bucket without samples has no bytes (`EmptiedFits`, `ErasedFits`).
* Of the loss, `ListFits` says that the list has, from its first number on, all that was
  seen, which eviction from below keeps, and a packet that comes late keeps unless the list
  has gone past it; the fraction is then a count of an interval without a set
  (`FractionTrue`).

`AbrRule`, for every ladder of tiers that rises and every table, whether or not confidence
grows with the bitrate:

* `BitrateAlwaysSettles` (`BitrateSettles`). The invariant `AbrInv` says where a bitrate may be
  on its way (`Nears`): sufficient, all that is allowed, the least sufficient bitrate
  rounded up, or, when no tier suffices, at least at the tier whose number is that of the
  frames since a change, which is what makes the number of tiers the bound. That a bitrate
  rounded up is at most one above a sufficient one is arithmetic with three unknown
  factors (`Quotient`, `RaisedEnough`): the division is put as a product with a remainder
  first. It may be one above and insufficient, where confidence falls, and is
  then raised again (`Adjusted`).

Only model-checked, and why:

* all liveness (`WaitingResolves`, `SilentPeerReleased`, `PlayerCatchesUp`): fairness is
  out of the prover's reach;
* `DecoderComplete`: what the loop over rows and columns leaves depends on the order in
  which it takes what it recovered, and needs an invariant of all orders;
* the types of the transport (the first half of `PartsTypeOK`; the second is `FecTypes`);
* `CachesSound` over more than one call: a receiver reset with frames in its ring fits no
  one stream until they are all gone, and what is proved of it is about one.

## 7. What the models show of the code

Runs that are violated, each against a statement in the repository (the
`findings` of `PROJECT.json` quote it):

* **`session_disconnect`** (`sim_session.c:767`): while a session that still receives
  video waits for its DISCONNECT to be acknowledged, its pings restart the timer
  that resending shares and pongs clear the count, so that a lost DISCONNECT is
  never sent again and the call stays *disconnected*.
* **`receiver_again`** (`sim_receiver.c:452`): resetting a receiver in use leaves
  frame ids in emptied slots, and an empty slot counts as a full frame (0 = 0): the
  player is given a frame with nothing in it.
* **`video_stale`** (`sim_sender.c:456`): datagrams from receiver to sender name no
  call. A late one moves the next call's base past packets never received.

* **`fec_wrap`** (`sim_fec.c:223`): a group is known by its id, 16 bits that come round
  after 65535 groups (36 minutes at 30 a second). Eviction walks the groups in the order of
  their ids and stops at the first that is young, so that after the wrap an old group is
  kept behind young ones with smaller ids, and when its id is used again, the FEC packets of
  the new group fall into the old one: what it "recovers" is no packet that was
  sent (`flex_fec_receiver.c:98` gives the equation it breaks).
* **`abr_minimal`** (`confidence.cpp:236`): any bitrate whose confidence suffices is
  kept. A session starts at 4000 kbps and stays there however low a tier would do;
  `README.md:45` of the repository says a minimal sufficient bitrate is chosen.

Met while modelling, without a statement in the repository that they contradict:

* A stale CONNECT_ACK answers the next CONNECT: `sim_session.c:410` looks at the
  state, never at the call id.
* The end of one's own call destroys the receiver of the peer's call without
  `sim_stop_play_notify` (`sim_session.c:477`); `PlayKnown` is therefore stated for one
  caller.
* With a heartbeat that is late by a second or more while a call is being placed and
  a receiver exists, the shared counter makes a session give up early;
  `GivesUpOnSilence` is checked with timely heartbeats.
* The round trip time for FEC is computed by looking a packet id up in a cache keyed
  by `send_id` (`sim_sender.c:438`); the two differ after a retransmission.
* A player a whole ring behind: the ring evicts up to the newest frame even where it
  is no key frame, and the frame after the gap is played undecodable.
* A FEC packet is stamped when it leaves the pacer (`sim_sender.c:114`), so that one that
  waits longer than the second between `EVICT_FEC_DELAY` and the age at which a group is
  started again can keep a group beyond its segments, which it points to. The hypothesis
  `TimelyFec` of `NoDanglingSegment` says exactly how long is safe.
* Packets 0 and 1 of a session may be counted as under way for ever
  (`sender_history.c:72`), so that bytes in flight need never be 0 again, which
  `bbr_controller.c:290` waits for. `InFlightNearly` bounds the error.
* A report that comes late lists packets received as lost (`bbr_feedback_adpater.c:91`),
  and losses between two reports are never listed; a report of 127 packets or more
  starts its list again and forgets the first (`:101`, `:113`).
* Lost packets go to the sampler by their 16 bit number, received ones by the 64 bit
  key (`bbr_feedback_adpater.c:94`, `:106`): after 65536 packets losses no longer
  reach the sampler.
* The sampler's ring grows one packet late (`bbr_bandwidth_sample.c:120`), and the
  growth leaves the newest point uncopied (`:97`); the model's bound keeps the window
  within the ring.
* A late segment of an earlier call is put into the next call's receiver: segments
  name no call (`sim_session.c:517`). `sim_receiver.c:276` compares a segment's index
  with its own frame's length, not with the room of the slot it goes to, which within one
  call is the same (`SlotsAlwaysOwned`).
* A clock stepped back (`GET_SYS_MS` is wall time) makes a later event older than the
  queue's head (`pacer_queue.c:105`); `AgeExact` assumes a clock that does not run back.
* BBR controller: the pacer never looks at the congestion window
  (`bbr_pacer_congestion` answers 0). `end_recovery_at` may go back with a report that
  comes late. `bbr_controller.c:829` compares the window, a number of bytes,
  with an enumeration, so that the branch of medium growth is never taken. At full bandwidth the pacing
  rate is at least `cwnd / srtt`, so a gain below one hardly lowers it. PROBE_RTT may lead
  to PROBE_BW past DRAIN. RTTs below 5 ms count as 5, so that there the time of the least
  RTT is renewed by every sample.
* The windowed filter forgets a sample from before the best one that is still within
  the window after a pause (`windowed_filter.c:82`), and is fed the sample of the last
  packet of a feedback only.
* Padding may go before media when the padding rate is lowered, or is above the pacing
  rate, while media has overdrawn its budget: `PaddingYields` excepts that.
* REMB: the flags of a report are set by "or" into a structure that is not initialised
  (`remb_receiver.c:57`), so that a report may claim a loss it does not carry. A packet that
  comes after the list has gone past it makes everything since count as lost until it is
  evicted again. `remb_sender.c:97` subtracts one entry of its window and overwrites the next.
* ABR rule: without a table the bitrate only falls; rounding up gives one above a whole
  tier.
* Feedback of GCC: a packet that came alone and is followed by nothing for half a
  second is forgotten unreported; times in a report wrap at 65.5 s; a receiver that is
  reset while the sender has gone more than half the range on ignores all packets
  (`remote_estimator_proxy.c:61`); a copy that comes half a second after the first gets
  another time. `sender_on_feedback` returns when it finds none of the packets, and drops
  the REMB and the loss in the same message.
* Estimates of GCC: a heavy loss may *raise* the bitrate, to what comes through
  (`sender_bandwidth_estimator.c:282`); `RisesByStep` allows that and nothing else. The
  bitrate times 512 less the loss is a 32 bit product that may overflow above 8.4 Mbps (`:280`),
  while `sim_sender_test.c` sets a maximum of 40 Mbps. `sender_estimation_set_minmax_bitrate`
  never lowers the least bitrate. Bitrates set again do not reach `delay_base_bitrate`: the
  old one caps the estimate until the delay's side changes, and the pacer is set past
  that cap for up to two seconds. `aimd_test.c` expects increases of 4000 and 5000 where the
  code's least is 8000 (`aimd_rate_control.c:123`). A reset of `delay_base_bwe` keeps the
  detector's state, and a reset of `inter_arrival` the count of reordered groups.

## 8. Not modelled

* The codec and the containers are used through what they do; the platform layer is the
  operating system's.
* Floating point: trend line, Kalman filter, overuse detector, the smoothing of round
  trips (`bbr_rtt_stats.c`, `bbr_loss_rate_filter.c`), the sender of REMB. What they find is a
  choice of the models that use it. Groups of arrivals (`inter_arrival.c`) feed these
  alone.
* `sim_limiter.c` is called by nothing. The ALR detector only delays one estimate of GCC.
* Demonstrators, capture and codecs (`sim_test/echo`), the Python scripts, and the test
  programs. `sim_test/echo` holds most of the repository's lines, nearly all of them
  headers of DirectX and FFmpeg and Microsoft's base classes: of about 119,000 lines, the
  project's own C code is some 16,000, of which the map covers a third. No modelling
  of this program reaches a third of the whole.

Left out inside what is modelled: round trip times as numbers (a choice) in the
transport, the session's statistics, the FEC flush in the middle of a frame of 100
segments, padding packets in the transport, the FEC part of acknowledgements, 32 bit
packet ids (which take weeks of one call to wrap); in the BBR controller, pacing rates and
the aggregation of acknowledgements; in the estimates of GCC, the case that a feedback
lists only packets from before the stream began, which takes a clock that runs back.

## 9. Plan

Done, in this order: pacer with its abstract specification and proofs; session with
proofs; receiver, then sender and receiver composed, with `VideoSpec`; FEC; BBR
feedback with proofs; BBR pacer; BBR controller and its filter with proofs; REMB
receiver; ABR rule; feedback of GCC; estimates of GCC; proofs of the video receiver, of the video transport
of one call, of the estimates of GCC, of the rest of the session's safety, of the BBR
pacer, of FEC, of both feedbacks, of the ABR rule and of the REMB receiver.

Next, proofs:

1. `CachesSound` over any number of calls: of the ring alone, without a stream.
2. The types of the transport; `DecoderComplete`.

Next, modelling: the FEC flush in the middle of a frame and padding, in `SimSender`;
groups of arrivals; the ALR detector.
