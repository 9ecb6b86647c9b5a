---------------------------- MODULE ReceiveStats ----------------------------
(***************************************************************************)
(* What a receiver measures of the packets that come: the bytes of a       *)
(* sliding window (estimator/rate_stat.c) and the numbers missing among    *)
(* the latest packets (estimator/cc_loss_stat.c), as operators on the      *)
(* records of the code.  Numbers are unwrapped, which KeysTrue of          *)
(* BbrFeedback is about.  A rate is given by its bytes, accumulated_count, *)
(* and a loss fraction by its numerator and denominator.                   *)
(***************************************************************************)
EXTENDS Integers, FiniteSets, FiniteSetsExt

CONSTANTS
  wnd_size,                      \* of the rate's window: 2000 ms
  k_loss_statistics_window_ms,   \* 4000 ms
  k_max_statistics_window_number,\* 200 packets
  k_min_statistics_number        \* 100 packets, below which there is no loss fraction

ASSUME StatsAssumption ==
  /\ wnd_size \in Nat \ {0, 1} /\ k_loss_statistics_window_ms \in Nat
  /\ k_min_statistics_number \in Nat \ {0} /\ k_max_statistics_window_number \in Nat

-----------------------------------------------------------------------------
rate_stat_init ==
  [oldest_ts |-> -1, oldest_index |-> 0, accumulated_count |-> 0, sample_num |-> 0,
   buckets |-> [i \in 0 .. wnd_size - 1 |-> [sum |-> 0, sample |-> 0]]]

BucketAt(r, offset) == (r.oldest_index + offset) % wnd_size

(* Of the oldest buckets, the sums of so many.                              *)
SumOf(r, n)    == SumFunction([i \in 0 .. n - 1 |-> r.buckets[BucketAt(r, i)].sum])
SampleOf(r, n) == SumFunction([i \in 0 .. n - 1 |-> r.buckets[BucketAt(r, i)].sample])

(* How many buckets the loop of rate_stat_erase empties: until the window   *)
(* begins, or nothing is left.                                              *)
Outdated(r, new_oldest_ts) ==
  Min({n \in 0 .. Min({new_oldest_ts - r.oldest_ts, wnd_size}) :
         n = new_oldest_ts - r.oldest_ts \/ SampleOf(r, n) = r.sample_num})

(* Mutant: a window that is emptied does not move on.                       *)
rate_stat_erase_Stays(r, now_ts) ==
  LET new_oldest_ts == now_ts - wnd_size + 1
      n == Outdated(r, new_oldest_ts)
  IN  IF r.oldest_ts = -1 \/ new_oldest_ts <= r.oldest_ts THEN r
      ELSE [oldest_ts         |-> r.oldest_ts + n,
            oldest_index      |-> BucketAt(r, n),
            accumulated_count |-> r.accumulated_count - SumOf(r, n),
            sample_num        |-> r.sample_num - SampleOf(r, n),
            buckets |-> [i \in 0 .. wnd_size - 1 |->
                           IF \E k \in 0 .. n - 1 : i = BucketAt(r, k) THEN [sum |-> 0, sample |-> 0] ELSE r.buckets[i]]]

rate_stat_erase(r, now_ts) ==
  LET new_oldest_ts == now_ts - wnd_size + 1
      n == Outdated(r, new_oldest_ts)
  IN  IF r.oldest_ts = -1 \/ new_oldest_ts <= r.oldest_ts THEN r
      ELSE [oldest_ts         |-> new_oldest_ts,
            oldest_index      |-> BucketAt(r, n),
            accumulated_count |-> r.accumulated_count - SumOf(r, n),
            sample_num        |-> r.sample_num - SampleOf(r, n),
            buckets |-> [i \in 0 .. wnd_size - 1 |->
                           IF \E k \in 0 .. n - 1 : i = BucketAt(r, k) THEN [sum |-> 0, sample |-> 0] ELSE r.buckets[i]]]

rate_stat_update(r, count, now_ts) ==
  LET erased == rate_stat_erase(r, now_ts)
      opened == IF erased.oldest_ts = -1 THEN [erased EXCEPT !.oldest_ts = now_ts] ELSE erased
      index  == BucketAt(opened, now_ts - opened.oldest_ts)
  IN  IF r.oldest_ts > now_ts THEN r
      ELSE [opened EXCEPT !.sample_num = opened.sample_num + 1,
                          !.accumulated_count = opened.accumulated_count + count,
                          !.buckets[index] = [sum    |-> opened.buckets[index].sum + count,
                                              sample |-> opened.buckets[index].sample + 1]]

(* What rate_stat_rate answers, after rate_stat_erase: the bytes of the     *)
(* window, or -1 when it is empty or not a whole window old.                *)
RateOf(r, now_ts) ==
  IF r.sample_num = 0 \/ now_ts - r.oldest_ts + 1 < wnd_size THEN -1 ELSE r.accumulated_count

-----------------------------------------------------------------------------
(* list maps the numbers of packets to the times they came.                 *)
loss_statistics_init == [max_id |-> -1, list |-> <<>>]

First(l) == Min(DOMAIN l)

(* Mutant: whatever is too old goes, wherever it stands.                    *)
loss_evict_oldest_Anywhere(l, now_ts) ==
  LET fresh == {id \in DOMAIN l : l[id] + k_loss_statistics_window_ms >= now_ts}
  IN  Restrict(l, {id \in fresh : Cardinality({x \in fresh : x >= id}) <= k_max_statistics_window_number})

(* loss_evict_oldest removes from the head of the list as long as it has    *)
(* too many entries or its head is too old.                                 *)
loss_evict_oldest(l, now_ts) ==
  Restrict(l, {id \in DOMAIN l :
             \E x \in DOMAIN l : /\ x <= id
                                 /\ l[x] + k_loss_statistics_window_ms >= now_ts
                                 /\ Cardinality({y \in DOMAIN l : y >= x}) <= k_max_statistics_window_number})

loss_statistics_incoming(s, id, now_ts) ==
  LET l == [x \in DOMAIN s.list \cup {id} |-> IF x \in DOMAIN s.list THEN s.list[x] ELSE now_ts]
  IN  [max_id |-> Max({s.max_id, id}), list |-> loss_evict_oldest(l, now_ts)]

(* What loss_statistics_calculate makes of the list, after                  *)
(* loss_evict_oldest: lost of num packets, or NoFraction.                   *)
NoFraction == [lost |-> -1, num |-> 0]

FractionOf(s) ==
  LET count    == Cardinality(DOMAIN s.list)
      distance == s.max_id - First(s.list) + 1
  IN  IF s.max_id = -1 \/ count < k_min_statistics_number \/ distance <= 0 THEN NoFraction
      ELSE [lost |-> IF distance <= count THEN 0 ELSE distance - count, num |-> distance]
=============================================================================
