---------------------------- MODULE PacingProofs ----------------------------
(***************************************************************************)
(* The invariants of the GCC pacer, for every set of packets, sizes, rates *)
(* and clock steps, and that it implements PaceSpec; of the pacer of BBR,  *)
(* which has the same queue, that padding yields to media; of the          *)
(* estimates of GCC, which its pacer paces at; and that the rule settles   *)
(* which says how much video there is to pace.                             *)
(***************************************************************************)
EXTENDS BbrPacer, AbrRule, GccSender, NumberLemmas, SequenceTheorems, TLAPS

(***************************************************************************)
(* What the operations of pacer_queue.c do to a well-formed queue, for     *)
(* every set of sequence numbers.  The pacers' invariants follow from      *)
(* these lemmas.                                                           *)
(***************************************************************************)
(* The list is in order of arrival, and nothing arrived in the future. *)
ByArrival(q) ==
  \A i, j \in DOMAIN q.l : i <= j => q.cache[q.l[i]].que_ts <= q.cache[q.l[j]].que_ts
StampedBy(q, t) == \A s \in DOMAIN q.cache : q.cache[s].que_ts <= t

OldestIsHead(q) ==
  /\ q.l = <<>> <=> q.oldest_ts = NoTs
  /\ q.l # <<>> => q.oldest_ts = q.cache[Head(q.l)].que_ts

(* The part of the invariant that holds in the middle of pacer_queue_sent   *)
(* too, before the sent events are collected.                               *)
WellFormed(q) ==
  /\ IsQue(q)
  /\ SameEvents(q)
  /\ NoDuplicates(q)
  /\ ByArrival(q)

QueInv(q) == WellFormed(q) /\ HeadUnsent(q) /\ OldestIsHead(q)

-----------------------------------------------------------------------------
(* The empty queue of pacer_queue_init is well-formed. *)
LEMMA EmptyQueInv == QueInv(EmptyQue)
<1>1. /\ EmptyQue.cache = <<>> /\ EmptyQue.l = <<>>
      /\ EmptyQue.total_size = 0 /\ EmptyQue.oldest_ts = NoTs
      /\ DOMAIN EmptyQue.cache = {}
      /\ DOMAIN EmptyQue.l = {}
  BY DEF EmptyQue
<1>2. EmptyQue.cache \in [DOMAIN EmptyQue.cache -> PacketEvent]
  BY <1>1
<1>3. IsQue(EmptyQue)
  BY <1>1, <1>2 DEF IsQue, EmptyQue, NoTs
<1>4. QED
  BY <1>1, <1>3 DEF QueInv, WellFormed, SameEvents, NoDuplicates, ByArrival, HeadUnsent,
     OldestIsHead, Listed

(* In a well-formed queue the list and the cache can be read through each   *)
(* other.                                                                   *)
LEMMA ListedCached ==
  ASSUME NEW q, IsQue(q), SameEvents(q)
  PROVE  /\ Len(q.l) \in Nat
         /\ DOMAIN q.l = 1 .. Len(q.l)
         /\ \A i \in 1 .. Len(q.l) : q.l[i] \in DOMAIN q.cache
         /\ \A s \in DOMAIN q.cache : \E i \in 1 .. Len(q.l) : s = q.l[i]
         /\ \A s \in DOMAIN q.cache : q.cache[s] \in PacketEvent
  BY DEF IsQue, SameEvents, Listed

(* The loop of pacer_queue_final stops, at the first unsent event of the    *)
(* list or past its end.                                                    *)
LEMMA FirstUnsentStops ==
  ASSUME NEW q, IsQue(q), SameEvents(q)
  PROVE  /\ FirstUnsent(q) \in 1 .. Len(q.l) + 1
         /\ \A j \in 1 .. FirstUnsent(q) - 1 : q.cache[q.l[j]].sent
         /\ FirstUnsent(q) <= Len(q.l) => ~q.cache[q.l[FirstUnsent(q)]].sent
<1> DEFINE T == {i \in 1 .. Len(q.l) + 1 : i <= Len(q.l) => ~q.cache[q.l[i]].sent}
<1>1. Len(q.l) \in Nat
  BY ListedCached
<1>2. T \subseteq Nat /\ Len(q.l) + 1 \in T
  BY <1>1
<1>3. PICK k \in T : \A y \in T : k <= y
  <2> HIDE DEF T
  <2> QED BY <1>2, LeastOfNat
<1>4. \A j \in 1 .. k - 1 : q.cache[q.l[j]].sent
  BY <1>1, <1>3
<1>5. \E i \in 1 .. Len(q.l) + 1 : /\ \A j \in 1 .. i - 1 : q.cache[q.l[j]].sent
                                   /\ i <= Len(q.l) => ~q.cache[q.l[i]].sent
  BY <1>3, <1>4
<1>6. QED
  BY <1>5 DEF FirstUnsent


(* pacer_queue_final restores the whole invariant from a well-formed queue  *)
(* and removes sent events only: what waited still waits, unchanged.        *)
LEMMA FinalRestores ==
  ASSUME NEW q, WellFormed(q)
  PROVE  /\ QueInv(pacer_queue_final(q))
         /\ Unsent(pacer_queue_final(q)) = Unsent(q)
         /\ \A s \in DOMAIN pacer_queue_final(q).cache :
               s \in DOMAIN q.cache /\ pacer_queue_final(q).cache[s] = q.cache[s]
<1> DEFINE k == FirstUnsent(q)
           n == Len(q.l)
           rest == SubSeq(q.l, k, n)
           removed == {q.l[j] : j \in 1 .. k - 1}
           f == pacer_queue_final(q)
<1>1. IsQue(q) /\ SameEvents(q) /\ NoDuplicates(q) /\ ByArrival(q)
  BY DEF WellFormed
<1>2. /\ n \in Nat /\ DOMAIN q.l = 1 .. n
      /\ \A i \in 1 .. n : q.l[i] \in DOMAIN q.cache
      /\ \A s \in DOMAIN q.cache : \E i \in 1 .. n : s = q.l[i]
      /\ \A s \in DOMAIN q.cache : q.cache[s] \in PacketEvent
  BY <1>1, ListedCached
<1>3. /\ k \in 1 .. n + 1
      /\ \A j \in 1 .. k - 1 : q.cache[q.l[j]].sent
      /\ k <= n => ~q.cache[q.l[k]].sent
  BY <1>1, FirstUnsentStops
<1>4. /\ rest \in Seq(PacketSeqs)
      /\ Len(rest) = IF k <= n THEN n - k + 1 ELSE 0
      /\ \A i \in 1 .. n - k + 1 : rest[i] = q.l[k + i - 1]
  <2>1. k \in Int /\ n \in Int /\ \A i \in k .. n : q.l[i] \in PacketSeqs
    BY <1>1, <1>2, <1>3 DEF IsQue
  <2>2. QED
    BY <2>1, SubSeqProperties
<1> HIDE DEF k, n, rest, removed
<1>5. CASE rest = <<>>
  <2>1. f = EmptyQue
    BY <1>5 DEF pacer_queue_final, rest, k, n
  <2>2. k = n + 1
    BY <1>2, <1>3, <1>4, <1>5
  <2>3. \A s \in DOMAIN q.cache : q.cache[s].sent
    <3>1. n \in Nat /\ k - 1 = n
      BY <1>2, <2>2
    <3>2. \A j \in 1 .. n : q.cache[q.l[j]].sent
      BY <1>3, <3>1
    <3>3. \A s \in DOMAIN q.cache : \E j \in 1 .. n : s = q.l[j]
      BY <1>2
    <3>4. QED
      BY <3>2, <3>3
  <2>4. Unsent(q) = {} /\ Unsent(f) = {} /\ DOMAIN f.cache = {}
    BY <2>1, <2>3 DEF Unsent, EmptyQue
  <2>5. QED
    BY <2>1, <2>4, EmptyQueInv
<1>6. CASE rest # <<>>
  <2>1. k <= n
    <3>1. Len(rest) # 0
      BY <1>4, <1>6
    <3>2. QED
      BY <1>2, <1>3, <1>4, <3>1
  <2>2. f = [q EXCEPT !.l = rest,
                      !.cache = [x \in DOMAIN q.cache \ removed |-> q.cache[x]],
                      !.oldest_ts = q.cache[Head(rest)].que_ts]
    BY <1>6 DEF pacer_queue_final, rest, k, n, removed
  <2>3. /\ f.l = rest
        /\ f.cache = [x \in DOMAIN q.cache \ removed |-> q.cache[x]]
        /\ f.oldest_ts = q.cache[Head(rest)].que_ts
        /\ f.total_size = q.total_size
        /\ f = [cache |-> f.cache, l |-> f.l, total_size |-> f.total_size, oldest_ts |-> f.oldest_ts]
    BY <2>2, <1>1 DEF IsQue
  <2> HIDE DEF f
  <2>4. Head(rest) = rest[1] /\ rest[1] = q.l[k] /\ Len(rest) = n - k + 1
        /\ DOMAIN rest = 1 .. n - k + 1
    BY <1>2, <1>3, <1>4, <2>1
  <2>5. \A i, j \in 1 .. n : q.l[i] = q.l[j] => i = j
    BY <1>1, <1>2 DEF NoDuplicates
  <2>6. \A i \in 1 .. n : q.l[i] \in removed <=> i <= k - 1
    <3> SUFFICES ASSUME NEW i \in 1 .. n PROVE q.l[i] \in removed <=> i <= k - 1
      OBVIOUS
    <3>1. i <= k - 1 <=> i \in 1 .. k - 1
      BY <1>2, <1>3
    <3>2. \A j \in 1 .. k - 1 : j \in 1 .. n
      BY <1>2, <1>3, <2>1
    <3>3. \A j \in 1 .. k - 1 : q.l[i] = q.l[j] => i = j
      BY <2>5, <3>2
    <3>4. q.l[i] \in removed <=> \E j \in 1 .. k - 1 : q.l[i] = q.l[j]
      BY DEF removed
    <3> QED BY <3>1, <3>3, <3>4
  <2>7. DOMAIN f.cache = {q.l[i] : i \in k .. n}
    <3>1. \A i \in 1 .. n : i <= k - 1 \/ i \in k .. n
      BY <1>2, <1>3
    <3>2. \A i \in k .. n : i \in 1 .. n /\ ~(i <= k - 1)
      BY <1>2, <1>3
    <3>3. DOMAIN f.cache = DOMAIN q.cache \ removed
      BY <2>3
    <3>4. ASSUME NEW s \in DOMAIN q.cache \ removed PROVE \E i \in k .. n : s = q.l[i]
      BY <3>1, <2>6, <1>2
    <3>5. ASSUME NEW i \in k .. n PROVE q.l[i] \in DOMAIN q.cache \ removed
      BY <3>2, <2>6, <1>2
    <3>6. QED
      BY <3>3, <3>4, <3>5
  <2>8. SameEvents(f)
    <3>1. ASSUME NEW i \in k .. n PROVE \E m \in 1 .. n - k + 1 : rest[m] = q.l[i]
      <4>1. i - k + 1 \in 1 .. n - k + 1 /\ k + (i - k + 1) - 1 = i
        BY <1>2, <1>3
      <4>2. QED
        BY <4>1, <1>4
    <3>2. ASSUME NEW m \in 1 .. n - k + 1 PROVE \E i \in k .. n : rest[m] = q.l[i]
      <4>1. k + m - 1 \in k .. n
        BY <1>2, <1>3
      <4>2. QED
        BY <4>1, <1>4, <2>4
    <3>3. Listed(f) = {rest[m] : m \in 1 .. n - k + 1}
      BY <2>3, <2>4 DEF Listed
    <3>4. {rest[m] : m \in 1 .. n - k + 1} = {q.l[i] : i \in k .. n}
      BY <3>1, <3>2
    <3>5. QED
      BY <3>3, <3>4, <2>7 DEF SameEvents
  <2>9. IsQue(f)
    <3>1. /\ DOMAIN f.cache \subseteq PacketSeqs
          /\ f.cache \in [DOMAIN f.cache -> PacketEvent]
      BY <2>3, <1>1 DEF IsQue
    <3>2. q.l[k] \in DOMAIN q.cache /\ q.cache[q.l[k]] \in PacketEvent
      BY <1>2, <1>3, <2>1
    <3>3. f.oldest_ts \in Nat
      BY <3>2, <2>3, <2>4 DEF PacketEvent
    <3>4. QED
      BY <3>1, <3>3, <2>3, <1>4, <1>1 DEF IsQue
  <2>10. NoDuplicates(f)
    <3>1. ASSUME NEW i \in 1 .. n - k + 1, NEW j \in 1 .. n - k + 1, rest[i] = rest[j]
          PROVE  i = j
      <4>1. k + i - 1 \in 1 .. n /\ k + j - 1 \in 1 .. n
        BY <1>2, <1>3
      <4>2. q.l[k + i - 1] = q.l[k + j - 1]
        BY <3>1, <1>4
      <4>3. k + i - 1 = k + j - 1
        BY <4>1, <4>2, <2>5
      <4>4. QED
        BY <4>3, <1>2, <1>3
    <3>2. QED
      BY <3>1, <2>3, <2>4 DEF NoDuplicates
  <2>11. \A s \in DOMAIN f.cache : s \in DOMAIN q.cache /\ f.cache[s] = q.cache[s]
    BY <2>3
  <2>12. ByArrival(f)
    <3>1. SUFFICES ASSUME NEW i \in 1 .. n - k + 1, NEW j \in 1 .. n - k + 1, i <= j
                   PROVE  f.cache[rest[i]].que_ts <= f.cache[rest[j]].que_ts
      BY <2>3, <2>4 DEF ByArrival
    <3>2. /\ k + i - 1 \in 1 .. n /\ k + j - 1 \in 1 .. n /\ k + i - 1 <= k + j - 1
          /\ rest[i] = q.l[k + i - 1] /\ rest[j] = q.l[k + j - 1]
      <4>1. /\ k + i - 1 \in 1 .. n /\ k + j - 1 \in 1 .. n /\ k + i - 1 <= k + j - 1
        <5>1. n \in Nat /\ k \in 1 .. n + 1
          BY <1>2, <1>3
        <5>2. QED
          BY <3>1, <5>1
      <4>2. QED
        BY <4>1, <1>4
    <3>3. q.cache[rest[i]].que_ts <= q.cache[rest[j]].que_ts
      BY <3>2, <1>1, <1>2 DEF ByArrival
    <3>4. rest[i] \in DOMAIN f.cache /\ rest[j] \in DOMAIN f.cache
      BY <2>8, <2>3, <2>4 DEF SameEvents, Listed
    <3>5. QED
      BY <3>3, <3>4, <2>11
  <2>13. HeadUnsent(f) /\ OldestIsHead(f)
    <3>1. Head(f.l) \in DOMAIN f.cache /\ f.cache[Head(f.l)] = q.cache[q.l[k]]
      BY <2>7, <2>3, <2>4, <2>1, <1>2, <1>3
    <3>2. q.cache[q.l[k]] \in PacketEvent
      BY <1>2, <1>3, <2>1
    <3>3. f.oldest_ts # NoTs
      BY <3>2, <2>3, <2>4 DEF PacketEvent, NoTs
    <3>4. QED
      BY <3>1, <3>3, <1>3, <2>1, <2>3, <2>4, <1>6 DEF HeadUnsent, OldestIsHead
  <2>14. Unsent(f) = Unsent(q)
    <3>1. \A s \in removed : q.cache[s].sent
      BY <1>3 DEF removed
    <3>2. QED
      BY <3>1, <2>3 DEF Unsent
  <2>15. QED
    BY <2>8, <2>9, <2>10, <2>11, <2>12, <2>13, <2>14 DEF QueInv, WellFormed, f
<1>7. QED
  BY <1>5, <1>6

(* A new packet joins both structures at their ends. *)
LEMMA InsertedKeeps ==
  ASSUME NEW q, QueInv(q), NEW s \in PacketSeqs, NEW size \in Nat, NEW ts \in Nat,
         StampedBy(q, ts), s \notin DOMAIN q.cache,
         NEW a, a = Inserted(q, s, size, ts)
  PROVE  /\ WellFormed(a) /\ HeadUnsent(a) /\ StampedBy(a, ts)
         /\ Unsent(a) = Unsent(q) \cup {s}
         /\ a.l # <<>> /\ a.oldest_ts = q.oldest_ts
         /\ a.cache[Head(a.l)].que_ts = IF q.l = <<>> THEN ts ELSE q.cache[Head(q.l)].que_ts
         /\ \A x \in DOMAIN a.cache :
               a.cache[x].size = size \/ (x \in DOMAIN q.cache /\ a.cache[x].size = q.cache[x].size)
<1> DEFINE n == Len(q.l)
<1>1. /\ IsQue(q) /\ SameEvents(q) /\ NoDuplicates(q) /\ ByArrival(q)
      /\ HeadUnsent(q) /\ OldestIsHead(q)
  BY DEF QueInv, WellFormed
<1>2. /\ n \in Nat /\ DOMAIN q.l = 1 .. n
      /\ \A i \in 1 .. n : q.l[i] \in DOMAIN q.cache
      /\ \A x \in DOMAIN q.cache : \E i \in 1 .. n : x = q.l[i]
      /\ \A x \in DOMAIN q.cache : q.cache[x] \in PacketEvent
  BY <1>1, ListedCached
<1>3. /\ a.l = Append(q.l, s)
      /\ a.total_size = q.total_size + size
      /\ a.oldest_ts = q.oldest_ts
      /\ DOMAIN a.cache = DOMAIN q.cache \cup {s}
      /\ \A x \in DOMAIN q.cache : a.cache[x] = q.cache[x]
      /\ a.cache[s] = [size |-> size, que_ts |-> ts, sent |-> FALSE]
      /\ a = [cache |-> a.cache, l |-> a.l, total_size |-> a.total_size, oldest_ts |-> a.oldest_ts]
      /\ a.cache = [x \in DOMAIN a.cache |-> a.cache[x]]
  BY <1>1 DEF Inserted, IsQue
<1>4. q.l \in Seq(PacketSeqs)
  BY <1>1 DEF IsQue
<1>5. /\ a.l \in Seq(PacketSeqs) /\ a.l # <<>> /\ Len(a.l) = n + 1
      /\ \A i \in 1 .. n : a.l[i] = q.l[i]
      /\ a.l[n + 1] = s
  BY <1>3, <1>4, AppendProperties
<1>6. DOMAIN a.l = 1 .. n + 1 /\ Head(a.l) = a.l[1] /\ (q.l = <<>> <=> n = 0)
      /\ (q.l # <<>> => Head(q.l) = q.l[1])
  BY <1>2, <1>4, <1>5
<1>7. a.cache[s] \in PacketEvent /\ ~a.cache[s].sent /\ a.cache[s].que_ts = ts
      /\ a.cache[s].size = size
  BY <1>3 DEF PacketEvent
<1>8. IsQue(a)
  <2>1. \A x \in DOMAIN a.cache : a.cache[x] \in PacketEvent
    BY <1>2, <1>3, <1>7
  <2>2. a.total_size \in Nat
    BY <1>1, <1>3 DEF IsQue
  <2>3. QED
    BY <2>1, <2>2, <1>1, <1>3, <1>5 DEF IsQue
<1>9. \A i \in 1 .. n + 1 : i \in 1 .. n \/ i = n + 1
  BY <1>2
<1>10. SameEvents(a)
  <2>1. ASSUME NEW x \in DOMAIN a.cache PROVE \E i \in 1 .. n + 1 : x = a.l[i]
    <3>1. CASE x = s
      <4>1. n + 1 \in 1 .. n + 1
        BY <1>2
      <4> QED BY <1>5, <3>1, <4>1
    <3>2. CASE x \in DOMAIN q.cache
      <4>1. PICK i \in 1 .. n : x = q.l[i]
        BY <1>2, <3>2
      <4>2. i \in 1 .. n + 1 /\ a.l[i] = x
        BY <1>2, <1>5, <4>1
      <4> QED BY <4>2
    <3> QED BY <1>3, <3>1, <3>2
  <2>2. ASSUME NEW i \in 1 .. n + 1 PROVE a.l[i] \in DOMAIN a.cache
    <3>1. CASE i \in 1 .. n
      <4>1. a.l[i] = q.l[i] /\ q.l[i] \in DOMAIN q.cache
        BY <1>2, <1>5, <3>1
      <4> QED BY <1>3, <4>1
    <3>2. CASE i = n + 1
      BY <1>3, <1>5, <3>2
    <3> QED BY <1>9, <3>1, <3>2
  <2>3. QED
    BY <2>1, <2>2, <1>6 DEF SameEvents, Listed
<1>11. NoDuplicates(a)
  <2>1. ASSUME NEW i \in 1 .. n + 1, NEW j \in 1 .. n + 1, a.l[i] = a.l[j]
        PROVE  i = j
    <3>1. CASE i \in 1 .. n /\ j \in 1 .. n
      <4>1. q.l[i] = q.l[j]
        BY <2>1, <3>1, <1>5
      <4>2. QED
        BY <4>1, <3>1, <1>1, <1>2 DEF NoDuplicates
    <3>2. CASE i = n + 1 /\ j \in 1 .. n
      BY <2>1, <3>2, <1>2, <1>5
    <3>3. CASE i \in 1 .. n /\ j = n + 1
      BY <2>1, <3>3, <1>2, <1>5
    <3>4. QED
      BY <3>1, <3>2, <3>3, <1>9
  <2>2. QED
    BY <2>1, <1>6 DEF NoDuplicates
<1>12. ByArrival(a)
  <2>1. ASSUME NEW i \in 1 .. n + 1, NEW j \in 1 .. n + 1, i <= j
        PROVE  a.cache[a.l[i]].que_ts <= a.cache[a.l[j]].que_ts
    <3>1. CASE j \in 1 .. n
      <4>1. i \in 1 .. n
        BY <2>1, <3>1, <1>2
      <4>2. a.l[i] = q.l[i] /\ a.l[j] = q.l[j]
        BY <4>1, <3>1, <1>5
      <4>3. q.cache[q.l[i]].que_ts <= q.cache[q.l[j]].que_ts
        BY <4>1, <3>1, <2>1, <1>1, <1>2 DEF ByArrival
      <4>4. q.l[i] \in DOMAIN q.cache /\ q.l[j] \in DOMAIN q.cache
        BY <4>1, <3>1, <1>2
      <4>5. a.cache[q.l[i]] = q.cache[q.l[i]] /\ a.cache[q.l[j]] = q.cache[q.l[j]]
        BY <4>4, <1>3
      <4>6. QED
        BY <4>2, <4>3, <4>5
    <3>2. CASE i \in 1 .. n /\ j = n + 1
      BY <3>2, <1>2, <1>3, <1>5, <1>7 DEF StampedBy
    <3>3. CASE i = n + 1 /\ j = n + 1
      BY <3>3, <1>5, <1>7
    <3>4. QED
      BY <3>1, <3>2, <3>3, <1>9
  <2>2. QED
    BY <2>1, <1>6 DEF ByArrival
<1>13. StampedBy(a, ts)
  BY <1>3, <1>7 DEF StampedBy
<1>14. Unsent(a) = Unsent(q) \cup {s}
  BY <1>3, <1>7 DEF Unsent
<1>15. HeadUnsent(a) /\ a.cache[Head(a.l)].que_ts = IF q.l = <<>> THEN ts ELSE q.cache[Head(q.l)].que_ts
  <2>1. CASE q.l = <<>>
    BY <2>1, <1>5, <1>6, <1>7 DEF HeadUnsent
  <2>2. CASE q.l # <<>>
    <3>1. 1 \in 1 .. n
      BY <2>2, <1>2, <1>6
    <3>2. Head(a.l) = Head(q.l) /\ Head(q.l) \in DOMAIN q.cache
      BY <3>1, <2>2, <1>2, <1>5, <1>6
    <3>3. QED
      BY <3>2, <2>2, <1>1, <1>3 DEF HeadUnsent
  <2>3. QED
    BY <2>1, <2>2
<1>16. QED
  BY <1>3, <1>5, <1>7, <1>8, <1>10, <1>11, <1>12, <1>13, <1>14, <1>15 DEF WellFormed

(* Well-formedness does not depend on the sent flags or the byte count. *)
LEMMA FlagsDoNotMatter ==
  ASSUME NEW q, WellFormed(q),
         NEW a, IsQue(a), a.l = q.l, DOMAIN a.cache = DOMAIN q.cache,
         \A x \in DOMAIN q.cache : a.cache[x].que_ts = q.cache[x].que_ts
  PROVE  WellFormed(a)
<1>1. IsQue(q) /\ SameEvents(q) /\ NoDuplicates(q) /\ ByArrival(q)
  BY DEF WellFormed
<1>2. \A i \in DOMAIN q.l : q.l[i] \in DOMAIN q.cache
  BY <1>1, ListedCached
<1>3. SameEvents(a) /\ NoDuplicates(a)
  BY <1>1 DEF SameEvents, Listed, NoDuplicates
<1>4. ByArrival(a)
  BY <1>1, <1>2 DEF ByArrival
<1>5. QED
  BY <1>3, <1>4 DEF WellFormed

(* Marking an event sent takes it off the waiting ones and changes nothing else. *)
LEMMA MarkKeeps ==
  ASSUME NEW q, WellFormed(q), NEW s \in DOMAIN q.cache
  PROVE  /\ WellFormed(Marked(q, s))
         /\ DOMAIN Marked(q, s).cache = DOMAIN q.cache
         /\ Marked(q, s).l = q.l /\ Marked(q, s).oldest_ts = q.oldest_ts
         /\ \A x \in DOMAIN q.cache : /\ Marked(q, s).cache[x].que_ts = q.cache[x].que_ts
                                       /\ Marked(q, s).cache[x].size = q.cache[x].size
         /\ Unsent(Marked(q, s)) = Unsent(q) \ {s}
<1> DEFINE a == Marked(q, s)
           c == [q.cache EXCEPT ![s].sent = TRUE]
           total == IF q.total_size >= q.cache[s].size THEN q.total_size - q.cache[s].size ELSE 0
<1>1. IsQue(q) /\ SameEvents(q)
  BY DEF WellFormed
<1>2. \A x \in DOMAIN q.cache : q.cache[x] \in PacketEvent
  BY <1>1, ListedCached
<1>3. total \in Nat
  BY <1>1, <1>2 DEF IsQue, PacketEvent
<1>4. a = [q EXCEPT !.cache = c, !.total_size = total]
  BY DEF Marked
<1>5. DOMAIN c = DOMAIN q.cache /\ c = [x \in DOMAIN q.cache |-> c[x]]
  BY <1>1 DEF IsQue
<1>6. \A x \in DOMAIN q.cache : x # s => c[x] = q.cache[x]
  OBVIOUS
<1>7. c[s] \in PacketEvent /\ c[s].que_ts = q.cache[s].que_ts /\ c[s].size = q.cache[s].size
      /\ c[s].sent
  BY <1>2 DEF PacketEvent
<1> HIDE DEF a, c, total
<1>8. /\ a.cache = c /\ a.l = q.l /\ a.oldest_ts = q.oldest_ts /\ a.total_size = total
      /\ a = [cache |-> a.cache, l |-> a.l, total_size |-> a.total_size, oldest_ts |-> a.oldest_ts]
  BY <1>1, <1>4 DEF IsQue
<1>9. IsQue(a)
  BY <1>1, <1>2, <1>3, <1>5, <1>6, <1>7, <1>8 DEF IsQue
<1>10. \A x \in DOMAIN q.cache : c[x].que_ts = q.cache[x].que_ts /\ c[x].size = q.cache[x].size
  BY <1>6, <1>7
<1>11. WellFormed(a)
  BY <1>5, <1>8, <1>9, <1>10, FlagsDoNotMatter
<1>12. Unsent(a) = Unsent(q) \ {s}
  BY <1>5, <1>6, <1>7, <1>8 DEF Unsent
<1>13. QED
  BY <1>5, <1>8, <1>10, <1>11, <1>12 DEF a

(* Reviving an event puts it back among the waiting ones, in its old place. *)
LEMMA ReviveKeeps ==
  ASSUME NEW q, WellFormed(q), NEW s \in DOMAIN q.cache
  PROVE  /\ WellFormed(Revived(q, s))
         /\ DOMAIN Revived(q, s).cache = DOMAIN q.cache
         /\ Revived(q, s).l = q.l /\ Revived(q, s).oldest_ts = q.oldest_ts
         /\ \A x \in DOMAIN q.cache : /\ Revived(q, s).cache[x].que_ts = q.cache[x].que_ts
                                       /\ Revived(q, s).cache[x].size = q.cache[x].size
         /\ Unsent(Revived(q, s)) = Unsent(q) \cup {s}
<1> DEFINE a == Revived(q, s)
           c == [q.cache EXCEPT ![s].sent = FALSE]
           total == q.total_size + q.cache[s].size
<1>1. IsQue(q) /\ SameEvents(q)
  BY DEF WellFormed
<1>2. \A x \in DOMAIN q.cache : q.cache[x] \in PacketEvent
  BY <1>1, ListedCached
<1>3. total \in Nat
  BY <1>1, <1>2 DEF IsQue, PacketEvent
<1>4. a = [q EXCEPT !.cache = c, !.total_size = total]
  BY DEF Revived
<1>5. DOMAIN c = DOMAIN q.cache /\ c = [x \in DOMAIN q.cache |-> c[x]]
  BY <1>1 DEF IsQue
<1>6. \A x \in DOMAIN q.cache : x # s => c[x] = q.cache[x]
  OBVIOUS
<1>7. c[s] \in PacketEvent /\ c[s].que_ts = q.cache[s].que_ts /\ c[s].size = q.cache[s].size
      /\ ~c[s].sent
  BY <1>2 DEF PacketEvent
<1> HIDE DEF a, c, total
<1>8. /\ a.cache = c /\ a.l = q.l /\ a.oldest_ts = q.oldest_ts /\ a.total_size = total
      /\ a = [cache |-> a.cache, l |-> a.l, total_size |-> a.total_size, oldest_ts |-> a.oldest_ts]
  BY <1>1, <1>4 DEF IsQue
<1>9. IsQue(a)
  BY <1>1, <1>2, <1>3, <1>5, <1>6, <1>7, <1>8 DEF IsQue
<1>10. \A x \in DOMAIN q.cache : c[x].que_ts = q.cache[x].que_ts /\ c[x].size = q.cache[x].size
  BY <1>6, <1>7
<1>11. WellFormed(a)
  BY <1>5, <1>8, <1>9, <1>10, FlagsDoNotMatter
<1>12. Unsent(a) = Unsent(q) \cup {s}
  BY <1>5, <1>6, <1>7, <1>8 DEF Unsent
<1>13. QED
  BY <1>5, <1>8, <1>10, <1>11, <1>12 DEF a

(* pacer_queue_push keeps the invariant when the clock has not gone back,   *)
(* and leaves the packet waiting with everything that waited before.        *)
LEMMA PushKeeps ==
  ASSUME NEW q, QueInv(q), NEW s \in PacketSeqs, NEW size \in Nat, NEW ts \in Nat,
         StampedBy(q, ts),
         NEW p, p = pacer_queue_push(q, s, size, ts)
  PROVE  /\ QueInv(p) /\ StampedBy(p, ts)
         /\ Unsent(p) = Unsent(q) \cup {s}
         /\ \A x \in DOMAIN p.cache :
               p.cache[x].size = size \/ (x \in DOMAIN q.cache /\ p.cache[x].size = q.cache[x].size)
<1> DEFINE a == Accepted(q, s, size, ts)
<1>1. WellFormed(q) /\ IsQue(q) /\ SameEvents(q) /\ HeadUnsent(q) /\ OldestIsHead(q)
  BY DEF QueInv, WellFormed
<1>2. \A x \in DOMAIN q.cache : q.cache[x] \in PacketEvent
  BY <1>1, ListedCached
<1>3. q.l # <<>> => Head(q.l) \in DOMAIN q.cache
  <2>1. q.l \in Seq(PacketSeqs)
    BY <1>1 DEF IsQue
  <2>2. q.l # <<>> => 1 \in 1 .. Len(q.l) /\ Head(q.l) = q.l[1]
    BY <2>1
  <2>3. QED
    BY <2>2, <1>1, ListedCached
<1>4. /\ WellFormed(a) /\ HeadUnsent(a) /\ StampedBy(a, ts)
      /\ Unsent(a) = Unsent(q) \cup {s}
      /\ a.l # <<>> /\ a.oldest_ts = q.oldest_ts
      /\ a.cache[Head(a.l)].que_ts = IF q.l = <<>> THEN ts ELSE q.cache[Head(q.l)].que_ts
      /\ \A x \in DOMAIN a.cache :
            a.cache[x].size = size \/ (x \in DOMAIN q.cache /\ a.cache[x].size = q.cache[x].size)
  <2>1. CASE s \notin DOMAIN q.cache
    <3>1. a = Inserted(q, s, size, ts)
      BY <2>1 DEF Accepted
    <3> HIDE DEF a
    <3>2. QED
      BY <3>1, <2>1, InsertedKeeps
  <2>2. CASE s \in DOMAIN q.cache /\ q.cache[s].sent
    <3>1. a = Revived(q, s)
      BY <2>2 DEF Accepted
    <3> HIDE DEF a
    <3>2. /\ WellFormed(a)
          /\ DOMAIN a.cache = DOMAIN q.cache
          /\ a.l = q.l /\ a.oldest_ts = q.oldest_ts
          /\ \A x \in DOMAIN q.cache : /\ a.cache[x].que_ts = q.cache[x].que_ts
                                        /\ a.cache[x].size = q.cache[x].size
          /\ Unsent(a) = Unsent(q) \cup {s}
      BY <3>1, <2>2, <1>1, ReviveKeeps
    <3>3. q.l # <<>>
      BY <2>2, <1>1 DEF SameEvents, Listed
    <3>4. HeadUnsent(a)
      <4>1. Head(q.l) \in Unsent(q)
        BY <3>3, <1>1, <1>3 DEF HeadUnsent, Unsent
      <4>2. Head(a.l) \in Unsent(a)
        BY <4>1, <3>2
      <4>3. QED
        BY <4>2 DEF HeadUnsent, Unsent
    <3>5. StampedBy(a, ts)
      BY <3>2 DEF StampedBy
    <3>6. QED
      BY <3>2, <3>3, <3>4, <3>5, <1>3
  <2>3. CASE s \in DOMAIN q.cache /\ ~q.cache[s].sent
    <3>1. a = q
      BY <2>3 DEF Accepted
    <3>2. q.l # <<>>
      BY <2>3, <1>1 DEF SameEvents, Listed
    <3>3. Unsent(q) = Unsent(q) \cup {s}
      BY <2>3 DEF Unsent
    <3> HIDE DEF a
    <3>4. QED
      BY <3>1, <3>2, <3>3, <1>1
  <2>4. QED
    BY <2>1, <2>2, <2>3
<1> HIDE DEF a
<1>5. IsQue(a)
  BY <1>4 DEF WellFormed
<1>6. /\ p.cache = a.cache /\ p.l = a.l /\ p.total_size = a.total_size
      /\ p.oldest_ts = IF q.oldest_ts = NoTs \/ q.oldest_ts > ts THEN ts ELSE q.oldest_ts
      /\ p = [cache |-> p.cache, l |-> p.l, total_size |-> p.total_size, oldest_ts |-> p.oldest_ts]
  BY <1>5 DEF pacer_queue_push, IsQue, a
<1>7. p.oldest_ts = a.cache[Head(a.l)].que_ts /\ p.oldest_ts \in Nat
  <2>1. CASE q.l = <<>>
    BY <2>1, <1>1, <1>4, <1>6 DEF OldestIsHead
  <2>2. CASE q.l # <<>>
    <3>1. q.oldest_ts = q.cache[Head(q.l)].que_ts /\ q.oldest_ts \in Nat /\ q.oldest_ts <= ts
      BY <2>2, <1>1, <1>2, <1>3 DEF OldestIsHead, StampedBy, PacketEvent
    <3>2. QED
      BY <3>1, <2>2, <1>4, <1>6 DEF NoTs
  <2>3. QED
    BY <2>1, <2>2
<1>8. IsQue(p)
  BY <1>5, <1>6, <1>7 DEF IsQue
<1>9. WellFormed(p)
  BY <1>4, <1>6, <1>8 DEF WellFormed, SameEvents, Listed, NoDuplicates, ByArrival
<1>10. HeadUnsent(p) /\ OldestIsHead(p) /\ StampedBy(p, ts) /\ Unsent(p) = Unsent(a)
  BY <1>4, <1>6, <1>7 DEF HeadUnsent, OldestIsHead, StampedBy, Unsent, NoTs
<1>11. QED
  BY <1>4, <1>6, <1>9, <1>10 DEF QueInv

(* pacer_queue_sent takes the packet it is given, and only that one, off    *)
(* the waiting packets.                                                     *)
LEMMA SentKeeps ==
  ASSUME NEW q, QueInv(q), NEW s \in DOMAIN q.cache, NEW p, p = pacer_queue_sent(q, s)
  PROVE  /\ QueInv(p)
         /\ Unsent(p) = Unsent(q) \ {s}
         /\ \A x \in DOMAIN p.cache : /\ x \in DOMAIN q.cache
                                       /\ p.cache[x].size = q.cache[x].size
                                       /\ p.cache[x].que_ts = q.cache[x].que_ts
<1> DEFINE m == Marked(q, s)
<1>1. WellFormed(q)
  BY DEF QueInv
<1>2. /\ WellFormed(m)
      /\ DOMAIN m.cache = DOMAIN q.cache
      /\ \A x \in DOMAIN q.cache : /\ m.cache[x].que_ts = q.cache[x].que_ts
                                    /\ m.cache[x].size = q.cache[x].size
      /\ Unsent(m) = Unsent(q) \ {s}
  BY <1>1, MarkKeeps
<1>3. p = pacer_queue_final(m)
  BY DEF pacer_queue_sent
<1> HIDE DEF m
<1>4. /\ QueInv(p) /\ Unsent(p) = Unsent(m)
      /\ \A x \in DOMAIN p.cache : x \in DOMAIN m.cache /\ p.cache[x] = m.cache[x]
  BY <1>2, <1>3, FinalRestores
<1>5. QED
  BY <1>2, <1>4

(* A queue that is not empty has a waiting packet, and pacer_queue_front    *)
(* returns the waiting packet with the smallest number: never one that is   *)
(* already sent, which the walk over the skip list alone does not rule out. *)
LEMMA FrontIsLeastUnsent ==
  ASSUME NEW q, QueInv(q), ~pacer_queue_empty(q)
  PROVE  /\ pacer_queue_front(q) \in Unsent(q)
         /\ \A x \in Unsent(q) : pacer_queue_front(q) <= x
<1>1. IsQue(q) /\ SameEvents(q) /\ HeadUnsent(q)
  BY DEF QueInv, WellFormed
<1>2. q.l # <<>>
  BY <1>1 DEF pacer_queue_empty, SameEvents, Listed
<1>3. Head(q.l) \in Unsent(q)
  <2>1. q.l \in Seq(PacketSeqs)
    BY <1>1 DEF IsQue
  <2>2. 1 \in 1 .. Len(q.l) /\ Head(q.l) = q.l[1]
    BY <2>1, <1>2
  <2>3. QED
    BY <2>2, <1>1, <1>2, ListedCached DEF HeadUnsent, Unsent
<1>4. Unsent(q) \subseteq Nat
  BY <1>1, PacketSeqsAssumption DEF Unsent, IsQue
<1>5. \E s \in Unsent(q) : \A x \in Unsent(q) : s <= x
  BY <1>3, <1>4, LeastOfNat
<1>6. QED
  BY <1>3, <1>5 DEF pacer_queue_front

-----------------------------------------------------------------------------
(* The byte count.  What the events that wait add up to, as a Total.        *)
SizesOf(q) == [s \in DOMAIN q.cache |-> q.cache[s].size]
Waiting(q) == Total(SizesOf(q), Unsent(q))

LEMMA SizesOfUnsent ==
  ASSUME NEW q, WellFormed(q)
  PROVE  /\ IsFiniteSet(Unsent(q)) /\ Unsent(q) \subseteq DOMAIN q.cache
         /\ \A s \in DOMAIN q.cache : SizesOf(q)[s] = q.cache[s].size /\ q.cache[s].size \in Nat
         /\ q.total_size \in Nat
<1>1. IsQue(q) /\ SameEvents(q)
  BY DEF WellFormed
<1>2. Len(q.l) \in Nat /\ DOMAIN q.l = 1 .. Len(q.l)
  BY <1>1, ListedCached
<1>3. IsFiniteSet(Listed(q))
  <2>1. IsFiniteSet(1 .. Len(q.l))
    <3>1. 1 \in Int /\ Len(q.l) \in Int
      BY <1>2
    <3> QED BY <3>1, FS_Interval
  <2>2. Listed(q) = {q.l[i] : i \in 1 .. Len(q.l)}
    BY <1>2 DEF Listed
  <2> DEFINE f == [i \in 1 .. Len(q.l) |-> q.l[i]]
  <2>3. f \in Surjection(1 .. Len(q.l), Listed(q))
    BY <2>2 DEF Surjection
  <2> HIDE DEF f
  <2>4. QED
    BY <2>1, <2>3, FS_Surjection
<1>4. IsFiniteSet(Unsent(q)) /\ Unsent(q) \subseteq DOMAIN q.cache
  <2>1. Unsent(q) \subseteq Listed(q)
    BY <1>1 DEF Unsent, SameEvents
  <2>2. QED
    BY <1>3, <2>1, FS_Subset DEF Unsent
<1>5. \A s \in DOMAIN q.cache : q.cache[s].size \in Nat
  BY <1>1, ListedCached DEF PacketEvent
<1>6. QED
  BY <1>1, <1>4, <1>5 DEF SizesOf, IsQue

(* The sum of SizeExact is that total.                                      *)
LEMMA SizeIsTotal ==
  ASSUME NEW q, WellFormed(q)
  PROVE  SizeExact(q) <=> q.total_size = Waiting(q)
<1> DEFINE S == Unsent(q)
           f == SizesOf(q)
           iter[s \in SUBSET S] ==
             IF s = {} THEN 0 ELSE LET x == CHOOSE y \in s : TRUE IN q.cache[x].size + iter[s \ {x}]
<1>1. IsFiniteSet(S) /\ \A s \in S : f[s] = q.cache[s].size
  BY SizesOfUnsent
<1>2. SizeExact(q) <=> q.total_size = iter[S]
  BY DEF SizeExact, MapThenSumSet, MapThenFoldSet
<1> HIDE DEF S, f
<1>3. PICK g : Adds(f, S, g)
  BY <1>1, AddsExists
<1>4. g = [s \in SUBSET S |-> IF s = {} THEN 0 ELSE LET x == CHOOSE y \in s : TRUE IN q.cache[x].size + g[s \ {x}]]
  <2> DEFINE h == [s \in SUBSET S |-> IF s = {} THEN 0 ELSE LET x == CHOOSE y \in s : TRUE IN q.cache[x].size + g[s \ {x}]]
  <2>1. ASSUME NEW s \in SUBSET S PROVE g[s] = h[s]
    <3>1. CASE s = {}
      <4>1. g[s] = 0
        BY <1>3, <3>1, AddsEmpty
      <4>2. QED
        BY <3>1, <4>1
    <3>2. CASE s # {}
      <4>1. g[s] = f[Pick(s)] + g[s \ {Pick(s)}]
        BY <1>3, <3>2, AddsAt
      <4>2. f[Pick(s)] = q.cache[Pick(s)].size
        BY <1>1, <3>2, PickIn
      <4>3. QED
        BY <3>2, <4>1, <4>2 DEF Pick
    <3>3. QED
      BY <3>1, <3>2
  <2>2. g = [s \in SUBSET S |-> g[s]]
    BY <1>3 DEF Adds
  <2>3. h = [s \in SUBSET S |-> h[s]]
    OBVIOUS
  <2> HIDE DEF h
  <2>4. g = h
    BY <2>1, <2>2, <2>3
  <2>5. QED
    BY <2>4 DEF h
<1>5. iter = [s \in SUBSET S |-> IF s = {} THEN 0 ELSE LET x == CHOOSE y \in s : TRUE IN q.cache[x].size + iter[s \ {x}]]
  BY <1>4
<1> HIDE DEF iter
<1>6. Adds(f, S, iter)
  <2> DEFINE h == [s \in SUBSET S |-> IF s = {} THEN 0 ELSE f[Pick(s)] + iter[s \ {Pick(s)}]]
  <2>1. ASSUME NEW s \in SUBSET S PROVE iter[s] = h[s]
    <3>1. iter[s] = IF s = {} THEN 0 ELSE LET x == CHOOSE y \in s : TRUE IN q.cache[x].size + iter[s \ {x}]
      BY <1>5
    <3>2. CASE s = {}
      BY <3>1, <3>2
    <3>3. CASE s # {}
      <4>1. f[Pick(s)] = q.cache[Pick(s)].size
        BY <1>1, <3>3, PickIn
      <4>2. iter[s] = q.cache[Pick(s)].size + iter[s \ {Pick(s)}]
        BY <3>1, <3>3 DEF Pick
      <4>3. QED
        BY <3>3, <4>1, <4>2
    <3>4. QED
      BY <3>2, <3>3
  <2>2. iter = [s \in SUBSET S |-> iter[s]]
    BY <1>5
  <2>3. h = [s \in SUBSET S |-> h[s]]
    OBVIOUS
  <2> HIDE DEF h
  <2>4. iter = h
    BY <2>1, <2>2, <2>3
  <2>5. QED
    BY <2>4 DEF h, Adds
<1>7. iter[S] = Total(f, S)
  BY <1>1, <1>6, TotalOf
<1>8. QED
  BY <1>2, <1>7 DEF Waiting, S, f

(* Events that go on waiting with their sizes add up to the same; one more  *)
(* adds its size.                                                           *)
LEMMA WaitingSame ==
  ASSUME NEW q, WellFormed(q), NEW p, WellFormed(p), Unsent(p) = Unsent(q),
         \A s \in Unsent(q) : p.cache[s].size = q.cache[s].size
  PROVE  Waiting(p) = Waiting(q)
<1>1. \A s \in Unsent(q) : SizesOf(p)[s] = SizesOf(q)[s]
  BY SizesOfUnsent
<1>2. IsFiniteSet(Unsent(q))
  BY SizesOfUnsent
<1>3. QED
  BY <1>1, <1>2, TotalSame DEF Waiting

LEMMA WaitingMore ==
  ASSUME NEW q, WellFormed(q), NEW p, WellFormed(p),
         NEW s, s \notin Unsent(q), Unsent(p) = Unsent(q) \cup {s},
         \A x \in Unsent(q) : p.cache[x].size = q.cache[x].size
  PROVE  /\ Waiting(p) = p.cache[s].size + Waiting(q)
         /\ Waiting(q) \in Nat /\ p.cache[s].size \in Nat
<1>1. /\ IsFiniteSet(Unsent(q))
      /\ \A x \in Unsent(q) : SizesOf(p)[x] = SizesOf(q)[x]
      /\ \A x \in Unsent(q) : SizesOf(q)[x] \in Nat
      /\ \A x \in Unsent(q) \cup {s} : SizesOf(p)[x] \in Nat
      /\ SizesOf(p)[s] = p.cache[s].size
  BY SizesOfUnsent
<1>2. Total(SizesOf(p), Unsent(q) \cup {s}) = SizesOf(p)[s] + Total(SizesOf(p), Unsent(q))
  BY <1>1, TotalWith
<1>3. Total(SizesOf(p), Unsent(q)) = Total(SizesOf(q), Unsent(q))
  BY <1>1, TotalSame
<1>4. Total(SizesOf(q), Unsent(q)) \in Nat
  BY <1>1, TotalNat
<1>5. QED
  BY <1>1, <1>2, <1>3, <1>4 DEF Waiting

(* Inserting, reviving and refusing a packet count it once.                 *)
LEMMA PushCounts ==
  ASSUME NEW q, QueInv(q), SizeExact(q), NEW s \in PacketSeqs, NEW size \in Nat, NEW ts \in Nat,
         StampedBy(q, ts),
         NEW p, p = pacer_queue_push(q, s, size, ts)
  PROVE  SizeExact(p)
<1> DEFINE a == Accepted(q, s, size, ts)
<1>1. WellFormed(q) /\ IsQue(q) /\ q.total_size = Waiting(q)
  BY SizeIsTotal DEF QueInv, WellFormed
<1>2. WellFormed(p) /\ Unsent(p) = Unsent(q) \cup {s}
  BY PushKeeps DEF QueInv
<1>3. p = [a EXCEPT !.oldest_ts = IF q.oldest_ts = NoTs \/ q.oldest_ts > ts THEN ts ELSE q.oldest_ts]
  BY DEF pacer_queue_push
<1>4. CASE s \notin DOMAIN q.cache
  <2>1. a = Inserted(q, s, size, ts)
    BY <1>4 DEF Accepted
  <2>2. /\ p.total_size = q.total_size + size
        /\ p.cache = [x \in DOMAIN q.cache \cup {s} |->
                        IF x = s THEN [size |-> size, que_ts |-> ts, sent |-> FALSE] ELSE q.cache[x]]
    BY <1>1, <1>3, <2>1 DEF Inserted, IsQue
  <2>3. p.cache[s].size = size /\ s \notin Unsent(q) /\ \A x \in Unsent(q) : p.cache[x].size = q.cache[x].size
    BY <1>4, <2>2 DEF Unsent
  <2>4. Waiting(p) = size + Waiting(q) /\ Waiting(q) \in Nat
    BY <1>1, <1>2, <2>3, WaitingMore
  <2>5. QED
    BY <1>1, <1>2, <2>2, <2>4, SizeIsTotal
<1>5. CASE s \in DOMAIN q.cache /\ q.cache[s].sent
  <2>1. a = Revived(q, s)
    BY <1>5 DEF Accepted
  <2>2. /\ p.total_size = q.total_size + q.cache[s].size
        /\ p.cache = [q.cache EXCEPT ![s].sent = FALSE]
    BY <1>1, <1>3, <2>1 DEF Revived, IsQue
  <2>3. /\ s \notin Unsent(q) /\ q.cache[s] \in PacketEvent
        /\ \A x \in DOMAIN q.cache : p.cache[x].size = q.cache[x].size
    <3>1. q.cache[s] \in PacketEvent
      BY <1>1, <1>5 DEF IsQue
    <3>2. \A x \in DOMAIN q.cache : x # s => p.cache[x] = q.cache[x]
      BY <2>2
    <3>3. p.cache[s].size = q.cache[s].size
      BY <1>5, <2>2, <3>1 DEF PacketEvent
    <3>4. QED
      BY <1>5, <3>1, <3>2, <3>3 DEF Unsent
  <2>4. \A x \in Unsent(q) : p.cache[x].size = q.cache[x].size
    BY <2>3 DEF Unsent
  <2>5. Waiting(p) = q.cache[s].size + Waiting(q) /\ Waiting(q) \in Nat /\ q.cache[s].size \in Nat
    <3>1. Waiting(p) = p.cache[s].size + Waiting(q) /\ Waiting(q) \in Nat
      BY <1>1, <1>2, <2>3, <2>4, WaitingMore
    <3>2. QED
      BY <1>5, <2>3, <3>1 DEF PacketEvent
  <2>6. QED
    BY <1>1, <1>2, <2>2, <2>5, SizeIsTotal
<1>6. CASE s \in DOMAIN q.cache /\ ~q.cache[s].sent
  <2>1. p.total_size = q.total_size /\ p.cache = q.cache
    BY <1>1, <1>3, <1>6 DEF Accepted, IsQue
  <2>2. Unsent(p) = Unsent(q)
    BY <2>1 DEF Unsent
  <2>3. Waiting(p) = Waiting(q)
    BY <1>1, <1>2, <2>1, <2>2, WaitingSame
  <2>4. QED
    BY <1>1, <1>2, <2>1, <2>3, SizeIsTotal
<1>7. QED
  BY <1>4, <1>5, <1>6

(* A packet that leaves is counted no more, and collecting events that were *)
(* sent changes nothing.  That the bytes suffice, which the code tests, is  *)
(* never in doubt.                                                          *)
LEMMA SentCounts ==
  ASSUME NEW q, QueInv(q), SizeExact(q), NEW s \in Unsent(q), NEW p, p = pacer_queue_sent(q, s)
  PROVE  SizeExact(p)
<1> DEFINE m == Marked(q, s)
<1>1. WellFormed(q) /\ IsQue(q) /\ q.total_size = Waiting(q) /\ s \in DOMAIN q.cache
  BY SizeIsTotal DEF QueInv, WellFormed, Unsent
<1>2. /\ WellFormed(m) /\ Unsent(m) = Unsent(q) \ {s}
      /\ \A x \in DOMAIN q.cache : m.cache[x].size = q.cache[x].size
  BY <1>1, MarkKeeps
<1>3. m.total_size = IF q.total_size >= q.cache[s].size THEN q.total_size - q.cache[s].size ELSE 0
  BY <1>1 DEF Marked, IsQue
<1> HIDE DEF m
<1>4. Waiting(q) = q.cache[s].size + Waiting(m) /\ Waiting(m) \in Nat /\ q.cache[s].size \in Nat
  <2>1. s \notin Unsent(m) /\ Unsent(q) = Unsent(m) \cup {s}
    BY <1>2
  <2>2. \A x \in Unsent(m) : q.cache[x].size = m.cache[x].size
    BY <1>2 DEF Unsent
  <2>3. QED
    BY <1>1, <1>2, <2>1, <2>2, WaitingMore
<1>5. m.total_size = Waiting(m)
  BY <1>1, <1>3, <1>4
<1>6. p = pacer_queue_final(m)
  BY DEF pacer_queue_sent, m
<1>7. /\ QueInv(p) /\ Unsent(p) = Unsent(m)
      /\ \A x \in DOMAIN p.cache : x \in DOMAIN m.cache /\ p.cache[x] = m.cache[x]
  BY <1>2, <1>6, FinalRestores
<1>8. WellFormed(p)
  BY <1>7 DEF QueInv
<1>9. Waiting(p) = Waiting(m)
  <2>1. \A x \in Unsent(m) : p.cache[x].size = m.cache[x].size
    BY <1>7 DEF Unsent
  <2>2. QED
    BY <1>2, <1>7, <1>8, <2>1, WaitingSame
<1>10. p = EmptyQue \/ p.total_size = m.total_size
  BY <1>2, <1>6 DEF pacer_queue_final, WellFormed, IsQue
<1>11. p = EmptyQue => Waiting(p) = 0 /\ p.total_size = 0
  <2>1. p = EmptyQue => Unsent(p) = {} /\ p.total_size = 0
    BY DEF EmptyQue, Unsent
  <2>2. QED
    BY <2>1, TotalEmpty DEF Waiting
<1>12. QED
  BY <1>5, <1>8, <1>9, <1>10, <1>11, SizeIsTotal

LEMMA EmptyCounts == SizeExact(EmptyQue)
<1>1. WellFormed(EmptyQue)
  BY EmptyQueInv DEF QueInv
<1>2. Unsent(EmptyQue) = {} /\ EmptyQue.total_size = 0
  BY DEF EmptyQue, Unsent
<1>3. QED
  BY <1>1, <1>2, SizeIsTotal, TotalEmpty DEF Waiting

-----------------------------------------------------------------------------
(* Every queued packet has one of the sizes callers pass. *)
QueuedSizes(q) == \A s \in DOMAIN q.cache : q.cache[s].size \in Sizes

(* The inductive invariant: between two steps the queue is well-formed,     *)
(* collected and stamped in the past, and the budget is overdrawn by less   *)
(* than one packet.                                                         *)
IInv ==
  /\ TypeOK
  /\ QueInv(que)
  /\ StampedBy(que, now)
  /\ QueuedSizes(que)
  /\ BurstBounded

USE PacketSeqsAssumption, MaxQueMsAssumption, SizesAssumption, BitratesAssumption,
    DelaysAssumption, MaxNowAssumption

(* Dividing in the budget's arithmetic stays in the naturals. *)
LEMMA Division ==
  ASSUME NEW a \in Nat, NEW b \in Nat, b > 0
  PROVE  a \div b \in Nat
OBVIOUS

(* The target rate of the queue is a natural number: the age that reaches   *)
(* the limit is handled before the division could be by zero.               *)
LEMMA TargetRate ==
  ASSUME NEW q, IsQue(q), NEW t \in Nat
  PROVE  pacer_queue_target_bitrate_kbps(q, t) \in Nat
<1>1. q.oldest_ts \in Nat \cup {NoTs} /\ q.total_size \in Nat
  BY DEF IsQue
<1>2. Space(q, t) \in Nat /\ Space(q, t) > 0
  BY <1>1 DEF Space, NoTs
<1>3. (q.total_size * 8) \div Space(q, t) \in Nat
  <2>1. q.total_size * 8 \in Nat
    BY <1>1
  <2>2. QED
    BY <2>1, <1>2, Division
<1>4. QED
  BY <1>3 DEF pacer_queue_target_bitrate_kbps

(* A new target rate only moves the budget towards zero, and growing it     *)
(* only raises it: neither overdraws it.                                    *)
LEMMA BudgetGrows ==
  ASSUME NEW b \in Budget, NEW rate \in Nat, NEW elapsed \in Nat, NEW big \in Nat,
         big > 0, b.remaining > -big
  PROVE  LET c == increase_budget(set_target_rate_kbps(b, rate), elapsed)
         IN  c \in Budget /\ c.remaining > -big
<1> DEFINE m == (k_window_ms * rate) \div 8
           b1 == set_target_rate_kbps(b, rate)
           bytes == (rate * elapsed) \div 8
           c == increase_budget(b1, elapsed)
<1>1. m \in Nat
  <2>1. k_window_ms * rate \in Nat
    BY DEF k_window_ms
  <2>2. QED
    BY <2>1, Division
<1>2. bytes \in Nat
  <2>1. rate * elapsed \in Nat
    OBVIOUS
  <2>2. QED
    BY <2>1, Division
<1>3. b1 = [rate |-> rate, max |-> m, remaining |-> Clamp(b.remaining, m)]
  BY DEF set_target_rate_kbps
<1>4. b.remaining \in Int
  BY DEF Budget
<1> HIDE DEF m, bytes
<1>5. Clamp(b.remaining, m) \in Int /\ Clamp(b.remaining, m) > -big
      /\ Clamp(b.remaining, m) <= m
  BY <1>1, <1>4 DEF Clamp, Least, Greatest
<1>6. c = [b1 EXCEPT !.remaining = IF b1.remaining < 0 THEN Least(b1.remaining + bytes, b1.max)
                                   ELSE Least(bytes, b1.max)]
  BY <1>3 DEF increase_budget, bytes
<1>7. b1 \in Budget /\ b1.max = m /\ b1.remaining = Clamp(b.remaining, m)
  BY <1>1, <1>3, <1>5 DEF Budget
<1> HIDE DEF b1
<1>8. (IF b1.remaining < 0 THEN Least(b1.remaining + bytes, b1.max) ELSE Least(bytes, b1.max)) \in Int
      /\ (IF b1.remaining < 0 THEN Least(b1.remaining + bytes, b1.max) ELSE Least(bytes, b1.max)) > -big
  BY <1>1, <1>2, <1>5, <1>7 DEF Least
<1>9. QED
  BY <1>6, <1>7, <1>8 DEF Budget, c, b1

(* Using the budget for one packet while some is left overdraws it by less  *)
(* than that packet.                                                        *)
LEMMA BudgetUsed ==
  ASSUME NEW b \in Budget, b.remaining > 0, NEW size \in Nat, size > 0
  PROVE  use_budget(b, size) \in Budget /\ use_budget(b, size).remaining > -size
<1>1. b.remaining \in Int /\ b.max \in Nat
  BY DEF Budget
<1>2. Greatest(-b.max, b.remaining - size) \in Int /\ Greatest(-b.max, b.remaining - size) > -size
  BY <1>1 DEF Greatest
<1>3. QED
  BY <1>2 DEF use_budget, Budget

(* A new pacer satisfies the invariant. *)
LEMMA InitIInv == Init => IInv
<1> SUFFICES ASSUME Init PROVE IInv
  OBVIOUS
<1>1. QueInv(que)
  BY EmptyQueInv DEF Init
<1>2. StampedBy(que, now) /\ QueuedSizes(que)
  BY DEF Init, EmptyQue, StampedBy, QueuedSizes
<1>3. TypeOK
  <2>1. IsQue(que)
    BY <1>1 DEF QueInv, WellFormed
  <2>2. budget \in Budget
    BY DEF Init, Budget
  <2>3. QED
    BY <2>1, <2>2 DEF Init, TypeOK
<1>4. BurstBounded
  <2>1. PICK size \in Sizes : TRUE
    OBVIOUS
  <2>2. 0 > -size
    BY <2>1
  <2>3. QED
    BY <2>2 DEF Init, BurstBounded
<1>5. QED
  BY <1>1, <1>2, <1>3, <1>4 DEF IInv

(* The steps that leave the queue and the budget alone keep everything but  *)
(* the stamps, and those when time only moves forward.                      *)
LEMMA QuietStep ==
  ASSUME IInv, TypeOK', que' = que, budget' = budget, now' >= now
  PROVE  IInv'
<1>1. \A s \in DOMAIN que.cache : que.cache[s].que_ts \in Nat
  BY ListedCached DEF IInv, QueInv, WellFormed, PacketEvent
<1>2. StampedBy(que, now')
  BY <1>1 DEF IInv, StampedBy, TypeOK
<1>3. QED
  BY <1>2 DEF IInv, QueuedSizes, BurstBounded

LEMMA StepIInv == IInv /\ [Next]_vars => IInv'
<1> SUFFICES ASSUME IInv, [Next]_vars PROVE IInv'
  OBVIOUS
<1>1. /\ TypeOK /\ QueInv(que) /\ StampedBy(que, now) /\ QueuedSizes(que) /\ BurstBounded
      /\ budget \in Budget /\ now \in Nat /\ last_update_ts \in Nat /\ IsQue(que)
  BY DEF IInv, TypeOK
<1>2. PICK big \in Sizes : budget.remaining > -big
  BY <1>1 DEF BurstBounded
<1>3. ASSUME NEW s \in PacketSeqs, NEW size \in Sizes, pace_insert_packet(s, size)
      PROVE  IInv'
  <2>1. que' = pacer_queue_push(que, s, size, now) /\ UNCHANGED <<budget, rates, last_update_ts, now, pc, out>>
    BY <1>3 DEF pace_insert_packet
  <2>2. /\ QueInv(que') /\ StampedBy(que', now)
        /\ \A x \in DOMAIN que'.cache :
              que'.cache[x].size = size \/ (x \in DOMAIN que.cache /\ que'.cache[x].size = que.cache[x].size)
    BY <2>1, <1>1, PushKeeps
  <2>3. QueuedSizes(que')
    BY <2>2, <1>1 DEF QueuedSizes
  <2>4. IsQue(que')
    BY <2>2 DEF QueInv, WellFormed
  <2>5. TypeOK'
    BY <2>1, <2>4, <1>1 DEF TypeOK, rates
  <2>6. QED
    BY <2>1, <2>2, <2>3, <2>5, <1>1 DEF IInv, BurstBounded
<1>4. ASSUME NEW bps \in Bitrates, pace_set_estimate_bitrate(bps)
      PROVE  IInv'
  <2>1. bps \in Nat /\ bps \div 1000 \in Nat /\ min_sender_bitrate_kpbs \in Nat
    BY <1>1, Division DEF TypeOK
  <2>2. Greatest(bps \div 1000, min_sender_bitrate_kpbs) * k_default_pace_factor \in Nat
    BY <2>1 DEF Greatest, k_default_pace_factor
  <2>3. TypeOK'
    BY <1>1, <1>4, <2>1, <2>2 DEF pace_set_estimate_bitrate, TypeOK
  <2>4. QED
    BY <1>1, <1>4, <2>3, QuietStep DEF pace_set_estimate_bitrate
<1>5. ASSUME pace_set_bitrate_limits
      PROVE  IInv'
  <2>1. estimated_bitrate \div 1000 \in Nat /\ min_sender_bitrate_kpbs' \in Nat
    BY <1>1, <1>5, Division DEF TypeOK, pace_set_bitrate_limits, k_min_pacing_bitrate
  <2>2. pacing_bitrate_kpbs' \in Nat
    BY <2>1, <1>5 DEF Greatest, k_default_pace_factor, pace_set_bitrate_limits
  <2>3. TypeOK'
    BY <1>1, <1>5, <2>1, <2>2 DEF pace_set_bitrate_limits, TypeOK
  <2>4. QED
    BY <1>1, <1>5, <2>3, QuietStep DEF pace_set_bitrate_limits
<1>6. ASSUME TransmitBegin
      PROVE  IInv'
  <2> DEFINE elapsed == Least(now - last_update_ts, k_max_interval_ms)
             target  == IF que.total_size > 0
                        THEN Greatest(pacing_bitrate_kpbs, pacer_queue_target_bitrate_kbps(que, now))
                        ELSE pacing_bitrate_kpbs
  <2>1. elapsed \in Nat
    BY <1>1, <1>6 DEF TransmitBegin, Least, k_min_packet_limit_ms, k_max_interval_ms
  <2>2. target \in Nat
    <3>1. pacer_queue_target_bitrate_kbps(que, now) \in Nat
      BY <1>1, TargetRate
    <3>2. QED
      BY <3>1, <1>1 DEF Greatest, TypeOK
  <2>3. budget' = increase_budget(set_target_rate_kbps(budget, target), elapsed)
    BY <1>6 DEF TransmitBegin
  <2> HIDE DEF elapsed, target
  <2>4. big \in Nat /\ big > 0
    BY SizesAssumption
  <2>5. budget' \in Budget /\ budget'.remaining > -big
    BY <2>1, <2>2, <2>3, <2>4, <1>1, <1>2, BudgetGrows
  <2>6. UNCHANGED <<que, rates, last_update_ts, now, out>> /\ pc' = "sending"
    BY <1>6 DEF TransmitBegin
  <2>7. TypeOK'
    BY <1>1, <2>5, <2>6 DEF TypeOK, rates
  <2>8. BurstBounded'
    BY <2>5 DEF BurstBounded
  <2>9. QED
    BY <1>1, <2>6, <2>7, <2>8 DEF IInv, QueuedSizes
<1>7. ASSUME TransmitOne
      PROVE  IInv'
  <2> DEFINE ev == pacer_queue_front(que)
             size == que.cache[ev].size
  <2>1. /\ ~pacer_queue_empty(que) /\ budget.remaining > 0
        /\ out' = [seq |-> ev, turn |-> 1 - out.turn] /\ budget' = use_budget(budget, size) /\ que' = pacer_queue_sent(que, ev)
        /\ UNCHANGED <<rates, last_update_ts, now, pc>>
    BY <1>7 DEF TransmitOne
  <2>2. ev \in Unsent(que)
    BY <2>1, <1>1, FrontIsLeastUnsent
  <2>3. ev \in DOMAIN que.cache /\ ev \in PacketSeqs
    BY <2>2, <1>1 DEF Unsent, IsQue
  <2>4. size \in Sizes /\ size \in Nat /\ size > 0
    <3>1. size \in Sizes
      BY <2>3, <1>1 DEF QueuedSizes
    <3> HIDE DEF size
    <3>2. QED
      BY <3>1, SizesAssumption
  <2> HIDE DEF ev, size
  <2>5. budget' \in Budget /\ budget'.remaining > -size
    BY <2>1, <2>4, <1>1, BudgetUsed
  <2>6. /\ QueInv(que')
        /\ \A x \in DOMAIN que'.cache : /\ x \in DOMAIN que.cache
                                         /\ que'.cache[x].size = que.cache[x].size
                                         /\ que'.cache[x].que_ts = que.cache[x].que_ts
    BY <2>1, <2>3, <1>1, SentKeeps
  <2>7. StampedBy(que', now) /\ QueuedSizes(que')
    BY <2>6, <1>1 DEF StampedBy, QueuedSizes
  <2>8. IsQue(que')
    BY <2>6 DEF QueInv, WellFormed
  <2>9. TypeOK'
    BY <2>1, <2>3, <2>5, <2>8, <1>1 DEF TypeOK, rates
  <2>10. BurstBounded'
    BY <2>4, <2>5 DEF BurstBounded
  <2>11. QED
    BY <2>1, <2>6, <2>7, <2>9, <2>10, <1>1 DEF IInv
<1>8. ASSUME TransmitEnd
      PROVE  IInv'
  <2>1. TypeOK'
    BY <1>1, <1>8 DEF TransmitEnd, TypeOK, rates
  <2>2. QED
    BY <2>1, <1>1, <1>8, QuietStep DEF TransmitEnd
<1>9. ASSUME NEW d \in Delays, Tick(d)
      PROVE  IInv'
  <2>1. now' \in Nat /\ now' >= now
    BY <1>1, <1>9, DelaysAssumption DEF Tick
  <2>2. TypeOK'
    BY <2>1, <1>1, <1>9 DEF Tick, TypeOK, rates
  <2>3. QED
    BY <2>1, <2>2, <1>9, QuietStep DEF Tick
<1>10. CASE UNCHANGED vars
  <2>1. TypeOK'
    BY <1>10, <1>1 DEF TypeOK, vars, rates
  <2>2. QED
    BY <2>1, <1>1, <1>10, QuietStep DEF vars, rates
<1>11. QED
  BY <1>3, <1>4, <1>5, <1>6, <1>7, <1>8, <1>9, <1>10 DEF Next

(* The inductive invariant holds in every reachable state of the pacer. *)
THEOREM InductiveInvariant == Spec => []IInv
BY InitIInv, StepIInv, PTL DEF Spec

(* Every variable keeps its type. *)
THEOREM TypeCorrect == Spec => []TypeOK
BY InductiveInvariant, PTL DEF IInv

(* The skip list and the list of pacer_queue.c always hold the same events, *)
(* each once, with an unsent one at the head.                               *)
THEOREM QueueAlwaysConsistent == Spec => []QueueConsistent
<1>1. IInv => QueueConsistent
  BY DEF IInv, QueInv, WellFormed, QueueConsistent
<1>2. QED
  BY <1>1, InductiveInvariant, PTL

(* Events are listed by their stamp, so the head is the oldest.             *)
LEMMA InvariantAge == IInv => AgeExact
<1> SUFFICES ASSUME IInv PROVE AgeExact
  OBVIOUS
<1>1. IsQue(que) /\ SameEvents(que) /\ ByArrival(que) /\ OldestIsHead(que)
  BY DEF IInv, QueInv, WellFormed
<1>2. ASSUME NEW s \in Unsent(que) PROVE que.oldest_ts <= que.cache[s].que_ts
  <2>1. PICK i \in 1 .. Len(que.l) : s = que.l[i]
    BY <1>1, ListedCached DEF Unsent
  <2>2. Len(que.l) \in Nat /\ DOMAIN que.l = 1 .. Len(que.l)
    BY <1>1, ListedCached
  <2>3. 1 \in DOMAIN que.l /\ i \in DOMAIN que.l /\ 1 <= i /\ que.l # <<>> /\ Head(que.l) = que.l[1]
    BY <2>1, <2>2, <1>1 DEF IsQue
  <2>4. QED
    BY <2>1, <2>3, <1>1 DEF ByArrival, OldestIsHead
<1>3. QED
  BY <1>1, <1>2 DEF AgeExact, OldestExact, OldestIsHead

(* oldest_ts is always the stamp of the oldest waiting packet. *)
THEOREM AgeAlwaysExact == Spec => []AgeExact
BY InvariantAge, InductiveInvariant, PTL

(* A pass of the sending loop never overdraws the budget by a whole packet. *)
THEOREM BurstAlwaysBounded == Spec => []BurstBounded
BY InductiveInvariant, PTL DEF IInv

(* The byte count, in both pacers: only a packet inserted and a packet sent *)
(* touch the queue.                                                         *)
LEMMA BytesStay ==
  ASSUME IInv, BytesExact,
         \/ \E s \in PacketSeqs, size \in Sizes : pace_insert_packet(s, size)
         \/ ~pacer_queue_empty(que) /\ que' = pacer_queue_sent(que, pacer_queue_front(que))
         \/ que' = que
  PROVE  BytesExact'
<1>1. QueInv(que) /\ SizeExact(que) /\ StampedBy(que, now) /\ now \in Nat
  BY DEF IInv, TypeOK, BytesExact
<1>2. ASSUME NEW s \in PacketSeqs, NEW size \in Sizes, pace_insert_packet(s, size) PROVE SizeExact(que')
  <2>1. size \in Nat /\ que' = pacer_queue_push(que, s, size, now)
    BY <1>2, SizesAssumption DEF pace_insert_packet
  <2>2. QED
    BY <1>1, <2>1, PushCounts
<1>3. ASSUME ~pacer_queue_empty(que), que' = pacer_queue_sent(que, pacer_queue_front(que)) PROVE SizeExact(que')
  <2>1. pacer_queue_front(que) \in Unsent(que)
    BY <1>1, <1>3, FrontIsLeastUnsent
  <2>2. QED
    BY <1>1, <1>3, <2>1, SentCounts
<1>4. ASSUME que' = que PROVE SizeExact(que')
  BY <1>1, <1>4
<1>5. SizeExact(que')
  BY <1>2, <1>3, <1>4
<1>6. QED
  BY <1>5 DEF BytesExact

(* total_size is the bytes of the events that wait, however often one is    *)
(* sent and revived before it is collected.                                 *)
THEOREM BytesAlwaysExact == Spec => []BytesExact
<1>1. Init => BytesExact
  BY EmptyCounts DEF Init, BytesExact
<1>2. IInv /\ BytesExact /\ [Next]_vars => BytesExact'
  BY BytesStay DEF Next, vars, pace_set_estimate_bitrate, pace_set_bitrate_limits, TransmitBegin, TransmitOne,
     TransmitEnd, Tick
<1>3. QED
  BY <1>1, <1>2, InductiveInvariant, PTL DEF Spec

-----------------------------------------------------------------------------
(* Every step of the pacer is a step of PaceSpec or changes nothing of it. *)
LEMMA StepRefines == IInv /\ [Next]_vars => [Abstract!Next]_<<Unsent(que), out>>
<1> SUFFICES ASSUME IInv, [Next]_vars PROVE [Abstract!Next]_<<Unsent(que), out>>
  OBVIOUS
<1>1. QueInv(que) /\ StampedBy(que, now) /\ now \in Nat /\ IsQue(que)
  BY DEF IInv, TypeOK
<1>2. ASSUME NEW s \in PacketSeqs, NEW size \in Sizes, pace_insert_packet(s, size)
      PROVE  [Abstract!Next]_<<Unsent(que), out>>
  <2>1. que' = pacer_queue_push(que, s, size, now) /\ out' = out /\ size \in Nat
    BY <1>2, SizesAssumption DEF pace_insert_packet
  <2>2. Unsent(que') = Unsent(que) \cup {s}
    BY <2>1, <1>1, PushKeeps
  <2>3. CASE s \in Unsent(que)
    BY <2>1, <2>2, <2>3
  <2>4. CASE s \notin Unsent(que)
    BY <2>1, <2>2, <2>4 DEF Abstract!Next, Abstract!Enqueue
  <2>5. QED
    BY <2>3, <2>4
<1>3. ASSUME TransmitOne
      PROVE  [Abstract!Next]_<<Unsent(que), out>>
  <2> DEFINE ev == pacer_queue_front(que)
  <2>1. ~pacer_queue_empty(que) /\ out' = [seq |-> ev, turn |-> 1 - out.turn] /\ que' = pacer_queue_sent(que, ev)
    BY <1>3 DEF TransmitOne
  <2>2. ev \in Unsent(que) /\ \A x \in Unsent(que) : ev <= x
    BY <2>1, <1>1, FrontIsLeastUnsent
  <2>3. ev \in DOMAIN que.cache
    BY <2>2 DEF Unsent
  <2> HIDE DEF ev
  <2>4. Unsent(que') = Unsent(que) \ {ev}
    BY <2>1, <2>3, <1>1, SentKeeps
  <2>5. QED
    BY <2>1, <2>2, <2>4 DEF Abstract!Next, Abstract!Transmit
<1>4. CASE UNCHANGED <<que, out>>
  BY <1>4
<1>5. QED
  BY <1>2, <1>3, <1>4 DEF Next, vars, pace_set_estimate_bitrate, pace_set_bitrate_limits,
     TransmitBegin, TransmitEnd, Tick

(* The pacer implements PaceSpec: packets leave in the order of their       *)
(* numbers among those waiting, each only while it waits.                   *)
THEOREM Implements == Spec => ImplementsPaceSpec
<1>1. Init => Abstract!Init
  BY DEF Init, Abstract!Init, Unsent, EmptyQue
<1>2. QED
  BY <1>1, StepRefines, InductiveInvariant, PTL DEF Spec, ImplementsPaceSpec, Abstract!Spec

-----------------------------------------------------------------------------
(* The pacer of BBR.  Its queue keeps IInv as that of GCC does: the media   *)
(* budget of GCC is not touched.                                            *)
LEMMA BbrQuietStep ==
  ASSUME IInv, TypeOK', que' = que, UNCHANGED budget, now' = now
  PROVE  IInv'
<1>1. now \in Nat
  BY DEF IInv, TypeOK
<1>2. QED
  BY <1>1, QuietStep

LEMMA BbrKeepsQueue == IInv /\ [BbrPacerNext]_<<vars, bbrVars>> => IInv'
<1> SUFFICES ASSUME IInv, [BbrPacerNext]_<<vars, bbrVars>> PROVE IInv'
  OBVIOUS
<1>1. /\ TypeOK /\ QueInv(que) /\ StampedBy(que, now) /\ QueuedSizes(que) /\ BurstBounded
      /\ now \in Nat /\ IsQue(que) /\ estimated_bitrate \in Nat /\ min_sender_bitrate_kpbs \in Nat
      /\ PadRatesAssumption
  BY PadRatesAssumption DEF IInv, TypeOK
<1>2. CASE UNCHANGED vars
  BY <1>2, StepIInv
<1>3. ASSUME NEW s \in PacketSeqs, NEW size \in Sizes, bbr_pacer_insert_packet(s, size) PROVE IInv'
  BY <1>3, StepIInv DEF bbr_pacer_insert_packet, Next
<1>4. ASSUME NEW d \in Delays, Tick(d) PROVE IInv'
  BY <1>4, StepIInv DEF Next
<1>5. ASSUME NEW bps \in Bitrates, bbr_pacer_set_estimate_bitrate(bps) PROVE IInv'
  <2>1. bps \in Nat
    OBVIOUS
  <2>2. (3 * bps) \div 2 \in Nat
    BY <2>1, Division
  <2>3. ((3 * bps) \div 2) \div 1000 \in Nat
    BY <2>2, Division
  <2>4. pacing_bitrate_kpbs' \in Nat
    BY <1>1, <1>5, <2>3 DEF bbr_pacer_set_estimate_bitrate, Paced, Greatest
  <2>5. QED
    BY <1>1, <1>5, <2>1, <2>4, BbrQuietStep DEF bbr_pacer_set_estimate_bitrate, TypeOK
<1>6. ASSUME NEW bps \in Bitrates, bbr_pacer_set_bitrate_limits(bps) PROVE IInv'
  <2>1. bps \in Nat /\ bps \div 1000 \in Nat
    BY Division
  <2>2. (3 * estimated_bitrate) \div 2 \in Nat
    BY <1>1, Division
  <2>3. ((3 * estimated_bitrate) \div 2) \div 1000 \in Nat
    BY <2>2, Division
  <2>4. min_sender_bitrate_kpbs' \in Nat /\ pacing_bitrate_kpbs' \in Nat
    BY <1>1, <1>6, <2>1, <2>3 DEF bbr_pacer_set_bitrate_limits, Paced, Greatest
  <2>5. QED
    BY <1>1, <1>6, <2>4, BbrQuietStep DEF bbr_pacer_set_bitrate_limits, TypeOK
<1>7. ASSUME NEW kbps \in PacingRates, bbr_pacer_set_pacing_rate(kbps) PROVE IInv'
  <2>1. kbps \in Nat
    BY <1>1 DEF PadRatesAssumption
  <2>2. (3 * kbps) \div 2 \in Nat
    BY <2>1, Division
  <2>3. pacing_bitrate_kpbs' \in Nat
    BY <1>7, <2>2 DEF bbr_pacer_set_pacing_rate, Paced
  <2>4. QED
    BY <1>1, <1>7, <2>3, BbrQuietStep DEF bbr_pacer_set_pacing_rate, TypeOK
<1>8. ASSUME NEW kbps \in PaddingRates, bbr_pacer_set_padding_rate(kbps) PROVE IInv'
  BY <1>1, <1>8, BbrQuietStep DEF bbr_pacer_set_padding_rate, TypeOK, rates
<1>9. CASE BbrTransmitBegin
  BY <1>1, <1>9, BbrQuietStep DEF BbrTransmitBegin, TypeOK, rates
<1>10. CASE BbrTransmitOne
  <2> DEFINE ev == pacer_queue_front(que)
  <2>1. ev \in Unsent(que) /\ ev \in DOMAIN que.cache
    BY <1>1, <1>10, FrontIsLeastUnsent DEF BbrTransmitOne, Unsent
  <2>2. /\ que' = pacer_queue_sent(que, ev) /\ out' = [seq |-> ev, turn |-> 1 - out.turn]
        /\ UNCHANGED <<budget, rates, last_update_ts, now, pc>>
    BY <1>10 DEF BbrTransmitOne
  <2>3. ev \in PacketSeqs
    BY <1>1, <2>1 DEF IsQue
  <2> HIDE DEF ev
  <2>4. /\ QueInv(que')
        /\ \A x \in DOMAIN que'.cache : /\ x \in DOMAIN que.cache
                                         /\ que'.cache[x].size = que.cache[x].size
                                         /\ que'.cache[x].que_ts = que.cache[x].que_ts
    BY <1>1, <2>1, <2>2, SentKeeps
  <2>5. StampedBy(que', now') /\ QueuedSizes(que')
    BY <1>1, <2>2, <2>4 DEF StampedBy, QueuedSizes
  <2>6. TypeOK'
    BY <1>1, <2>2, <2>3, <2>4 DEF TypeOK, rates, QueInv, WellFormed
  <2>7. QED
    BY <1>1, <2>2, <2>4, <2>5, <2>6 DEF IInv, BurstBounded
<1>11. CASE BbrTransmitEnd
  BY <1>1, <1>11, BbrQuietStep DEF BbrTransmitEnd, TypeOK, rates
<1>12. QED
  BY <1>2, <1>3, <1>4, <1>5, <1>6, <1>7, <1>8, <1>9, <1>10, <1>11 DEF BbrPacerNext, vars

-----------------------------------------------------------------------------
(* Padding yields.  Below MinPadRate a pass gives the padding budget less   *)
(* than a padding packet needs.                                             *)
MinPadRate == 34
MaxOf(rate) == (k_window_ms * rate) \div 8

Padded(b) ==
  /\ b \in Budget /\ b.max = MaxOf(b.rate)
  /\ -b.max <= b.remaining /\ b.remaining <= b.max

Little(p) == p.remaining <= PADDING_SIZE \div 4

(* The padding budget p is worth padding only while more is left of the     *)
(* media budget m.                                                          *)
Behind(p, m) == p.rate >= MinPadRate => p.remaining <= m.remaining

PadInv ==
  /\ IInv
  /\ Padded(media_budget) /\ Padded(padding_budget)
  /\ disturbed \in BOOLEAN
  /\ pc = "idle" \/ padding_budget.rate < MinPadRate => Little(padding_budget)
  /\ disturbed \/ Behind(padding_budget, media_budget) \/ (pc = "idle" /\ media_budget.remaining >= 0)

LEMMA MaxOfRate ==
  ASSUME NEW r \in Nat
  PROVE  /\ MaxOf(r) \in Nat
         /\ r >= MinPadRate => MaxOf(r) >= 2125
         /\ \A t \in Nat : r <= t => MaxOf(r) <= MaxOf(t)
BY DEF MaxOf, MinPadRate, k_window_ms

LEMMA BytesOf ==
  ASSUME NEW r \in Nat, NEW e \in Nat
  PROVE  /\ (r * e) \div 8 \in Nat
         /\ r < MinPadRate /\ e <= k_bbr_max_interval_ms => (r * e) \div 8 <= PADDING_SIZE \div 4
         /\ \A t \in Nat : r <= t => (r * e) \div 8 <= (t * e) \div 8
<1>1. r * e \in Nat
  OBVIOUS
<1>2. (r * e) \div 8 \in Nat
  BY <1>1, Division
<1>3. ASSUME r < MinPadRate, e <= k_bbr_max_interval_ms PROVE (r * e) \div 8 <= PADDING_SIZE \div 4
  <2>1. r <= 33 /\ e <= 30
    BY <1>3 DEF MinPadRate, k_bbr_max_interval_ms
  <2>2. r * e <= 33 * 30
    BY <2>1
  <2> DEFINE x == r * e
  <2>3. x \in Nat /\ x <= 990
    BY <1>1, <2>2
  <2> HIDE DEF x
  <2>4. x \div 8 <= 125
    BY <2>3
  <2>5. QED
    BY <2>4 DEF PADDING_SIZE, x
<1>4. ASSUME NEW t \in Nat, r <= t PROVE (r * e) \div 8 <= (t * e) \div 8
  <2>1. r * e <= t * e /\ t * e \in Nat
    BY <1>4
  <2> DEFINE x == r * e
             y == t * e
  <2>2. x \in Nat /\ y \in Nat /\ x <= y
    BY <1>1, <2>1
  <2> HIDE DEF x, y
  <2>3. x \div 8 <= y \div 8
    BY <2>2
  <2>4. QED
    BY <2>3 DEF x, y
<1>5. QED
  BY <1>2, <1>3, <1>4

(* The budgets' operations keep what is left within the budget.             *)
LEMMA RatePadded ==
  ASSUME NEW b, Padded(b), NEW rate \in Nat, NEW c, c = set_target_rate_kbps(b, rate)
  PROVE  /\ Padded(c) /\ c.rate = rate
         /\ b.remaining < 0 /\ rate >= MinPadRate => c.remaining < 0 /\ b.remaining <= c.remaining
         /\ b.remaining >= 0 => c.remaining >= 0 /\ c.remaining <= b.remaining
         /\ b.remaining <= 0 => c.remaining <= 0
         /\ rate = b.rate => c.remaining = b.remaining
<1>1. MaxOf(rate) \in Nat /\ (rate >= MinPadRate => MaxOf(rate) > 0)
  BY MaxOfRate
<1>2. c = [rate |-> rate, max |-> MaxOf(rate), remaining |-> Clamp(b.remaining, MaxOf(rate))]
  BY DEF set_target_rate_kbps, MaxOf
<1>3. b.remaining \in Int /\ b.max = MaxOf(b.rate) /\ -b.max <= b.remaining /\ b.remaining <= b.max
  BY DEF Padded, Budget
<1>4. QED
  BY <1>1, <1>2, <1>3 DEF Padded, Budget, Clamp, Least, Greatest

LEMMA GrownPadded ==
  ASSUME NEW b, Padded(b), NEW e \in Nat, NEW c, c = increase_budget(b, e)
  PROVE  /\ Padded(c) /\ c.rate = b.rate
         /\ c.remaining = IF b.remaining < 0 THEN Least(b.remaining + (b.rate * e) \div 8, b.max)
                          ELSE Least((b.rate * e) \div 8, b.max)
<1> DEFINE bytes == (b.rate * e) \div 8
<1>1. b \in Budget /\ b.rate \in Nat /\ b.max \in Nat /\ b.remaining \in Int /\ -b.max <= b.remaining
      /\ b.max = MaxOf(b.rate)
  BY DEF Padded, Budget
<1>2. bytes \in Nat
  BY <1>1, BytesOf
<1>3. c = [b EXCEPT !.remaining = IF b.remaining < 0 THEN Least(b.remaining + bytes, b.max)
                                  ELSE Least(bytes, b.max)]
  BY DEF increase_budget
<1> HIDE DEF bytes
<1>4. c.remaining = IF b.remaining < 0 THEN Least(b.remaining + bytes, b.max) ELSE Least(bytes, b.max)
  BY <1>1, <1>3 DEF Budget
<1>5. c \in Budget /\ c.rate = b.rate /\ c.max = b.max /\ -c.max <= c.remaining /\ c.remaining <= c.max
  BY <1>1, <1>2, <1>3 DEF Budget, Least
<1>6. QED
  BY <1>1, <1>4, <1>5 DEF Padded, bytes

LEMMA UsedPadded ==
  ASSUME NEW b, Padded(b), NEW n \in Nat, NEW c, c = use_budget(b, n)
  PROVE  /\ Padded(c) /\ c.rate = b.rate
         /\ c.remaining = Greatest(-b.max, b.remaining - n)
<1>1. b \in Budget /\ b.max \in Nat /\ b.remaining \in Int /\ -b.max <= b.remaining
      /\ b.max = MaxOf(b.rate) /\ b.remaining <= b.max
  BY DEF Padded, Budget
<1>2. c.remaining = Greatest(-b.max, b.remaining - n) /\ c.rate = b.rate /\ c.max = b.max
      /\ c \in Budget
  BY <1>1 DEF use_budget, Budget, Greatest
<1>3. QED
  BY <1>1, <1>2 DEF Padded, Greatest

(* A pass that paces at no less than the padding rate keeps padding behind. *)
LEMMA GrowBehind ==
  ASSUME NEW p, NEW m, Padded(p), Padded(m), Little(p),
         Behind(p, m) \/ m.remaining >= 0,
         NEW target \in Nat, p.rate <= target, NEW e \in Nat, e <= k_bbr_max_interval_ms,
         NEW n, n = increase_budget(set_target_rate_kbps(m, target), e),
         NEW q, q = increase_budget(p, e)
  PROVE  Behind(q, n)
<1> DEFINE s == set_target_rate_kbps(m, target)
           pb == (p.rate * e) \div 8
           sb == (target * e) \div 8
<1>1. /\ Padded(s) /\ s.rate = target
      /\ m.remaining < 0 /\ target >= MinPadRate => s.remaining < 0 /\ m.remaining <= s.remaining
      /\ m.remaining >= 0 => s.remaining >= 0
  BY RatePadded
<1>2. p.rate \in Nat /\ p.max = MaxOf(p.rate) /\ p.remaining \in Int /\ m.remaining \in Int
  BY DEF Padded, Budget
<1>3. s.max = MaxOf(target) /\ s.remaining \in Int
  BY <1>1 DEF Padded, Budget
<1>4. p.max <= s.max /\ p.max \in Nat /\ s.max \in Nat
  BY <1>2, <1>3, MaxOfRate
<1>5. pb <= sb /\ pb \in Nat /\ sb \in Nat
  BY <1>2, BytesOf
<1>6. n = increase_budget(s, e)
  OBVIOUS
<1> HIDE DEF s
<1>7. n.remaining = IF s.remaining < 0 THEN Least(s.remaining + sb, s.max) ELSE Least(sb, s.max)
  BY <1>1, <1>6, GrownPadded
<1>8. /\ q.remaining = IF p.remaining < 0 THEN Least(p.remaining + pb, p.max) ELSE Least(pb, p.max)
      /\ q.rate = p.rate
  BY GrownPadded
<1> HIDE DEF pb, sb
<1>9. SUFFICES ASSUME p.rate >= MinPadRate PROVE q.remaining <= n.remaining
  BY <1>8 DEF Behind
<1>10. target >= MinPadRate
  BY <1>2, <1>9 DEF MinPadRate
<1>11. CASE m.remaining >= 0
  BY <1>1, <1>2, <1>3, <1>4, <1>5, <1>7, <1>8, <1>11 DEF Least
<1>12. CASE m.remaining < 0
  <2>1. p.remaining <= s.remaining /\ s.remaining < 0
    BY <1>1, <1>2, <1>3, <1>9, <1>10, <1>12 DEF Behind
  <2>2. QED
    BY <1>2, <1>3, <1>4, <1>5, <1>7, <1>8, <2>1 DEF Least
<1>13. QED
  BY <1>2, <1>11, <1>12

(* A media packet takes from both: from media at most down to what one      *)
(* packet overdraws, which a padding budget of any use can go below.        *)
LEMMA UseBehind ==
  ASSUME NEW p, NEW m, Padded(p), Padded(m), Behind(p, m), m.remaining > 0,
         NEW size \in Nat, size <= 2125,
         NEW n, n = use_budget(m, size), NEW q, q = use_budget(p, size)
  PROVE  Behind(q, n)
<1>1. p.rate \in Nat /\ p.max = MaxOf(p.rate) /\ p.remaining \in Int /\ m.remaining \in Int /\ m.max \in Nat
  BY DEF Padded, Budget
<1>2. p.rate >= MinPadRate => p.max >= 2125 /\ p.max \in Nat
  BY <1>1, MaxOfRate
<1>3. n.remaining = Greatest(-m.max, m.remaining - size)
  BY UsedPadded
<1>4. q.remaining = Greatest(-p.max, p.remaining - size) /\ q.rate = p.rate
  BY UsedPadded
<1>5. QED
  BY <1>1, <1>2, <1>3, <1>4 DEF Behind, Greatest

(* The padding loop leaves little of its budget, and takes as much from     *)
(* media.                                                                   *)
LEMMA PadBehind ==
  ASSUME NEW p, NEW m, Padded(p), Padded(m),
         NEW k, k = Paddings(p),
         NEW n, n = use_budget(m, k * PADDING_SIZE), NEW q, q = use_budget(p, k * PADDING_SIZE)
  PROVE  /\ k \in Nat /\ Padded(n) /\ Padded(q) /\ Little(q) /\ q.rate = p.rate
         /\ Behind(p, m) => Behind(q, n)
         /\ k > 0 => ~Little(p)
<1>1. /\ p.rate \in Nat /\ p.max = MaxOf(p.rate) /\ p.remaining \in Int /\ m.remaining \in Int
      /\ m.max \in Nat /\ -p.max <= p.remaining /\ -m.max <= m.remaining
  BY DEF Padded, Budget
<1>2. /\ p.max \in Nat
      /\ p.rate >= MinPadRate => p.max >= 2125
  BY <1>1, MaxOfRate
<1>3. /\ k \in Nat
      /\ ~Little(p) => p.remaining - k * PADDING_SIZE <= 125 /\ p.remaining - k * PADDING_SIZE > -375
      /\ Little(p) => k = 0
      /\ k * PADDING_SIZE \in Nat
  BY <1>1 DEF Paddings, Little, PADDING_SIZE
<1>4. Padded(n) /\ n.remaining = Greatest(-m.max, m.remaining - k * PADDING_SIZE)
  BY <1>3, UsedPadded
<1>5. Padded(q) /\ q.remaining = Greatest(-p.max, p.remaining - k * PADDING_SIZE) /\ q.rate = p.rate
  BY <1>3, UsedPadded
<1> DEFINE x == k * PADDING_SIZE
<1>6. /\ x \in Nat /\ n.remaining = Greatest(-m.max, m.remaining - x)
      /\ q.remaining = Greatest(-p.max, p.remaining - x)
      /\ ~Little(p) => p.remaining - x <= 125 /\ p.remaining - x > -375
      /\ Little(p) => x = 0
  BY <1>3, <1>4, <1>5 DEF PADDING_SIZE
<1> HIDE DEF x
<1>7. Little(q)
  BY <1>1, <1>2, <1>6 DEF Little, Greatest, PADDING_SIZE
<1>8. Behind(p, m) => Behind(q, n)
  BY <1>1, <1>2, <1>5, <1>6 DEF Behind, Greatest, Little, PADDING_SIZE
<1>9. QED
  BY <1>3, <1>4, <1>5, <1>7, <1>8


LEMMA InitPadInv == BbrPacerInit => PadInv
<1> SUFFICES ASSUME BbrPacerInit PROVE PadInv
  OBVIOUS
<1>1. IInv
  BY InitIInv DEF BbrPacerInit
<1>2. media_budget = [rate |-> 0, max |-> 0, remaining |-> 0] /\ padding_budget = media_budget
  BY DEF BbrPacerInit, Init
<1>3. Padded(media_budget) /\ Little(padding_budget) /\ Behind(padding_budget, media_budget)
  BY <1>2 DEF Padded, Budget, Little, Behind, MaxOf, k_window_ms, PADDING_SIZE
<1>4. QED
  BY <1>1, <1>2, <1>3 DEF PadInv, BbrPacerInit

LEMMA StepPadInv ==
  ASSUME \A size \in Sizes : size <= 2125, PadInv, [BbrPacerNext]_<<vars, bbrVars>>
  PROVE  PadInv'
<1>1. /\ IInv /\ IInv' /\ Padded(media_budget) /\ Padded(padding_budget) /\ disturbed \in BOOLEAN
      /\ pc = "idle" \/ padding_budget.rate < MinPadRate => Little(padding_budget)
      /\ disturbed \/ Behind(padding_budget, media_budget) \/ (pc = "idle" /\ media_budget.remaining >= 0)
  BY BbrKeepsQueue DEF PadInv
<1>2. /\ now \in Nat /\ last_update_ts \in Nat /\ pacing_bitrate_kpbs \in Nat /\ IsQue(que) /\ QueInv(que)
      /\ QueuedSizes(que) /\ media_budget \in Budget /\ padding_budget \in Budget
  BY <1>1 DEF IInv, TypeOK, Padded
<1>3. ASSUME UNCHANGED <<media_budget, padding_budget, padded, disturbed, pc>> PROVE PadInv'
  BY <1>1, <1>3 DEF PadInv
<1>4. ASSUME NEW kbps \in PaddingRates, bbr_pacer_set_padding_rate(kbps) PROVE PadInv'
  <2>1. /\ padding_budget' = set_target_rate_kbps(padding_budget, kbps) /\ media_budget' = media_budget
        /\ disturbed' = (disturbed \/ (kbps # padding_budget.rate /\ media_budget.remaining < 0))
        /\ pc = "idle" /\ pc' = pc /\ kbps \in Nat
    BY <1>4, PadRatesAssumption DEF bbr_pacer_set_padding_rate
  <2>2. /\ Padded(padding_budget') /\ padding_budget'.rate = kbps
        /\ padding_budget.remaining >= 0 => padding_budget'.remaining <= padding_budget.remaining
        /\ padding_budget.remaining <= 0 => padding_budget'.remaining <= 0
        /\ kbps = padding_budget.rate => padding_budget'.remaining = padding_budget.remaining
    BY <1>1, <2>1, RatePadded
  <2>3. Little(padding_budget')
    BY <1>1, <1>2, <2>1, <2>2 DEF Little, Budget, PADDING_SIZE, Padded
  <2>4. disturbed' \in BOOLEAN
    BY <1>1, <2>1
  <2>5. ASSUME ~disturbed', ~(media_budget.remaining >= 0)
        PROVE  Behind(padding_budget', media_budget')
    <3>1. ~disturbed /\ ~(kbps # padding_budget.rate /\ media_budget.remaining < 0)
      BY Zenon, <2>1, <2>5
    <3>2. kbps = padding_budget.rate
      BY <1>2, <2>5, <3>1 DEF Budget
    <3>3. Behind(padding_budget, media_budget)
      BY <1>1, <2>5, <3>1
    <3>4. QED
      BY <2>1, <2>2, <3>2, <3>3 DEF Behind
  <2>6. QED
    BY <1>1, <2>1, <2>2, <2>3, <2>4, <2>5 DEF PadInv
<1>5. CASE BbrTransmitBegin
  <2> DEFINE elapsed == Least(now - last_update_ts, k_bbr_max_interval_ms)
             target  == IF que.total_size > 0
                        THEN Greatest(pacing_bitrate_kpbs, pacer_queue_target_bitrate_kbps(que, now))
                        ELSE pacing_bitrate_kpbs
  <2>1. /\ media_budget' = increase_budget(set_target_rate_kbps(media_budget, target), elapsed)
        /\ padding_budget' = increase_budget(padding_budget, elapsed)
        /\ disturbed' = (disturbed \/ padding_budget.rate > pacing_bitrate_kpbs)
        /\ pc = "idle" /\ pc' = "sending" /\ now - last_update_ts >= k_min_packet_limit_ms
    BY <1>5 DEF BbrTransmitBegin
  <2>2. elapsed \in Nat /\ elapsed <= k_bbr_max_interval_ms
    BY <1>2, <2>1 DEF Least, k_min_packet_limit_ms, k_bbr_max_interval_ms
  <2>3. target \in Nat /\ pacing_bitrate_kpbs <= target
    BY <1>2, TargetRate DEF Greatest
  <2> HIDE DEF elapsed, target
  <2>4. Padded(set_target_rate_kbps(media_budget, target))
    BY <1>1, <2>3, RatePadded
  <2>5. Padded(media_budget')
    BY <2>1, <2>2, <2>4, GrownPadded
  <2>6. /\ Padded(padding_budget') /\ padding_budget'.rate = padding_budget.rate
        /\ padding_budget'.remaining =
             IF padding_budget.remaining < 0
             THEN Least(padding_budget.remaining + (padding_budget.rate * elapsed) \div 8, padding_budget.max)
             ELSE Least((padding_budget.rate * elapsed) \div 8, padding_budget.max)
    <3>1. Padded(padding_budget) /\ elapsed \in Nat
      BY <1>1, <2>2
    <3>2. padding_budget' = increase_budget(padding_budget, elapsed)
      BY <2>1
    <3> QED BY <3>1, <3>2, GrownPadded
  <2>7. ASSUME padding_budget.rate < MinPadRate PROVE Little(padding_budget')
    <3> DEFINE pb == (padding_budget.rate * elapsed) \div 8
    <3>1. padding_budget.rate \in Nat /\ padding_budget.remaining \in Int /\ padding_budget.max \in Nat
      BY <1>2 DEF Budget
    <3>2. pb \in Nat /\ pb <= PADDING_SIZE \div 4
      BY <2>2, <2>7, <3>1, BytesOf
    <3> HIDE DEF pb
    <3>3. QED
      BY <2>6, <3>1, <3>2 DEF Little, Least, PADDING_SIZE, pb
  <2>8. ASSUME ~disturbed' PROVE Behind(padding_budget', media_budget')
    <3>0. ~disturbed /\ ~(padding_budget.rate > pacing_bitrate_kpbs)
      BY Zenon, <2>1, <2>8
    <3>1. ~disturbed /\ padding_budget.rate \in Nat /\ padding_budget.rate <= target
      BY <1>2, <2>3, <3>0 DEF Budget
    <3>2. Little(padding_budget) /\ (Behind(padding_budget, media_budget) \/ media_budget.remaining >= 0)
      BY <1>1, <2>1, <3>1
    <3>3. QED
      BY <1>1, <2>1, <2>2, <2>3, <3>1, <3>2, GrowBehind
  <2>9. disturbed' \in BOOLEAN
    BY <1>1, <2>1
  <2>10. QED
    BY <1>1, <2>1, <2>5, <2>6, <2>7, <2>8, <2>9 DEF PadInv
<1>6. CASE BbrTransmitOne
  <2> DEFINE ev == pacer_queue_front(que)
             size == que.cache[ev].size
  <2>1. /\ media_budget' = use_budget(media_budget, size) /\ padding_budget' = use_budget(padding_budget, size)
        /\ pc = "sending" /\ pc' = pc /\ disturbed' = disturbed /\ media_budget.remaining > 0
        /\ ~pacer_queue_empty(que)
    BY <1>6 DEF BbrTransmitOne
  <2>2. ev \in DOMAIN que.cache
    BY <1>2, <2>1, FrontIsLeastUnsent DEF Unsent
  <2>3. size \in Nat /\ size <= 2125
    <3>1. size \in Sizes
      BY <1>2, <2>2 DEF QueuedSizes
    <3> HIDE DEF size
    <3>2. QED
      BY <3>1
  <2> HIDE DEF ev, size
  <2>4. Padded(media_budget')
    BY <1>1, <2>1, <2>3, UsedPadded
  <2>5. /\ Padded(padding_budget') /\ padding_budget'.rate = padding_budget.rate
        /\ padding_budget'.remaining = Greatest(-padding_budget.max, padding_budget.remaining - size)
    BY <1>1, <2>1, <2>3, UsedPadded
  <2>6. Little(padding_budget) => Little(padding_budget')
    BY <1>2, <2>3, <2>5 DEF Little, Greatest, Budget, PADDING_SIZE
  <2>7. Behind(padding_budget, media_budget) => Behind(padding_budget', media_budget')
    BY <1>1, <2>1, <2>3, UseBehind
  <2>8. QED
    BY <1>1, <2>1, <2>4, <2>5, <2>6, <2>7 DEF PadInv
<1>7. CASE BbrTransmitEnd
  <2>1. /\ padded' = Paddings(padding_budget)
        /\ media_budget' = use_budget(media_budget, padded' * PADDING_SIZE)
        /\ padding_budget' = use_budget(padding_budget, padded' * PADDING_SIZE)
        /\ pc = "sending" /\ pc' = "idle" /\ disturbed' = disturbed
    BY <1>7 DEF BbrTransmitEnd
  <2>2. /\ Padded(media_budget') /\ Padded(padding_budget') /\ Little(padding_budget')
        /\ Behind(padding_budget, media_budget) => Behind(padding_budget', media_budget')
    BY <1>1, <2>1, PadBehind
  <2>3. QED
    BY <1>1, <2>1, <2>2 DEF PadInv
<1>8. QED
  BY <1>3, <1>4, <1>5, <1>6, <1>7 DEF BbrPacerNext, bbr_pacer_insert_packet, pace_insert_packet,
     bbr_pacer_set_estimate_bitrate, bbr_pacer_set_bitrate_limits, bbr_pacer_set_pacing_rate, Tick, vars, bbrVars

(* The queue of BBR's pacer is the same: what holds of the other holds here.*)
THEOREM BbrQueueAlwaysConsistent ==
  BbrPacerSpec => [](QueueConsistent /\ AgeExact /\ BytesExact)
<1>1. BbrPacerInit => IInv /\ BytesExact
  BY InitIInv, EmptyCounts DEF BbrPacerInit, Init, BytesExact
<1>2. IInv => QueueConsistent /\ AgeExact
  BY InvariantAge DEF IInv, QueInv, WellFormed, QueueConsistent
<1>3. IInv /\ BytesExact /\ [BbrPacerNext]_<<vars, bbrVars>> => BytesExact'
  BY BytesStay DEF BbrPacerNext, vars, bbr_pacer_insert_packet, bbr_pacer_set_estimate_bitrate,
     bbr_pacer_set_bitrate_limits, bbr_pacer_set_pacing_rate, bbr_pacer_set_padding_rate, BbrTransmitBegin,
     BbrTransmitOne, BbrTransmitEnd, Tick
<1>4. QED
  BY <1>1, <1>2, <1>3, BbrKeepsQueue, PTL DEF BbrPacerSpec

(* No padding passes media that waits, whatever the rates and however time  *)
(* goes, as long as no packet is larger than half a second of the least     *)
(* rate that pads: 2125 bytes, where a datagram has at most some 1100.      *)
THEOREM PaddingAlwaysYields ==
  ASSUME \A size \in Sizes : size <= 2125
  PROVE  BbrPacerSpec => PaddingYields
<1>1. PadInv /\ [BbrPacerNext]_<<vars, bbrVars>> => PadInv'
  BY StepPadInv
<1>2. PadInv /\ [BbrPacerNext]_<<vars, bbrVars>> =>
        [pc = "sending" /\ pc' = "idle" /\ padded' > 0 /\ ~disturbed => pacer_queue_empty(que)]_<<vars, bbrVars>>
  <2> SUFFICES ASSUME PadInv, BbrPacerNext, pc = "sending", pc' = "idle", padded' > 0, ~disturbed
               PROVE  pacer_queue_empty(que)
    OBVIOUS
  <2>1. BbrTransmitEnd
    BY DEF BbrPacerNext, bbr_pacer_insert_packet, pace_insert_packet, bbr_pacer_set_estimate_bitrate,
       bbr_pacer_set_bitrate_limits, bbr_pacer_set_pacing_rate, bbr_pacer_set_padding_rate, BbrTransmitBegin,
       BbrTransmitOne, Tick
  <2>2. /\ padded' = Paddings(padding_budget)
        /\ pacer_queue_empty(que) \/ media_budget.remaining <= 0
    BY <2>1 DEF BbrTransmitEnd
  <2>3. /\ Padded(media_budget) /\ Padded(padding_budget) /\ Behind(padding_budget, media_budget)
        /\ padding_budget.rate < MinPadRate => Little(padding_budget)
    BY DEF PadInv
  <2>4. ~Little(padding_budget)
    BY <2>2, <2>3, PadBehind
  <2>5. media_budget.remaining > 0
    BY <2>3, <2>4 DEF Behind, Little, Padded, Budget, MinPadRate, PADDING_SIZE
  <2>6. QED
    BY <2>2, <2>3, <2>5 DEF Padded, Budget
<1>3. QED
  BY <1>1, <1>2, InitPadInv, PTL DEF BbrPacerSpec, PaddingYields

-----------------------------------------------------------------------------
(***************************************************************************)
(* The sender of GCC congestion control, for every setting of the          *)
(* bitrates, every feedback, loss and measure, and every time between:     *)
(* both estimates stay in their bounds and in step, what the pacer has     *)
(* follows, and an estimate rises from the least of the last interval.     *)
(*                                                                         *)
(* A feedback changes an estimation up to four times: the lemmas follow it *)
(* from one operator to the next.                                          *)
(***************************************************************************)
Findings == {"Normal", "Overusing", "Underusing"}

Controls ==
  [min_rate : Nat \ {0}, max_rate : Nat, curr_rate : Nat, avg_max : Nat \cup {Unknown},
   state : {"Hold", "Increase", "Decrease"}, region : {"MaxUnknown", "NearMax"}, time_last_bitrate_change : Int]

Estimates == [ts : Nat, bitrate : Nat]

Estimations ==
  [curr_bitrate : Nat, min_conf_bitrate : Nat \ {0}, max_conf_bitrate : Nat, bwe_incoming : Nat,
   delay_base_bitrate : Nat, state : Findings, last_fraction_loss : Nat, has_decreased : BOOLEAN, last_rtt : Nat,
   lost_Q8 : Nat, expected : Nat, last_feelback_ts : Int, last_packet_report_ts : Int, last_timeout_ts : Int,
   first_report_ts : Int, last_decrease_ts : Int, min_bitrates : Seq(Estimates)]

Notices == [last_bitrate_bps : Nat, last_fraction_loss : Nat, last_rtt : Nat,
            last_bitrate_update_ts : Nat, notify_ts : Nat, paced : Nat]

(* The estimate by delay is in its bounds; near the maximum it is known.    *)
ControlFits(a) ==
  /\ a \in Controls
  /\ a.curr_rate \in a.min_rate .. a.max_rate
  /\ a.region = "NearMax" => a.avg_max # Unknown

EstimationFits(e) == e \in Estimations /\ e.curr_bitrate \in e.min_conf_bitrate .. e.max_conf_bitrate

(* What has been told is the estimate, not longer ago than a notice.        *)
NoticeTimely(c, cur_ts) ==
  /\ c \in Notices
  /\ c.last_bitrate_update_ts <= cur_ts /\ c.notify_ts <= cur_ts
  /\ c.last_bitrate_update_ts < c.notify_ts + k_normal_notify_timer

NoticeFits(c, e, cur_ts) == NoticeTimely(c, cur_ts) /\ c.last_bitrate_bps = e.curr_bitrate

RateInv ==
  /\ ControlFits(aimd)
  /\ EstimationFits(est)
  /\ aimd.min_rate <= est.min_conf_bitrate
  /\ kept \in BOOLEAN
  /\ kept => est.delay_base_bitrate = aimd.curr_rate
  /\ gccTime \in Nat /\ calls \in Nat
  /\ NoticeFits(ctrl, est, gccTime)

(* The history rises in time and in bitrate; what it has of the last        *)
(* interval are estimates of it; and for each estimate of the last interval *)
(* it has one that is not greater and not older.                            *)
HistoryFits(h, rec, cur_ts) ==
  /\ h \in Seq(Estimates) /\ rec \subseteq Estimates
  /\ \A i, j \in DOMAIN h : i < j => h[i].bitrate < h[j].bitrate /\ h[i].ts <= h[j].ts
  /\ \A i \in DOMAIN h : h[i].ts <= cur_ts /\ (h[i].ts + k_bwe_increase_interval_ms >= cur_ts => h[i] \in rec)
  /\ \A r \in rec : /\ r.ts <= cur_ts /\ r.ts + k_bwe_increase_interval_ms >= cur_ts
                    /\ \E i \in DOMAIN h : r.ts <= h[i].ts /\ h[i].bitrate <= r.bitrate

HistoryInv == HistoryFits(est.min_bitrates, record, gccTime)
-----------------------------------------------------------------------------
(* Least and greatest.                                                      *)
LEMMA MinIsLeast ==
  ASSUME NEW S, S \subseteq Nat, S # {}
  PROVE  Min(S) \in S /\ \A y \in S : Min(S) <= y
<1>1. \E x \in S : \A y \in S : x <= y
  BY LeastOfNat
<1> QED BY <1>1 DEF Min

LEMMA MaxIsGreatest ==
  ASSUME NEW S, NEW n \in Nat, S \subseteq 0 .. n, S # {}
  PROVE  Max(S) \in S /\ \A y \in S : y <= Max(S)
<1> DEFINE T == {n - x : x \in S}
<1>1. T \subseteq Nat /\ T # {}
  <2>1. \A x \in S : x \in 0 .. n
    OBVIOUS
  <2>2. \A x \in 0 .. n : n - x \in Nat
    OBVIOUS
  <2> QED BY <2>1, <2>2
<1>2. PICK t \in T : \A u \in T : t <= u
  BY <1>1, LeastOfNat
<1>3. PICK x \in S : t = n - x
  BY <1>2
<1>4. \A y \in S : x >= y
  <2> TAKE y \in S
  <2>1. t <= n - y
    BY <1>2
  <2> QED BY <1>3, <2>1
<1>5. Max(S) \in S /\ \A y \in S : Max(S) >= y
  BY <1>3, <1>4 DEF Max
<1>6. \A y \in S : y \in Nat
  <2>1. \A y \in S : y \in 0 .. n
    OBVIOUS
  <2> QED BY <2>1
<1> QED BY <1>5, <1>6

LEMMA MaxOfTwo ==
  ASSUME NEW a \in Int, NEW b \in Int
  PROVE  Max({a, b}) = IF a > b THEN a ELSE b
<1>1. \E x \in {a, b} : \A y \in {a, b} : x >= y
  OBVIOUS
<1>2. Max({a, b}) \in {a, b} /\ \A y \in {a, b} : Max({a, b}) >= y
  BY <1>1 DEF Max
<1> QED BY <1>2

(* The bitrate set at the start is between the bounds that are set.         *)
LEMMA StartFits ==
  ASSUME NEW s \in Settings
  PROVE  /\ s.min \in Nat \ {0} /\ s.max \in Nat /\ s.min <= s.max
         /\ Start(s) \in Nat /\ Start(s) \in s.min .. s.max
<1>1. s.min \in Nat \ {0} /\ s.max \in Nat /\ s.start \in Nat /\ s.min <= s.max
  BY SettingsAssumption
<1> DEFINE a == Max({s.start, s.min})
<1>2. a \in Nat /\ s.min <= a
  BY <1>1, MaxOfTwo
<1>3. Min({a, s.max}) \in {a, s.max} /\ \A y \in {a, s.max} : Min({a, s.max}) <= y
  BY <1>1, <1>2, MinIsLeast
<1>4. Start(s) = Min({a, s.max})
  BY DEF Start
<1> HIDE DEF a
<1> QED BY <1>1, <1>2, <1>3, <1>4

-----------------------------------------------------------------------------
(* The estimate by loss.                                                    *)
OthersKept(e, d) ==
  /\ d.min_conf_bitrate = e.min_conf_bitrate /\ d.max_conf_bitrate = e.max_conf_bitrate
  /\ d.bwe_incoming = e.bwe_incoming /\ d.delay_base_bitrate = e.delay_base_bitrate
  /\ d.last_fraction_loss = e.last_fraction_loss /\ d.last_rtt = e.last_rtt
  /\ d.expected = e.expected /\ d.first_report_ts = e.first_report_ts
  /\ d.last_decrease_ts = e.last_decrease_ts /\ d.min_bitrates = e.min_bitrates

(* An estimate that was limited: never above what was meant, but where that *)
(* is below the least bitrate.                                              *)
CappedTo(e, b, d) ==
  /\ d \in Estimations
  /\ d.curr_bitrate \in e.min_conf_bitrate .. e.max_conf_bitrate
  /\ d.curr_bitrate <= b \/ d.curr_bitrate = e.min_conf_bitrate
  /\ e.bwe_incoming = 0 /\ e.delay_base_bitrate = 0 /\ b \in e.min_conf_bitrate .. e.max_conf_bitrate
     => d.curr_bitrate = b
  /\ OthersKept(e, d)

LEMMA CappedFits ==
  ASSUME NEW e \in Estimations, e.min_conf_bitrate <= e.max_conf_bitrate, NEW b \in Nat
  PROVE  CappedTo(e, b, Capped(e, b))
<1> DEFINE lo == e.min_conf_bitrate
           hi == e.max_conf_bitrate
           limits == {hi} \cup ({e.bwe_incoming, e.delay_base_bitrate} \ {0})
           S  == {b} \cup limits
           m  == Min(S)
           v  == Max({lo, m})
           d  == [e EXCEPT !.curr_bitrate = v]
<1>1. lo \in Nat /\ hi \in Nat /\ lo <= hi /\ e.bwe_incoming \in Nat /\ e.delay_base_bitrate \in Nat
  BY DEF Estimations
<1>2. S \subseteq Nat /\ S # {} /\ b \in S /\ hi \in S
  BY <1>1
<1>3. Capped(e, b) = d
  BY DEF Capped
<1>4. e.bwe_incoming = 0 /\ e.delay_base_bitrate = 0 => S = {b, hi}
  OBVIOUS
<1> HIDE DEF S
<1>5. m \in S /\ m <= b /\ m <= hi
  BY <1>2, MinIsLeast
<1>6. m \in Nat
  BY <1>2, <1>5
<1> HIDE DEF m
<1>7. v = IF lo > m THEN lo ELSE m
  BY <1>1, <1>6, MaxOfTwo
<1> HIDE DEF v
<1>8. v \in Nat /\ v \in lo .. hi /\ (v <= b \/ v = lo)
  BY <1>1, <1>5, <1>6, <1>7
<1>9. e.bwe_incoming = 0 /\ e.delay_base_bitrate = 0 /\ b \in lo .. hi => v = b
  BY <1>1, <1>4, <1>5, <1>6, <1>7
<1>10. d \in Estimations /\ d.curr_bitrate = v /\ OthersKept(e, d)
  BY <1>8 DEF Estimations, OthersKept
<1> HIDE DEF d
<1> QED BY <1>3, <1>8, <1>9, <1>10 DEF CappedTo

(* Setting the bounds and the bitrate empties the history.                  *)
BitratesSet(e, s, d) ==
  /\ EstimationFits(d)
  /\ s.min <= d.min_conf_bitrate
  /\ d.min_bitrates = <<>>
  /\ e.bwe_incoming = 0 /\ e.delay_base_bitrate = 0 /\ e.min_conf_bitrate <= s.min => d.curr_bitrate = Start(s)

LEMMA SetBitratesFits ==
  ASSUME NEW e \in Estimations, NEW s \in Settings
  PROVE  BitratesSet(e, s, SetBitrates(e, s))
<1> DEFINE lo == Max({e.min_conf_bitrate, s.min})
           hi == Max({lo, s.max})
           b  == Start(s)
           q1 == [e EXCEPT !.min_conf_bitrate = lo]
           q2 == [q1 EXCEPT !.max_conf_bitrate = hi]
           q3 == Capped(q2, b)
           none == <<>>
           q4 == [q3 EXCEPT !.min_bitrates = none]
<1>1. /\ s.min \in Nat \ {0} /\ s.max \in Nat /\ s.min <= s.max /\ b \in Nat /\ b \in s.min .. s.max
      /\ e.min_conf_bitrate \in Nat \ {0}
  BY StartFits DEF Estimations
<1>2. SetBitrates(e, s) = q4
  BY DEF SetBitrates, sender_estimation_set_send_bitrate, sender_estimation_set_minmax_bitrate
<1>3. lo = IF e.min_conf_bitrate > s.min THEN e.min_conf_bitrate ELSE s.min
  BY <1>1, MaxOfTwo
<1> HIDE DEF lo, b
<1>4. hi = IF lo > s.max THEN lo ELSE s.max
  BY <1>1, <1>3, MaxOfTwo
<1> HIDE DEF hi
<1>5. lo \in Nat \ {0} /\ hi \in Nat /\ lo <= hi /\ s.min <= lo /\ (e.min_conf_bitrate <= s.min => lo = s.min /\ hi = s.max)
  BY <1>1, <1>3, <1>4
<1>6. q1 \in Estimations /\ q1.min_conf_bitrate = lo /\ q1.bwe_incoming = e.bwe_incoming
      /\ q1.delay_base_bitrate = e.delay_base_bitrate
  BY <1>5 DEF Estimations
<1> HIDE DEF q1
<1>7. q2 \in Estimations /\ q2.min_conf_bitrate = lo /\ q2.max_conf_bitrate = hi /\ q2.bwe_incoming = e.bwe_incoming
      /\ q2.delay_base_bitrate = e.delay_base_bitrate
  BY <1>5, <1>6 DEF Estimations
<1> HIDE DEF q2
<1>8. CappedTo(q2, b, q3)
  BY <1>1, <1>5, <1>7, CappedFits
<1> HIDE DEF q3
<1>9. q3 \in Estimations /\ q3.curr_bitrate \in lo .. hi /\ q3.min_conf_bitrate = lo /\ q3.max_conf_bitrate = hi
  BY <1>7, <1>8 DEF CappedTo, OthersKept
<1>10. e.bwe_incoming = 0 /\ e.delay_base_bitrate = 0 /\ e.min_conf_bitrate <= s.min => q3.curr_bitrate = b
  BY <1>1, <1>5, <1>7, <1>8 DEF CappedTo
<1>11. none \in Seq(Estimates)
  OBVIOUS
<1> HIDE DEF none
<1>12. /\ q4 \in Estimations /\ q4.curr_bitrate = q3.curr_bitrate /\ q4.min_conf_bitrate = lo /\ q4.max_conf_bitrate = hi
       /\ q4.min_bitrates = none
  BY <1>9, <1>11 DEF Estimations
<1> HIDE DEF q4
<1> QED BY <1>2, <1>5, <1>9, <1>10, <1>12 DEF BitratesSet, EstimationFits, b, none

(* What the receiver allows for, and what the delay does: the estimate does *)
(* not rise.                                                                *)
LEMMA RembFits ==
  ASSUME NEW e, EstimationFits(e), NEW b \in Nat, NEW d, d = sender_estimation_update_remb(e, b)
  PROVE  /\ EstimationFits(d) /\ d.curr_bitrate <= e.curr_bitrate /\ d.delay_base_bitrate = e.delay_base_bitrate
         /\ d.min_conf_bitrate = e.min_conf_bitrate /\ d.min_bitrates = e.min_bitrates
         /\ d.last_decrease_ts = e.last_decrease_ts
<1> DEFINE q == [e EXCEPT !.bwe_incoming = b]
<1>1. /\ q \in Estimations /\ q.curr_bitrate = e.curr_bitrate /\ q.min_conf_bitrate = e.min_conf_bitrate
      /\ q.max_conf_bitrate = e.max_conf_bitrate /\ q.delay_base_bitrate = e.delay_base_bitrate
      /\ q.min_bitrates = e.min_bitrates /\ q.last_decrease_ts = e.last_decrease_ts
  BY DEF Estimations, EstimationFits
<1>2. d = Capped(q, e.curr_bitrate)
  BY DEF sender_estimation_update_remb
<1> HIDE DEF q
<1>3. e.curr_bitrate \in Nat /\ e.min_conf_bitrate \in Nat /\ e.max_conf_bitrate \in Nat
      /\ e.min_conf_bitrate <= e.curr_bitrate /\ e.curr_bitrate <= e.max_conf_bitrate
  BY DEF EstimationFits, Estimations
<1>4. CappedTo(q, e.curr_bitrate, d)
  BY <1>1, <1>2, <1>3, CappedFits
<1> QED BY <1>1, <1>3, <1>4 DEF CappedTo, OthersKept, EstimationFits

LEMMA DelayBaseFits ==
  ASSUME NEW e, EstimationFits(e), NEW b \in Nat, NEW finding \in Findings,
         NEW d, d = sender_estimation_update_delay_base(e, b, finding)
  PROVE  /\ EstimationFits(d) /\ d.curr_bitrate <= e.curr_bitrate /\ d.delay_base_bitrate = b
         /\ d.min_conf_bitrate = e.min_conf_bitrate /\ d.min_bitrates = e.min_bitrates
         /\ d.last_decrease_ts = e.last_decrease_ts
<1> DEFINE p == [e EXCEPT !.delay_base_bitrate = b]
           q == [p EXCEPT !.state = finding]
<1>1. /\ p \in Estimations /\ p.curr_bitrate = e.curr_bitrate /\ p.min_conf_bitrate = e.min_conf_bitrate
      /\ p.max_conf_bitrate = e.max_conf_bitrate /\ p.delay_base_bitrate = b
      /\ p.min_bitrates = e.min_bitrates /\ p.last_decrease_ts = e.last_decrease_ts
  BY DEF Estimations, EstimationFits
<1>2. d = Capped(q, e.curr_bitrate)
  BY DEF sender_estimation_update_delay_base
<1> HIDE DEF p
<1>3. /\ q \in Estimations /\ q.curr_bitrate = e.curr_bitrate /\ q.min_conf_bitrate = e.min_conf_bitrate
      /\ q.max_conf_bitrate = e.max_conf_bitrate /\ q.delay_base_bitrate = b
      /\ q.min_bitrates = e.min_bitrates /\ q.last_decrease_ts = e.last_decrease_ts
  BY <1>1 DEF Estimations
<1> HIDE DEF q
<1>4. e.curr_bitrate \in Nat /\ e.min_conf_bitrate \in Nat /\ e.max_conf_bitrate \in Nat
      /\ e.min_conf_bitrate <= e.curr_bitrate /\ e.curr_bitrate <= e.max_conf_bitrate
  BY DEF EstimationFits, Estimations
<1>5. CappedTo(q, e.curr_bitrate, d)
  BY <1>2, <1>3, <1>4, CappedFits
<1> QED BY <1>3, <1>4, <1>5 DEF CappedTo, OthersKept, EstimationFits

-----------------------------------------------------------------------------
(* The history: an old estimate leaves at the front, one that is not less   *)
(* than the present at the end.                                             *)
OldOf(h, cur_ts) == Max({0} \cup {i \in DOMAIN h : \A j \in 1 .. i : h[j].ts + k_bwe_increase_interval_ms < cur_ts})

LEMMA HistoryElements ==
  ASSUME NEW h \in Seq(Estimates)
  PROVE  /\ Len(h) \in Nat /\ DOMAIN h = 1 .. Len(h)
         /\ \A i \in 1 .. Len(h) : h[i] \in Estimates /\ h[i].ts \in Nat /\ h[i].bitrate \in Nat
<1>1. Len(h) \in Nat /\ DOMAIN h = 1 .. Len(h) /\ \A i \in 1 .. Len(h) : h[i] \in Estimates
  OBVIOUS
<1>2. \A x \in Estimates : x.ts \in Nat /\ x.bitrate \in Nat
  BY DEF Estimates
<1> QED BY <1>1, <1>2

LEMMA OldFits ==
  ASSUME NEW h \in Seq(Estimates), NEW cur_ts \in Nat
  PROVE  /\ OldOf(h, cur_ts) \in 0 .. Len(h)
         /\ \A j \in 1 .. OldOf(h, cur_ts) : h[j].ts + k_bwe_increase_interval_ms < cur_ts
         /\ OldOf(h, cur_ts) < Len(h) => h[OldOf(h, cur_ts) + 1].ts + k_bwe_increase_interval_ms >= cur_ts
<1> DEFINE K == k_bwe_increase_interval_ms
           n == Len(h)
           S == {0} \cup {i \in DOMAIN h : \A j \in 1 .. i : h[j].ts + K < cur_ts}
           m == OldOf(h, cur_ts)
<1>1. n \in Nat /\ DOMAIN h = 1 .. n /\ K \in Nat /\ \A i \in 1 .. n : h[i].ts \in Nat
  BY HistoryElements, EstimationAssumption
<1>2. S \subseteq 0 .. n /\ S # {} /\ m = Max(S)
  BY <1>1 DEF OldOf
<1>3. m \in S /\ \A y \in S : y <= m
  BY <1>1, <1>2, MaxIsGreatest
<1> HIDE DEF m, n, K
<1>4. m \in 0 .. n
  BY <1>2, <1>3
<1>5. \A j \in 1 .. m : h[j].ts + K < cur_ts
  BY <1>1, <1>3
<1>6. ASSUME m < n, h[m + 1].ts + K < cur_ts PROVE FALSE
  <2>1. m + 1 \in 1 .. n /\ ~(m + 1 <= m)
    BY <1>1, <1>4, <1>6
  <2>2. \A j \in 1 .. m + 1 : j \in 1 .. m \/ j = m + 1
    BY <1>4
  <2>3. m + 1 \in S
    BY <1>1, <1>5, <1>6, <2>1, <2>2
  <2> QED BY <1>3, <2>1, <2>3
<1>7. m < n => h[m + 1].ts \in Nat
  BY <1>1, <1>4
<1> QED BY <1>1, <1>4, <1>5, <1>6, <1>7 DEF m, n, K

BeginsBelow(h, b, a) ==
  /\ a \in Seq(Estimates) /\ Len(a) <= Len(h)
  /\ \A i \in 1 .. Len(a) : a[i] = h[i] /\ h[i].bitrate < b
  /\ \A i \in 1 .. Len(h) : i > Len(a) => h[i].bitrate >= b

LEMMA AboveFits ==
  ASSUME NEW h \in Seq(Estimates), NEW b \in Nat,
         \A i, j \in DOMAIN h : i < j => h[i].bitrate < h[j].bitrate
  PROVE  BeginsBelow(h, b, Above(h, b))
<1> DEFINE n == Len(h)
           S == {0} \cup {i \in DOMAIN h : h[i].bitrate < b}
           m == Max(S)
           a == Above(h, b)
<1>1. n \in Nat /\ DOMAIN h = 1 .. n /\ \A i \in 1 .. n : h[i] \in Estimates /\ h[i].bitrate \in Nat
  BY HistoryElements
<1>2. S \subseteq 0 .. n /\ S # {}
  BY <1>1
<1>3. m \in S /\ \A y \in S : y <= m
  BY <1>1, <1>2, MaxIsGreatest
<1>4. a = SubSeq(h, 1, m)
  BY DEF Above
<1> HIDE DEF m, n, a
<1>5. m \in 0 .. n
  BY <1>2, <1>3
<1>6. a \in Seq(Estimates) /\ Len(a) = m /\ \A i \in 1 .. m : a[i] = h[i]
  <2>1. \A i \in 1 .. m : h[i] \in Estimates
    BY <1>1, <1>5
  <2> QED BY <1>4, <1>5, <2>1
<1>7. ASSUME NEW i \in 1 .. m PROVE h[i].bitrate < b
  <2>1. m \in 1 .. n /\ h[m].bitrate < b /\ i \in 1 .. n
    BY <1>1, <1>3, <1>5, <1>7
  <2>2. CASE i = m
    BY <2>1, <2>2
  <2>3. CASE i < m
    <3>1. h[i].bitrate < h[m].bitrate
      BY <1>1, <2>1, <2>3
    <3> QED BY <1>1, <2>1, <3>1
  <2> QED BY <1>5, <1>7, <2>2, <2>3
<1>8. ASSUME NEW i \in 1 .. n, i > m PROVE h[i].bitrate >= b
  <2>1. i \notin S
    BY <1>3, <1>5, <1>8
  <2> QED BY <1>1, <2>1
<1> QED BY <1>1, <1>5, <1>6, <1>7, <1>8 DEF n, a, BeginsBelow

(* The history after an update, of any history.                             *)
LEMMA HistoryTyped ==
  ASSUME NEW e \in Estimations, NEW cur_ts \in Nat, NEW d, d = sender_estimation_update_history(e, cur_ts)
  PROVE  /\ d \in Estimations /\ d.curr_bitrate = e.curr_bitrate /\ OthersKept([e EXCEPT !.min_bitrates = d.min_bitrates], d)
         /\ Len(d.min_bitrates) # 0
<1> DEFINE h     == e.min_bitrates
           old   == OldOf(h, cur_ts)
           rest  == SubSeq(h, old + 1, Len(h))
           lower == Above(rest, e.curr_bitrate)
           room  == IF Len(lower) = MIN_HISTORY_ARR_SIZE THEN Tail(lower) ELSE lower
           last  == [ts |-> cur_ts, bitrate |-> e.curr_bitrate]
           h2    == Append(room, last)
<1>1. d = [e EXCEPT !.min_bitrates = h2]
  BY Zenon DEF sender_estimation_update_history, OldOf
<1>2. h \in Seq(Estimates) /\ last \in Estimates /\ e.curr_bitrate \in Nat
  BY DEF Estimations, Estimates
<1>3. old \in 0 .. Len(h)
  BY <1>2, OldFits
<1> HIDE DEF h, old, last
<1>4. rest \in Seq(Estimates)
  <2>1. old + 1 \in Int /\ Len(h) \in Int /\ \A i \in old + 1 .. Len(h) : h[i] \in Estimates
    BY <1>2, <1>3
  <2> QED BY <2>1
<1> HIDE DEF rest
<1>5. lower \in Seq(Estimates)
  <2> DEFINE S == {0} \cup {i \in DOMAIN rest : rest[i].bitrate < e.curr_bitrate}
             m == Max(S)
  <2>1. S \subseteq 0 .. Len(rest) /\ S # {} /\ Len(rest) \in Nat
    BY <1>4
  <2>2. m \in 0 .. Len(rest)
    BY <2>1, MaxIsGreatest
  <2>3. lower = SubSeq(rest, 1, m)
    BY DEF Above
  <2> HIDE DEF m
  <2>4. \A i \in 1 .. m : rest[i] \in Estimates
    BY <1>4, <2>2
  <2> QED BY <2>2, <2>3, <2>4
<1> HIDE DEF lower
<1>6. room \in Seq(Estimates)
  <2>1. CASE Len(lower) = MIN_HISTORY_ARR_SIZE
    <3>1. lower # <<>>
      BY <2>1, EstimationAssumption
    <3> QED BY <1>5, <2>1, <3>1
  <2>2. CASE Len(lower) # MIN_HISTORY_ARR_SIZE
    BY <1>5, <2>2
  <2> QED BY <2>1, <2>2
<1> HIDE DEF room
<1>7. h2 \in Seq(Estimates) /\ Len(h2) # 0
  BY <1>2, <1>6
<1> HIDE DEF h2
<1> QED BY <1>1, <1>7 DEF Estimations, OthersKept

(* And of one that fits and is not full: it begins with the least estimate  *)
(* of the last interval.                                                    *)
HistoryBegins(h, rec) == 1 \in DOMAIN h /\ h[1] \in rec /\ \A r \in rec : h[1].bitrate <= r.bitrate

LEMMA HistoryStep ==
  ASSUME NEW e \in Estimations, NEW cur_ts \in Nat, NEW rec, HistoryFits(e.min_bitrates, rec, cur_ts),
         Len(e.min_bitrates) < MIN_HISTORY_ARR_SIZE,
         NEW new, new = [ts |-> cur_ts, bitrate |-> e.curr_bitrate],
         NEW rec2, rec2 = {r \in rec \cup {new} : r.ts + k_bwe_increase_interval_ms >= cur_ts},
         NEW h2, h2 = sender_estimation_update_history(e, cur_ts).min_bitrates
  PROVE  HistoryFits(h2, rec2, cur_ts) /\ HistoryBegins(h2, rec2)
<1> DEFINE K     == k_bwe_increase_interval_ms
           h     == e.min_bitrates
           c     == e.curr_bitrate
           old   == OldOf(h, cur_ts)
           rest  == SubSeq(h, old + 1, Len(h))
           lower == Above(rest, c)
           m     == Len(lower)
<1>1. /\ h \in Seq(Estimates) /\ Len(h) \in Nat /\ DOMAIN h = 1 .. Len(h) /\ c \in Nat /\ K \in Nat /\ rec \subseteq Estimates
      /\ Len(h) < MIN_HISTORY_ARR_SIZE /\ MIN_HISTORY_ARR_SIZE \in Nat
      /\ \A i \in 1 .. Len(h) : h[i] \in Estimates /\ h[i].ts \in Nat /\ h[i].bitrate \in Nat
      /\ \A i, j \in 1 .. Len(h) : i < j => h[i].bitrate < h[j].bitrate /\ h[i].ts <= h[j].ts
      /\ \A i \in 1 .. Len(h) : h[i].ts <= cur_ts /\ (h[i].ts + K >= cur_ts => h[i] \in rec)
      /\ \A r \in rec : /\ r.ts <= cur_ts /\ r.ts + K >= cur_ts
                        /\ \E i \in 1 .. Len(h) : r.ts <= h[i].ts /\ h[i].bitrate <= r.bitrate
  <2>1. h \in Seq(Estimates) /\ c \in Nat
    BY DEF Estimations
  <2>2. K \in Nat /\ MIN_HISTORY_ARR_SIZE \in Nat
    BY EstimationAssumption
  <2> HIDE DEF h, c, K
  <2>3. /\ Len(h) \in Nat /\ DOMAIN h = 1 .. Len(h)
        /\ \A i \in 1 .. Len(h) : h[i] \in Estimates /\ h[i].ts \in Nat /\ h[i].bitrate \in Nat
    BY <2>1, HistoryElements
  <2>4. HistoryFits(h, rec, cur_ts)
    BY DEF h
  <2>5. Len(h) < MIN_HISTORY_ARR_SIZE
    BY DEF h
  <2> QED BY <2>1, <2>2, <2>3, <2>4, <2>5 DEF HistoryFits, K
<1>2. /\ old \in 0 .. Len(h)
      /\ \A j \in 1 .. old : h[j].ts + K < cur_ts
      /\ old < Len(h) => h[old + 1].ts + K >= cur_ts
  BY <1>1, OldFits
<1>3. h2 = Append(IF m = MIN_HISTORY_ARR_SIZE THEN Tail(lower) ELSE lower, new)
  <2>1. sender_estimation_update_history(e, cur_ts)
        = [e EXCEPT !.min_bitrates = Append(IF m = MIN_HISTORY_ARR_SIZE THEN Tail(lower) ELSE lower, new)]
    BY Zenon DEF sender_estimation_update_history, OldOf
  <2> QED BY <2>1 DEF Estimations
<1> HIDE DEF old, c, K, h
<1>4. /\ rest \in Seq(Estimates) /\ Len(rest) = Len(h) - old
      /\ \A i \in 1 .. Len(h) - old : rest[i] = h[old + i]
  <2>1. old + 1 \in Int /\ Len(h) \in Int /\ \A i \in old + 1 .. Len(h) : h[i] \in Estimates
    BY <1>1, <1>2
  <2>2. rest \in Seq(Estimates)
    BY <2>1
  <2>3. Len(rest) = Len(h) - old
    <3> DEFINE n == Len(h)
    <3>1. n \in Nat /\ old \in 0 .. n
      BY <1>1, <1>2
    <3>2. Len(SubSeq(h, old + 1, n)) = IF old + 1 <= n THEN n - (old + 1) + 1 ELSE 0
      BY <1>1, <3>1, SubSeqProperties
    <3>3. Len(rest) = IF old + 1 <= n THEN n - (old + 1) + 1 ELSE 0
      BY <3>2
    <3> HIDE DEF n, rest
    <3>4. Len(rest) = n - old
      BY <3>1, <3>3
    <3> QED BY <3>4 DEF n
  <2>4. \A i \in 1 .. Len(h) - old : rest[i] = h[old + i]
    BY <1>1, <1>2
  <2> QED BY <2>2, <2>3, <2>4
<1> HIDE DEF rest
<1>5. \A i, j \in DOMAIN rest : i < j => rest[i].bitrate < rest[j].bitrate
  <2> SUFFICES ASSUME NEW i \in 1 .. Len(h) - old, NEW j \in 1 .. Len(h) - old, i < j PROVE h[old + i].bitrate < h[old + j].bitrate
    BY <1>4
  <2>1. old + i \in 1 .. Len(h) /\ old + j \in 1 .. Len(h) /\ old + i < old + j
    BY <1>1, <1>2
  <2> QED BY <1>1, <2>1
<1>6. /\ lower \in Seq(Estimates) /\ m \in Nat /\ m <= Len(rest)
      /\ \A i \in 1 .. m : lower[i] = rest[i] /\ rest[i].bitrate < c
      /\ \A i \in 1 .. Len(rest) : i > m => rest[i].bitrate >= c
  <2>1. BeginsBelow(rest, c, lower)
    BY <1>1, <1>4, <1>5, AboveFits
  <2> HIDE DEF lower
  <2> QED BY <2>1 DEF BeginsBelow
<1> HIDE DEF lower, m
<1>7. new \in Estimates /\ new.ts = cur_ts /\ new.bitrate = c
  BY <1>1 DEF Estimates, c
<1>8. m # MIN_HISTORY_ARR_SIZE /\ h2 = Append(lower, new)
  BY <1>1, <1>2, <1>3, <1>4, <1>6
<1>9. /\ h2 \in Seq(Estimates) /\ Len(h2) = m + 1 /\ DOMAIN h2 = 1 .. m + 1 /\ h2[m + 1] = new
      /\ \A i \in 1 .. m : h2[i] = h[old + i] /\ old + i \in 1 .. Len(h) /\ h[old + i].bitrate < c
  <2>1. Len(lower) = m
    BY DEF m
  <2>2. /\ h2 \in Seq(Estimates) /\ Len(h2) = m + 1 /\ h2[m + 1] = new /\ \A i \in 1 .. m : h2[i] = lower[i]
    BY <1>6, <1>7, <1>8, <2>1
  <2>3. \A i \in 1 .. m : i \in 1 .. Len(h) - old /\ old + i \in 1 .. Len(h)
    BY <1>1, <1>2, <1>4, <1>6
  <2>4. m + 1 \in Nat /\ DOMAIN h2 = 1 .. m + 1
    <3>1. m + 1 \in Nat
      BY <1>6
    <3> QED BY <2>2, <3>1
  <2>5. \A i \in 1 .. m : rest[i] = h[old + i]
    BY <1>4, <2>3
  <2> QED BY <1>6, <2>2, <2>3, <2>4, <2>5
<1>10. \A r \in rec2 : r \in Estimates /\ r.ts <= cur_ts /\ r.ts + K >= cur_ts
  BY <1>1, <1>7 DEF K
<1>11. new \in rec2
  BY <1>1, <1>7 DEF K
<1>12. ASSUME NEW i \in 1 .. m + 1, NEW j \in 1 .. m + 1, i < j PROVE h2[i].bitrate < h2[j].bitrate /\ h2[i].ts <= h2[j].ts
  <2>1. i \in 1 .. m
    BY <1>6, <1>12
  <2>2. CASE j \in 1 .. m
    <3>1. old + i < old + j
      BY <1>2, <1>12
    <3> QED BY <1>1, <1>9, <2>1, <2>2, <3>1
  <2>3. CASE j = m + 1
    BY <1>1, <1>7, <1>9, <2>1, <2>3
  <2> QED BY <1>6, <1>12, <2>2, <2>3
<1>13. ASSUME NEW i \in 1 .. m + 1 PROVE h2[i].ts <= cur_ts /\ (h2[i].ts + K >= cur_ts => h2[i] \in rec2)
  <2>1. CASE i \in 1 .. m
    <3>1. h2[i].ts <= cur_ts /\ (h2[i].ts + K >= cur_ts => h2[i] \in rec)
      BY <1>1, <1>9, <2>1
    <3> QED BY <3>1 DEF K
  <2>2. CASE i = m + 1
    BY <1>7, <1>9, <1>11, <2>2
  <2> QED BY <1>6, <1>13, <2>1, <2>2
<1>14. ASSUME NEW r \in rec2 PROVE \E i \in 1 .. m + 1 : r.ts <= h2[i].ts /\ h2[i].bitrate <= r.bitrate
  <2>1. m + 1 \in 1 .. m + 1 /\ r.ts \in Nat /\ r.bitrate \in Nat
    BY <1>6, <1>10, <1>14 DEF Estimates
  <2>2. CASE r = new
    BY <1>1, <1>7, <1>9, <2>1, <2>2
  <2>3. CASE r \in rec
    <3>1. PICK i \in 1 .. Len(h) : r.ts <= h[i].ts /\ h[i].bitrate <= r.bitrate
      BY <1>1, <2>3
    <3>2. ~(i \in 1 .. old)
      <4>1. r.ts + K >= cur_ts /\ r.ts \in Nat /\ h[i].ts \in Nat
        BY <1>1, <1>10, <2>1, <3>1
      <4>2. h[i].ts + K >= cur_ts
        BY <1>1, <3>1, <4>1
      <4> QED BY <1>1, <1>2, <3>1, <4>1, <4>2
    <3> DEFINE k == i - old
    <3>3. k \in 1 .. Len(rest) /\ rest[k] = h[i] /\ i = old + k
      <4>1. i \in Int /\ old \in Nat /\ Len(h) \in Nat /\ Len(rest) = Len(h) - old
        BY <1>1, <1>2, <1>4, <3>1
      <4>2. k \in 1 .. Len(h) - old /\ old + k = i
        BY <3>1, <3>2, <4>1
      <4> HIDE DEF k
      <4> QED BY <1>4, <4>1, <4>2
    <3> HIDE DEF k
    <3>4. CASE k <= m
      <4>1. k \in 1 .. m /\ k \in 1 .. m + 1
        BY <1>6, <3>3, <3>4
      <4> QED BY <1>9, <3>1, <3>3, <4>1
    <3>5. CASE k > m
      <4>1. h[i].bitrate >= c
        BY <1>6, <3>3, <3>5
      <4>2. h2[m + 1].ts = cur_ts /\ h2[m + 1].bitrate = c
        BY <1>7, <1>9
      <4>3. r.ts <= h2[m + 1].ts
        BY <1>10, <4>2
      <4>4. h2[m + 1].bitrate <= r.bitrate
        BY <1>1, <2>1, <3>1, <4>1, <4>2
      <4> QED BY <2>1, <4>3, <4>4
    <3> QED BY <1>6, <3>3, <3>4, <3>5
  <2> QED BY <1>14, <2>2, <2>3
<1>15. HistoryFits(h2, rec2, cur_ts)
  BY <1>9, <1>10, <1>12, <1>13, <1>14 DEF HistoryFits, K
<1>16. h2[1] \in rec2
  <2>1. CASE m = 0
    BY <1>9, <1>11, <2>1
  <2>2. CASE m # 0
    <3>1. 1 \in 1 .. m /\ 1 \in 1 .. m + 1 /\ old < Len(h)
      BY <1>1, <1>2, <1>4, <1>6, <2>2
    <3>2. h2[1] = h[old + 1] /\ h[old + 1].ts + K >= cur_ts
      BY <1>2, <1>9, <3>1
    <3> QED BY <1>13, <3>1, <3>2
  <2> QED BY <2>1, <2>2
<1>17. ASSUME NEW r \in rec2 PROVE h2[1].bitrate <= r.bitrate
  <2>1. PICK i \in 1 .. m + 1 : h2[i].bitrate <= r.bitrate
    BY <1>14
  <2>2. 1 \in 1 .. m + 1 /\ h2[1].bitrate \in Nat /\ h2[i].bitrate \in Nat /\ r.bitrate \in Nat
    <3>1. 1 \in 1 .. m + 1 /\ r \in Estimates
      BY <1>6, <1>10, <1>17
    <3>2. \A j \in 1 .. m + 1 : h2[j].bitrate \in Nat
      BY <1>9, HistoryElements
    <3>3. r.bitrate \in Nat
      BY <3>1 DEF Estimates
    <3> QED BY <2>1, <3>1, <3>2, <3>3
  <2>3. i = 1 \/ h2[1].bitrate < h2[i].bitrate
    BY <1>6, <1>12, <2>1, <2>2
  <2> QED BY <2>1, <2>2, <2>3
<1>18. 1 \in DOMAIN h2
  BY <1>6, <1>9
<1> QED BY <1>15, <1>16, <1>17, <1>18 DEF HistoryBegins

-----------------------------------------------------------------------------
(* The estimate by delay.                                                   *)
LEMMA ClampFits ==
  ASSUME NEW a, ControlFits(a), NEW new \in Int, NEW coming \in Int, NEW v, v = clamp_bitrate(a, new, coming)
  PROVE  v \in Nat /\ v \in a.min_rate .. a.max_rate /\ (new <= a.curr_rate => v <= a.curr_rate)
<1> DEFINE most == (3 * coming) \div 2 + headroom
           n    == IF new > a.curr_rate /\ new > most THEN Higher(a.curr_rate, most) ELSE new
<1>1. /\ a.min_rate \in Nat /\ a.max_rate \in Nat /\ a.curr_rate \in Nat
      /\ a.min_rate <= a.curr_rate /\ a.curr_rate <= a.max_rate
  BY DEF ControlFits, Controls
<1>2. most \in Int
  BY AimdAssumption
<1>3. v = Lower(Higher(n, a.min_rate), a.max_rate)
  BY DEF clamp_bitrate
<1> HIDE DEF most
<1>4. n \in Int /\ (new <= a.curr_rate => n = new)
  BY <1>1, <1>2 DEF Lower, Higher
<1> HIDE DEF n
<1>5. Higher(n, a.min_rate) \in Int /\ Higher(n, a.min_rate) >= a.min_rate /\ Higher(n, a.min_rate) \in {n, a.min_rate}
  BY <1>1, <1>4 DEF Lower, Higher
<1> DEFINE w == Higher(n, a.min_rate)
<1> HIDE DEF w
<1>6. w \in Int /\ w >= a.min_rate /\ w \in {n, a.min_rate} /\ v = Lower(w, a.max_rate)
  BY <1>3, <1>5 DEF w
<1>7. v \in Int /\ v <= w /\ v <= a.max_rate /\ v \in {w, a.max_rate}
  BY <1>1, <1>6 DEF Lower, Higher
<1> QED BY <1>1, <1>4, <1>6, <1>7

(* A control that came of another: its bounds are the same, and it is not   *)
(* above it where that must not be.                                         *)
ControlStep(a, b, lowers) ==
  /\ ControlFits(b)
  /\ b.min_rate = a.min_rate /\ b.max_rate = a.max_rate
  /\ lowers => b.curr_rate <= a.curr_rate

LEMMA ChangeStateFits ==
  ASSUME NEW a, ControlFits(a), NEW detected \in Findings, NEW cur_ts \in Nat
  PROVE  LET b == aimd_change_state(a, detected, cur_ts)
         IN  /\ ControlStep(a, b, TRUE) /\ b.curr_rate = a.curr_rate
             /\ detected = "Overusing" => b.state = "Decrease"
<1> DEFINE b  == aimd_change_state(a, detected, cur_ts)
           q  == [a EXCEPT !.time_last_bitrate_change = cur_ts]
           q2 == [q EXCEPT !.state = "Increase"]
           q3 == [a EXCEPT !.state = "Decrease"]
           q4 == [a EXCEPT !.state = "Hold"]
<1>1. b = q3 \/ (detected # "Overusing" /\ b \in {a, q2, q4})
  BY DEF aimd_change_state, Findings
<1> HIDE DEF b
<1>2. a \in Controls /\ a.curr_rate \in Nat
  BY DEF ControlFits, Controls
<1>3. q \in Controls /\ q.min_rate = a.min_rate /\ q.max_rate = a.max_rate /\ q.curr_rate = a.curr_rate
      /\ q.region = a.region /\ q.avg_max = a.avg_max
  BY <1>2 DEF Controls
<1> HIDE DEF q
<1>4. q2 \in Controls /\ q2.min_rate = a.min_rate /\ q2.max_rate = a.max_rate /\ q2.curr_rate = a.curr_rate
      /\ q2.region = a.region /\ q2.avg_max = a.avg_max
  BY <1>3 DEF Controls
<1>5. q3 \in Controls /\ q3.min_rate = a.min_rate /\ q3.max_rate = a.max_rate /\ q3.curr_rate = a.curr_rate
      /\ q3.region = a.region /\ q3.avg_max = a.avg_max /\ q3.state = "Decrease"
  BY <1>2 DEF Controls
<1>6. q4 \in Controls /\ q4.min_rate = a.min_rate /\ q4.max_rate = a.max_rate /\ q4.curr_rate = a.curr_rate
      /\ q4.region = a.region /\ q4.avg_max = a.avg_max
  BY <1>2 DEF Controls
<1> HIDE DEF q2, q3, q4
<1>7. /\ b \in Controls /\ b.min_rate = a.min_rate /\ b.max_rate = a.max_rate /\ b.curr_rate = a.curr_rate
      /\ b.region = a.region /\ b.avg_max = a.avg_max
  BY <1>1, <1>2, <1>4, <1>5, <1>6
<1>8. detected = "Overusing" => b.state = "Decrease"
  BY <1>1, <1>5
<1>9. ControlStep(a, b, TRUE)
  BY <1>2, <1>7 DEF ControlStep, ControlFits
<1> QED BY <1>7, <1>8, <1>9 DEF b

(* The estimate and the time of its change are set to something in bounds.  *)
LEMMA RateSet ==
  ASSUME NEW a, ControlFits(a), NEW v \in Nat, v \in a.min_rate .. a.max_rate, NEW cur_ts \in Nat
  PROVE  LET b == [a EXCEPT !.curr_rate = v]
             d == [a EXCEPT !.curr_rate = v, !.time_last_bitrate_change = cur_ts]
         IN  /\ ControlStep(a, b, v <= a.curr_rate) /\ b.curr_rate = v
             /\ ControlStep(a, d, v <= a.curr_rate) /\ d.curr_rate = v
<1> DEFINE b == [a EXCEPT !.curr_rate = v]
           d == [b EXCEPT !.time_last_bitrate_change = cur_ts]
<1>1. b \in Controls /\ b.min_rate = a.min_rate /\ b.max_rate = a.max_rate /\ b.curr_rate = v
      /\ b.region = a.region /\ b.avg_max = a.avg_max
  BY DEF ControlFits, Controls
<1>2. [a EXCEPT !.curr_rate = v, !.time_last_bitrate_change = cur_ts] = d
  OBVIOUS
<1> HIDE DEF b
<1>3. d \in Controls /\ d.min_rate = a.min_rate /\ d.max_rate = a.max_rate /\ d.curr_rate = v
      /\ d.region = a.region /\ d.avg_max = a.avg_max
  BY <1>1 DEF Controls
<1> HIDE DEF d
<1>4. ControlStep(a, b, v <= a.curr_rate) /\ ControlStep(a, d, v <= a.curr_rate)
  BY <1>1, <1>3 DEF ControlStep, ControlFits
<1> QED BY <1>1, <1>2, <1>3, <1>4 DEF b

LEMMA IncreasedFits ==
  ASSUME NEW a, ControlFits(a), NEW incoming \in Nat, NEW cur_ts \in Nat, NEW d \in Increased(a, incoming, cur_ts)
  PROVE  ControlStep(a, d, FALSE)
<1>1. PICK b \in Forgotten(a, incoming) :
        \E i \in (IF b.region = "NearMax" THEN Increments \cup {0} ELSE Increments) :
           d = [b EXCEPT !.curr_rate = clamp_bitrate(b, b.curr_rate + i, incoming), !.time_last_bitrate_change = cur_ts]
  BY ZenonT(40) DEF Increased
<1>2. PICK i \in Nat :
        d = [b EXCEPT !.curr_rate = clamp_bitrate(b, b.curr_rate + i, incoming), !.time_last_bitrate_change = cur_ts]
  BY <1>1, AimdAssumption
<1>3. ControlFits(b) /\ b.min_rate = a.min_rate /\ b.max_rate = a.max_rate /\ b.curr_rate = a.curr_rate
  <2> DEFINE q  == [a EXCEPT !.region = "MaxUnknown"]
             q2 == [q EXCEPT !.avg_max = Unknown]
  <2>1. b = a \/ b = q2
    BY DEF Forgotten
  <2>2. q \in Controls /\ q.min_rate = a.min_rate /\ q.max_rate = a.max_rate /\ q.curr_rate = a.curr_rate
        /\ q.region = "MaxUnknown"
    BY DEF ControlFits, Controls
  <2> HIDE DEF q
  <2>3. q2 \in Controls /\ q2.min_rate = a.min_rate /\ q2.max_rate = a.max_rate /\ q2.curr_rate = a.curr_rate
        /\ q2.region = "MaxUnknown"
    BY <2>2 DEF Controls
  <2> HIDE DEF q2
  <2> QED BY <2>1, <2>3 DEF ControlFits
<1> DEFINE v == clamp_bitrate(b, b.curr_rate + i, incoming)
<1>4. b.curr_rate + i \in Int /\ incoming \in Int
  BY <1>3 DEF ControlFits, Controls
<1>5. v \in Nat /\ v \in b.min_rate .. b.max_rate
  BY <1>3, <1>4, ClampFits
<1>6. d = [b EXCEPT !.curr_rate = v, !.time_last_bitrate_change = cur_ts]
  BY <1>2
<1> HIDE DEF v
<1>7. ControlStep(b, d, v <= b.curr_rate)
  BY <1>3, <1>5, <1>6, RateSet
<1> QED BY <1>3, <1>7 DEF ControlStep

LEMMA DecreasedFits ==
  ASSUME NEW a, ControlFits(a), NEW incoming \in Nat, NEW cur_ts \in Nat, NEW d \in Decreased(a, incoming, cur_ts)
  PROVE  ControlStep(a, d, TRUE)
<1> DEFINE n == Decrease(a, incoming)
           v == clamp_bitrate(a, n, incoming)
<1>1. PICK avg \in {a.avg_max} \cup (IF incoming < a.avg_max THEN {Unknown} ELSE {}) :
        d = [a EXCEPT !.curr_rate = v, !.region = "NearMax", !.state = "Hold", !.time_last_bitrate_change = cur_ts,
                      !.avg_max = IF avg = Unknown THEN incoming ELSE (19 * avg + incoming) \div 20]
  BY DEF Decreased
<1>2. a \in Controls /\ a.curr_rate \in Nat /\ a.avg_max \in Nat \cup {Unknown}
  BY DEF ControlFits, Controls
<1>3. n \in Int /\ n <= a.curr_rate
  <2>1. Shrunk(incoming) \in Int
    BY DEF Shrunk
  <2>2. Shrunk(a.avg_max) \in Int
    BY <1>2 DEF Shrunk, Unknown
  <2> DEFINE m == IF a.region # "MaxUnknown" THEN Shrunk(a.avg_max) ELSE Shrunk(incoming)
  <2>3. n = IF Shrunk(incoming) <= a.curr_rate THEN Shrunk(incoming) ELSE Lower(a.curr_rate, m)
    BY DEF Decrease
  <2>4. m \in Int
    BY <2>1, <2>2
  <2> HIDE DEF m, n
  <2>5. Lower(a.curr_rate, m) \in Int /\ Lower(a.curr_rate, m) <= a.curr_rate
    BY <1>2, <2>4 DEF Lower, Higher
  <2> QED BY <2>1, <2>3, <2>5
<1>4. v \in Nat /\ v \in a.min_rate .. a.max_rate /\ v <= a.curr_rate
  <2> HIDE DEF n
  <2> QED BY <1>3, ClampFits
<1> HIDE DEF n, v
<1> DEFINE mean == IF avg = Unknown THEN incoming ELSE (19 * avg + incoming) \div 20
           q1 == [a EXCEPT !.curr_rate = v]
           q2 == [q1 EXCEPT !.region = "NearMax"]
           q3 == [q2 EXCEPT !.state = "Hold"]
           q4 == [q3 EXCEPT !.time_last_bitrate_change = cur_ts]
           q5 == [q4 EXCEPT !.avg_max = mean]
<1>5. d = q5
  BY <1>1
<1>6. mean \in Nat
  BY <1>1, <1>2 DEF Unknown
<1> HIDE DEF mean
<1>7. q1 \in Controls /\ q1.min_rate = a.min_rate /\ q1.max_rate = a.max_rate /\ q1.curr_rate = v
  BY <1>2, <1>4 DEF Controls
<1> HIDE DEF q1
<1>8. q2 \in Controls /\ q2.min_rate = a.min_rate /\ q2.max_rate = a.max_rate /\ q2.curr_rate = v
  BY <1>7 DEF Controls
<1> HIDE DEF q2
<1>9. q3 \in Controls /\ q3.min_rate = a.min_rate /\ q3.max_rate = a.max_rate /\ q3.curr_rate = v
  BY <1>8 DEF Controls
<1> HIDE DEF q3
<1>10. q4 \in Controls /\ q4.min_rate = a.min_rate /\ q4.max_rate = a.max_rate /\ q4.curr_rate = v
  BY <1>9 DEF Controls
<1> HIDE DEF q4
<1>11. q5 \in Controls /\ q5.min_rate = a.min_rate /\ q5.max_rate = a.max_rate /\ q5.curr_rate = v /\ q5.avg_max = mean
  BY <1>6, <1>10 DEF Controls
<1> HIDE DEF q5
<1> QED BY <1>4, <1>5, <1>6, <1>11 DEF ControlStep, ControlFits, Unknown

LEMMA AimdUpdateFits ==
  ASSUME NEW a, ControlFits(a), NEW detected \in Findings, NEW acked \in Nat, NEW cur_ts \in Nat,
         NEW d \in aimd_update(a, detected, acked, cur_ts)
  PROVE  ControlStep(a, d, detected = "Overusing")
<1> DEFINE incoming == IF acked = 0 THEN a.curr_rate ELSE acked
           b == aimd_change_state(a, detected, cur_ts)
<1>1. incoming \in Nat
  BY DEF ControlFits, Controls
<1>2. ControlStep(a, b, TRUE) /\ b.curr_rate = a.curr_rate /\ (detected = "Overusing" => b.state = "Decrease")
  BY ChangeStateFits
<1>3. b.state \in {"Hold", "Increase", "Decrease"} /\ ControlFits(b) /\ b.curr_rate \in Nat
  BY <1>2 DEF ControlStep, ControlFits, Controls
<1>4. d \in CASE b.state = "Hold"     -> {[b EXCEPT !.curr_rate = clamp_bitrate(b, b.curr_rate, incoming)]}
              [] b.state = "Increase" -> Increased(b, incoming, cur_ts)
              [] b.state = "Decrease" -> Decreased(b, incoming, cur_ts)
  BY Zenon DEF aimd_update
<1> HIDE DEF b, incoming
<1>5. CASE b.state = "Hold"
  <2> DEFINE v == clamp_bitrate(b, b.curr_rate, incoming)
  <2>1. d = [b EXCEPT !.curr_rate = v]
    BY <1>4, <1>5
  <2>2. v \in Nat /\ v \in b.min_rate .. b.max_rate
    <3>1. incoming \in Int /\ b.curr_rate \in Int
      BY <1>1, <1>3
    <3> QED BY <1>3, <3>1, ClampFits
  <2> HIDE DEF v
  <2>3. ControlStep(b, d, v <= b.curr_rate)
    BY <1>3, <2>1, <2>2, RateSet
  <2>4. detected # "Overusing"
    BY <1>2, <1>5
  <2> QED BY <1>2, <2>3, <2>4 DEF ControlStep
<1>6. CASE b.state = "Increase"
  <2>1. d \in Increased(b, incoming, cur_ts) /\ detected # "Overusing"
    BY <1>2, <1>4, <1>6
  <2>2. ControlStep(b, d, FALSE)
    BY <1>1, <1>3, <2>1, IncreasedFits
  <2> QED BY <1>2, <2>1, <2>2 DEF ControlStep
<1>7. CASE b.state = "Decrease"
  <2>1. d \in Decreased(b, incoming, cur_ts)
    BY <1>4, <1>7
  <2>2. ControlStep(b, d, TRUE)
    BY <1>1, <1>3, <2>1, DecreasedFits
  <2> QED BY <1>2, <2>2 DEF ControlStep
<1> QED BY <1>3, <1>5, <1>6, <1>7

(* What a feedback makes of the control, and whether that is passed on.     *)
DelayStep(a, r, overused) ==
  /\ ControlStep(a, r.aimd, overused)
  /\ r.updated \in BOOLEAN
  /\ ~r.updated => r.aimd.curr_rate = a.curr_rate

LEMMA DelayFits ==
  ASSUME NEW a, ControlFits(a), NEW detected \in Findings, NEW acked \in Nat, NEW cur_ts \in Nat,
         NEW r \in delay_bwe_maybe_update(a, detected, acked, cur_ts)
  PROVE  DelayStep(a, r, detected = "Overusing")
<1> DEFINE v == clamp_bitrate(a, (3 * a.curr_rate) \div 4, (3 * a.curr_rate) \div 4)
<1>1. \/ \E b \in aimd_update(a, detected, acked, cur_ts) : r = [aimd |-> b, updated |-> b.curr_rate # a.curr_rate]
      \/ r = [aimd |-> a, updated |-> FALSE]
      \/ r = [aimd |-> aimd_set_estimate(a, (3 * a.curr_rate) \div 4, cur_ts), updated |-> TRUE]
  BY DEF delay_bwe_maybe_update
<1>2. ASSUME NEW b \in aimd_update(a, detected, acked, cur_ts), r = [aimd |-> b, updated |-> b.curr_rate # a.curr_rate]
      PROVE  DelayStep(a, r, detected = "Overusing")
  <2>1. ControlStep(a, b, detected = "Overusing")
    BY AimdUpdateFits
  <2>2. r.aimd = b /\ r.updated = (b.curr_rate # a.curr_rate)
    BY <1>2
  <2> QED BY <2>1, <2>2 DEF DelayStep
<1>3. CASE r = [aimd |-> a, updated |-> FALSE]
  BY <1>3 DEF DelayStep, ControlStep, ControlFits, Controls
<1>4. CASE r = [aimd |-> aimd_set_estimate(a, (3 * a.curr_rate) \div 4, cur_ts), updated |-> TRUE]
  <2> DEFINE d == [a EXCEPT !.curr_rate = v, !.time_last_bitrate_change = cur_ts]
  <2>1. r.aimd = d /\ r.updated = TRUE
    BY <1>4 DEF aimd_set_estimate
  <2>2. a.curr_rate \in Nat
    BY DEF ControlFits, Controls
  <2> DEFINE x == (3 * a.curr_rate) \div 4
  <2>3. x \in Int /\ x <= a.curr_rate
    BY <2>2
  <2>4. v = clamp_bitrate(a, x, x)
    OBVIOUS
  <2> HIDE DEF x, v
  <2>5. v \in Nat /\ v \in a.min_rate .. a.max_rate /\ v <= a.curr_rate
    BY <2>3, <2>4, ClampFits
  <2>6. ControlStep(a, d, v <= a.curr_rate)
    BY <2>5, RateSet
  <2> HIDE DEF d
  <2> QED BY <2>1, <2>5, <2>6 DEF DelayStep, ControlStep
<1> QED BY <1>1, <1>2, <1>3, <1>4

-----------------------------------------------------------------------------
(* What an update makes of the estimate by loss.                            *)
BoundsKept(e, d) ==
  /\ EstimationFits(d)
  /\ d.min_conf_bitrate = e.min_conf_bitrate /\ d.delay_base_bitrate = e.delay_base_bitrate
  /\ d.last_fraction_loss = e.last_fraction_loss /\ d.first_report_ts = e.first_report_ts

(* Why an estimate rose.                                                    *)
RoseBy(e, acked, d) ==
  d.curr_bitrate > e.curr_bitrate
  => \/ d.last_decrease_ts # e.last_decrease_ts /\ d.curr_bitrate <= acked
     \/ d.curr_bitrate <= RaisedByStep(d.min_bitrates[1].bitrate)

Reaction(e, acked, d) == BoundsKept(e, d) /\ d.min_bitrates = e.min_bitrates /\ RoseBy(e, acked, d)

(* A share of the loss leaves no more than there was.                       *)
LEMMA ShareOfLoss ==
  ASSUME NEW c \in Nat, NEW f \in Nat
  PROVE  (c * (512 - f)) \div 512 \in Int /\ (c * (512 - f)) \div 512 <= c
<1>1. c * (512 - f) \in Int
  OBVIOUS
<1>2. c * f >= 0
  OBVIOUS
<1>3. c * (512 - f) = 512 * c - c * f
  OBVIOUS
<1>4. c * (512 - f) <= 512 * c
  BY <1>1, <1>2, <1>3
<1> DEFINE x == c * (512 - f)
<1>5. x \in Int /\ x <= 512 * c
  BY <1>1, <1>4
<1> HIDE DEF x
<1>6. x \div 512 \in Int /\ x \div 512 <= c
  BY <1>5
<1> QED BY <1>6 DEF x

(* What is limited to no more than there was does not rise.                 *)
LEMMA NoRise ==
  ASSUME NEW e, EstimationFits(e), NEW b \in Nat, b <= e.curr_bitrate, NEW acked
  PROVE  Reaction(e, acked, Capped(e, b))
<1> DEFINE d == Capped(e, b)
<1>1. /\ e \in Estimations /\ e.curr_bitrate \in Nat /\ e.min_conf_bitrate \in Nat /\ e.max_conf_bitrate \in Nat
      /\ e.min_conf_bitrate <= e.curr_bitrate /\ e.curr_bitrate <= e.max_conf_bitrate
  BY DEF EstimationFits, Estimations
<1>2. CappedTo(e, b, d)
  BY <1>1, CappedFits
<1> HIDE DEF d
<1>3. d.curr_bitrate \in Nat
  BY <1>2 DEF CappedTo, Estimations
<1>4. BoundsKept(e, d) /\ d.min_bitrates = e.min_bitrates
  BY <1>1, <1>2 DEF CappedTo, OthersKept, BoundsKept, EstimationFits
<1>5. d.curr_bitrate <= e.curr_bitrate
  BY <1>1, <1>2 DEF CappedTo
<1> QED BY <1>1, <1>3, <1>4, <1>5 DEF Reaction, RoseBy, d

LEMMA ReactedFits ==
  ASSUME NEW e, EstimationFits(e), Len(e.min_bitrates) # 0, NEW cur_ts \in Nat, NEW acked \in Nat, NEW steady \in BOOLEAN
  PROVE  Reaction(e, acked, Reacted(e, cur_ts, acked, steady))
<1> DEFINE c == e.curr_bitrate
           d == Reacted(e, cur_ts, acked, steady)
           first == e.min_bitrates[1]
           x == (c * (512 - e.last_fraction_loss)) \div 512
           q1 == [e EXCEPT !.last_decrease_ts = cur_ts]
           q2 == [q1 EXCEPT !.has_decreased = TRUE]
           p1 == [e EXCEPT !.lost_Q8 = 0]
           p2 == [p1 EXCEPT !.expected = 0]
           p3 == [p2 EXCEPT !.last_timeout_ts = cur_ts]
<1>1. /\ e \in Estimations /\ c \in Nat /\ e.min_conf_bitrate \in Nat /\ e.max_conf_bitrate \in Nat
      /\ e.min_conf_bitrate <= c /\ c <= e.max_conf_bitrate /\ e.last_fraction_loss \in Nat
      /\ e.last_decrease_ts \in Int /\ e.last_rtt \in Nat /\ e.min_bitrates \in Seq(Estimates) /\ cur_ts \in Int
  BY DEF EstimationFits, Estimations
<1>2. \/ d = Capped(e, c)
      \/ d = Capped(e, RaisedByStep(first.bitrate))
      \/ MayDecrease(e, cur_ts) /\ d = Capped(q2, Max({acked, x}))
      \/ d = Capped(p3, (c * 4) \div 5)
  BY DEF Reacted
<1> HIDE DEF d
<1>3. CASE d = Capped(e, c)
  BY <1>1, <1>3, NoRise DEF d
<1>4. CASE d = Capped(e, RaisedByStep(first.bitrate))
  <2>1. first.bitrate \in Nat
    <3>1. Len(e.min_bitrates) \in Nat /\ 1 \in 1 .. Len(e.min_bitrates)
      BY <1>1
    <3> QED BY <1>1, <3>1, HistoryElements
  <2> HIDE DEF first
  <2> DEFINE b == RaisedByStep(first.bitrate)
  <2>2. b \in Nat
    BY <2>1, EstimationAssumption DEF RaisedByStep
  <2> HIDE DEF b
  <2>3. CappedTo(e, b, d)
    BY <1>1, <1>4, <2>2, CappedFits DEF b
  <2>4. BoundsKept(e, d) /\ d.min_bitrates = e.min_bitrates
    BY <1>1, <2>3 DEF CappedTo, OthersKept, BoundsKept, EstimationFits
  <2>5. d.curr_bitrate \in Nat /\ (d.curr_bitrate <= b \/ d.curr_bitrate <= c)
    BY <1>1, <2>3 DEF CappedTo, Estimations
  <2>6. d.curr_bitrate > c => d.curr_bitrate <= RaisedByStep(d.min_bitrates[1].bitrate)
    <3>1. d.curr_bitrate > c => d.curr_bitrate <= b
      BY <1>1, <2>5
    <3> QED BY <2>4, <3>1 DEF b, first
  <2> QED BY <2>4, <2>6 DEF Reaction, RoseBy, d
<1>5. CASE MayDecrease(e, cur_ts) /\ d = Capped(q2, Max({acked, x}))
  <2>1. x \in Int /\ x <= c
    <3>1. c \in Nat /\ e.last_fraction_loss \in Nat
      BY <1>1
    <3> HIDE DEF c
    <3> QED BY <3>1, ShareOfLoss
  <2> HIDE DEF x
  <2> DEFINE b == Max({acked, x})
  <2>2. b \in Nat /\ (b = acked \/ b <= c)
    BY <1>1, <2>1, MaxOfTwo
  <2>3. /\ q1 \in Estimations /\ q1.curr_bitrate = c /\ q1.min_conf_bitrate = e.min_conf_bitrate
        /\ q1.max_conf_bitrate = e.max_conf_bitrate /\ q1.delay_base_bitrate = e.delay_base_bitrate
        /\ q1.last_fraction_loss = e.last_fraction_loss /\ q1.first_report_ts = e.first_report_ts
        /\ q1.min_bitrates = e.min_bitrates /\ q1.last_decrease_ts = cur_ts
    BY <1>1 DEF Estimations
  <2> HIDE DEF q1
  <2>4. /\ q2 \in Estimations /\ q2.curr_bitrate = c /\ q2.min_conf_bitrate = e.min_conf_bitrate
        /\ q2.max_conf_bitrate = e.max_conf_bitrate /\ q2.delay_base_bitrate = e.delay_base_bitrate
        /\ q2.last_fraction_loss = e.last_fraction_loss /\ q2.first_report_ts = e.first_report_ts
        /\ q2.min_bitrates = e.min_bitrates /\ q2.last_decrease_ts = cur_ts
    BY <2>3 DEF Estimations
  <2> HIDE DEF q2
  <2>5. d = Capped(q2, b)
    BY <1>5
  <2> HIDE DEF b
  <2>6. CappedTo(q2, b, d)
    BY <1>1, <2>2, <2>4, <2>5, CappedFits
  <2>7. /\ BoundsKept(e, d) /\ d.min_bitrates = e.min_bitrates /\ d.last_decrease_ts = cur_ts
    BY <1>1, <2>4, <2>6 DEF CappedTo, OthersKept, BoundsKept, EstimationFits
  <2>8. d.curr_bitrate \in Nat /\ (d.curr_bitrate <= b \/ d.curr_bitrate <= c)
    BY <1>1, <2>4, <2>6 DEF CappedTo, Estimations
  <2>9. cur_ts # e.last_decrease_ts
    BY <1>1, <1>5, EstimationAssumption DEF MayDecrease
  <2>10. d.curr_bitrate > c => d.curr_bitrate <= acked
    BY <1>1, <2>2, <2>8
  <2> QED BY <2>7, <2>9, <2>10 DEF Reaction, RoseBy, d
<1>6. CASE d = Capped(p3, (c * 4) \div 5)
  <2> DEFINE b == (c * 4) \div 5
  <2>1. b \in Nat /\ b <= c
    BY <1>1
  <2>2. /\ p1 \in Estimations /\ p1.curr_bitrate = c /\ p1.min_conf_bitrate = e.min_conf_bitrate
        /\ p1.max_conf_bitrate = e.max_conf_bitrate /\ p1.delay_base_bitrate = e.delay_base_bitrate
        /\ p1.last_fraction_loss = e.last_fraction_loss /\ p1.first_report_ts = e.first_report_ts
        /\ p1.min_bitrates = e.min_bitrates /\ p1.last_decrease_ts = e.last_decrease_ts
    BY <1>1 DEF Estimations
  <2> HIDE DEF p1
  <2>3. /\ p2 \in Estimations /\ p2.curr_bitrate = c /\ p2.min_conf_bitrate = e.min_conf_bitrate
        /\ p2.max_conf_bitrate = e.max_conf_bitrate /\ p2.delay_base_bitrate = e.delay_base_bitrate
        /\ p2.last_fraction_loss = e.last_fraction_loss /\ p2.first_report_ts = e.first_report_ts
        /\ p2.min_bitrates = e.min_bitrates /\ p2.last_decrease_ts = e.last_decrease_ts
    BY <2>2 DEF Estimations
  <2> HIDE DEF p2
  <2>4. /\ p3 \in Estimations /\ p3.curr_bitrate = c /\ p3.min_conf_bitrate = e.min_conf_bitrate
        /\ p3.max_conf_bitrate = e.max_conf_bitrate /\ p3.delay_base_bitrate = e.delay_base_bitrate
        /\ p3.last_fraction_loss = e.last_fraction_loss /\ p3.first_report_ts = e.first_report_ts
        /\ p3.min_bitrates = e.min_bitrates /\ p3.last_decrease_ts = e.last_decrease_ts
    BY <1>1, <2>3 DEF Estimations
  <2> HIDE DEF p3
  <2>5. d = Capped(p3, b)
    BY <1>6
  <2> HIDE DEF b
  <2>6. EstimationFits(p3)
    BY <1>1, <2>4 DEF EstimationFits
  <2>7. Reaction(p3, acked, d)
    BY <2>1, <2>4, <2>5, <2>6, NoRise
  <2>8. BoundsKept(e, d) /\ d.min_bitrates = e.min_bitrates
    BY <2>4, <2>7 DEF Reaction, BoundsKept
  <2>9. RoseBy(e, acked, d)
    BY <2>4, <2>7 DEF Reaction, RoseBy
  <2> QED BY <2>8, <2>9 DEF Reaction, d
<1> QED BY <1>2, <1>3, <1>4, <1>5, <1>6

(* The greatest of what the first seconds may start with.                   *)
LEMMA StartedFits ==
  ASSUME NEW e \in Estimations, NEW cur_ts \in Nat
  PROVE  /\ Started(e, cur_ts) \in Nat
         /\ Started(e, cur_ts) # e.curr_bitrate => e.last_fraction_loss = 0 /\ is_start_phare(e, cur_ts)
<1> DEFINE S == {e.bwe_incoming, e.delay_base_bitrate, e.curr_bitrate}
           n == e.bwe_incoming + e.delay_base_bitrate + e.curr_bitrate
<1>1. e.bwe_incoming \in Nat /\ e.delay_base_bitrate \in Nat /\ e.curr_bitrate \in Nat
  BY DEF Estimations
<1>2. n \in Nat /\ S \subseteq 0 .. n /\ S # {}
  BY <1>1
<1> HIDE DEF n
<1>3. Max(S) \in S
  BY <1>2, MaxIsGreatest
<1>4. Max(S) \in Nat
  BY <1>1, <1>3
<1> QED BY <1>1, <1>4 DEF Started

(* An update: in the first seconds it may start anew, otherwise it reacts   *)
(* from the least of its history.                                           *)
Updated(e, cur_ts, acked, d) ==
  /\ BoundsKept(e, d)
  /\ IF Started(e, cur_ts) # e.curr_bitrate
     THEN /\ e.last_fraction_loss = 0 /\ is_start_phare(e, cur_ts)
          /\ d.min_bitrates = <<[ts |-> cur_ts, bitrate |-> e.curr_bitrate]>>
     ELSE /\ d.min_bitrates = sender_estimation_update_history(e, cur_ts).min_bitrates
          /\ RoseBy(e, acked, d)

LEMMA UpdateFits ==
  ASSUME NEW e, EstimationFits(e), NEW cur_ts \in Nat, NEW acked \in Nat, NEW steady \in BOOLEAN
  PROVE  Updated(e, cur_ts, acked, sender_estimation_update(e, cur_ts, acked, steady))
<1> DEFINE d == sender_estimation_update(e, cur_ts, acked, steady)
           c == e.curr_bitrate
<1>1. /\ e \in Estimations /\ c \in Nat /\ e.min_conf_bitrate \in Nat /\ e.max_conf_bitrate \in Nat
      /\ e.min_conf_bitrate <= c /\ c <= e.max_conf_bitrate
  BY DEF EstimationFits, Estimations
<1>2. CASE Started(e, cur_ts) # c
  <2> DEFINE first == [ts |-> cur_ts, bitrate |-> c]
             h == <<first>>
             q == [e EXCEPT !.min_bitrates = h]
             b == Started(e, cur_ts)
  <2>1. b \in Nat /\ e.last_fraction_loss = 0 /\ is_start_phare(e, cur_ts)
    BY <1>1, <1>2, StartedFits
  <2>2. d = Capped(q, b)
    BY <1>2 DEF sender_estimation_update
  <2>3. h \in Seq(Estimates)
    <3>1. first \in Estimates
      BY <1>1 DEF Estimates
    <3> HIDE DEF first
    <3> QED BY <3>1
  <2> HIDE DEF h, b, d
  <2>4. /\ q \in Estimations /\ q.min_conf_bitrate = e.min_conf_bitrate
        /\ q.max_conf_bitrate = e.max_conf_bitrate /\ q.delay_base_bitrate = e.delay_base_bitrate
        /\ q.last_fraction_loss = e.last_fraction_loss /\ q.first_report_ts = e.first_report_ts
        /\ q.min_bitrates = h
    BY <1>1, <2>3 DEF Estimations
  <2> HIDE DEF q
  <2>5. CappedTo(q, b, d)
    <3>1. q.min_conf_bitrate <= q.max_conf_bitrate
      BY <1>1, <2>4
    <3> QED BY <2>1, <2>2, <2>4, <3>1, CappedFits
  <2>6. BoundsKept(e, d) /\ d.min_bitrates = h
    BY <1>1, <2>4, <2>5 DEF CappedTo, OthersKept, BoundsKept, EstimationFits
  <2> QED BY <1>2, <2>1, <2>6 DEF Updated, h, d
<1>3. CASE Started(e, cur_ts) = c
  <2> DEFINE q == sender_estimation_update_history(e, cur_ts)
  <2>1. d = Reacted(q, cur_ts, acked, steady)
    BY <1>3 DEF sender_estimation_update
  <2>2. q \in Estimations /\ q.curr_bitrate = c /\ OthersKept([e EXCEPT !.min_bitrates = q.min_bitrates], q)
        /\ Len(q.min_bitrates) # 0
    BY <1>1, HistoryTyped
  <2> HIDE DEF q, d
  <2>3. /\ q.min_conf_bitrate = e.min_conf_bitrate /\ q.max_conf_bitrate = e.max_conf_bitrate
        /\ q.delay_base_bitrate = e.delay_base_bitrate /\ q.last_fraction_loss = e.last_fraction_loss
        /\ q.first_report_ts = e.first_report_ts /\ q.last_decrease_ts = e.last_decrease_ts
    BY <1>1, <2>2 DEF OthersKept, Estimations
  <2>4. EstimationFits(q)
    BY <1>1, <2>2, <2>3 DEF EstimationFits
  <2>5. Reaction(q, acked, d)
    BY <2>1, <2>2, <2>4, ReactedFits
  <2>6. BoundsKept(e, d) /\ d.min_bitrates = q.min_bitrates
    BY <2>3, <2>5 DEF Reaction, BoundsKept
  <2>7. RoseBy(e, acked, d)
    BY <2>2, <2>3, <2>5 DEF Reaction, RoseBy
  <2> QED BY <1>3, <2>6, <2>7 DEF Updated, q, d
<1> QED BY <1>2, <1>3

(* A loss report: too little is only added up, enough is an update.         *)
Block(e, number, cur_ts, acked, d) ==
  IF e.expected + number < k_limit_num_packets
  THEN /\ EstimationFits(d) /\ d.curr_bitrate = e.curr_bitrate /\ d.min_bitrates = e.min_bitrates
       /\ d.min_conf_bitrate = e.min_conf_bitrate /\ d.delay_base_bitrate = e.delay_base_bitrate
  ELSE \E q : /\ EstimationFits(q) /\ q.curr_bitrate = e.curr_bitrate /\ q.min_bitrates = e.min_bitrates
              /\ q.min_conf_bitrate = e.min_conf_bitrate /\ q.delay_base_bitrate = e.delay_base_bitrate
              /\ q.bwe_incoming = e.bwe_incoming /\ q.last_decrease_ts = e.last_decrease_ts
              /\ Updated(q, cur_ts, acked, d)

(* An estimation that differs in the counts of a report only.               *)
SameRates(e, d) ==
  /\ d \in Estimations /\ d.curr_bitrate = e.curr_bitrate /\ d.min_conf_bitrate = e.min_conf_bitrate
  /\ d.max_conf_bitrate = e.max_conf_bitrate /\ d.bwe_incoming = e.bwe_incoming
  /\ d.delay_base_bitrate = e.delay_base_bitrate /\ d.min_bitrates = e.min_bitrates
  /\ d.last_decrease_ts = e.last_decrease_ts

LEMMA BlockFits ==
  ASSUME NEW e, EstimationFits(e), NEW fraction \in Nat, NEW number \in Nat, NEW rtt \in Nat, NEW cur_ts \in Nat,
         NEW acked \in Nat, NEW steady \in BOOLEAN
  PROVE  Block(e, number, cur_ts, acked, sender_estimation_update_block(e, fraction, rtt, number, cur_ts, acked, steady))
<1> DEFINE d  == sender_estimation_update_block(e, fraction, rtt, number, cur_ts, acked, steady)
           rtt2   == IF rtt > 0 THEN rtt ELSE e.last_rtt
           first2 == IF e.first_report_ts = Never THEN cur_ts ELSE e.first_report_ts
           lost2  == e.lost_Q8 + fraction * number
           expected2 == e.expected + number
           q1 == [e EXCEPT !.last_feelback_ts = cur_ts]
           q2 == [q1 EXCEPT !.last_rtt = rtt2]
           q3 == [q2 EXCEPT !.first_report_ts = first2]
           q4 == [q3 EXCEPT !.lost_Q8 = lost2]
           q5 == [q4 EXCEPT !.expected = expected2]
           loss2 == q5.lost_Q8 \div q5.expected
           r1 == [q5 EXCEPT !.has_decreased = FALSE]
           r2 == [r1 EXCEPT !.last_fraction_loss = loss2]
           r3 == [r2 EXCEPT !.lost_Q8 = 0]
           r4 == [r3 EXCEPT !.expected = 0]
           r5 == [r4 EXCEPT !.last_packet_report_ts = cur_ts]
<1>1. /\ e \in Estimations /\ e.last_rtt \in Nat /\ e.first_report_ts \in Int /\ e.lost_Q8 \in Nat /\ e.expected \in Nat
      /\ cur_ts \in Int /\ k_limit_num_packets \in Nat \ {0}
  BY EstimationAssumption DEF EstimationFits, Estimations
<1>2. d = IF q5.expected < k_limit_num_packets THEN q5 ELSE sender_estimation_update(r5, cur_ts, acked, steady)
  BY DEF sender_estimation_update_block
<1>3. rtt2 \in Nat /\ first2 \in Int /\ expected2 \in Nat
  BY <1>1
<1>4. lost2 \in Nat
  <2>1. fraction * number \in Nat
    OBVIOUS
  <2> QED BY <1>1, <2>1
<1> HIDE DEF rtt2, first2, lost2, expected2, d
<1>5. SameRates(e, q1)
  BY <1>1 DEF SameRates, Estimations
<1> HIDE DEF q1
<1>6. SameRates(e, q2)
  BY <1>3, <1>5 DEF SameRates, Estimations
<1> HIDE DEF q2
<1>7. SameRates(e, q3)
  BY <1>3, <1>6 DEF SameRates, Estimations
<1> HIDE DEF q3
<1>8. SameRates(e, q4) /\ q4.lost_Q8 = lost2
  BY <1>4, <1>7 DEF SameRates, Estimations
<1> HIDE DEF q4
<1>9. SameRates(e, q5) /\ q5.expected = expected2 /\ q5.lost_Q8 = lost2
  BY <1>3, <1>8 DEF SameRates, Estimations
<1> HIDE DEF q5
<1>10. CASE expected2 < k_limit_num_packets
  <2>1. d = q5
    BY <1>2, <1>9, <1>10
  <2>2. Block(e, number, cur_ts, acked, d)
    BY <1>9, <1>10, <2>1 DEF Block, SameRates, EstimationFits, expected2
  <2> QED BY <2>2 DEF d
<1>11. CASE ~(expected2 < k_limit_num_packets)
  <2>1. d = sender_estimation_update(r5, cur_ts, acked, steady)
    BY <1>2, <1>9, <1>11
  <2>2. loss2 \in Nat
    <3>1. expected2 \in Nat \ {0}
      BY <1>1, <1>3, <1>11
    <3> QED BY <1>4, <1>9, <3>1
  <2> HIDE DEF loss2
  <2>3. SameRates(e, r1)
    BY <1>9 DEF SameRates, Estimations
  <2> HIDE DEF r1
  <2>4. SameRates(e, r2)
    BY <2>2, <2>3 DEF SameRates, Estimations
  <2> HIDE DEF r2
  <2>5. SameRates(e, r3)
    BY <2>4 DEF SameRates, Estimations
  <2> HIDE DEF r3
  <2>6. SameRates(e, r4)
    BY <2>5 DEF SameRates, Estimations
  <2> HIDE DEF r4
  <2>7. SameRates(e, r5)
    BY <1>1, <2>6 DEF SameRates, Estimations
  <2> HIDE DEF r5
  <2>8. EstimationFits(r5)
    BY <2>7 DEF SameRates, EstimationFits
  <2>9. Updated(r5, cur_ts, acked, d)
    BY <2>1, <2>8, UpdateFits
  <2>10. \E q : /\ EstimationFits(q) /\ q.curr_bitrate = e.curr_bitrate /\ q.min_bitrates = e.min_bitrates
                /\ q.min_conf_bitrate = e.min_conf_bitrate /\ q.delay_base_bitrate = e.delay_base_bitrate
                /\ q.bwe_incoming = e.bwe_incoming /\ q.last_decrease_ts = e.last_decrease_ts
                /\ Updated(q, cur_ts, acked, d)
    BY <2>7, <2>8, <2>9 DEF SameRates
  <2> QED BY <1>11, <2>10 DEF Block, expected2, d
<1> QED BY <1>10, <1>11

-----------------------------------------------------------------------------
(* What is told.                                                            *)
LEMMA TriggeredFits ==
  ASSUME NEW c, NoticeTimely(c, gccTime), NEW e \in Estimations, gccTime \in Nat
  PROVE  /\ NoticeFits(Triggered(c, e), e, gccTime) /\ Triggered(c, e).paced = e.curr_bitrate
         /\ Triggered(c, e).notify_ts = gccTime
<1> DEFINE q1 == [c EXCEPT !.last_bitrate_bps = e.curr_bitrate]
           q2 == [q1 EXCEPT !.last_fraction_loss = e.last_fraction_loss]
           q3 == [q2 EXCEPT !.last_rtt = e.last_rtt]
           q4 == [q3 EXCEPT !.notify_ts = gccTime]
           q5 == [q4 EXCEPT !.paced = e.curr_bitrate]
<1>1. /\ e.curr_bitrate \in Nat /\ e.last_fraction_loss \in Nat /\ e.last_rtt \in Nat /\ c \in Notices
      /\ c.last_bitrate_update_ts \in Nat
  BY DEF Estimations, NoticeTimely, Notices
<1>2. Triggered(c, e) = q5
  BY DEF Triggered
<1>3. q1 \in Notices /\ q1.last_bitrate_bps = e.curr_bitrate /\ q1.last_bitrate_update_ts = c.last_bitrate_update_ts
  BY <1>1 DEF Notices
<1> HIDE DEF q1
<1>4. q2 \in Notices /\ q2.last_bitrate_bps = e.curr_bitrate /\ q2.last_bitrate_update_ts = c.last_bitrate_update_ts
  BY <1>1, <1>3 DEF Notices
<1> HIDE DEF q2
<1>5. q3 \in Notices /\ q3.last_bitrate_bps = e.curr_bitrate /\ q3.last_bitrate_update_ts = c.last_bitrate_update_ts
  BY <1>1, <1>4 DEF Notices
<1> HIDE DEF q3
<1>6. q4 \in Notices /\ q4.last_bitrate_bps = e.curr_bitrate /\ q4.last_bitrate_update_ts = c.last_bitrate_update_ts
      /\ q4.notify_ts = gccTime
  BY <1>1, <1>5 DEF Notices
<1> HIDE DEF q4
<1>7. q5 \in Notices /\ q5.last_bitrate_bps = e.curr_bitrate /\ q5.last_bitrate_update_ts = c.last_bitrate_update_ts
      /\ q5.notify_ts = gccTime /\ q5.paced = e.curr_bitrate
  BY <1>1, <1>6 DEF Notices
<1> HIDE DEF q5
<1>8. c.last_bitrate_update_ts < gccTime + k_normal_notify_timer /\ c.last_bitrate_update_ts <= gccTime
  BY <1>1, InputsAssumption DEF NoticeTimely
<1> QED BY <1>2, <1>7, <1>8 DEF NoticeFits, NoticeTimely

(* The estimate is told where that is new, and then the pacer has it.       *)
Heard(c, e, t) ==
  /\ NoticeFits(t, e, gccTime)
  /\ t.paced = e.curr_bitrate \/ t = c

LEMMA ToldFits ==
  ASSUME NEW c, NoticeTimely(c, gccTime), NEW e \in Estimations, gccTime \in Nat
  PROVE  Heard(c, e, Told(c, e))
<1>1. CASE Changed(c, e)
  BY <1>1, TriggeredFits DEF Told, Heard
<1>2. CASE ~Changed(c, e)
  BY <1>2 DEF Told, Heard, Changed, NoticeFits
<1> QED BY <1>1, <1>2

LEMMA NotifiedFits ==
  ASSUME NEW c, NoticeTimely(c, gccTime), NEW e \in Estimations, gccTime \in Nat
  PROVE  /\ Heard(c, e, Notified(c, e))
         /\ gccTime < Notified(c, e).notify_ts + k_normal_notify_timer
<1>1. CASE Changed(c, e) \/ c.notify_ts + k_normal_notify_timer <= gccTime
  <2>1. Notified(c, e) = Triggered(c, e)
    BY <1>1 DEF Notified
  <2> QED BY <2>1, TriggeredFits, InputsAssumption DEF Heard
<1>2. CASE ~(Changed(c, e) \/ c.notify_ts + k_normal_notify_timer <= gccTime)
  <2>1. Notified(c, e) = c /\ Heard(c, e, c)
    BY <1>2 DEF Notified, Heard, Changed, NoticeFits
  <2>2. c.notify_ts \in Nat
    BY DEF NoticeTimely, Notices
  <2> QED BY <1>2, <2>1, <2>2, InputsAssumption
<1> QED BY <1>1, <1>2

-----------------------------------------------------------------------------
(* The settings, the feedbacks and the heartbeats keep RateInv.             *)
LEMMA RateInvInit ==
  ASSUME GccSenderInit
  PROVE  RateInv
<1>1. PICK s \in Settings :
        /\ aimd = aimd_create(s.min, Start(s), s.max)
        /\ est = SetBitrates(sender_estimation_create(1, s.max), s)
        /\ ctrl = [last_bitrate_bps |-> Start(s), last_fraction_loss |-> 0, last_rtt |-> 0,
                   last_bitrate_update_ts |-> 0, notify_ts |-> 0, paced |-> Start(s)]
  BY DEF GccSenderInit
<1>2. /\ s.min \in Nat \ {0} /\ s.max \in Nat /\ s.min <= s.max
      /\ Start(s) \in Nat /\ Start(s) \in s.min .. s.max
  BY StartFits
<1>3. gccTime = 0 /\ calls = 1 /\ kept = FALSE
  BY DEF GccSenderInit
<1>4. ControlFits(aimd) /\ aimd.min_rate = s.min
  BY <1>1, <1>2 DEF aimd_create, ControlFits, Controls
<1> DEFINE e == sender_estimation_create(1, s.max)
           none == <<>>
<1>5. e \in Estimations /\ e.bwe_incoming = 0 /\ e.delay_base_bitrate = 0 /\ e.min_conf_bitrate = 1
  <2>1. none \in Seq(Estimates)
    OBVIOUS
  <2>2. e = [curr_bitrate |-> 0, min_conf_bitrate |-> 1, max_conf_bitrate |-> s.max, bwe_incoming |-> 0,
             delay_base_bitrate |-> 0, state |-> "Normal", last_fraction_loss |-> 0, has_decreased |-> FALSE,
             last_rtt |-> 0, lost_Q8 |-> 0, expected |-> 0, last_feelback_ts |-> Never,
             last_packet_report_ts |-> Never, last_timeout_ts |-> Never, first_report_ts |-> Never,
             last_decrease_ts |-> 0, min_bitrates |-> none]
    BY DEF sender_estimation_create
  <2> HIDE DEF none
  <2>3. e.bwe_incoming = 0 /\ e.delay_base_bitrate = 0 /\ e.min_conf_bitrate = 1
    BY <2>2
  <2>4. /\ 0 \in Nat /\ 1 \in Nat \ {0} /\ s.max \in Nat /\ "Normal" \in Findings /\ FALSE \in BOOLEAN /\ Never \in Int
        /\ 0 \in Int
    BY <1>2 DEF Findings, Never
  <2> HIDE DEF e
  <2>5. e \in Estimations
    BY <2>1, <2>2, <2>4, Zenon DEF Estimations
  <2> QED BY <2>3, <2>5
<1> HIDE DEF e
<1>6. BitratesSet(e, s, est)
  BY <1>1, <1>5, SetBitratesFits DEF e
<1>7. EstimationFits(est) /\ s.min <= est.min_conf_bitrate /\ est.curr_bitrate = Start(s)
  BY <1>2, <1>5, <1>6 DEF BitratesSet
<1>8. NoticeFits(ctrl, est, gccTime)
  BY <1>1, <1>2, <1>3, <1>7, InputsAssumption DEF NoticeFits, NoticeTimely, Notices
<1> QED BY <1>3, <1>4, <1>7, <1>8 DEF RateInv

LEMMA RateInvSet ==
  ASSUME RateInv, NEW s \in Settings, sender_cc_set_bitrates(s)
  PROVE  RateInv'
<1>1. /\ s.min \in Nat \ {0} /\ s.max \in Nat /\ s.min <= s.max
      /\ Start(s) \in Nat /\ Start(s) \in s.min .. s.max
  BY StartFits
<1>2. /\ aimd' = aimd_set_bitrates(aimd, s.min, Start(s), s.max) /\ est' = SetBitrates(est, s)
      /\ ctrl' = [Told(ctrl, est') EXCEPT !.paced = Start(s)] /\ kept' = FALSE /\ gccTime' = gccTime
      /\ calls' = calls + 1
  BY DEF sender_cc_set_bitrates
<1>3. /\ aimd \in Controls /\ est \in Estimations /\ gccTime \in Nat /\ calls \in Nat /\ NoticeTimely(ctrl, gccTime)
      /\ (aimd.region = "NearMax" => aimd.avg_max # Unknown)
  BY DEF RateInv, ControlFits, EstimationFits, NoticeFits
<1>4. ControlFits(aimd') /\ aimd'.min_rate = s.min
  <2> DEFINE q1 == [aimd EXCEPT !.min_rate = s.min]
             q2 == [q1 EXCEPT !.max_rate = s.max]
             q3 == [q2 EXCEPT !.curr_rate = Start(s)]
  <2>1. aimd' = q3
    BY <1>2 DEF aimd_set_bitrates
  <2>2. q1 \in Controls /\ q1.min_rate = s.min /\ q1.region = aimd.region /\ q1.avg_max = aimd.avg_max
    BY <1>1, <1>3 DEF Controls
  <2> HIDE DEF q1
  <2>3. q2 \in Controls /\ q2.min_rate = s.min /\ q2.max_rate = s.max /\ q2.region = aimd.region
        /\ q2.avg_max = aimd.avg_max
    BY <1>1, <2>2 DEF Controls
  <2> HIDE DEF q2
  <2>4. q3 \in Controls /\ q3.min_rate = s.min /\ q3.max_rate = s.max /\ q3.curr_rate = Start(s)
        /\ q3.region = aimd.region /\ q3.avg_max = aimd.avg_max
    BY <1>1, <2>3 DEF Controls
  <2> HIDE DEF q3
  <2> QED BY <1>1, <1>3, <2>1, <2>4 DEF ControlFits
<1>5. EstimationFits(est') /\ s.min <= est'.min_conf_bitrate
  <2>1. BitratesSet(est, s, est')
    BY <1>2, <1>3, SetBitratesFits
  <2> QED BY <2>1 DEF BitratesSet
<1>6. NoticeFits(ctrl', est', gccTime')
  <2> DEFINE t == Told(ctrl, est')
  <2>1. Heard(ctrl, est', t)
    BY <1>3, <1>5, ToldFits DEF EstimationFits
  <2> HIDE DEF t
  <2>2. ctrl' = [t EXCEPT !.paced = Start(s)] /\ t \in Notices
    BY <1>2, <2>1 DEF t, Heard, NoticeFits, NoticeTimely
  <2>3. /\ ctrl' \in Notices /\ ctrl'.last_bitrate_bps = t.last_bitrate_bps
        /\ ctrl'.last_bitrate_update_ts = t.last_bitrate_update_ts /\ ctrl'.notify_ts = t.notify_ts
    BY <1>1, <2>2 DEF Notices
  <2> QED BY <1>2, <2>1, <2>3 DEF Heard, NoticeFits, NoticeTimely
<1>7. gccTime' \in Nat /\ calls' \in Nat /\ kept' = FALSE
  BY <1>2, <1>3
<1>8. aimd'.min_rate <= est'.min_conf_bitrate
  BY <1>4, <1>5
<1> QED BY <1>4, <1>5, <1>6, <1>7, <1>8 DEF RateInv

(* A feedback, step by step: the control and the estimations d, e1 and e2   *)
(* that come of one another.                                                *)
DelayHeard(detected, d) ==
  /\ ControlStep(aimd, d.aimd, detected = "Overusing")
  /\ d.updated \in BOOLEAN
  /\ EstimationFits(d.est) /\ d.est.curr_bitrate <= est.curr_bitrate
  /\ d.est.min_conf_bitrate = est.min_conf_bitrate /\ d.est.min_bitrates = est.min_bitrates
  /\ d.est.last_decrease_ts = est.last_decrease_ts
  /\ IF d.updated THEN d.est.delay_base_bitrate = d.aimd.curr_rate
     ELSE d.est = est /\ d.aimd.curr_rate = aimd.curr_rate

LEMMA DelayHeardFits ==
  ASSUME RateInv, NEW detected \in Detected, NEW acked \in Nat,
         NEW d \in IF detected = "Nothing" THEN Undelayed ELSE ByDelay(detected, acked)
  PROVE  DelayHeard(detected, d)
<1>1. ControlFits(aimd) /\ EstimationFits(est) /\ gccTime \in Nat
  BY DEF RateInv
<1>2. aimd.curr_rate \in Nat /\ est.curr_bitrate \in Nat
  BY <1>1 DEF ControlFits, Controls, EstimationFits, Estimations
<1>3. CASE detected = "Nothing"
  <2>1. d = [aimd |-> aimd, updated |-> FALSE, est |-> est]
    BY <1>3 DEF Undelayed
  <2> QED BY <1>1, <1>2, <2>1 DEF DelayHeard, ControlStep
<1>4. CASE detected # "Nothing"
  <2>1. detected \in Findings
    BY <1>4 DEF Detected, Findings
  <2>2. PICK r \in delay_bwe_maybe_update(aimd, detected, acked, gccTime) :
          d = [aimd |-> r.aimd, updated |-> r.updated,
               est |-> IF r.updated THEN sender_estimation_update_delay_base(est, r.aimd.curr_rate, detected) ELSE est]
    BY <1>4 DEF ByDelay
  <2>3. DelayStep(aimd, r, detected = "Overusing")
    BY <1>1, <2>1, DelayFits
  <2>4. d.aimd = r.aimd /\ d.updated = r.updated
        /\ d.est = IF r.updated THEN sender_estimation_update_delay_base(est, r.aimd.curr_rate, detected) ELSE est
    BY <2>2
  <2>5. r.aimd.curr_rate \in Nat /\ r.updated \in BOOLEAN
    BY <2>3 DEF DelayStep, ControlStep, ControlFits, Controls
  <2>6. CASE r.updated
    <3>1. d.est = sender_estimation_update_delay_base(est, r.aimd.curr_rate, detected)
      BY <2>4, <2>6
    <3>2. /\ EstimationFits(d.est) /\ d.est.curr_bitrate <= est.curr_bitrate
          /\ d.est.delay_base_bitrate = r.aimd.curr_rate
          /\ d.est.min_conf_bitrate = est.min_conf_bitrate /\ d.est.min_bitrates = est.min_bitrates
          /\ d.est.last_decrease_ts = est.last_decrease_ts
      <4> DEFINE rate == r.aimd.curr_rate
      <4>1. rate \in Nat /\ d.est = sender_estimation_update_delay_base(est, rate, detected)
        BY <2>5, <3>1
      <4>2. EstimationFits(est)
        BY <1>1
      <4> HIDE DEF rate
      <4>3. /\ EstimationFits(d.est) /\ d.est.curr_bitrate <= est.curr_bitrate
            /\ d.est.delay_base_bitrate = rate
            /\ d.est.min_conf_bitrate = est.min_conf_bitrate /\ d.est.min_bitrates = est.min_bitrates
            /\ d.est.last_decrease_ts = est.last_decrease_ts
        BY ONLY <2>1, <4>1, <4>2, DelayBaseFits
      <4> QED BY <4>3 DEF rate
    <3> QED BY <2>3, <2>4, <2>5, <2>6, <3>2 DEF DelayHeard, DelayStep
  <2>7. CASE ~r.updated
    <3>1. d.est = est
      BY <2>4, <2>7
    <3> QED BY <1>1, <1>2, <2>3, <2>4, <2>5, <2>7, <3>1 DEF DelayHeard, DelayStep
  <2> QED BY <2>5, <2>6, <2>7
<1> QED BY <1>3, <1>4

RembHeard(e, e1) ==
  /\ EstimationFits(e1) /\ e1.curr_bitrate <= e.curr_bitrate /\ e1.delay_base_bitrate = e.delay_base_bitrate
  /\ e1.min_conf_bitrate = e.min_conf_bitrate /\ e1.min_bitrates = e.min_bitrates
  /\ e1.last_decrease_ts = e.last_decrease_ts

LossHeard(e1, loss, acked, e2) ==
  IF loss.number = 0 THEN e2 = e1 ELSE Block(e1, loss.number, gccTime, acked, e2)

FeedbackHeard(detected, loss, acked, d, e1, e2) ==
  /\ DelayHeard(detected, d) /\ RembHeard(d.est, e1) /\ LossHeard(e1, loss, acked, e2)
  /\ aimd' = d.aimd /\ est' = e2 /\ ctrl' = Told(Told(Told(ctrl, d.est), e1), e2)
  /\ kept' = (kept \/ d.updated)
  /\ record' = IF ~(loss.number > 0 /\ e1.expected + loss.number >= k_limit_num_packets) THEN record
               ELSE Recorded([e1 EXCEPT !.last_fraction_loss = e2.last_fraction_loss,
                                        !.first_report_ts = e2.first_report_ts])
  /\ heard' = [detected |-> detected, acked |-> acked]
  /\ gccTime' = gccTime /\ calls' = calls

(* What the receiver allows for is heard as RembHeard says.                 *)
LEMMA RembHeardFits ==
  ASSUME NEW e, EstimationFits(e), NEW b \in Nat
  PROVE  RembHeard(e, sender_estimation_update_remb(e, b))
<1> DEFINE d == sender_estimation_update_remb(e, b)
<1>1. d = sender_estimation_update_remb(e, b)
  OBVIOUS
<1> HIDE DEF d
<1>2. /\ EstimationFits(d) /\ d.curr_bitrate <= e.curr_bitrate /\ d.delay_base_bitrate = e.delay_base_bitrate
      /\ d.min_conf_bitrate = e.min_conf_bitrate /\ d.min_bitrates = e.min_bitrates
      /\ d.last_decrease_ts = e.last_decrease_ts
  BY <1>1, RembFits
<1>3. RembHeard(e, d)
  BY <1>2 DEF RembHeard
<1> QED BY <1>1, <1>3

LEMMA FeedbackParts ==
  ASSUME RateInv, NEW detected \in Detected, NEW remb \in Rembs \cup {0}, NEW loss \in Losses \cup {NoLoss},
         NEW acked \in AckedRates, NEW rtt \in RoundTrips, NEW steady \in BOOLEAN,
         sender_on_feedback(detected, remb, loss, acked, rtt, steady)
  PROVE  \E d, e1, e2 : FeedbackHeard(detected, loss, acked, d, e1, e2)
<1>0. /\ remb \in Nat /\ acked \in Nat /\ rtt \in Nat /\ gccTime \in Nat
  BY InputsAssumption DEF RateInv
<1>1. loss.fraction \in Nat /\ loss.number \in Nat
  <2>1. CASE loss \in Losses
    <3>1. loss \in [fraction : Nat, number : Nat]
      BY <2>1, InputsAssumption
    <3> QED BY <3>1
  <2>2. CASE loss = NoLoss
    BY <2>2 DEF NoLoss
  <2> QED BY <2>1, <2>2
<1> DEFINE E1(d)     == IF remb > 0 THEN sender_estimation_update_remb(d.est, remb) ELSE d.est
           E2(e1)    == IF loss.number = 0 THEN e1
                        ELSE sender_estimation_update_block(e1, loss.fraction, rtt, loss.number, gccTime, acked, steady)
<1>2. PICK d \in IF detected = "Nothing" THEN Undelayed ELSE ByDelay(detected, acked) :
        /\ aimd' = d.aimd /\ est' = E2(E1(d)) /\ ctrl' = Told(Told(Told(ctrl, d.est), E1(d)), E2(E1(d)))
        /\ kept' = (kept \/ d.updated)
        /\ record' = IF ~(loss.number > 0 /\ E1(d).expected + loss.number >= k_limit_num_packets) THEN record
                     ELSE Recorded([E1(d) EXCEPT !.last_fraction_loss = E2(E1(d)).last_fraction_loss,
                                                 !.first_report_ts = E2(E1(d)).first_report_ts])
  BY Zenon DEF sender_on_feedback
<1>3. heard' = [detected |-> detected, acked |-> acked] /\ gccTime' = gccTime /\ calls' = calls
  BY DEF sender_on_feedback
<1>4. DelayHeard(detected, d)
  BY <1>0, <1>2, DelayHeardFits
<1>5. RembHeard(d.est, E1(d))
  <2>1. EstimationFits(d.est) /\ d.est.curr_bitrate \in Nat
    BY <1>4 DEF DelayHeard, EstimationFits, Estimations
  <2>2. CASE remb > 0
    <3>1. E1(d) = sender_estimation_update_remb(d.est, remb)
      BY <2>2
    <3> HIDE DEF E1
    <3>2. RembHeard(d.est, sender_estimation_update_remb(d.est, remb))
      BY <1>0, <2>1, RembHeardFits
    <3> QED BY <3>1, <3>2
  <2>3. CASE ~(remb > 0)
    BY <2>1, <2>3 DEF RembHeard
  <2> QED BY <2>2, <2>3
<1> DEFINE e1 == E1(d)
<1> HIDE DEF E1
<1>6. LossHeard(e1, loss, acked, E2(e1))
  <2>1. CASE loss.number = 0
    BY <2>1 DEF LossHeard
  <2>2. CASE loss.number # 0
    <3>1. EstimationFits(e1)
      BY <1>5 DEF RembHeard
    <3> HIDE DEF e1
    <3>2. Block(e1, loss.number, gccTime, acked,
                sender_estimation_update_block(e1, loss.fraction, rtt, loss.number, gccTime, acked, steady))
      BY <1>0, <1>1, <3>1, BlockFits
    <3> QED BY <2>2, <3>2 DEF LossHeard
  <2> QED BY <2>1, <2>2
<1> DEFINE e2 == E2(e1)
<1> HIDE DEF E2
<1>7. FeedbackHeard(detected, loss, acked, d, e1, e2)
  BY <1>2, <1>3, <1>4, <1>5, <1>6 DEF FeedbackHeard
<1> QED BY <1>7

(* What a loss report leaves alone, whether it is enough or not.            *)
LEMMA LossKeeps ==
  ASSUME gccTime \in Nat, NEW e1, EstimationFits(e1), NEW loss, NEW acked, NEW e2, LossHeard(e1, loss, acked, e2)
  PROVE  /\ EstimationFits(e2) /\ e2.min_conf_bitrate = e1.min_conf_bitrate
         /\ e2.delay_base_bitrate = e1.delay_base_bitrate
<1>1. CASE loss.number = 0
  BY <1>1 DEF LossHeard
<1>2. CASE loss.number # 0
  <2>1. Block(e1, loss.number, gccTime, acked, e2)
    BY <1>2 DEF LossHeard
  <2>2. CASE e1.expected + loss.number < k_limit_num_packets
    BY <2>1, <2>2 DEF Block
  <2>3. CASE ~(e1.expected + loss.number < k_limit_num_packets)
    BY <2>1, <2>3 DEF Block, Updated, BoundsKept
  <2> QED BY <2>2, <2>3
<1> QED BY <1>1, <1>2

LEMMA RateInvFeedback ==
  ASSUME RateInv, NEW detected \in Detected, NEW loss, NEW acked, NEW d, NEW e1, NEW e2,
         FeedbackHeard(detected, loss, acked, d, e1, e2)
  PROVE  RateInv' /\ OveruseLowers /\ PacerFollows
<1>1. /\ DelayHeard(detected, d) /\ RembHeard(d.est, e1) /\ LossHeard(e1, loss, acked, e2)
      /\ aimd' = d.aimd /\ est' = e2 /\ ctrl' = Told(Told(Told(ctrl, d.est), e1), e2)
      /\ kept' = (kept \/ d.updated)
      /\ heard' = [detected |-> detected, acked |-> acked]
      /\ gccTime' = gccTime /\ calls' = calls
  BY DEF FeedbackHeard
<1>2. /\ ControlFits(aimd) /\ EstimationFits(est) /\ aimd.min_rate <= est.min_conf_bitrate /\ kept \in BOOLEAN
      /\ (kept => est.delay_base_bitrate = aimd.curr_rate) /\ gccTime \in Nat /\ calls \in Nat /\ NoticeTimely(ctrl, gccTime)
      /\ ctrl.last_bitrate_bps = est.curr_bitrate
  BY DEF RateInv, NoticeFits
<1>3. EstimationFits(d.est) /\ EstimationFits(e1)
  BY <1>1 DEF DelayHeard, RembHeard
<1>4. EstimationFits(e2) /\ e2.min_conf_bitrate = e1.min_conf_bitrate /\ e2.delay_base_bitrate = e1.delay_base_bitrate
  BY <1>1, <1>2, <1>3, LossKeeps
<1>5. ControlFits(aimd') /\ aimd'.min_rate = aimd.min_rate
  BY <1>1 DEF DelayHeard, ControlStep
<1>6. est'.min_conf_bitrate = est.min_conf_bitrate
  BY <1>1, <1>4 DEF DelayHeard, RembHeard
<1>7. kept' \in BOOLEAN /\ (kept' => est'.delay_base_bitrate = aimd'.curr_rate)
  <2>1. d.updated \in BOOLEAN /\ est'.delay_base_bitrate = d.est.delay_base_bitrate
    BY <1>1, <1>4 DEF DelayHeard, RembHeard
  <2>2. CASE d.updated
    <3>1. d.est.delay_base_bitrate = d.aimd.curr_rate
      BY <1>1, <2>2 DEF DelayHeard
    <3> QED BY <1>1, <1>2, <2>1, <2>2, <3>1
  <2>3. CASE ~d.updated
    <3>1. d.est = est /\ d.aimd.curr_rate = aimd.curr_rate
      BY <1>1, <2>3 DEF DelayHeard
    <3> QED BY <1>1, <1>2, <2>1, <2>3, <3>1
  <2> QED BY <2>1, <2>2, <2>3
<1> DEFINE t1 == Told(ctrl, d.est)
           t2 == Told(t1, e1)
           t3 == Told(t2, e2)
<1>8. Heard(ctrl, d.est, t1) /\ Heard(t1, e1, t2) /\ Heard(t2, e2, t3)
  <2>1. d.est \in Estimations /\ e1 \in Estimations /\ e2 \in Estimations
    BY <1>3, <1>4 DEF EstimationFits
  <2>2. Heard(ctrl, d.est, t1)
    BY <1>2, <2>1, ToldFits
  <2> HIDE DEF t1
  <2>3. NoticeTimely(t1, gccTime)
    BY <2>2 DEF Heard, NoticeFits
  <2>4. Heard(t1, e1, t2)
    BY <1>2, <2>1, <2>3, ToldFits
  <2> HIDE DEF t2
  <2>5. NoticeTimely(t2, gccTime)
    BY <2>4 DEF Heard, NoticeFits
  <2>6. Heard(t2, e2, t3)
    BY <1>2, <2>1, <2>5, ToldFits
  <2> QED BY <2>2, <2>4, <2>6
<1>9. ctrl' = t3
  BY <1>1
<1> HIDE DEF t1, t2, t3
<1>10. RateInv'
  <2>1. NoticeFits(ctrl', est', gccTime')
    BY <1>1, <1>8, <1>9 DEF Heard
  <2>2. EstimationFits(est') /\ aimd'.min_rate <= est'.min_conf_bitrate /\ gccTime' \in Nat /\ calls' \in Nat
    BY <1>1, <1>2, <1>4, <1>5, <1>6
  <2> QED BY <1>5, <1>7, <2>1, <2>2 DEF RateInv
<1>11. OveruseLowers
  <2>1. heard'.detected = detected
    BY <1>1
  <2> QED BY <1>1, <2>1 DEF OveruseLowers, DelayHeard, ControlStep
<1>12. PacerFollows
  <2>1. /\ t1.last_bitrate_bps = d.est.curr_bitrate /\ t2.last_bitrate_bps = e1.curr_bitrate
        /\ t3.last_bitrate_bps = e2.curr_bitrate
        /\ t1.paced = d.est.curr_bitrate \/ t1 = ctrl
        /\ t2.paced = e1.curr_bitrate \/ t2 = t1
        /\ t3.paced = e2.curr_bitrate \/ t3 = t2
    BY <1>8 DEF Heard, NoticeFits
  <2>2. t3.paced = e2.curr_bitrate \/ t3 = ctrl
    BY <2>1
  <2>3. t3 = ctrl => e2.curr_bitrate = est.curr_bitrate
    BY <1>2, <2>1
  <2> QED BY <1>1, <1>9, <2>2, <2>3 DEF PacerFollows
<1> QED BY <1>10, <1>11, <1>12

LEMMA RateInvHeartbeat ==
  ASSUME RateInv, NEW acked \in AckedRates, NEW steady \in BOOLEAN, bitrate_controller_heartbeat(acked, steady)
  PROVE  RateInv' /\ OveruseLowers /\ PacerFollows /\ Updated(est, gccTime, acked, est')
<1>1. /\ est' = sender_estimation_update(est, gccTime, acked, steady)
      /\ ctrl' = [Notified(ctrl, est') EXCEPT !.last_bitrate_update_ts = gccTime]
      /\ heard' = [Nothing EXCEPT !.acked = acked]
      /\ aimd' = aimd /\ gccTime' = gccTime /\ calls' = calls /\ kept' = kept
  BY DEF bitrate_controller_heartbeat
<1>2. /\ ControlFits(aimd) /\ EstimationFits(est) /\ aimd.min_rate <= est.min_conf_bitrate /\ kept \in BOOLEAN
      /\ (kept => est.delay_base_bitrate = aimd.curr_rate) /\ gccTime \in Nat /\ calls \in Nat /\ NoticeTimely(ctrl, gccTime)
      /\ ctrl.last_bitrate_bps = est.curr_bitrate
  BY DEF RateInv, NoticeFits
<1>3. Updated(est, gccTime, acked, est')
  <2>1. acked \in Nat
    BY InputsAssumption
  <2> QED BY <1>1, <1>2, <2>1, UpdateFits
<1>4. EstimationFits(est') /\ est'.min_conf_bitrate = est.min_conf_bitrate
      /\ est'.delay_base_bitrate = est.delay_base_bitrate
  BY <1>3 DEF Updated, BoundsKept
<1> DEFINE t == Notified(ctrl, est')
<1>5. Heard(ctrl, est', t) /\ gccTime < t.notify_ts + k_normal_notify_timer
  BY <1>2, <1>4, NotifiedFits DEF EstimationFits
<1> HIDE DEF t
<1>6. /\ ctrl' \in Notices /\ ctrl'.last_bitrate_bps = t.last_bitrate_bps
      /\ ctrl'.last_bitrate_update_ts = gccTime /\ ctrl'.notify_ts = t.notify_ts /\ ctrl'.paced = t.paced
  <2>1. ctrl' = [t EXCEPT !.last_bitrate_update_ts = gccTime] /\ t \in Notices
    BY <1>1, <1>5 DEF t, Heard, NoticeFits, NoticeTimely
  <2> QED BY <1>2, <2>1 DEF Notices
<1>7. NoticeFits(ctrl', est', gccTime')
  BY <1>1, <1>2, <1>5, <1>6 DEF Heard, NoticeFits, NoticeTimely
<1>8. RateInv'
  BY <1>1, <1>2, <1>4, <1>7 DEF RateInv
<1>9. OveruseLowers
  BY <1>1 DEF OveruseLowers, Nothing
<1>10. PacerFollows
  <2>1. t.paced = est'.curr_bitrate \/ t = ctrl
    BY <1>5 DEF Heard
  <2>2. t = ctrl => est'.curr_bitrate = est.curr_bitrate
    BY <1>2, <1>5 DEF Heard, NoticeFits
  <2> QED BY <1>6, <2>1, <2>2 DEF PacerFollows
<1> QED BY <1>3, <1>8, <1>9, <1>10

LEMMA RateInvWait ==
  ASSUME RateInv, NEW ms \in Waits, GccWait(ms)
  PROVE  RateInv' /\ OveruseLowers /\ PacerFollows
<1>1. /\ gccTime' = gccTime + ms /\ heard' = Nothing
      /\ aimd' = aimd /\ est' = est /\ ctrl' = ctrl /\ kept' = kept /\ calls' = calls
  BY DEF GccWait
<1>2. ms \in Nat
  BY InputsAssumption
<1>3. RateInv'
  BY <1>1, <1>2 DEF RateInv, NoticeFits, NoticeTimely, Notices
<1> QED BY <1>1, <1>3 DEF OveruseLowers, PacerFollows, Nothing

(* Every step keeps RateInv, an overuse lowers, and the pacer follows.      *)
LEMMA RateStep ==
  ASSUME RateInv, [GccSenderNext]_gccSenderVars
  PROVE  RateInv' /\ (OveruseLowers \/ UNCHANGED gccSenderVars) /\ (PacerFollows \/ UNCHANGED gccSenderVars)
<1>1. ASSUME NEW s \in Settings, sender_cc_set_bitrates(s)
      PROVE  RateInv' /\ OveruseLowers /\ PacerFollows
  <2>1. heard' = Nothing /\ calls' = calls + 1 /\ calls < MaxCalls
    BY <1>1 DEF sender_cc_set_bitrates
  <2>2. OveruseLowers
    BY <2>1 DEF OveruseLowers, Nothing
  <2>3. PacerFollows
    BY <2>1 DEF PacerFollows, RateInv
  <2> QED BY <1>1, <2>2, <2>3, RateInvSet
<1>2. ASSUME NEW detected \in Detected, NEW remb \in Rembs \cup {0}, NEW loss \in Losses \cup {NoLoss},
             NEW acked \in AckedRates, NEW rtt \in RoundTrips, NEW steady \in BOOLEAN,
             sender_on_feedback(detected, remb, loss, acked, rtt, steady)
      PROVE  RateInv' /\ OveruseLowers /\ PacerFollows
  <2>1. PICK d, e1, e2 : FeedbackHeard(detected, loss, acked, d, e1, e2)
    BY <1>2, FeedbackParts
  <2> QED BY <2>1, RateInvFeedback
<1>3. ASSUME NEW acked \in AckedRates, NEW steady \in BOOLEAN, bitrate_controller_heartbeat(acked, steady)
      PROVE  RateInv' /\ OveruseLowers /\ PacerFollows
  BY <1>3, RateInvHeartbeat
<1>4. ASSUME NEW ms \in Waits, GccWait(ms)
      PROVE  RateInv' /\ OveruseLowers /\ PacerFollows
  BY <1>4, RateInvWait
<1>5. CASE UNCHANGED gccSenderVars
  BY <1>5 DEF RateInv, ControlFits, EstimationFits, NoticeFits, NoticeTimely, gccSenderVars
<1> QED BY <1>1, <1>2, <1>3, <1>4, <1>5 DEF GccSenderNext

-----------------------------------------------------------------------------
(* The history keeps up with the estimates, as long as it has room.         *)
LEMMA HistoryUpdated ==
  ASSUME NEW e \in Estimations, gccTime \in Nat, HistoryFits(e.min_bitrates, record, gccTime),
         Len(e.min_bitrates) < MIN_HISTORY_ARR_SIZE,
         NEW acked, NEW d, Updated(e, gccTime, acked, d),
         NEW x, x.curr_bitrate = e.curr_bitrate, Started(x, gccTime) = Started(e, gccTime)
  PROVE  /\ HistoryFits(d.min_bitrates, Recorded(x), gccTime)
         /\ Started(e, gccTime) = e.curr_bitrate => HistoryBegins(d.min_bitrates, Recorded(x))
<1> DEFINE new == [ts |-> gccTime, bitrate |-> e.curr_bitrate]
           h   == d.min_bitrates
           rec == Recorded(x)
<1>1. rec = IF Started(e, gccTime) # e.curr_bitrate THEN {new}
            ELSE {r \in record \cup {new} : r.ts + k_bwe_increase_interval_ms >= gccTime}
  BY DEF Recorded, Within
<1>2. new \in Estimates /\ new.ts = gccTime
  BY DEF Estimations, Estimates
<1>3. CASE Started(e, gccTime) # e.curr_bitrate
  <2>1. rec = {new} /\ h = <<new>>
    BY <1>1, <1>3 DEF Updated
  <2> HIDE DEF new, rec, h
  <2>2. h \in Seq(Estimates) /\ rec \subseteq Estimates /\ DOMAIN h = {1} /\ h[1] = new
    BY <1>2, <2>1
  <2>3. gccTime + k_bwe_increase_interval_ms >= gccTime
    BY EstimationAssumption
  <2>4. new.bitrate \in Nat
    BY <1>2 DEF Estimates
  <2>5. HistoryFits(h, rec, gccTime)
    BY <1>2, <2>1, <2>2, <2>3, <2>4 DEF HistoryFits
  <2> QED BY <1>3, <2>5 DEF h, rec
<1>4. CASE Started(e, gccTime) = e.curr_bitrate
  <2>1. rec = {r \in record \cup {new} : r.ts + k_bwe_increase_interval_ms >= gccTime}
    BY <1>1, <1>4
  <2>2. h = sender_estimation_update_history(e, gccTime).min_bitrates
    BY <1>4 DEF Updated
  <2> HIDE DEF rec, h
  <2>3. HistoryFits(h, rec, gccTime) /\ HistoryBegins(h, rec)
    <3>1. new = [ts |-> gccTime, bitrate |-> e.curr_bitrate]
      OBVIOUS
    <3> HIDE DEF new
    <3> QED BY <2>1, <2>2, <3>1, HistoryStep
  <2> QED BY <2>3 DEF h, rec
<1> QED BY <1>3, <1>4

(* And an estimate that rises past the first seconds rises from it.         *)
LEMMA RiseExplained ==
  ASSUME NEW e \in Estimations, gccTime \in Nat, NEW acked, NEW d, NEW rec,
         Updated(e, gccTime, acked, d), d.curr_bitrate > e.curr_bitrate,
         ~(is_start_phare(d, gccTime) /\ d.last_fraction_loss = 0),
         Started(e, gccTime) = e.curr_bitrate => HistoryBegins(d.min_bitrates, rec)
  PROVE  \/ d.last_decrease_ts # e.last_decrease_ts /\ d.curr_bitrate <= acked
         \/ \E r \in rec : \A y \in rec : r.bitrate <= y.bitrate /\ d.curr_bitrate <= RaisedByStep(r.bitrate)
<1>1. Started(e, gccTime) = e.curr_bitrate
  <2>1. d.last_fraction_loss = e.last_fraction_loss /\ d.first_report_ts = e.first_report_ts
    BY DEF Updated, BoundsKept
  <2>2. is_start_phare(d, gccTime) = is_start_phare(e, gccTime)
    BY <2>1 DEF is_start_phare
  <2> QED BY <2>1, <2>2 DEF Updated
<1>2. HistoryBegins(d.min_bitrates, rec) /\ RoseBy(e, acked, d)
  BY <1>1 DEF Updated
<1> QED BY <1>2 DEF HistoryBegins, RoseBy

LEMMA HistoryFeedback ==
  ASSUME RateInv, HistoryInv, Len(est.min_bitrates) < MIN_HISTORY_ARR_SIZE,
         NEW detected \in Detected, NEW loss, loss.number \in Nat, NEW acked, NEW d, NEW e1, NEW e2,
         FeedbackHeard(detected, loss, acked, d, e1, e2)
  PROVE  HistoryInv' /\ RisesByStep
<1>1. /\ DelayHeard(detected, d) /\ RembHeard(d.est, e1) /\ LossHeard(e1, loss, acked, e2)
      /\ est' = e2 /\ heard' = [detected |-> detected, acked |-> acked]
      /\ gccTime' = gccTime /\ calls' = calls
      /\ record' = IF ~(loss.number > 0 /\ e1.expected + loss.number >= k_limit_num_packets) THEN record
                   ELSE Recorded([e1 EXCEPT !.last_fraction_loss = e2.last_fraction_loss,
                                            !.first_report_ts = e2.first_report_ts])
  BY Zenon DEF FeedbackHeard
<1>2. EstimationFits(est) /\ gccTime \in Nat /\ k_limit_num_packets \in Nat
  BY EstimationAssumption DEF RateInv
<1>3. /\ EstimationFits(e1) /\ e1.curr_bitrate \in Nat /\ est.curr_bitrate \in Nat /\ e1.expected \in Nat
      /\ e1.curr_bitrate <= est.curr_bitrate /\ e1.min_bitrates = est.min_bitrates
      /\ e1.last_decrease_ts = est.last_decrease_ts
  <2>1. EstimationFits(d.est) /\ EstimationFits(e1)
    BY <1>1 DEF DelayHeard, RembHeard
  <2>2. d.est.curr_bitrate \in Nat /\ e1.curr_bitrate \in Nat /\ est.curr_bitrate \in Nat /\ e1.expected \in Nat
    BY <1>2, <2>1 DEF EstimationFits, Estimations
  <2>3. d.est.curr_bitrate <= est.curr_bitrate /\ e1.curr_bitrate <= d.est.curr_bitrate
    BY <1>1 DEF DelayHeard, RembHeard
  <2> QED BY <1>1, <2>1, <2>2, <2>3 DEF DelayHeard, RembHeard
<1>4. CASE ~(loss.number > 0 /\ e1.expected + loss.number >= k_limit_num_packets)
  <2>1. record' = record
    BY <1>1, <1>4
  <2>2. e2.curr_bitrate = e1.curr_bitrate /\ e2.min_bitrates = e1.min_bitrates
    <3>1. CASE loss.number = 0
      BY <1>1, <3>1 DEF LossHeard
    <3>2. CASE loss.number # 0
      <4>1. e1.expected + loss.number < k_limit_num_packets
        BY <1>2, <1>3, <1>4, <3>2
      <4> QED BY <1>1, <3>2, <4>1 DEF LossHeard, Block
    <3> QED BY <3>1, <3>2
  <2>3. HistoryInv'
    BY <1>1, <1>3, <2>1, <2>2 DEF HistoryInv
  <2>4. RisesByStep
    BY <1>1, <1>3, <2>2 DEF RisesByStep
  <2> QED BY <2>3, <2>4
<1>5. CASE loss.number > 0 /\ e1.expected + loss.number >= k_limit_num_packets
  <2> DEFINE x1 == [e1 EXCEPT !.last_fraction_loss = e2.last_fraction_loss]
             x  == [x1 EXCEPT !.first_report_ts = e2.first_report_ts]
  <2>1. record' = Recorded(x)
    BY <1>1, <1>5
  <2>2. PICK q : /\ EstimationFits(q) /\ q.curr_bitrate = e1.curr_bitrate /\ q.min_bitrates = e1.min_bitrates
                 /\ q.min_conf_bitrate = e1.min_conf_bitrate /\ q.delay_base_bitrate = e1.delay_base_bitrate
                 /\ q.bwe_incoming = e1.bwe_incoming /\ q.last_decrease_ts = e1.last_decrease_ts
                 /\ Updated(q, gccTime, acked, e2)
    <3>1. loss.number # 0 /\ ~(e1.expected + loss.number < k_limit_num_packets)
      BY <1>2, <1>3, <1>5
    <3> QED BY <1>1, <3>1, Zenon DEF LossHeard, Block
  <2>3. q \in Estimations /\ e1 \in Estimations
    BY <1>3, <2>2 DEF EstimationFits
  <2>4. e2.last_fraction_loss = q.last_fraction_loss /\ e2.first_report_ts = q.first_report_ts
    BY <2>2 DEF Updated, BoundsKept
  <2>5. /\ x1.curr_bitrate = e1.curr_bitrate /\ x1.bwe_incoming = e1.bwe_incoming
        /\ x1.delay_base_bitrate = e1.delay_base_bitrate /\ x1.last_fraction_loss = q.last_fraction_loss
        /\ x1 = [e1 EXCEPT !.last_fraction_loss = q.last_fraction_loss]
    BY <2>3, <2>4 DEF Estimations
  <2>6. /\ x.curr_bitrate = q.curr_bitrate /\ x.bwe_incoming = q.bwe_incoming
        /\ x.delay_base_bitrate = q.delay_base_bitrate /\ x.last_fraction_loss = q.last_fraction_loss
        /\ x.first_report_ts = q.first_report_ts
    <3>1. x1 \in Estimations
      BY <2>3, <2>5 DEF Estimations
    <3> HIDE DEF x1
    <3> QED BY <2>2, <2>4, <2>5, <3>1 DEF Estimations
  <2> HIDE DEF x1, x
  <2>7. Started(x, gccTime) = Started(q, gccTime)
    BY <2>6 DEF Started, is_start_phare
  <2>8. HistoryFits(q.min_bitrates, record, gccTime) /\ Len(q.min_bitrates) < MIN_HISTORY_ARR_SIZE
    BY <1>3, <2>2 DEF HistoryInv
  <2>9. /\ HistoryFits(e2.min_bitrates, Recorded(x), gccTime)
        /\ Started(q, gccTime) = q.curr_bitrate => HistoryBegins(e2.min_bitrates, Recorded(x))
    BY <1>2, <2>2, <2>3, <2>6, <2>7, <2>8, HistoryUpdated
  <2>10. HistoryInv'
    BY <1>1, <2>1, <2>9 DEF HistoryInv
  <2>11. RisesByStep
    <3> SUFFICES ASSUME est'.curr_bitrate > est.curr_bitrate,
                        ~(is_start_phare(est', gccTime) /\ est'.last_fraction_loss = 0)
                 PROVE  \/ est'.last_decrease_ts # est.last_decrease_ts /\ est'.curr_bitrate <= heard'.acked
                        \/ \E r \in record' : \A y \in record' : r.bitrate <= y.bitrate /\ est'.curr_bitrate <= RaisedByStep(r.bitrate)
      BY DEF RisesByStep
    <3>1. e2.curr_bitrate \in Nat /\ e2.curr_bitrate > q.curr_bitrate
      <4>1. e2.curr_bitrate \in Nat
        BY <2>2 DEF Updated, BoundsKept, EstimationFits, Estimations
      <4> QED BY <1>1, <1>3, <2>2, <4>1
    <3>2. \/ e2.last_decrease_ts # q.last_decrease_ts /\ e2.curr_bitrate <= acked
          \/ \E r \in record' : \A y \in record' : r.bitrate <= y.bitrate /\ e2.curr_bitrate <= RaisedByStep(r.bitrate)
      BY <1>1, <1>2, <2>1, <2>2, <2>3, <2>9, <3>1, RiseExplained
    <3>3. heard'.acked = acked
      BY <1>1
    <3> QED BY <1>1, <1>3, <2>2, <3>2, <3>3
  <2> QED BY <2>10, <2>11
<1> QED BY <1>4, <1>5

LEMMA HistoryHeartbeat ==
  ASSUME RateInv, HistoryInv, Len(est.min_bitrates) < MIN_HISTORY_ARR_SIZE,
         NEW acked \in AckedRates, NEW steady \in BOOLEAN, bitrate_controller_heartbeat(acked, steady)
  PROVE  HistoryInv' /\ RisesByStep
<1>1. /\ record' = Recorded(est) /\ heard' = [Nothing EXCEPT !.acked = acked]
      /\ gccTime' = gccTime /\ calls' = calls
  BY DEF bitrate_controller_heartbeat
<1>2. est \in Estimations /\ gccTime \in Nat
  BY DEF RateInv, EstimationFits
<1>3. Updated(est, gccTime, acked, est')
  BY RateInvHeartbeat
<1>4. /\ HistoryFits(est'.min_bitrates, Recorded(est), gccTime)
      /\ Started(est, gccTime) = est.curr_bitrate => HistoryBegins(est'.min_bitrates, Recorded(est))
  BY <1>2, <1>3, HistoryUpdated DEF HistoryInv
<1>5. HistoryInv'
  BY <1>1, <1>4 DEF HistoryInv
<1>6. heard'.acked = acked
  BY <1>1 DEF Nothing
<1>7. RisesByStep
  <2> SUFFICES ASSUME est'.curr_bitrate > est.curr_bitrate,
                      ~(is_start_phare(est', gccTime) /\ est'.last_fraction_loss = 0)
               PROVE  \/ est'.last_decrease_ts # est.last_decrease_ts /\ est'.curr_bitrate <= heard'.acked
                      \/ \E r \in record' : \A y \in record' : r.bitrate <= y.bitrate /\ est'.curr_bitrate <= RaisedByStep(r.bitrate)
    BY <1>1 DEF RisesByStep
  <2>1. \/ est'.last_decrease_ts # est.last_decrease_ts /\ est'.curr_bitrate <= acked
        \/ \E r \in record' : \A y \in record' : r.bitrate <= y.bitrate /\ est'.curr_bitrate <= RaisedByStep(r.bitrate)
    BY <1>1, <1>2, <1>3, <1>4, RiseExplained
  <2> QED BY <1>6, <2>1
<1> QED BY <1>5, <1>7

LEMMA HistoryWait ==
  ASSUME RateInv, HistoryInv, NEW ms \in Waits, GccWait(ms)
  PROVE  HistoryInv' /\ RisesByStep
<1> DEFINE K == k_bwe_increase_interval_ms
           h == est.min_bitrates
<1>1. /\ gccTime' = gccTime + ms /\ est' = est
      /\ record' = {r \in record : r.ts + K >= gccTime'}
  BY DEF GccWait
<1>2. /\ ms \in Nat /\ gccTime \in Nat /\ K \in Nat /\ est \in Estimations
  BY InputsAssumption, EstimationAssumption DEF RateInv, EstimationFits
<1>3. HistoryFits(h, record, gccTime)
  BY DEF HistoryInv
<1>4. HistoryFits(h, record', gccTime')
  <2> HIDE DEF h
  <2>1. h \in Seq(Estimates) /\ record \subseteq Estimates
    BY <1>3 DEF HistoryFits
  <2>2. DOMAIN h = 1 .. Len(h) /\ \A i \in DOMAIN h : h[i].ts \in Nat
    BY <2>1, HistoryElements
  <2>3. \A r \in record : r.ts \in Nat
    BY <2>1 DEF Estimates
  <2>4. \A i \in DOMAIN h : h[i].ts <= gccTime' /\ (h[i].ts + K >= gccTime' => h[i] \in record')
    <3> TAKE i \in DOMAIN h
    <3>1. h[i].ts <= gccTime /\ (h[i].ts + K >= gccTime => h[i] \in record) /\ h[i].ts \in Nat
      BY <1>3, <2>2 DEF HistoryFits
    <3> QED BY <1>1, <1>2, <3>1
  <2>5. \A r \in record' : /\ r.ts <= gccTime' /\ r.ts + K >= gccTime'
                           /\ \E i \in DOMAIN h : r.ts <= h[i].ts /\ h[i].bitrate <= r.bitrate
    <3> TAKE r \in record'
    <3>1. r \in record /\ r.ts + K >= gccTime'
      BY <1>1
    <3>2. r.ts <= gccTime /\ \E i \in DOMAIN h : r.ts <= h[i].ts /\ h[i].bitrate <= r.bitrate
      BY <1>3, <3>1 DEF HistoryFits
    <3>3. r.ts <= gccTime'
      BY <1>1, <1>2, <2>3, <3>1, <3>2
    <3> QED BY <3>1, <3>2, <3>3
  <2>6. record' \subseteq Estimates
    BY <1>1, <2>1
  <2> QED BY <1>3, <2>1, <2>4, <2>5, <2>6 DEF HistoryFits
<1>5. est.curr_bitrate \in Nat
  BY <1>2 DEF Estimations
<1> QED BY <1>1, <1>4, <1>5 DEF HistoryInv, RisesByStep

LEMMA HistorySet ==
  ASSUME RateInv, NEW s \in Settings, sender_cc_set_bitrates(s)
  PROVE  HistoryInv' /\ RisesByStep
<1>1. est' = SetBitrates(est, s) /\ record' = {} /\ calls' = calls + 1
  BY DEF sender_cc_set_bitrates
<1>2. est \in Estimations /\ calls \in Nat
  BY DEF RateInv, EstimationFits
<1>3. est'.min_bitrates = <<>>
  BY <1>1, <1>2, SetBitratesFits DEF BitratesSet
<1> DEFINE none == est'.min_bitrates
<1>4. none \in Seq(Estimates) /\ DOMAIN none = {}
  BY <1>3
<1> HIDE DEF none
<1>5. HistoryFits(none, record', gccTime')
  BY <1>1, <1>4 DEF HistoryFits
<1>6. calls' # calls
  BY <1>1, <1>2
<1> QED BY <1>5, <1>6 DEF HistoryInv, RisesByStep, none

LEMMA HistoryStays ==
  ASSUME RateInv, HistoryInv, Len(est.min_bitrates) < MIN_HISTORY_ARR_SIZE, [GccSenderNext]_gccSenderVars
  PROVE  HistoryInv' /\ (RisesByStep \/ UNCHANGED gccSenderVars)
<1>1. ASSUME NEW s \in Settings, sender_cc_set_bitrates(s)
      PROVE  HistoryInv' /\ RisesByStep
  BY <1>1, HistorySet
<1>2. ASSUME NEW detected \in Detected, NEW remb \in Rembs \cup {0}, NEW loss \in Losses \cup {NoLoss},
             NEW acked \in AckedRates, NEW rtt \in RoundTrips, NEW steady \in BOOLEAN,
             sender_on_feedback(detected, remb, loss, acked, rtt, steady)
      PROVE  HistoryInv' /\ RisesByStep
  <2>1. PICK d, e1, e2 : FeedbackHeard(detected, loss, acked, d, e1, e2)
    BY <1>2, FeedbackParts
  <2>2. loss.number \in Nat
    BY InputsAssumption DEF NoLoss
  <2> QED BY <2>1, <2>2, HistoryFeedback
<1>3. ASSUME NEW acked \in AckedRates, NEW steady \in BOOLEAN, bitrate_controller_heartbeat(acked, steady)
      PROVE  HistoryInv' /\ RisesByStep
  BY <1>3, HistoryHeartbeat
<1>4. ASSUME NEW ms \in Waits, GccWait(ms)
      PROVE  HistoryInv' /\ RisesByStep
  BY <1>4, HistoryWait
<1>5. CASE UNCHANGED gccSenderVars
  BY <1>5 DEF HistoryInv, HistoryFits, gccSenderVars
<1> QED BY <1>1, <1>2, <1>3, <1>4, <1>5 DEF GccSenderNext

(* A history that fits begins, but for what has grown too old, with the     *)
(* least estimate of the last interval.                                     *)
LEMMA HistoryIsLeast ==
  ASSUME HistoryInv, gccTime \in Nat
  PROVE  HistoryLeast
<1> DEFINE h == est.min_bitrates
           n == Len(h)
           R == {r.bitrate : r \in record}
           W == {i \in 1 .. n : Within(h[i])}
<1> SUFFICES ASSUME record # {}
             PROVE  \E i \in DOMAIN h : h[i].bitrate = Min(R) /\ \A j \in 1 .. i - 1 : ~Within(h[j])
  BY DEF HistoryLeast
<1>1. HistoryFits(h, record, gccTime)
  BY DEF HistoryInv
<1> HIDE DEF h
<1>2. h \in Seq(Estimates) /\ record \subseteq Estimates
  BY <1>1 DEF HistoryFits
<1>3. n \in Nat /\ DOMAIN h = 1 .. n /\ \A i \in 1 .. n : h[i].ts \in Nat /\ h[i].bitrate \in Nat
  BY <1>2, HistoryElements
<1>4. \A r \in record : r.ts \in Nat /\ r.bitrate \in Nat
  BY <1>2 DEF Estimates
<1>5. k_bwe_increase_interval_ms \in Nat
  BY EstimationAssumption
<1>6. \A r \in record : \E i \in W : h[i].bitrate <= r.bitrate
  <2> TAKE r \in record
  <2>1. PICK i \in 1 .. n : r.ts <= h[i].ts /\ h[i].bitrate <= r.bitrate
    BY <1>1, <1>3 DEF HistoryFits
  <2>2. r.ts + k_bwe_increase_interval_ms >= gccTime
    BY <1>1 DEF HistoryFits
  <2>3. Within(h[i])
    BY <1>3, <1>4, <1>5, <2>1, <2>2 DEF Within
  <2> QED BY <2>1, <2>3
<1>7. W \subseteq Nat /\ W # {}
  BY <1>3, <1>6
<1>8. PICK i \in W : \A k \in W : i <= k
  <2> HIDE DEF W
  <2> QED BY <1>7, LeastOfNat
<1>9. h[i] \in record
  BY <1>1, <1>3, <1>8 DEF HistoryFits, Within
<1>10. \A r \in record : h[i].bitrate <= r.bitrate
  <2> TAKE r \in record
  <2>1. PICK k \in W : h[k].bitrate <= r.bitrate
    BY <1>6
  <2>2. i = k \/ i < k
    BY <1>8
  <2>3. h[i].bitrate <= h[k].bitrate
    <3>1. i \in 1 .. n /\ k \in 1 .. n
      OBVIOUS
    <3>2. i < k => h[i].bitrate < h[k].bitrate
      BY <1>1, <1>3, <3>1 DEF HistoryFits
    <3>3. h[i].bitrate \in Nat /\ h[k].bitrate \in Nat
      BY <1>3, <3>1
    <3> QED BY <2>2, <3>2, <3>3
  <2> QED BY <1>3, <1>4, <2>1, <2>3
<1>11. R \subseteq Nat /\ h[i].bitrate \in R /\ \A y \in R : h[i].bitrate <= y
  BY <1>4, <1>9, <1>10
<1>12. h[i].bitrate = Min(R)
  <2> DEFINE m == Min(R)
             b == h[i].bitrate
  <2> HIDE DEF R
  <2>1. m \in R /\ \A y \in R : m <= y
    BY <1>11, MinIsLeast
  <2> HIDE DEF m, b
  <2>2. b \in Nat /\ m \in Nat /\ b <= m /\ m <= b
    BY <1>11, <2>1 DEF b
  <2>3. b = m
    BY <2>2
  <2> QED BY <2>3 DEF b, m
<1>13. \A j \in 1 .. i - 1 : ~Within(h[j])
  <2> TAKE j \in 1 .. i - 1
  <2>1. j \in 1 .. n /\ ~(i <= j)
    BY <1>3, <1>8
  <2> QED BY <1>8, <2>1
<1> QED BY <1>3, <1>8, <1>12, <1>13

LEMMA HistoryInvInit ==
  ASSUME GccSenderInit
  PROVE  HistoryInv
<1>1. PICK s \in Settings : est = SetBitrates(sender_estimation_create(1, s.max), s)
  BY DEF GccSenderInit
<1>2. record = {}
  BY DEF GccSenderInit
<1> DEFINE none == est.min_bitrates
<1>3. none = <<>>
  BY <1>1 DEF SetBitrates, sender_estimation_set_send_bitrate, sender_estimation_set_minmax_bitrate, Capped,
              sender_estimation_create
<1>4. none \in Seq(Estimates) /\ DOMAIN none = {}
  BY <1>3
<1> HIDE DEF none
<1>5. HistoryFits(none, record, gccTime)
  BY <1>2, <1>4 DEF HistoryFits
<1> QED BY <1>5 DEF HistoryInv, none

-----------------------------------------------------------------------------
THEOREM RateInvariant == GccSenderSpec => []RateInv
<1>1. GccSenderInit => RateInv
  BY RateInvInit
<1>2. RateInv /\ [GccSenderNext]_gccSenderVars => RateInv'
  BY RateStep
<1> QED BY <1>1, <1>2, PTL DEF GccSenderSpec

(* Whatever is set, heard and measured, both estimates stay in their        *)
(* bounds, a maximum that counts as near is known, the loss's side is       *)
(* capped by what the delay's side holds, and what was told is the estimate *)
(* (sender_on_feedback and all it calls).                                   *)
THEOREM EstimatesInStep ==
  GccSenderSpec => [](RatesBounded /\ NearMaxKnown /\ DelayCapTrue /\ EstimateTold)
<1>1. RateInv => RatesBounded /\ NearMaxKnown /\ DelayCapTrue /\ EstimateTold
  BY DEF RateInv, ControlFits, EstimationFits, NoticeFits, NoticeTimely, RatesBounded, NearMaxKnown,
         DelayCapTrue, EstimateTold
<1> QED BY <1>1, RateInvariant, PTL

(* Whatever is set, heard and measured, an overuse never raises the         *)
(* estimate by delay (delay_bwe_maybe_update), and every change of the      *)
(* estimate reaches the pacer (maybe_trigger_network_changed).              *)
THEOREM OveruseLowersAndPacerFollows ==
  GccSenderSpec => [][OveruseLowers /\ PacerFollows]_gccSenderVars
<1>1. RateInv /\ [GccSenderNext]_gccSenderVars => [OveruseLowers /\ PacerFollows]_gccSenderVars
  BY RateStep
<1> QED BY <1>1, RateInvariant, PTL DEF GccSenderSpec

(* The array of the history has room: when it has not, the oldest estimate, *)
(* which is the least, gives way to the present one.                        *)
HistoryHasRoom == Len(est.min_bitrates) < MIN_HISTORY_ARR_SIZE

LEMMA HistoryInvariant == GccSenderSpec /\ []HistoryHasRoom => []HistoryInv
<1>1. GccSenderInit => HistoryInv
  BY HistoryInvInit
<1>2. RateInv /\ HistoryInv /\ HistoryHasRoom /\ [GccSenderNext]_gccSenderVars => HistoryInv'
  BY HistoryStays DEF HistoryHasRoom
<1> QED BY <1>1, <1>2, RateInvariant, PTL DEF GccSenderSpec

(* As long as the history has room it begins with the least estimate of the *)
(* last interval (sender_estimation_update_history); with the above, that   *)
(* is all that is checked of the estimates.                                 *)
THEOREM RatesSoundWithRoom == GccSenderSpec /\ []HistoryHasRoom => []GccRateSound
<1>1. RateInv /\ HistoryInv => HistoryLeast
  BY HistoryIsLeast DEF RateInv
<1>2. HistoryLeast /\ RatesBounded /\ NearMaxKnown /\ DelayCapTrue /\ EstimateTold => GccRateSound
  BY DEF GccRateSound
<1> QED BY <1>1, <1>2, RateInvariant, EstimatesInStep, HistoryInvariant, PTL

(* As long as the history has room, an estimate by loss that rises past the *)
(* first seconds rises from the least of the last interval, or to what      *)
(* comes through where a loss is heavy (sender_estimation_update).          *)
THEOREM ReactsWithRoom == GccSenderSpec /\ []HistoryHasRoom => GccReacts
<1>1. RateInv /\ HistoryInv /\ HistoryHasRoom /\ [GccSenderNext]_gccSenderVars
      => [OveruseLowers /\ RisesByStep /\ PacerFollows]_gccSenderVars
  BY RateStep, HistoryStays DEF HistoryHasRoom
<1> QED BY <1>1, RateInvariant, HistoryInvariant, PTL DEF GccSenderSpec, GccReacts

(***************************************************************************)
(* The rule settles.  On the way a bitrate is sufficient, all that is      *)
(* allowed, the least sufficient rounded up, or, when no tier suffices, as *)
(* high as the tier whose number is that of the frames since a change.     *)
(***************************************************************************)
Nears(b, s, confs, n) ==
  \/ Enough(b, confs) \/ b = s
  \/ Sufficient(confs) # {} /\ b = Raised(confs)
  \/ Sufficient(confs) = {} /\ \E i \in Tiers : b >= tiers_kbps[i] /\ (i >= n \/ i = Len(tiers_kbps))

AbrInv ==
  /\ \E n \in Nat : rows \in [1 .. n -> [Tiers -> Nat]]
  /\ index \in Nat /\ last_bitrate \in Nat /\ cc \in Nat /\ calm \in Nat
  /\ calm > 0 => /\ index > 0 /\ last_bitrate <= cc
                 /\ (rows # <<>> => Nears(last_bitrate, cc, Confs, calm))

LEMMA TiersRise ==
  /\ Len(tiers_kbps) \in Nat \ {0} /\ Tiers = 1 .. Len(tiers_kbps)
  /\ \A i \in Tiers : tiers_kbps[i] \in Nat
  /\ \A i, j \in Tiers : i < j => tiers_kbps[i] < tiers_kbps[j]
  /\ threshold \in Nat /\ TopTier = tiers_kbps[Len(tiers_kbps)]
<1>1. tiers_kbps \in Seq(Nat) /\ Len(tiers_kbps) > 0
  BY AbrAssumption
<1>2. Len(tiers_kbps) \in Nat \ {0}
  BY <1>1
<1>3. \A i \in Tiers : tiers_kbps[i] \in Nat
  BY <1>1 DEF Tiers
<1> QED BY <1>2, <1>3, AbrAssumption DEF Tiers, TopTier

(* A tier that suffices is a sufficient bitrate.                            *)
LEMMA TierEnough ==
  ASSUME NEW confs \in [Tiers -> Nat], NEW i \in Tiers, confs[i] >= threshold
  PROVE  Enough(tiers_kbps[i], confs)
<1> DEFINE b == tiers_kbps[i]
           n == Len(tiers_kbps)
<1>1. CASE i = 1
  BY <1>1, TiersRise DEF Enough
<1>2. CASE i # 1 /\ i = n
  <2>1. 1 \in Tiers /\ 1 < i
    BY <1>2, TiersRise
  <2>2. ~(b <= tiers_kbps[1]) /\ b >= TopTier
    BY <1>2, <2>1, TiersRise
  <2> QED BY <1>2, <2>2 DEF Enough
<1>3. CASE i # 1 /\ i # n
  <2>1. 1 \in Tiers /\ 1 < i /\ i + 1 \in Tiers /\ n \in Tiers /\ i < n /\ i < i + 1
    BY <1>3, TiersRise
  <2>2. ~(b <= tiers_kbps[1]) /\ ~(b >= TopTier) /\ b < tiers_kbps[i + 1] /\ b <= b
    BY <2>1, TiersRise
  <2>3. (b - tiers_kbps[i]) * (confs[i + 1] - confs[i]) >= (threshold - confs[i]) * (tiers_kbps[i + 1] - tiers_kbps[i])
    <3> DEFINE d == tiers_kbps[i + 1] - tiers_kbps[i]
               e == confs[i + 1] - confs[i]
               t == threshold - confs[i]
    <3>1. d \in Nat /\ e \in Int /\ t \in Int /\ t <= 0 /\ b - tiers_kbps[i] = 0
      <4>1. tiers_kbps[i] \in Nat /\ tiers_kbps[i + 1] \in Nat /\ tiers_kbps[i] < tiers_kbps[i + 1]
        BY <2>1, <2>2, TiersRise
      <4>2. confs[i] \in Nat /\ confs[i + 1] \in Nat /\ threshold \in Nat
        BY <2>1, TiersRise
      <4> QED BY <4>1, <4>2
    <3> HIDE DEF d, e, t
    <3>2. t * d <= 0 /\ 0 * e = 0
      BY <3>1
    <3>3. 0 * e >= t * d
      BY <3>1, <3>2
    <3> QED BY <3>1, <3>3 DEF d, e, t
  <2>4. i \in Tiers \ {n}
    BY <1>3
  <2> QED BY <2>2, <2>3, <2>4 DEF Enough
<1> QED BY <1>1, <1>2, <1>3

(* The quotient of the code's rounding.                                     *)
LEMMA Quotient ==
  ASSUME NEW a \in Nat, NEW d \in Nat \ {0}, NEW w \in Nat, a <= d * w
  PROVE  /\ a \div d \in 0 .. w
         /\ ((a \div d) + 1) * d >= a
<1> DEFINE q == a \div d
<1>1. q \in Int /\ a = d * q + (a % d) /\ a % d \in 0 .. d - 1
  OBVIOUS
<1> HIDE DEF q
<1>2. d * q <= a /\ a < d * q + d
  BY <1>1
<1>3. q >= 0
  <2> SUFFICES ASSUME q <= -1 PROVE FALSE
    BY <1>1
  <2>1. d * q <= -d
    BY <1>1
  <2> QED BY <1>1, <1>2, <2>1
<1>4. q <= w
  <2> SUFFICES ASSUME q >= w + 1 PROVE FALSE
    BY <1>1
  <2>1. d * q >= d * (w + 1)
    BY <1>1
  <2>2. d * (w + 1) = d * w + d
    OBVIOUS
  <2>3. d * w \in Nat
    OBVIOUS
  <2> QED BY <1>1, <1>2, <2>1, <2>2, <2>3
<1>5. (q + 1) * d = d * q + d
  BY <1>1
<1> QED BY <1>1, <1>2, <1>3, <1>4, <1>5 DEF q

(* The bitrate found between two tiers is sufficient, or one above one that *)
(* is.                                                                      *)
LEMMA RaisedEnough ==
  ASSUME NEW confs \in [Tiers -> Nat], Sufficient(confs) # {}
  PROVE  Raised(confs) \in Nat /\ (Enough(Raised(confs), confs) \/ Enough(Raised(confs) - 1, confs))
<1> DEFINE A == Min(Sufficient(confs))
<1>1. A \in Tiers /\ confs[A] >= threshold /\ \A i \in Tiers : confs[i] >= threshold => A <= i
  <2>1. Sufficient(confs) \subseteq Nat
    BY TiersRise DEF Sufficient
  <2>2. A \in Sufficient(confs) /\ \A i \in Sufficient(confs) : A <= i
    BY <2>1, MinIsLeast
  <2> QED BY <2>2 DEF Sufficient
<1>2. Raised(confs) = IF A = 1 THEN tiers_kbps[1] + 1
        ELSE tiers_kbps[A - 1] + ((threshold - confs[A - 1]) * (tiers_kbps[A] - tiers_kbps[A - 1])) \div (confs[A] - confs[A - 1]) + 1
  BY DEF Raised
<1>3. Enough(tiers_kbps[A], confs) /\ tiers_kbps[A] \in Nat
  BY <1>1, TierEnough, TiersRise
<1> HIDE DEF A
<1>4. CASE A = 1
  <2>1. Raised(confs) = tiers_kbps[A] + 1
    BY <1>2, <1>4
  <2>2. Raised(confs) \in Nat /\ Raised(confs) - 1 = tiers_kbps[A]
    BY <1>3, <2>1
  <2> QED BY <1>3, <2>2
<1>5. CASE A # 1
  <2> DEFINE lo == tiers_kbps[A - 1]
             w == tiers_kbps[A] - tiers_kbps[A - 1]
             t == threshold - confs[A - 1]
             d == confs[A] - confs[A - 1]
             q == (t * w) \div d
  <2>1. A - 1 \in Tiers /\ A - 1 < A /\ A \in Nat /\ A - 1 + 1 = A
    BY <1>1, <1>5, TiersRise
  <2>2. lo \in Nat /\ w \in Nat /\ w > 0 /\ confs[A - 1] < threshold /\ tiers_kbps[A] = lo + w
    <3>1. ~(confs[A - 1] >= threshold)
      BY <1>1, <2>1
    <3>2. /\ tiers_kbps[A - 1] \in Nat /\ tiers_kbps[A] \in Nat /\ threshold \in Nat /\ confs[A - 1] \in Nat
          /\ tiers_kbps[A - 1] < tiers_kbps[A]
      BY <1>1, <2>1, TiersRise
    <3> QED BY <3>1, <3>2
  <2>3. t \in Nat /\ d \in Nat \ {0} /\ t <= d
    <3>1. confs[A] \in Nat /\ confs[A - 1] \in Nat /\ threshold \in Nat
      BY <1>1, <2>1, TiersRise
    <3> QED BY <1>1, <2>2, <3>1
  <2>4. Raised(confs) = lo + q + 1
    BY <1>2, <1>5
  <2> HIDE DEF lo, w, t, d
  <2>5. t * w \in Nat /\ t * w <= d * w
    BY <2>2, <2>3
  <2>6. q \in 0 .. w /\ (q + 1) * d >= t * w
    BY <2>2, <2>3, <2>5, Quotient
  <2> HIDE DEF q
  <2>7. Raised(confs) \in Nat
    BY <2>2, <2>4, <2>6
  <2>8. CASE q = w
    <3>1. Raised(confs) - 1 = tiers_kbps[A]
      BY <2>2, <2>4, <2>6, <2>8
    <3> QED BY <1>3, <2>7, <3>1
  <2>9. CASE q + 1 = w
    <3>1. Raised(confs) = tiers_kbps[A]
      BY <2>2, <2>4, <2>6, <2>9
    <3> QED BY <1>3, <2>7, <3>1
  <2>10. CASE q + 1 < w
    <3> DEFINE b == Raised(confs)
               k == A - 1
               n == Len(tiers_kbps)
    <3>1. b - lo = q + 1 /\ lo <= b /\ b < tiers_kbps[A] /\ lo < b
      BY <2>2, <2>4, <2>6, <2>7, <2>10
    <3>2. 1 \in Tiers /\ n \in Tiers /\ k \in Tiers \ {n} /\ k + 1 = A /\ k \in Nat
      BY <1>1, <2>1, TiersRise
    <3>3. tiers_kbps[1] <= lo /\ tiers_kbps[A] <= TopTier
      <4>1. k = 1 \/ 1 < k
        BY <3>2, TiersRise
      <4>2. A = n \/ A < n
        BY <1>1, TiersRise
      <4>3. tiers_kbps[1] \in Nat /\ tiers_kbps[A] \in Nat /\ tiers_kbps[k] \in Nat /\ TopTier \in Nat
        BY <1>1, <3>2, TiersRise
      <4>4. tiers_kbps[1] <= tiers_kbps[k]
        BY <3>2, <4>1, <4>3, TiersRise
      <4>5. tiers_kbps[A] <= TopTier
        <5>1. TopTier = tiers_kbps[n]
          BY TiersRise
        <5>2. A < n => tiers_kbps[A] < tiers_kbps[n]
          BY <1>1, <3>2, TiersRise
        <5> HIDE DEF n
        <5> QED BY <4>2, <4>3, <5>1, <5>2
      <4> QED BY <4>4, <4>5 DEF lo
    <3>4. ~(b <= tiers_kbps[1]) /\ ~(b >= TopTier)
      <4>1. tiers_kbps[1] \in Nat /\ tiers_kbps[A] \in Nat /\ TopTier \in Nat
        BY <1>1, <3>2, TiersRise
      <4> QED BY <2>2, <2>7, <3>1, <3>3, <4>1
    <3>5. tiers_kbps[k] <= b /\ b < tiers_kbps[k + 1]
      BY <3>1, <3>2 DEF lo
    <3>6. (b - tiers_kbps[k]) * (confs[k + 1] - confs[k]) >= (threshold - confs[k]) * (tiers_kbps[k + 1] - tiers_kbps[k])
      <4>1. (b - lo) * d >= t * w
        BY <2>6, <3>1
      <4> QED BY <3>2, <4>1 DEF lo, t, w, d
    <3> HIDE DEF b, k, n
    <3>7. Enough(b, confs)
      BY <3>2, <3>4, <3>5, <3>6 DEF Enough, n
    <3> QED BY <2>7, <3>7 DEF b
  <2>11. q = w \/ q + 1 = w \/ q + 1 < w
    BY <2>2, <2>6
  <2> QED BY <2>8, <2>9, <2>10, <2>11
<1> QED BY <1>4, <1>5

(* The next tier above a bitrate is above every tier it has reached.        *)
LEMMA NextIsHigher ==
  ASSUME NEW b \in Nat, b < TopTier
  PROVE  \E j \in Tiers : /\ nextTierAbove(b) = tiers_kbps[j] /\ b < tiers_kbps[j]
                          /\ \A i \in Tiers : b >= tiers_kbps[i] => i < j
<1> DEFINE T == {tiers_kbps[i] : i \in {i \in Tiers : tiers_kbps[i] > b}}
<1>1. nextTierAbove(b) = Min(T)
  <2>1. ~(b >= TopTier)
    BY TiersRise
  <2> QED BY <2>1 DEF nextTierAbove
<1>2. T \subseteq Nat /\ T # {}
  <2>1. Len(tiers_kbps) \in Tiers /\ TopTier > b /\ TopTier = tiers_kbps[Len(tiers_kbps)]
    BY TiersRise
  <2>2. TopTier \in T
    BY <2>1
  <2>3. T \subseteq Nat
    BY TiersRise
  <2> QED BY <2>2, <2>3
<1>3. Min(T) \in T
  BY <1>2, MinIsLeast
<1>4. PICK j \in Tiers : Min(T) = tiers_kbps[j] /\ tiers_kbps[j] > b
  BY <1>3
<1>5. ASSUME NEW i \in Tiers, b >= tiers_kbps[i] PROVE i < j
  <2>1. tiers_kbps[i] \in Nat /\ tiers_kbps[j] \in Nat /\ i \in Nat /\ j \in Nat
    BY <1>4, TiersRise
  <2>2. tiers_kbps[i] < tiers_kbps[j]
    BY <1>4, <1>5, <2>1
  <2> SUFFICES ASSUME j <= i PROVE FALSE
    BY <2>1
  <2>3. CASE j = i
    BY <2>1, <2>2, <2>3
  <2>4. CASE j < i
    <3>1. tiers_kbps[j] < tiers_kbps[i]
      BY <1>4, <2>4, TiersRise
    <3> QED BY <2>1, <2>2, <3>1
  <2> QED BY <2>1, <2>3, <2>4
<1>6. b < tiers_kbps[j]
  BY <1>4, TiersRise
<1> QED BY <1>1, <1>4, <1>5, <1>6

LEMMA LesserOf ==
  ASSUME NEW a \in Nat, NEW b \in Nat
  PROVE  Min({a, b}) \in Nat /\ Min({a, b}) <= a /\ Min({a, b}) <= b /\ (Min({a, b}) = a \/ Min({a, b}) = b)
<1>1. {a, b} \subseteq Nat /\ {a, b} # {}
  OBVIOUS
<1>2. Min({a, b}) \in {a, b} /\ \A y \in {a, b} : Min({a, b}) <= y
  BY <1>1, MinIsLeast
<1> QED BY <1>2

(* Bitrate a, after b, nears the end by one frame.                          *)
Nearer(a, b, s, confs) ==
  /\ a \in Nat /\ a <= s /\ Nears(a, s, confs, 1)
  /\ \A n \in Nat : b <= s /\ Nears(b, s, confs, n) => Nears(a, s, confs, n + 1)

(* One frame: what the rule makes of bitrate b when s is suggested.         *)
LEMMA Adjusted ==
  ASSUME NEW f, NEW b \in Nat, NEW s \in Nat, rows # <<>>, NEW confs \in [Tiers -> Nat], confs = rows[computeRowIndex(f)]
  PROVE  Nearer(Min({s, AdjustBitrate(f, b, s)}), b, s, confs)
<1> DEFINE x == AdjustBitrate(f, b, s)
           a == Min({s, x})
<1> SUFFICES Nearer(a, b, s, confs)
  OBVIOUS
<1>0. x = IF b > s THEN Min({b, s})
          ELSE IF Enough(b, confs) THEN b
          ELSE IF Sufficient(confs) # {} THEN Min({s, Raised(confs)})
          ELSE IF b < TopTier THEN Min({s, nextTierAbove(b)})
          ELSE Min({s, b})
  BY DEF AdjustBitrate
<1> HIDE DEF x
<1>1. ASSUME x \in Nat, a = s PROVE Nearer(a, b, s, confs)
  <2> HIDE DEF a
  <2>1. \A n : Nears(a, s, confs, n)
    BY <1>1 DEF Nears
  <2>2. a \in Nat /\ a <= s
    BY <1>1
  <2> QED BY <2>1, <2>2 DEF Nearer
<1>2. CASE b > s
  <2>1. Min({b, s}) = s
    BY <1>2, LesserOf
  <2>2. x = s
    BY <1>0, <1>2, <2>1
  <2>3. a = s /\ x \in Nat
    BY <2>2, LesserOf
  <2> QED BY <1>1, <2>3
<1>3. CASE b <= s /\ Enough(b, confs)
  <2>1. x = b
    BY <1>0, <1>3
  <2>2. a \in Nat /\ a <= s /\ (a = s \/ a = b)
    BY <2>1, LesserOf
  <2>3. a = b
    <3>1. a <= b
      BY <2>1, LesserOf
    <3> QED BY <1>3, <2>2, <3>1
  <2> HIDE DEF a
  <2>4. Enough(a, confs)
    BY <1>3, <2>3
  <2>5. \A n : Nears(a, s, confs, n)
    BY <2>4 DEF Nears
  <2> QED BY <2>2, <2>5 DEF Nearer
<1>4. CASE b <= s /\ ~Enough(b, confs) /\ Sufficient(confs) # {}
  <2>1. x = Min({s, Raised(confs)}) /\ Raised(confs) \in Nat
    BY <1>0, <1>4, RaisedEnough
  <2>2. x \in Nat /\ x <= s /\ (x = s \/ x = Raised(confs))
    BY <2>1, LesserOf
  <2>3. a \in Nat /\ a <= s /\ (a = s \/ a = x) /\ a <= x
    BY <2>2, LesserOf
  <2> HIDE DEF a
  <2>4. a = s \/ a = Raised(confs)
    BY <2>2, <2>3
  <2>5. \A n : Nears(a, s, confs, n)
    BY <1>4, <2>4 DEF Nears
  <2> QED BY <2>3, <2>5 DEF Nearer
<1>5. CASE b <= s /\ ~Enough(b, confs) /\ Sufficient(confs) = {} /\ b < TopTier
  <2>1. PICK j \in Tiers : /\ nextTierAbove(b) = tiers_kbps[j] /\ b < tiers_kbps[j]
                           /\ \A i \in Tiers : b >= tiers_kbps[i] => i < j
    BY <1>5, NextIsHigher
  <2>2. tiers_kbps[j] \in Nat /\ j \in Nat /\ j >= 1
    BY TiersRise
  <2>3. x = Min({s, tiers_kbps[j]})
    BY <1>0, <1>5, <2>1
  <2>4. x \in Nat /\ x <= s /\ (x = s \/ x = tiers_kbps[j])
    BY <2>2, <2>3, LesserOf
  <2>5. a \in Nat /\ a <= s /\ (a = s \/ a = x) /\ a <= x
    BY <2>4, LesserOf
  <2> HIDE DEF a
  <2>6. CASE a = s
    <3>1. \A n : Nears(a, s, confs, n)
      BY <2>6 DEF Nears
    <3> QED BY <2>5, <3>1 DEF Nearer
  <2>7. CASE a = tiers_kbps[j]
    <3>1. Nears(a, s, confs, 1)
      BY <1>5, <2>2, <2>7 DEF Nears
    <3>2. ASSUME NEW n \in Nat, Nears(b, s, confs, n) PROVE Nears(a, s, confs, n + 1)
      <4>1. CASE b = s
        <5>1. tiers_kbps[j] <= s
          BY <2>5, <2>7
        <5> QED BY <2>1, <2>2, <4>1, <5>1
      <4>2. CASE \E i \in Tiers : b >= tiers_kbps[i] /\ (i >= n \/ i = Len(tiers_kbps))
        <5>1. PICK i \in Tiers : b >= tiers_kbps[i] /\ (i >= n \/ i = Len(tiers_kbps))
          BY <4>2
        <5>2. i < j /\ i \in Nat /\ Len(tiers_kbps) \in Nat /\ j <= Len(tiers_kbps)
          BY <2>1, <5>1, TiersRise
        <5>3. j >= n + 1
          BY <2>2, <5>1, <5>2
        <5>4. a >= tiers_kbps[j]
          BY <2>2, <2>7
        <5> QED BY <1>5, <5>3, <5>4 DEF Nears
      <4> QED BY <1>5, <3>2, <4>1, <4>2 DEF Nears
    <3> QED BY <2>5, <3>1, <3>2 DEF Nearer
  <2> QED BY <2>4, <2>5, <2>6, <2>7
<1>6. CASE b <= s /\ ~Enough(b, confs) /\ Sufficient(confs) = {} /\ b >= TopTier
  <2>1. ~(b < TopTier)
    BY <1>6, TiersRise
  <2>2. Min({s, b}) = b
    BY <1>6, LesserOf
  <2>3. x = b
    BY <1>0, <1>6, <2>1, <2>2
  <2>4. a = b
    BY <2>2, <2>3
  <2> HIDE DEF a
  <2>5. Len(tiers_kbps) \in Tiers /\ a >= tiers_kbps[Len(tiers_kbps)]
    BY <1>6, <2>4, TiersRise
  <2>6. \A n : Nears(a, s, confs, n)
    BY <1>6, <2>5 DEF Nears
  <2> QED BY <1>6, <2>4, <2>6 DEF Nearer
<1>7. b > s \/ b <= s
  OBVIOUS
<1>8. b < TopTier \/ b >= TopTier
  BY TiersRise
<1> QED BY <1>2, <1>3, <1>4, <1>5, <1>6, <1>7, <1>8

LEMMA RowFits ==
  ASSUME NEW n \in Nat, rows \in [1 .. n -> [Tiers -> Nat]], rows # <<>>, NEW i \in Nat
  PROVE  rows[computeRowIndex(i)] \in [Tiers -> Nat]
<1>1. n # 0
  OBVIOUS
<1>2. Len(rows) = n
  BY LenProperties
<1>3. i \div frames_per_row + 1 \in Nat /\ i \div frames_per_row + 1 >= 1
  <2>1. frames_per_row \in Nat \ {0}
    BY AbrAssumption
  <2>2. i <= frames_per_row * i
    BY <2>1
  <2>3. i \div frames_per_row \in 0 .. i
    BY <2>1, <2>2, Quotient
  <2> QED BY <2>3
<1>4. computeRowIndex(i) \in 1 .. n
  <2> DEFINE x == i \div frames_per_row + 1
  <2>1. computeRowIndex(i) = Min({x, n})
    BY <1>2 DEF computeRowIndex
  <2>2. x \in Nat /\ x >= 1
    BY <1>3
  <2> HIDE DEF x
  <2> QED BY <1>1, <2>1, <2>2, LesserOf
<1> QED BY <1>4

LEMMA StepAbr == AbrInv /\ [AbrNext]_abrVars => AbrInv'
<1> SUFFICES ASSUME AbrInv, [AbrNext]_abrVars PROVE AbrInv'
  OBVIOUS
<1>1. CASE UNCHANGED abrVars
  BY <1>1 DEF abrVars, AbrInv, Confs, computeRowIndex, Nears, Enough, Sufficient, Raised
<1>2. ASSUME NEW s \in CcBitrates, try_send_video(s) PROVE AbrInv'
  <2>1. /\ last_bitrate' = Min({s, AdjustBitrate(index, last_bitrate, s)})
        /\ index' = index + 1 /\ cc' = s /\ rows' = rows
        /\ calm' = IF s = cc /\ (rows = <<>> \/ index = 0 \/ computeRowIndex(index) = computeRowIndex(index - 1))
                   THEN calm + 1 ELSE 1
    BY <1>2 DEF try_send_video
  <2>2. s \in Nat /\ index \in Nat /\ last_bitrate \in Nat /\ calm \in Nat
    BY AbrAssumption DEF AbrInv
  <2>3. PICK n \in Nat : rows \in [1 .. n -> [Tiers -> Nat]]
    BY DEF AbrInv
  <2>6. (\E k \in Nat : rows \in [1 .. k -> [Tiers -> Nat]])' /\ index' \in Nat /\ cc' \in Nat /\ calm' \in Nat /\ index' > 0
    <3>1. \E k \in Nat : rows' \in [1 .. k -> [Tiers -> Nat]]
      BY <2>1, <2>3
    <3>2. Tiers' = Tiers
      BY DEF Tiers
    <3>3. index' \in Nat /\ cc' \in Nat /\ calm' \in Nat /\ index' > 0
      BY <2>1, <2>2
    <3> QED BY <3>1, <3>2, <3>3
  <2>4. CASE rows = <<>>
    <3>1. last_bitrate' = Min({s, Min({last_bitrate, s})})
      BY <2>1, <2>4 DEF AdjustBitrate
    <3>2. Min({last_bitrate, s}) \in Nat
      BY <2>2, LesserOf
    <3>3. last_bitrate' \in Nat /\ last_bitrate' <= s
      BY <2>2, <3>1, <3>2, LesserOf
    <3> QED BY <2>1, <2>4, <2>6, <3>3 DEF AbrInv
  <2>5. CASE rows # <<>>
    <3> DEFINE confs == rows[computeRowIndex(index)]
               a == Min({s, AdjustBitrate(index, last_bitrate, s)})
    <3>1. confs \in [Tiers -> Nat]
      BY <2>2, <2>3, <2>5, RowFits
    <3>0. Nearer(a, last_bitrate, s, confs)
      BY <2>2, <2>5, <3>1, Adjusted
    <3>2. /\ a \in Nat /\ a <= s /\ Nears(a, s, confs, 1)
          /\ \A k \in Nat : last_bitrate <= s /\ Nears(last_bitrate, s, confs, k) => Nears(a, s, confs, k + 1)
      BY <3>0 DEF Nearer
    <3>3. Confs' = confs
      BY <2>1, <2>2 DEF Confs, computeRowIndex
    <3>4. calm' \in Nat /\ Nears(a, s, confs, calm')
      <4>1. CASE calm' = 1
        BY <3>2, <4>1
      <4>2. CASE calm' # 1
        <5>1. calm' = calm + 1 /\ calm > 0 /\ s = cc /\ (index = 0 \/ computeRowIndex(index) = computeRowIndex(index - 1))
          BY <2>1, <2>2, <2>5, <4>2
        <5>2. index > 0 /\ last_bitrate <= s /\ Nears(last_bitrate, s, Confs, calm)
          BY <2>5, <5>1 DEF AbrInv
        <5>3. Confs = confs
          BY <2>2, <5>1, <5>2 DEF Confs
        <5>4. Nears(last_bitrate, s, confs, calm)
          BY <5>2, <5>3
        <5>5. Nears(a, s, confs, calm + 1)
          BY <2>2, <3>2, <5>2, <5>4
        <5> QED BY <2>2, <5>1, <5>5
      <4> QED BY <4>1, <4>2
    <3>5. last_bitrate' = a
      BY <2>1
    <3> HIDE DEF a, confs
    <3>6. Nears(last_bitrate', s, confs, calm')
      BY <3>4, <3>5
    <3>7. Nears(last_bitrate, cc, Confs, calm)' = Nears(last_bitrate', cc', Confs', calm')
      BY DEF Nears, Enough, Sufficient, Raised
    <3>8. Nears(last_bitrate, cc, Confs, calm)'
      BY <2>1, <3>3, <3>6, <3>7
    <3> QED BY <2>1, <2>6, <3>2, <3>5, <3>8 DEF AbrInv
  <2> QED BY <2>4, <2>5
<1> QED BY <1>1, <1>2 DEF AbrNext

LEMMA InitAbr == AbrInit => AbrInv
<1> SUFFICES ASSUME AbrInit PROVE AbrInv
  OBVIOUS
<1>1. PICK n \in Rows : rows \in [1 .. n -> [Tiers -> Confidences]]
  BY DEF AbrInit
<1>2. n \in Nat /\ rows \in [1 .. n -> [Tiers -> Nat]]
  BY <1>1, AbrAssumption
<1>3. index = 0 /\ last_bitrate = first_bitrate /\ cc = first_bitrate /\ calm = 0
  BY DEF AbrInit
<1>4. first_bitrate \in Nat
  BY AbrAssumption
<1>5. \E k \in Nat : rows \in [1 .. k -> [Tiers -> Nat]]
  BY <1>2
<1>6. index \in Nat /\ last_bitrate \in Nat /\ cc \in Nat /\ calm \in Nat /\ ~(calm > 0)
  BY <1>3, <1>4
<1> QED BY <1>5, <1>6 DEF AbrInv

(* For every ladder of tiers, every table and every suggestion: the rule    *)
(* settles within as many frames as there are tiers, and one.               *)
THEOREM BitrateAlwaysSettles == AbrSpec => []BitrateSettles
<1>1. ASSUME AbrInv PROVE BitrateSettles
  <2> SUFFICES ASSUME calm > Len(tiers_kbps), rows # <<>>
               PROVE  \/ EnoughOrOneAbove(last_bitrate) \/ last_bitrate = cc
                      \/ Sufficient(Confs) = {} /\ last_bitrate >= TopTier
    BY DEF BitrateSettles
  <2>1. Len(tiers_kbps) \in Nat /\ calm > 0 /\ calm \in Nat
    BY <1>1, TiersRise DEF AbrInv
  <2>2. index > 0 /\ index \in Nat /\ Nears(last_bitrate, cc, Confs, calm)
    BY <1>1, <2>1 DEF AbrInv
  <2>3. Confs \in [Tiers -> Nat]
    <3>1. index - 1 \in Nat
      BY <2>2
    <3>2. PICK n \in Nat : rows \in [1 .. n -> [Tiers -> Nat]]
      BY <1>1 DEF AbrInv
    <3> QED BY <3>1, <3>2, RowFits DEF Confs
  <2> HIDE DEF Confs
  <2>4. CASE Enough(last_bitrate, Confs)
    BY <2>4 DEF EnoughOrOneAbove
  <2>5. CASE Sufficient(Confs) # {} /\ last_bitrate = Raised(Confs)
    BY <2>3, <2>5, RaisedEnough DEF EnoughOrOneAbove
  <2>6. CASE Sufficient(Confs) = {} /\ \E i \in Tiers : last_bitrate >= tiers_kbps[i] /\ (i >= calm \/ i = Len(tiers_kbps))
    <3>1. PICK i \in Tiers : last_bitrate >= tiers_kbps[i] /\ (i >= calm \/ i = Len(tiers_kbps))
      BY <2>6
    <3>2. i = Len(tiers_kbps)
      BY <2>1, <3>1, TiersRise
    <3> QED BY <2>6, <3>1, <3>2, TiersRise
  <2> QED BY <2>2, <2>4, <2>5, <2>6 DEF Nears
<1> QED BY <1>1, InitAbr, StepAbr, PTL DEF AbrSpec
=============================================================================
