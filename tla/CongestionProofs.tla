-------------------------- MODULE CongestionProofs --------------------------
(***************************************************************************)
(* Proofs about what the congestion controllers know, and about the        *)
(* controller of BBR.                                                      *)
(*                                                                         *)
(* The feedback of BBR and that of GCC: packets are told apart over the    *)
(* wrap of their numbers on the wire, for every range of numbers and every *)
(* lag below half of it, and packets and bytes are counted once, however   *)
(* packets and reports are lost, repeated and reordered.  And for every    *)
(* gain cycle, every window and every time the controller waits: its modes *)
(* are sound, its windows never close, it probes for the least RTT long    *)
(* enough and gives the RTT up only then.  Last, that a report of REMB     *)
(* gives the rate and the loss of what really came.                        *)
(*                                                                         *)
(* A feedback goes through the steps of bbr_on_feedback: each has lemmas   *)
(* on what it keeps of a controller.                                       *)
(***************************************************************************)
EXTENDS BbrFeedback, GccFeedback, BbrController, WindowedFilter, RembReceiver, NumberLemmas

(***************************************************************************)
(* What the 16 bit unwrapper of common/cf_unwrapper.c returns, for every   *)
(* range of numbers on the wire.                                           *)
(***************************************************************************)
(* Every number is a multiple of the range and its remainder.               *)
LEMMA Remainder ==
  ASSUME NEW R \in Nat \ {0}, NEW a \in Int
  PROVE  /\ a % R \in 0 .. R - 1
         /\ \E q \in Int : a = R * q + (a % R)
<1>1. a % R \in 0 .. R - 1
  OBVIOUS
<1>2. a = R * (a \div R) + (a % R)
  OBVIOUS
<1>3. a \div R \in Int
  OBVIOUS
<1>4. QED
  BY <1>1, <1>2, <1>3

(* A multiple of the range that is less than twice the range is at most one *)
(* range.                                                                   *)
LEMMA SmallMultiple ==
  ASSUME NEW R \in Nat \ {0}, NEW k \in Int, -2 * R < R * k, R * k < 2 * R
  PROVE  R * k \in {-R, 0, R}
<1>1. ASSUME k >= 2 PROVE FALSE
  <2>1. PICK j \in Nat : k = j + 2
    BY <1>1
  <2>2. R * k = R * j + R * 2 /\ R * j >= 0
    BY <2>1
  <2>3. QED
    BY <2>2
<1>2. ASSUME k <= -2 PROVE FALSE
  <2>1. PICK j \in Nat : k = -j - 2
    BY <1>2
  <2>2. R * k = -(R * j) - R * 2 /\ R * j >= 0
    BY <2>1
  <2>3. QED
    BY <2>2
<1>3. k \in {-1, 0, 1}
  BY <1>1, <1>2
<1>4. QED
  BY <1>3

(* A remainder is the only one.                                             *)
LEMMA OnlyRemainder ==
  ASSUME NEW R \in Nat \ {0}, NEW q \in Int, NEW r \in 0 .. R - 1
  PROVE  (R * q + r) % R = r
<1> DEFINE a == R * q + r
<1>1. a \in Int
  OBVIOUS
<1>2. a % R \in 0 .. R - 1
  BY <1>1, Remainder
<1>3. PICK p \in Int : a = R * p + (a % R)
  BY <1>1, Remainder
<1>4. R * (q - p) = R * q - R * p
  OBVIOUS
<1>5. R * (q - p) = (a % R) - r
  BY <1>2, <1>3, <1>4
<1>6. R * (q - p) \in {-R, 0, R}
  BY <1>2, <1>5, SmallMultiple
<1>7. QED
  BY <1>2, <1>5, <1>6

(* Two numbers less than a range apart: what their remainders differ by is  *)
(* what they differ by, or a range more or less.                            *)
LEMMA RemaindersDiffer ==
  ASSUME NEW R \in Nat \ {0}, NEW a \in Int, NEW b \in Int, a - b < R, b - a < R
  PROVE  (a % R) - (b % R) \in {a - b, a - b + R, a - b - R}
<1> DEFINE x == a % R
           y == b % R
<1>1. PICK p \in Int : a = R * p + x
  BY Remainder
<1>2. PICK q \in Int : b = R * q + y
  BY Remainder
<1>3. x \in 0 .. R - 1 /\ y \in 0 .. R - 1
  BY Remainder
<1> HIDE DEF x, y
<1>4. R * (p - q) = R * p - R * q /\ R * p \in Int /\ R * q \in Int
  OBVIOUS
<1>5. R * (p - q) = (a - b) - (x - y)
  BY <1>1, <1>2, <1>3, <1>4
<1>6. R * (p - q) \in {-R, 0, R}
  BY <1>3, <1>5, SmallMultiple
<1>7. x - y \in {a - b, a - b + R, a - b - R}
  BY <1>3, <1>5, <1>6
<1>8. QED
  BY <1>7 DEF x, y

(* The difference of the remainders modulo the range is the difference, if  *)
(* that is not negative.                                                    *)
LEMMA DifferenceModulo ==
  ASSUME NEW R \in Nat \ {0}, NEW d \in 0 .. R - 1, NEW x \in {d, d + R, d - R}
  PROVE  x % R = d
<1>1. x = R * 0 + d \/ x = R * 1 + d \/ x = R * (-1) + d
  OBVIOUS
<1>2. QED
  BY <1>1, OnlyRemainder

(* wrap_uint16 finds the true number of a packet whose number on the wire   *)
(* it is given, whenever that is less than half the range from the last.    *)
THEOREM UnwrapsTrue ==
  ASSUME NEW last \in Nat, NEW t \in Nat,
         t - last < SeqRange \div 2, last - t < SeqRange \div 2
  PROVE  wrap16_update(last, t % SeqRange) = t
<1> DEFINE R == SeqRange
           h == SeqRange \div 2
           l == last % R
           v == t % R
           delta == v - l
<1>1. R \in Nat \ {0} /\ h \in Nat /\ R = 2 * h
  BY SeqRangeAssumption
<1>4. t - last < h /\ last - t < h
  OBVIOUS
<1> HIDE DEF R, h
<1>2. l \in 0 .. R - 1 /\ v \in 0 .. R - 1
  <2>1. R \in Nat \ {0} /\ last \in Int /\ t \in Int
    BY <1>1
  <2>2. last % R \in 0 .. R - 1
    BY <2>1, Remainder
  <2>3. t % R \in 0 .. R - 1
    BY <2>1, Remainder
  <2>4. QED
    BY <2>2, <2>3
<1>3. delta \in {t - last, t - last + R, t - last - R}
  <2>1. t - last < R /\ last - t < R
    BY <1>1, <1>4
  <2>2. R \in Nat \ {0} /\ last \in Int /\ t \in Int
    BY <1>1
  <2>3. (t % R) - (last % R) \in {t - last, t - last + R, t - last - R}
    BY <2>1, <2>2, RemaindersDiffer
  <2>4. QED
    BY <2>3
<1> HIDE DEF l, v
<1>5. CASE t > last
  <2>1. delta % R = t - last
    <3>1. t - last \in 0 .. R - 1
      BY <1>1, <1>4, <1>5
    <3>2. QED
      BY <1>1, <1>3, <3>1, DifferenceModulo
  <2>2. delta # h
    BY <1>1, <1>3, <1>4, <1>5
  <2>3. v # l
    BY <1>1, <1>2, <1>3, <1>4, <1>5
  <2>4. wrap16_is_newer(v, l)
    BY <2>1, <2>2, <2>3, <1>4 DEF wrap16_is_newer, h, R
  <2>5. wrap16_update(last, v) = last + (IF delta < 0 THEN delta + R ELSE delta)
    BY <2>4 DEF wrap16_update, l, R
  <2>6. QED
    BY <2>5, <1>1, <1>2, <1>3, <1>4, <1>5 DEF v, R
<1>6. CASE t = last
  <2>1. delta = 0 /\ v = l
    BY <1>2, <1>6 DEF v, l
  <2>2. ~wrap16_is_newer(v, l)
    BY <2>1, <1>1 DEF wrap16_is_newer, h, R
  <2>3. wrap16_update(last, v) = last + 0
    BY <2>1, <2>2 DEF wrap16_update, l, R
  <2>4. QED
    BY <2>3, <1>6 DEF v, R
<1>7. CASE t < last
  <2>1. delta % R = t - last + R
    <3>1. t - last + R \in 0 .. R - 1
      BY <1>1, <1>4, <1>7
    <3>2. delta \in {t - last + R, (t - last + R) + R, (t - last + R) - R}
      BY <1>1, <1>2, <1>3, <1>4, <1>7
    <3>3. QED
      BY <1>1, <3>1, <3>2, DifferenceModulo
  <2>2. delta = h => v < l
    BY <1>1, <1>2, <1>3, <1>4, <1>7
  <2>3. ~wrap16_is_newer(v, l)
    BY <2>1, <2>2, <1>1, <1>2, <1>4 DEF wrap16_is_newer, h, R
  <2>4. wrap16_update(last, v) = last + (IF delta > 0 /\ last + delta - R >= 0 THEN delta - R ELSE delta)
    BY <2>3 DEF wrap16_update, l, R
  <2>5. QED
    BY <2>4, <1>1, <1>2, <1>3, <1>4, <1>7 DEF v, R
<1>8. QED
  BY <1>5, <1>6, <1>7

-----------------------------------------------------------------------------
Fields == {"last_value", "last_ack_seq_num", "l", "outstanding_bytes"}

Packet(id) == [key |-> id, size |-> SizeOf(id)]

Remembered(first, n) == {Packet(id) : id \in first .. n - 1}

(* A report holds numbers of packets sent, the first of them lately.        *)
GenuineReport(r) ==
  /\ r.at \in Nat /\ r.at >= Len(sent) - Lag
  /\ \E K \in SUBSET (r.at .. Len(sent) - 1) : r.at \in K /\ r.samplers = {Wire(k) : k \in K}

(* The inductive invariant: both unwrappers are less than half the range    *)
(* from every number they may be given next.                                *)
IInv ==
  /\ sent \in Seq(Sizes)
  /\ DOMAIN hist = Fields
  /\ hist.last_value \in Nat
  /\ \/ sent = <<>> /\ hist.last_value = 0
     \/ hist.last_value < Len(sent) /\ hist.last_value >= Len(sent) - Lag
  /\ \E first \in 0 .. Len(sent) : hist.l = Remembered(first, Len(sent))
  /\ sent # <<>> => \E p \in hist.l : p.key = Len(sent) - 1
  /\ DOMAIN recv = {"last_value", "max_seq", "base_seq", "cache"}
  /\ recv.last_value \in Nat /\ (recv.last_value < Len(sent) \/ recv.last_value = 0)
  /\ Len(sent) <= recv.last_value + (SeqRange \div 2)
  /\ \A k \in recv.cache : k \in Nat /\ k < Len(sent) /\ k >= Len(sent) - Lag
  /\ \A r \in reports : GenuineReport(r)

(* The range halves, and the lag is below.                                  *)
LEMMA HalfRange == SeqRange \div 2 \in Nat /\ SeqRange = 2 * (SeqRange \div 2) /\ Lag \in Nat \ {0} /\ Lag < SeqRange \div 2
BY SeqRangeAssumption, FeedbackAssumption

(* Min and Max are what they say.                                           *)
LEMMA LeastExists ==
  ASSUME NEW S, S \subseteq Nat, S # {}
  PROVE  Min(S) \in S /\ \A y \in S : Min(S) <= y
<1>1. PICK x \in S : \A y \in S : x <= y
  BY LeastOfNat
<1>2. QED
  BY <1>1 DEF Min

LEMMA GreatestExists ==
  ASSUME NEW n \in Nat, NEW S, S \subseteq 0 .. n, S # {}
  PROVE  Max(S) \in S /\ \A y \in S : Max(S) >= y
<1> DEFINE T == {n - x : x \in S}
<1>1. T \subseteq Nat /\ T # {}
  <2>1. \A x \in S : x \in 0 .. n
    OBVIOUS
  <2>2. \A x \in S : n - x \in Nat
    BY <2>1
  <2>3. QED
    BY <2>2
<1>2. PICK z \in T : \A y \in T : z <= y
  BY <1>1, LeastOfNat
<1>3. PICK x \in S : z = n - x
  BY <1>2
<1>4. ASSUME NEW y \in S PROVE x >= y
  <2>1. z <= n - y
    BY <1>2
  <2>2. x \in Int /\ y \in Int
    OBVIOUS
  <2>3. QED
    BY <2>1, <2>2, <1>3
<1>5. QED
  BY <1>4 DEF Max

(* Adding a packet unwraps its number and keeps what is not too old.        *)
LEMMA Adding ==
  ASSUME NEW h, DOMAIN h = Fields, NEW seq, NEW size, NEW old
  PROVE  /\ sender_history_add(h, seq, size, old).last_value = wrap16_update(h.last_value, seq)
         /\ sender_history_add(h, seq, size, old).l
              = (h.l \ old) \cup {[key |-> wrap16_update(h.last_value, seq), size |-> size]}
         /\ DOMAIN sender_history_add(h, seq, size, old) = Fields
<1> DEFINE w == Without(h, old)
<1>1. w.last_value = h.last_value /\ w.l = h.l \ old /\ DOMAIN w = Fields
  BY DEF Without, Fields
<1> HIDE DEF w
<1>2. QED
  BY <1>1 DEF sender_history_add, Fields, w

(* An acknowledgement moves the unwrapper and forgets no packet.            *)
LEMMA Acknowledging ==
  ASSUME NEW h, DOMAIN h = Fields, NEW key
  PROVE  AckedUpTo(h, key).last_value = key /\ AckedUpTo(h, key).l = h.l /\ DOMAIN AckedUpTo(h, key) = Fields
BY DEF AckedUpTo, Fields

(* What is left when packets get too old, the oldest first, is what was     *)
(* sent last.                                                               *)
LEMMA OldestGo ==
  ASSUME NEW n \in Nat, NEW first \in 0 .. n, NEW old \in SUBSET Remembered(first, n),
         \A p \in old, q \in Remembered(first, n) : q.key <= p.key => q \in old
  PROVE  \E f \in 0 .. n : Remembered(first, n) \ old = Remembered(f, n)
<1> DEFINE L == Remembered(first, n)
           ids == {id \in first .. n - 1 : Packet(id) \notin old}
<1>1. CASE ids = {}
  <2>1. L \ old = {} /\ Remembered(n, n) = {}
    BY <1>1 DEF Remembered
  <2>2. QED
    BY <2>1
<1>2. CASE ids # {}
  <2>1. ids \subseteq Nat
    OBVIOUS
  <2>2. PICK m \in ids : \A y \in ids : m <= y
    BY <1>2, <2>1, LeastOfNat
  <2>3. m \in first .. n - 1 /\ Packet(m) \in L /\ Packet(m) \notin old
    BY <2>2 DEF Remembered
  <2>4. \A id \in Int : Packet(id).key = id
    BY DEF Packet
  <2>5. ASSUME NEW id \in m .. n - 1 PROVE Packet(id) \in L \ old
    <3>1. id \in first .. n - 1 /\ Packet(id) \in L
      BY <2>3 DEF Remembered
    <3>2. Packet(m).key <= Packet(id).key
      BY <2>3, <2>4
    <3>3. QED
      BY <2>3, <3>1, <3>2
  <2>6. ASSUME NEW p \in L \ old PROVE p \in Remembered(m, n)
    <3>1. PICK id \in first .. n - 1 : p = Packet(id)
      BY DEF Remembered
    <3>2. id \in ids
      BY <3>1
    <3>3. id \in m .. n - 1
      BY <2>2, <2>3, <3>2
    <3>4. QED
      BY <3>1, <3>3 DEF Remembered
  <2>7. L \ old = Remembered(m, n)
    BY <2>5, <2>6 DEF Remembered
  <2>8. QED
    BY <2>3, <2>7
<1>3. QED
  BY <1>1, <1>2

(* Nothing sent, nothing to tell apart.                                     *)
LEMMA InitIInv == FeedbackInit => IInv
<1> SUFFICES ASSUME FeedbackInit PROVE IInv
  OBVIOUS
<1>1. sent = <<>> /\ sent \in Seq(Sizes) /\ Len(sent) = 0
  BY DEF FeedbackInit
<1>2. /\ hist.last_value = 0 /\ hist.l = {} /\ DOMAIN hist = Fields
      /\ recv.last_value = 0 /\ recv.cache = {} /\ DOMAIN recv = {"last_value", "max_seq", "base_seq", "cache"}
      /\ reports = {}
  BY DEF FeedbackInit, sender_history_create, bbr_receive_create, Fields
<1>3. Remembered(0, 0) = {}
  BY DEF Remembered
<1>4. QED
  BY <1>1, <1>2, <1>3, HalfRange DEF IInv

(* The number of the next packet is unwrapped to itself.                    *)
LEMMA NextUnwraps ==
  ASSUME IInv, NEW n \in Nat, n = Len(sent)
  PROVE  wrap16_update(hist.last_value, Wire(n)) = n
<1> DEFINE half == SeqRange \div 2
<1>1. hist.last_value \in Nat /\ half \in Nat /\ Lag \in Nat \ {0} /\ Lag < half
  BY HalfRange DEF IInv
<1>2. n - hist.last_value < half /\ hist.last_value - n < half
  <2>1. CASE sent = <<>>
    BY <1>1, <2>1 DEF IInv
  <2>2. CASE sent # <<>>
    BY <1>1, <2>2 DEF IInv
  <2>3. QED
    BY <2>1, <2>2
<1>3. QED
  BY <1>1, <1>2, UnwrapsTrue DEF Wire

(* What is too old is a set of packets with every older one.               *)
LEMMA SendsOldest ==
  ASSUME NEW n \in Nat, n = Len(sent), IInv, bbr_sender_send_packet
  PROVE  \E size \in Sizes, old \in SUBSET hist.l :
           /\ \A p \in old, q \in hist.l : q.key <= p.key => q \in old
           /\ sent' = Append(sent, size)
           /\ hist' = sender_history_add(hist, Wire(n), size, old)
<1>1. PICK size \in Sizes, key \in 0 .. n :
        /\ sent' = Append(sent, size)
        /\ hist' = sender_history_add(hist, Wire(n), size, {p \in hist.l : p.key < key})
  BY DEF bbr_sender_send_packet
<1>2. PICK first \in 0 .. n : hist.l = Remembered(first, n)
  BY DEF IInv
<1>3. \A p \in hist.l : p.key \in Nat
  BY <1>2 DEF Remembered, Packet
<1>4. \A p \in {r \in hist.l : r.key < key}, q \in hist.l : q.key <= p.key => q \in {r \in hist.l : r.key < key}
  BY <1>3
<1> QED
  BY <1>1, <1>4

(* A packet sent is unwrapped to its number, and the reports and keys kept  *)
(* stay as near as they were.                                               *)
LEMMA SendKeeps == IInv /\ bbr_sender_send_packet => IInv'
<1> SUFFICES ASSUME IInv, bbr_sender_send_packet PROVE IInv'
  OBVIOUS
<1> DEFINE half == SeqRange \div 2
<1>0. PICK n \in Nat : n = Len(sent)
  BY DEF IInv
<1>1. /\ sent \in Seq(Sizes) /\ n = Len(sent) /\ DOMAIN hist = Fields
      /\ hist.last_value \in Nat /\ half \in Nat /\ Lag \in Nat \ {0} /\ Lag < half
  BY <1>0, HalfRange DEF IInv
<1>2. PICK size \in Sizes, old \in SUBSET hist.l :
        /\ \A p \in old, q \in hist.l : q.key <= p.key => q \in old
        /\ sent' = Append(sent, size)
        /\ hist' = sender_history_add(hist, Wire(n), size, old)
  BY <1>0, SendsOldest
<1>3. /\ n < recv.last_value + half
      /\ \A key \in recv.cache : key > n - Lag
      /\ reports' = {r \in reports : r.at >= n + 1 - Lag}
      /\ recv' = recv
  BY <1>1 DEF bbr_sender_send_packet
<1>4. /\ sent' \in Seq(Sizes) /\ Len(sent') = n + 1 /\ sent' # <<>>
      /\ \A i \in 1 .. n : sent'[i] = sent[i]
      /\ sent'[n + 1] = size
  BY <1>1, <1>2
<1>5. wrap16_update(hist.last_value, Wire(n)) = n
  BY <1>1, NextUnwraps
<1>6. /\ hist'.last_value = n /\ DOMAIN hist' = Fields
      /\ hist'.l = (hist.l \ old) \cup {[key |-> n, size |-> size]}
  BY <1>1, <1>2, <1>5, Adding
<1>7. PICK f \in 0 .. n : hist.l \ old = Remembered(f, n)
  <2>1. PICK first \in 0 .. n : hist.l = Remembered(first, n)
    BY <1>1 DEF IInv
  <2>2. /\ old \in SUBSET Remembered(first, n)
        /\ \A p \in old, q \in Remembered(first, n) : q.key <= p.key => q \in old
    BY <1>2, <2>1
  <2>3. \E f \in 0 .. n : Remembered(first, n) \ old = Remembered(f, n)
    BY <2>2, OldestGo
  <2>4. QED
    BY <2>1, <2>3
<1>8. hist'.l = Remembered(f, n + 1)'
  <2>1. ASSUME NEW id \in f .. n - 1 PROVE Packet(id)' = Packet(id)
    <3>1. id + 1 \in 1 .. n
      BY <1>1
    <3>2. QED
      BY <3>1, <1>4 DEF Packet, SizeOf
  <2>2. Packet(n)' = [key |-> n, size |-> size]
    BY <1>4 DEF Packet, SizeOf
  <2>3. f .. (n + 1) - 1 = (f .. n - 1) \cup {n}
    BY <1>1
  <2>4. Remembered(f, n + 1)' = {Packet(id)' : id \in f .. (n + 1) - 1}
    BY DEF Remembered
  <2>5. Remembered(f, n) = {Packet(id) : id \in f .. n - 1}
    BY DEF Remembered
  <2>6. QED
    BY <1>6, <1>7, <2>1, <2>2, <2>3, <2>4, <2>5
<1>9. \E p \in hist'.l : p.key = n
  <2>1. [key |-> n, size |-> size].key = n
    OBVIOUS
  <2>2. QED
    BY <1>6, <2>1
<1>10. \A r \in reports' : GenuineReport(r)'
  <2> TAKE r \in reports'
  <2>1. r \in reports /\ r.at >= n + 1 - Lag /\ GenuineReport(r)
    BY <1>3 DEF IInv
  <2>2. PICK K \in SUBSET (r.at .. n - 1) : r.at \in K /\ r.samplers = {Wire(k) : k \in K}
    BY <1>1, <2>1 DEF GenuineReport
  <2>3. r.at \in Nat
    BY <2>1 DEF GenuineReport
  <2>4. K \in SUBSET (r.at .. Len(sent') - 1)
    BY <1>1, <1>4, <2>3
  <2>5. r.at >= Len(sent') - Lag
    BY <1>1, <1>4, <2>1, <2>3
  <2>6. QED
    BY <2>2, <2>3, <2>4, <2>5 DEF GenuineReport
<1>11. /\ DOMAIN recv' = {"last_value", "max_seq", "base_seq", "cache"}
       /\ recv'.last_value \in Nat /\ (recv'.last_value < n + 1 \/ recv'.last_value = 0)
       /\ n + 1 <= recv'.last_value + half
       /\ \A k \in recv'.cache : k \in Nat /\ k < n + 1 /\ k >= n + 1 - Lag
  BY <1>1, <1>3 DEF IInv
<1>12. n \in Nat /\ n < n + 1 /\ n >= n + 1 - Lag /\ (n + 1) - 1 = n
  BY <1>1
<1>13. \E first \in 0 .. Len(sent)' : hist'.l = Remembered(first, Len(sent))'
  <2>1. f \in 0 .. n + 1
    OBVIOUS
  <2>2. QED
    BY <1>4, <1>8, <2>1
<1>14. hist'.last_value \in Nat /\ hist'.last_value < Len(sent') /\ hist'.last_value >= Len(sent') - Lag
  BY <1>1, <1>4, <1>6, <1>12
<1>15. \E p \in hist'.l : p.key = Len(sent') - 1
  BY <1>4, <1>9, <1>12
<1>16. /\ DOMAIN recv' = {"last_value", "max_seq", "base_seq", "cache"}
       /\ recv'.last_value \in Nat /\ (recv'.last_value < Len(sent') \/ recv'.last_value = 0)
       /\ Len(sent') <= recv'.last_value + (SeqRange \div 2)
       /\ \A k \in recv'.cache : k \in Nat /\ k < Len(sent') /\ k >= Len(sent') - Lag
  BY <1>1, <1>4, <1>11
<1>17. QED
  BY <1>4, <1>6, <1>10, <1>13, <1>14, <1>15, <1>16 DEF IInv

(* A report of packets among some that arrived.                             *)
Arrived(r, A) ==
  \E K \in SUBSET A : r.at \in K /\ (\A k \in K : k >= r.at) /\ r.samplers = {Wire(k) : k \in K}

(* What the receiver reports is of the packets it collected.                *)
LEMMA ReportsArrived ==
  ASSUME NEW cache, cache \subseteq Nat
  PROVE  \A r \in Reports(cache) : Arrived(r, cache)
<1> DEFINE start == StartIn(cache)
           together(k) == {j \in cache : start[j] = start[k]}
<1> SUFFICES ASSUME NEW r \in Reports(cache) PROVE Arrived(r, cache)
  OBVIOUS
<1>1. PICK k \in cache : r = [at |-> Min(together(k)), samplers |-> {Wire(j) : j \in together(k)}]
  BY DEF Reports
<1>2. together(k) \subseteq Nat /\ k \in together(k) /\ together(k) \in SUBSET cache
  OBVIOUS
<1> HIDE DEF together
<1>3. Min(together(k)) \in together(k) /\ \A y \in together(k) : Min(together(k)) <= y
  BY <1>2, LeastExists
<1>4. r.at \in together(k) /\ \A y \in together(k) : y >= r.at
  <2>1. \A y \in together(k) : y \in Nat
    BY <1>2
  <2> QED BY <1>1, <1>3, <2>1
<1>5. r.samplers = {Wire(j) : j \in together(k)}
  BY <1>1
<1>6. QED
  BY <1>2, <1>4, <1>5 DEF Arrived

(* Collected of packets sent lately, it is genuine.                         *)
LEMMA ReportsGenuine ==
  ASSUME NEW n \in Nat, n = Len(sent), NEW cache,
         \A k \in cache : k \in Nat /\ k < n /\ k >= n - Lag
  PROVE  \A r \in Reports(cache) : GenuineReport(r)
<1> SUFFICES ASSUME NEW r \in Reports(cache) PROVE GenuineReport(r)
  OBVIOUS
<1>1. cache \subseteq Nat
  OBVIOUS
<1>2. PICK K \in SUBSET cache : r.at \in K /\ (\A k \in K : k >= r.at) /\ r.samplers = {Wire(k) : k \in K}
  BY <1>1, ReportsArrived DEF Arrived
<1>3. r.at \in Nat /\ r.at >= n - Lag
  BY <1>2
<1>4. K \in SUBSET (r.at .. Len(sent) - 1)
  <2>1. \A k \in K : k \in r.at .. n - 1
    BY <1>2, <1>3
  <2> QED BY <2>1
<1>5. QED
  BY <1>2, <1>3, <1>4 DEF GenuineReport

(* The number of a packet that arrives is unwrapped to itself.              *)
LEMMA ArrivalUnwraps ==
  ASSUME IInv, NEW n \in Nat, n = Len(sent), NEW id \in 0 .. n - 1, id >= n - Lag
  PROVE  wrap16_update(recv.last_value, Wire(id)) = id
<1> DEFINE half == SeqRange \div 2
<1>1. recv.last_value \in Nat /\ half \in Nat /\ Lag \in Nat \ {0} /\ Lag < half
  BY HalfRange DEF IInv
<1>2. n <= recv.last_value + half /\ (recv.last_value < n \/ recv.last_value = 0)
  BY DEF IInv
<1>3. id - recv.last_value < half /\ recv.last_value - id < half /\ id \in Nat
  BY <1>1, <1>2
<1>4. QED
  BY <1>1, <1>3, UnwrapsTrue DEF Wire

(* A packet that arrives is one of the last Lag sent, and unwraps to its    *)
(* number whatever came before it.                                          *)
LEMMA ReceiveKeeps == IInv /\ bbr_receive_on_received => IInv'
<1> SUFFICES ASSUME IInv, bbr_receive_on_received PROVE IInv'
  OBVIOUS
<1> DEFINE half == SeqRange \div 2
<1>0. PICK n \in Nat : n = Len(sent)
  BY DEF IInv
<1>1. /\ sent \in Seq(Sizes) /\ n = Len(sent)
      /\ recv.last_value \in Nat /\ half \in Nat /\ Lag \in Nat \ {0} /\ Lag < half
  BY <1>0, HalfRange DEF IInv
<1>2. UNCHANGED <<sent, hist, sampler>>
  BY DEF bbr_receive_on_received
<1>3. PICK id \in {i \in 0 .. n - 1 : Recent(i)}, waited \in BOOLEAN :
        LET sequence == wrap16_update(recv.last_value, Wire(id))
            newest   == recv.max_seq < sequence
            cleared  == newest /\ recv.base_seq = -1
            cache    == (IF cleared THEN {} ELSE recv.cache) \cup {sequence}
            due      == Cardinality(cache) >= BBR_FEEDBACK_THROLD \/ (Cardinality(cache) > 2 /\ waited)
            new      == [recv EXCEPT !.last_value = sequence,
                                     !.max_seq = IF newest THEN sequence ELSE recv.max_seq,
                                     !.base_seq = IF cleared THEN sequence ELSE recv.base_seq]
        IN  IF ~newest /\ sequence \in recv.cache
              THEN recv' = new /\ UNCHANGED reports
            ELSE IF due
              THEN recv' = [new EXCEPT !.cache = {}] /\ reports' = reports \cup Reports(cache)
              ELSE recv' = [new EXCEPT !.cache = cache] /\ UNCHANGED reports
  BY <1>1 DEF bbr_receive_on_received
<1>4. id \in 0 .. n - 1 /\ id >= n - Lag
  BY <1>1 DEF Recent
<1>5. wrap16_update(recv.last_value, Wire(id)) = id
  BY <1>1, <1>4, ArrivalUnwraps
<1> DEFINE newest  == recv.max_seq < id
           cleared == newest /\ recv.base_seq = -1
           cache   == (IF cleared THEN {} ELSE recv.cache) \cup {id}
           new     == [recv EXCEPT !.last_value = id,
                                   !.max_seq = IF newest THEN id ELSE recv.max_seq,
                                   !.base_seq = IF cleared THEN id ELSE recv.base_seq]
<1>6. \A k \in cache : k \in Nat /\ k < n /\ k >= n - Lag
  BY <1>1, <1>4 DEF IInv
<1>7. \A r \in Reports(cache) : GenuineReport(r)
  <2> HIDE DEF cache
  <2> QED BY <1>1, <1>6, ReportsGenuine
<1>8. \/ recv' = new /\ reports' = reports
      \/ recv' = [new EXCEPT !.cache = {}] /\ reports' = reports \cup Reports(cache)
      \/ recv' = [new EXCEPT !.cache = cache] /\ reports' = reports
  BY <1>3, <1>5
<1>9. DOMAIN recv = {"last_value", "max_seq", "base_seq", "cache"} /\ recv.cache \subseteq {k \in Nat : k < n /\ k >= n - Lag}
  BY <1>1 DEF IInv
<1>10. /\ DOMAIN new = {"last_value", "max_seq", "base_seq", "cache"}
       /\ new.last_value = id /\ new.cache = recv.cache
  BY <1>9
<1> HIDE DEF new, cache
<1>11. /\ DOMAIN recv' = {"last_value", "max_seq", "base_seq", "cache"}
       /\ recv'.last_value = id
       /\ recv'.cache \in {recv.cache, {}, cache}
  BY <1>8, <1>10
<1>12. \A r \in reports' : GenuineReport(r)
  BY <1>7, <1>8 DEF IInv
<1>13. \A r \in reports' : GenuineReport(r)'
  BY <1>2, <1>12 DEF GenuineReport
<1>14. \A k \in recv'.cache : k \in Nat /\ k < n /\ k >= n - Lag
  BY <1>6, <1>9, <1>11
<1>15. n <= id + half /\ id \in Nat /\ id < n
  BY <1>1, <1>4
<1>16. \E first \in 0 .. Len(sent)' : hist'.l = Remembered(first, Len(sent))'
  <2>1. PICK first \in 0 .. n : hist.l = Remembered(first, n)
    BY <1>1 DEF IInv
  <2>2. Remembered(first, n)' = Remembered(first, n)
    BY <1>2 DEF Remembered, Packet, SizeOf
  <2>3. QED
    BY <1>1, <1>2, <2>1, <2>2
<1>17. QED
  BY <1>1, <1>2, <1>11, <1>13, <1>14, <1>15, <1>16 DEF IInv

(* A report is read back to the numbers it was made of, whatever came       *)
(* before it.                                                               *)
Offset(r, s) == (s - Wire(r.at)) % SeqRange

LEMMA ReportRead ==
  ASSUME IInv, NEW r \in reports,
         NEW K \in SUBSET (r.at .. Len(sent) - 1), r.at \in K, r.samplers = {Wire(k) : k \in K}
  PROVE  /\ r.at \in Nat /\ r.at < Len(sent) /\ r.at >= Len(sent) - Lag
         /\ wrap16_update(hist.last_value, Wire(r.at)) = r.at
         /\ {r.at + Offset(r, s) : s \in r.samplers} = K
         /\ r.at + Max({Offset(r, s) : s \in r.samplers}) \in r.at .. Len(sent) - 1
<1> DEFINE half == SeqRange \div 2
<1>0. PICK n \in Nat : n = Len(sent)
  BY DEF IInv
<1>1. /\ sent \in Seq(Sizes) /\ n = Len(sent)
      /\ hist.last_value \in Nat /\ half \in Nat /\ Lag \in Nat \ {0} /\ Lag < half /\ SeqRange = 2 * half
      /\ SeqRange \in Nat \ {0}
  BY <1>0, HalfRange, SeqRangeAssumption DEF IInv
<1>2. r.at \in Nat /\ r.at >= n - Lag
  BY <1>1 DEF IInv, GenuineReport
<1>3. r.at < n
  BY <1>1, <1>2
<1>4. wrap16_update(hist.last_value, Wire(r.at)) = r.at
  <2>1. hist.last_value < n /\ hist.last_value >= n - Lag
    <3>1. sent # <<>>
      BY <1>1, <1>2, <1>3
    <3>2. QED
      BY <1>1, <3>1 DEF IInv
  <2>2. r.at - hist.last_value < half /\ hist.last_value - r.at < half
    BY <1>1, <1>2, <1>3, <2>1
  <2>3. QED
    BY <1>1, <1>2, <2>2, UnwrapsTrue DEF Wire
<1>5. ASSUME NEW k \in K PROVE Offset(r, Wire(k)) = k - r.at
  <2>1. k \in Int /\ r.at \in Int /\ k - r.at \in 0 .. SeqRange - 1
    BY <1>1, <1>2
  <2>2. k - r.at < SeqRange /\ r.at - k < SeqRange
    BY <1>1, <2>1
  <2>3. (k % SeqRange) - (r.at % SeqRange) \in {k - r.at, k - r.at + SeqRange, k - r.at - SeqRange}
    BY <1>1, <2>1, <2>2, RemaindersDiffer
  <2>4. ((k % SeqRange) - (r.at % SeqRange)) % SeqRange = k - r.at
    BY <1>1, <2>1, <2>3, DifferenceModulo
  <2>5. QED
    BY <2>4 DEF Wire, Offset
<1> DEFINE offsets == {Offset(r, s) : s \in r.samplers}
<1>6. offsets = {k - r.at : k \in K}
  BY <1>5
<1>7. r.at + Max(offsets) \in r.at .. n - 1
  <2>1. offsets # {}
    BY <1>6
  <2>2. ASSUME NEW k \in K PROVE k - r.at \in 0 .. n
    <3>1. k \in Int /\ r.at <= k /\ k < n /\ r.at \in Nat /\ n \in Nat
      BY <1>1, <1>2
    <3> HIDE DEF offsets
    <3> QED BY <3>1
  <2>3. offsets \subseteq 0 .. n
    <3> HIDE DEF offsets
    <3> QED BY <1>6, <2>2
  <2> HIDE DEF offsets
  <2>4. Max(offsets) \in offsets
    BY <2>1, <2>3, GreatestExists
  <2>5. PICK k \in K : Max(offsets) = k - r.at
    BY <1>6, <2>4
  <2>6. QED
    BY <1>1, <1>2, <2>5
<1>8. {r.at + Offset(r, s) : s \in r.samplers} = K
  <2>1. \A k \in K : r.at + Offset(r, Wire(k)) = k
    BY <1>1, <1>2, <1>5
  <2>2. \A k \in K : k \in {r.at + Offset(r, s) : s \in r.samplers}
    <3> TAKE k \in K
    <3>1. Wire(k) \in r.samplers /\ r.at + Offset(r, Wire(k)) = k
      BY <2>1
    <3> QED BY <3>1
  <2>3. \A s \in r.samplers : r.at + Offset(r, s) \in K
    BY <2>1
  <2> QED BY <2>2, <2>3
<1>9. QED
  BY <1>1, <1>2, <1>3, <1>4, <1>7, <1>8

(* So the sender's unwrapper moves among the numbers of packets sent.       *)
LEMMA FeedbackKeeps == IInv /\ bbr_sender_on_feedback => IInv'
<1> SUFFICES ASSUME IInv, bbr_sender_on_feedback PROVE IInv'
  OBVIOUS
<1>0. PICK n \in Nat : n = Len(sent)
  BY DEF IInv
<1>1. sent \in Seq(Sizes) /\ n = Len(sent) /\ DOMAIN hist = Fields /\ Lag \in Nat \ {0}
  BY <1>0, HalfRange DEF IInv
<1>2. sent' = sent /\ recv' = recv
  BY DEF bbr_sender_on_feedback
<1>3. PICK r \in reports :
        LET first == wrap16_update(hist.last_value, Wire(r.at))
            last  == first + Max({Offset(r, s) : s \in r.samplers})
        IN  hist' = AckedUpTo(hist, last) /\ reports' \in {reports, reports \ {r}}
  BY DEF bbr_sender_on_feedback, Offset
<1>4. PICK K \in SUBSET (r.at .. n - 1) : r.at \in K /\ r.samplers = {Wire(k) : k \in K}
  BY <1>1 DEF IInv, GenuineReport
<1> DEFINE last == r.at + Max({Offset(r, s) : s \in r.samplers})
<1>5. /\ r.at \in Nat /\ r.at >= n - Lag /\ last \in r.at .. n - 1
      /\ wrap16_update(hist.last_value, Wire(r.at)) = r.at
  BY <1>1, <1>4, ReportRead
<1>11. hist' = AckedUpTo(hist, last) /\ reports' \subseteq reports
  BY <1>3, <1>5
<1> HIDE DEF last
<1>12. hist'.last_value = last /\ hist'.l = hist.l /\ DOMAIN hist' = Fields
  BY <1>1, <1>11, Acknowledging
<1>13. last \in Nat /\ last < n /\ last >= n - Lag
  BY <1>1, <1>5
<1>14. \A x \in reports' : GenuineReport(x)'
  BY <1>2, <1>11 DEF IInv, GenuineReport
<1>15. \E first \in 0 .. Len(sent)' : hist'.l = Remembered(first, Len(sent))'
  <2>1. PICK first \in 0 .. n : hist.l = Remembered(first, n)
    BY <1>1 DEF IInv
  <2>2. Remembered(first, n)' = Remembered(first, n)
    BY <1>2 DEF Remembered, Packet, SizeOf
  <2>3. QED
    BY <1>1, <1>2, <1>12, <2>1, <2>2
<1>16. /\ sent' # <<>> => \E p \in hist'.l : p.key = Len(sent') - 1
       /\ DOMAIN recv' = {"last_value", "max_seq", "base_seq", "cache"}
       /\ recv'.last_value \in Nat /\ (recv'.last_value < Len(sent') \/ recv'.last_value = 0)
       /\ Len(sent') <= recv'.last_value + (SeqRange \div 2)
       /\ \A k \in recv'.cache : k \in Nat /\ k < Len(sent') /\ k >= Len(sent') - Lag
  BY <1>2, <1>12 DEF IInv
<1>17. QED
  BY <1>1, <1>2, <1>12, <1>13, <1>14, <1>15, <1>16 DEF IInv

(* Every step keeps the invariant.                                          *)
LEMMA StepIInv == IInv /\ [FeedbackNext]_feedbackVars => IInv'
<1> SUFFICES ASSUME IInv, [FeedbackNext]_feedbackVars PROVE IInv'
  OBVIOUS
<1>1. CASE bbr_sender_send_packet
  BY <1>1, SendKeeps
<1>2. CASE bbr_receive_on_received
  BY <1>2, ReceiveKeeps
<1>3. CASE bbr_sender_on_feedback
  BY <1>3, FeedbackKeeps
<1>4. CASE UNCHANGED feedbackVars
  <2>1. sent' = sent /\ hist' = hist /\ recv' = recv /\ reports' = reports
    BY <1>4 DEF feedbackVars
  <2>2. PICK first \in 0 .. Len(sent) : hist.l = Remembered(first, Len(sent))
    BY DEF IInv
  <2>3. Remembered(first, Len(sent))' = Remembered(first, Len(sent))
    BY <2>1 DEF Remembered, Packet, SizeOf
  <2>4. \E f \in 0 .. Len(sent)' : hist'.l = Remembered(f, Len(sent))'
    BY <2>1, <2>2, <2>3
  <2>5. \A r \in reports' : GenuineReport(r)'
    BY <2>1 DEF IInv, GenuineReport
  <2>6. QED
    BY <2>1, <2>4, <2>5 DEF IInv
<1>5. QED
  BY <1>1, <1>2, <1>3, <1>4 DEF FeedbackNext

(* The invariant holds of every behaviour of the loop.                     *)
THEOREM InductiveInvariant == FeedbackSpec => []IInv
<1>1. QED
  BY InitIInv, StepIInv, PTL DEF FeedbackSpec

(* For every range of numbers on the wire and every lag below half of it,   *)
(* what the sender remembers are the packets last sent, each once and with  *)
(* its size, and what the receiver collects and reports are numbers of      *)
(* packets sent.                                                            *)
THEOREM KeysAlwaysTrue == FeedbackSpec => []KeysTrue
<1>1. IInv => KeysTrue
  <2> SUFFICES ASSUME IInv PROVE KeysTrue
    OBVIOUS
  <2>1. \E first \in 0 .. Len(sent) : hist.l = {[key |-> id, size |-> SizeOf(id)] : id \in first .. Len(sent) - 1}
    BY DEF IInv, Remembered, Packet
  <2>2. recv.cache \subseteq Ids
    BY DEF IInv, Ids
  <2>3. ASSUME NEW r \in reports PROVE r.samplers \subseteq {Wire(id) : id \in Ids}
    <3>1. GenuineReport(r) /\ r.at \in Nat
      BY DEF IInv, GenuineReport
    <3>2. PICK K \in SUBSET (r.at .. Len(sent) - 1) : r.samplers = {Wire(k) : k \in K}
      BY <3>1 DEF GenuineReport
    <3>3. K \subseteq Ids
      BY <3>1 DEF Ids
    <3>4. QED
      BY <3>2, <3>3
  <2>4. QED
    BY <2>1, <2>2, <2>3 DEF IInv, KeysTrue
<1>2. QED
  BY <1>1, InductiveInvariant, PTL

-----------------------------------------------------------------------------
(***************************************************************************)
(* The bytes counted as under way.  A sum of packets' sizes is taken apart *)
(* by the lemmas on sums.                                                  *)
(***************************************************************************)
Weighed(P) == IsFiniteSet(P) /\ \A p \in P : p.size \in Nat

SizesIn(P) == [p \in P |-> p.size]

LEMMA BytesIsTotal ==
  ASSUME NEW P, Weighed(P)
  PROVE  Bytes(P) = Total(SizesIn(P), P)
<1> DEFINE f == SizesIn(P)
           iter[s \in SUBSET P] ==
             IF s = {} THEN 0 ELSE LET x == CHOOSE y \in s : TRUE IN x.size + iter[s \ {x}]
<1>1. IsFiniteSet(P) /\ \A p \in P : f[p] = p.size
  BY DEF Weighed, SizesIn
<1>2. Bytes(P) = iter[P]
  BY DEF Bytes, MapThenSumSet, MapThenFoldSet
<1> HIDE DEF f
<1>3. PICK g : Adds(f, P, g)
  BY <1>1, AddsExists
<1>4. g = [s \in SUBSET P |-> IF s = {} THEN 0 ELSE LET x == CHOOSE y \in s : TRUE IN x.size + g[s \ {x}]]
  <2> DEFINE h == [s \in SUBSET P |-> IF s = {} THEN 0 ELSE LET x == CHOOSE y \in s : TRUE IN x.size + g[s \ {x}]]
  <2>1. ASSUME NEW s \in SUBSET P PROVE g[s] = h[s]
    <3>1. CASE s = {}
      <4>1. g[s] = 0
        BY <1>3, <3>1, AddsEmpty
      <4> QED BY <3>1, <4>1
    <3>2. CASE s # {}
      <4>1. g[s] = f[Pick(s)] + g[s \ {Pick(s)}]
        BY <1>3, <3>2, AddsAt
      <4>2. f[Pick(s)] = Pick(s).size
        BY <1>1, <3>2, PickIn
      <4> QED BY <3>2, <4>1, <4>2 DEF Pick
    <3> QED BY <3>1, <3>2
  <2>2. g = [s \in SUBSET P |-> g[s]]
    BY <1>3 DEF Adds
  <2>3. h = [s \in SUBSET P |-> h[s]]
    OBVIOUS
  <2> HIDE DEF h
  <2>4. g = h
    BY <2>1, <2>2, <2>3
  <2> QED BY <2>4 DEF h
<1>5. iter = [s \in SUBSET P |-> IF s = {} THEN 0 ELSE LET x == CHOOSE y \in s : TRUE IN x.size + iter[s \ {x}]]
  BY <1>4
<1> HIDE DEF iter
<1>6. Adds(f, P, iter)
  <2> DEFINE h == [s \in SUBSET P |-> IF s = {} THEN 0 ELSE f[Pick(s)] + iter[s \ {Pick(s)}]]
  <2>1. ASSUME NEW s \in SUBSET P PROVE iter[s] = h[s]
    <3>1. iter[s] = IF s = {} THEN 0 ELSE LET x == CHOOSE y \in s : TRUE IN x.size + iter[s \ {x}]
      BY <1>5
    <3>2. CASE s = {}
      BY <3>1, <3>2
    <3>3. CASE s # {}
      <4>1. f[Pick(s)] = Pick(s).size
        BY <1>1, <3>3, PickIn
      <4>2. iter[s] = Pick(s).size + iter[s \ {Pick(s)}]
        BY <3>1, <3>3 DEF Pick
      <4> QED BY <3>3, <4>1, <4>2
    <3> QED BY <3>2, <3>3
  <2>2. iter = [s \in SUBSET P |-> iter[s]]
    BY <1>5
  <2>3. h = [s \in SUBSET P |-> h[s]]
    OBVIOUS
  <2> HIDE DEF h
  <2>4. iter = h
    BY <2>1, <2>2, <2>3
  <2> QED BY <2>4 DEF h, Adds
<1>7. iter[P] = Total(f, P)
  BY <1>1, <1>6, TotalOf
<1> QED BY <1>2, <1>7 DEF f

(* No packets have no bytes, one packet more adds its size, and a part and  *)
(* the rest are the whole.                                                  *)
LEMMA BytesEmpty == Bytes({}) = 0
<1>1. Weighed({})
  BY FS_EmptySet DEF Weighed
<1> QED BY <1>1, BytesIsTotal, TotalEmpty

LEMMA BytesSplit ==
  ASSUME NEW P, Weighed(P), NEW Q, Q \subseteq P
  PROVE  /\ Bytes(P) = Bytes(Q) + Bytes(P \ Q)
         /\ Bytes(Q) \in Nat /\ Bytes(P \ Q) \in Nat
<1>1. Weighed(Q) /\ Weighed(P \ Q) /\ IsFiniteSet(P) /\ IsFiniteSet(Q) /\ IsFiniteSet(P \ Q)
  BY FS_Subset DEF Weighed
<1>2. Total(SizesIn(P), P) = Total(SizesIn(P), Q) + Total(SizesIn(P), P \ Q)
  <2>1. \A p \in P : SizesIn(P)[p] \in Int
    BY DEF Weighed, SizesIn
  <2> QED BY <1>1, <2>1, TotalSplit
<1>3. Total(SizesIn(P), Q) = Bytes(Q)
  <2>1. \A p \in Q : SizesIn(P)[p] = SizesIn(Q)[p]
    BY DEF SizesIn
  <2>2. Total(SizesIn(P), Q) = Total(SizesIn(Q), Q)
    BY <1>1, <2>1, TotalSame
  <2> QED BY <1>1, <2>2, BytesIsTotal
<1>4. Total(SizesIn(P), P \ Q) = Bytes(P \ Q)
  <2>1. \A p \in P \ Q : SizesIn(P)[p] = SizesIn(P \ Q)[p]
    BY DEF SizesIn
  <2>2. Total(SizesIn(P), P \ Q) = Total(SizesIn(P \ Q), P \ Q)
    BY <1>1, <2>1, TotalSame
  <2> QED BY <1>1, <2>2, BytesIsTotal
<1>5. Total(SizesIn(P), Q) \in Nat /\ Total(SizesIn(P), P \ Q) \in Nat
  <2>1. \A p \in P : SizesIn(P)[p] \in Nat
    BY DEF Weighed, SizesIn
  <2> QED BY <1>1, <2>1, TotalNat
<1> QED BY <1>2, <1>3, <1>4, <1>5, BytesIsTotal

LEMMA BytesOne ==
  ASSUME NEW p, p.size \in Nat
  PROVE  Bytes({p}) = p.size /\ Weighed({p})
<1>1. IsFiniteSet({p}) /\ Weighed({p})
  BY FS_Singleton DEF Weighed
<1>2. SizesIn({p})[p] = p.size
  BY DEF SizesIn
<1>3. Total(SizesIn({p}), {p}) = SizesIn({p})[p] + Total(SizesIn({p}), {p} \ {p})
  <2>1. \A x \in {p} : SizesIn({p})[x] \in Int
    BY <1>2
  <2> QED BY <1>1, <2>1, TotalWithout
<1>4. Total(SizesIn({p}), {p} \ {p}) = 0
  <2>1. {p} \ {p} = {}
    OBVIOUS
  <2> QED BY <2>1, TotalEmpty
<1> QED BY <1>1, <1>2, <1>3, <1>4, BytesIsTotal

LEMMA BytesMore ==
  ASSUME NEW P, Weighed(P), NEW p, p.size \in Nat, p \notin P
  PROVE  Bytes(P \cup {p}) = p.size + Bytes(P) /\ Weighed(P \cup {p}) /\ Bytes(P) \in Nat
<1>1. Weighed(P \cup {p})
  BY FS_AddElement DEF Weighed
<1>2. {p} \subseteq P \cup {p} /\ (P \cup {p}) \ {p} = P
  OBVIOUS
<1>3. /\ Bytes(P \cup {p}) = Bytes({p}) + Bytes((P \cup {p}) \ {p})
      /\ Bytes((P \cup {p}) \ {p}) \in Nat
  BY <1>1, <1>2, BytesSplit
<1> QED BY <1>1, <1>2, <1>3, BytesOne

(* What is counted beyond the packets that are under way.                   *)
Miscounted(h) == h.outstanding_bytes - Bytes(Unacked(h))

(* A history of packets with keys up to a number, and its account.         *)
Accounted(h, n) ==
  /\ DOMAIN h = Fields
  /\ h.last_ack_seq_num \in 0 .. n /\ h.outstanding_bytes \in Int
  /\ Weighed(h.l) /\ \A p \in h.l : p.key \in 0 .. n

LEMMA UnackedWeighed ==
  ASSUME NEW h, Weighed(h.l)
  PROVE  /\ Weighed(Unacked(h)) /\ Bytes(Unacked(h)) \in Nat
         /\ \A Q \in SUBSET Unacked(h) : Weighed(Q)
<1>1. \A Q \in SUBSET h.l : Weighed(Q)
  BY FS_Subset DEF Weighed
<1>2. Unacked(h) \in SUBSET h.l
  BY DEF Unacked
<1>3. Bytes(Unacked(h)) \in Nat
  BY <1>1, <1>2, BytesSplit
<1> QED BY <1>1, <1>2, <1>3

(* What gets too old, the oldest first, is taken off with its bytes.        *)
LEMMA WithoutAccounts ==
  ASSUME NEW n \in Nat, NEW h, Accounted(h, n), NEW old \in SUBSET h.l,
         \A p \in old, q \in h.l : q.key <= p.key => q \in old
  PROVE  /\ Accounted(Without(h, old), n)
         /\ Miscounted(Without(h, old)) = Miscounted(h)
         /\ Without(h, old).last_ack_seq_num >= h.last_ack_seq_num
         /\ Without(h, old).l = h.l \ old
<1> DEFINE w == Without(h, old)
           keys == {p.key : p \in old} \cup {0}
<1>1. /\ w.l = h.l \ old /\ DOMAIN w = Fields
      /\ w.outstanding_bytes = h.outstanding_bytes - Bytes(old \cap Unacked(h))
      /\ w.last_ack_seq_num = LaterKey(h.last_ack_seq_num, Max(keys))
  BY DEF Without, Fields, Accounted
<1>2. keys \subseteq 0 .. n /\ keys # {}
  BY DEF Accounted
<1> HIDE DEF w
<1>3. Max(keys) \in keys /\ \A k \in keys : Max(keys) >= k
  <2> HIDE DEF keys
  <2> QED BY <1>2, GreatestExists
<1>4. /\ w.last_ack_seq_num \in 0 .. n /\ w.last_ack_seq_num >= h.last_ack_seq_num
      /\ w.last_ack_seq_num = h.last_ack_seq_num \/ \E p \in old : w.last_ack_seq_num = p.key
      /\ \A p \in old : w.last_ack_seq_num >= p.key
  <2>1. Max(keys) \in 0 .. n /\ h.last_ack_seq_num \in 0 .. n
    BY <1>2, <1>3 DEF Accounted
  <2>2. Max(keys) = 0 \/ \E p \in old : Max(keys) = p.key
    BY <1>3
  <2>3. \A p \in old : Max(keys) >= p.key /\ p.key \in 0 .. n
    BY <1>3 DEF Accounted
  <2> HIDE DEF keys
  <2> QED BY <1>1, <2>1, <2>2, <2>3 DEF LaterKey
<1>5. Unacked(w) = Unacked(h) \ old
  <2>1. ASSUME NEW p \in h.l, p \notin old PROVE p.key > w.last_ack_seq_num <=> p.key > h.last_ack_seq_num
    <3>1. p.key \in 0 .. n /\ h.last_ack_seq_num \in 0 .. n
      BY DEF Accounted
    <3>2. \A q \in old : q.key < p.key
      <4>1. \A q \in old : ~(p.key <= q.key) /\ q.key \in 0 .. n
        BY <2>1 DEF Accounted
      <4> QED BY <3>1, <4>1
    <3> QED BY <1>4, <3>1, <3>2
  <2> QED BY <1>1, <2>1 DEF Unacked
<1>6. /\ Bytes(Unacked(h)) = Bytes(old \cap Unacked(h)) + Bytes(Unacked(h) \ old)
      /\ Bytes(old \cap Unacked(h)) \in Nat /\ Bytes(Unacked(h) \ old) \in Nat
  <2>1. Weighed(Unacked(h))
    BY UnackedWeighed DEF Accounted
  <2>2. old \cap Unacked(h) \subseteq Unacked(h) /\ Unacked(h) \ (old \cap Unacked(h)) = Unacked(h) \ old
    OBVIOUS
  <2>3. /\ Bytes(Unacked(h)) = Bytes(old \cap Unacked(h)) + Bytes(Unacked(h) \ (old \cap Unacked(h)))
        /\ Bytes(old \cap Unacked(h)) \in Nat /\ Bytes(Unacked(h) \ (old \cap Unacked(h))) \in Nat
    BY <2>1, <2>2, BytesSplit
  <2> QED BY <2>2, <2>3
<1>7. h.outstanding_bytes \in Int
  BY DEF Accounted
<1>8. Miscounted(w) = Miscounted(h)
  BY <1>1, <1>5, <1>6, <1>7 DEF Miscounted
<1>9. Accounted(w, n)
  <2>1. Weighed(w.l) /\ \A p \in w.l : p.key \in 0 .. n
    BY <1>1, FS_Subset DEF Accounted, Weighed
  <2> QED BY <1>1, <1>4, <1>6, <1>7, <2>1 DEF Accounted
<1> QED BY <1>1, <1>4, <1>8, <1>9 DEF w

(* An acknowledgement takes off the bytes of what it acknowledges.          *)
LEMMA AckAccounts ==
  ASSUME NEW n \in Nat, NEW h, Accounted(h, n), NEW key \in 0 .. n
  PROVE  /\ Accounted(AckedUpTo(h, key), n)
         /\ Miscounted(AckedUpTo(h, key)) = Miscounted(h)
         /\ AckedUpTo(h, key).last_ack_seq_num >= h.last_ack_seq_num
<1> DEFINE a == AckedUpTo(h, key)
           now == {p \in Unacked(h) : p.key <= key}
<1>1. /\ a.l = h.l /\ DOMAIN a = Fields
      /\ a.outstanding_bytes = h.outstanding_bytes - Bytes(now)
      /\ a.last_ack_seq_num = LaterKey(key, h.last_ack_seq_num)
  BY DEF AckedUpTo, Fields, Accounted
<1> HIDE DEF a
<1>2. h.last_ack_seq_num \in 0 .. n /\ h.outstanding_bytes \in Int /\ \A p \in h.l : p.key \in 0 .. n
  BY DEF Accounted
<1>3. a.last_ack_seq_num \in 0 .. n /\ a.last_ack_seq_num >= h.last_ack_seq_num
  BY <1>1, <1>2 DEF LaterKey
<1>4. Unacked(a) = Unacked(h) \ now
  <2>1. ASSUME NEW p \in h.l
        PROVE  p.key > a.last_ack_seq_num <=> p.key > h.last_ack_seq_num /\ ~(p.key <= key)
    <3>1. p.key \in 0 .. n
      BY <1>2
    <3> QED BY <1>1, <1>2, <3>1 DEF LaterKey
  <2> QED BY <1>1, <2>1 DEF Unacked
<1>5. /\ Bytes(Unacked(h)) = Bytes(now) + Bytes(Unacked(h) \ now)
      /\ Bytes(now) \in Nat /\ Bytes(Unacked(h) \ now) \in Nat
  <2>1. Weighed(Unacked(h))
    BY UnackedWeighed DEF Accounted
  <2> QED BY <2>1, BytesSplit
<1>6. Miscounted(a) = Miscounted(h)
  BY <1>1, <1>2, <1>4, <1>5 DEF Miscounted
<1>7. Accounted(a, n)
  BY <1>1, <1>2, <1>3, <1>5 DEF Accounted
<1> QED BY <1>3, <1>6, <1>7 DEF a

(* A packet sent is under way.  While last_ack_seq_num is 0, the first      *)
(* packet is not, and the third one passes the second by.                   *)
LEMMA AddAccounts ==
  ASSUME NEW n \in Nat, NEW h, Accounted(h, IF n = 0 THEN 0 ELSE n - 1), n = 0 => h.l = {},
         \A p, q \in h.l : p.key = q.key => p = q,
         h.last_ack_seq_num = 0 => n <= 2,
         NEW size \in Nat, NEW old \in SUBSET h.l, \A p \in old, q \in h.l : q.key <= p.key => q \in old,
         wrap16_update(h.last_value, Wire(n)) = n,
         NEW a, a = sender_history_add(h, Wire(n), size, old)
  PROVE  /\ Accounted(a, n)
         /\ \/ h.last_ack_seq_num # 0 /\ a.last_ack_seq_num # 0 /\ Miscounted(a) = Miscounted(h)
            \/ n = 0 /\ Miscounted(a) = Miscounted(h) + size
            \/ n = 1 /\ Miscounted(a) = Miscounted(h)
            \/ /\ n = 2 /\ h.last_ack_seq_num = 0 /\ a.last_ack_seq_num # 0
               /\ \/ Miscounted(a) = Miscounted(h)
                  \/ \E p \in h.l : p.key = 1 /\ Miscounted(a) = Miscounted(h) + p.size
<1> DEFINE m == IF n = 0 THEN 0 ELSE n - 1
           w == Without(h, old)
           new == [key |-> n, size |-> size]
<1>1. m \in Nat /\ Accounted(h, m)
  OBVIOUS
<1> HIDE DEF m
<1>2. /\ Accounted(w, m) /\ Miscounted(w) = Miscounted(h)
      /\ w.last_ack_seq_num >= h.last_ack_seq_num /\ w.l = h.l \ old
  BY <1>1, WithoutAccounts
<1>3. w.last_value = h.last_value
  BY <1>1 DEF Without, Fields, Accounted
<1> HIDE DEF w
<1>4. /\ DOMAIN a = Fields
      /\ a.l = w.l \cup {new}
      /\ a.outstanding_bytes = w.outstanding_bytes + size
      /\ a.last_ack_seq_num = IF w.last_ack_seq_num = 0 THEN LaterKey(0, Wire(n) - 1) ELSE w.last_ack_seq_num
  BY <1>2, <1>3 DEF sender_history_add, Fields, Accounted, w
<1>5. /\ w.last_ack_seq_num \in 0 .. m /\ h.last_ack_seq_num \in 0 .. m /\ w.outstanding_bytes \in Int
      /\ \A p \in w.l : p.key \in 0 .. m
      /\ m = IF n = 0 THEN 0 ELSE n - 1
  BY <1>1, <1>2 DEF Accounted, m
<1>6. ASSUME NEW p \in w.l PROVE p.key < n
  <2>1. n # 0
    BY <1>2
  <2> QED BY <1>5, <2>1
<1>7. new.key = n /\ new.size = size /\ new \notin w.l /\ new \notin Unacked(w)
  <2>1. new.key = n /\ new.size = size
    OBVIOUS
  <2>2. new \notin w.l
    <3> HIDE DEF new
    <3> QED BY <1>6, <2>1
  <2> QED BY <2>1, <2>2 DEF Unacked
<1> HIDE DEF new
<1>8. Weighed(w.l) /\ Weighed(a.l) /\ Weighed(Unacked(w)) /\ Bytes(Unacked(w)) \in Nat
  <2>1. Weighed(w.l)
    BY <1>2 DEF Accounted
  <2>2. Weighed(a.l)
    BY <1>4, <1>7, <2>1, BytesMore
  <2> QED BY <2>1, <2>2, UnackedWeighed
<1>9. w.last_ack_seq_num = 0 => n <= 2
  BY <1>2, <1>5
<1>10. n <= 2 => Wire(n) = n
  <2>1. SeqRange \in Nat /\ SeqRange > 2
    BY HalfRange
  <2>2. ASSUME n <= 2 PROVE n % SeqRange = n
    <3>1. n \in 0 .. SeqRange - 1 /\ SeqRange * 0 + n = n
      BY <2>1, <2>2
    <3>2. (SeqRange * 0 + n) % SeqRange = n
      BY <2>1, <3>1, OnlyRemainder
    <3> QED BY <3>1, <3>2
  <2> QED BY <2>2 DEF Wire
<1>11. a.last_ack_seq_num \in 0 .. n
  <2>1. CASE w.last_ack_seq_num = 0
    BY <1>4, <1>9, <1>10, <2>1 DEF LaterKey
  <2>2. CASE w.last_ack_seq_num # 0
    BY <1>4, <1>5, <2>2
  <2> QED BY <2>1, <2>2
<1>12. Accounted(a, n)
  <2>1. \A p \in a.l : p.key \in 0 .. n
    BY <1>4, <1>5, <1>7
  <2> QED BY <1>4, <1>5, <1>8, <1>11, <2>1 DEF Accounted
<1>13. Bytes({new}) = size /\ Bytes(Unacked(w) \cup {new}) = size + Bytes(Unacked(w))
  BY <1>7, <1>8, BytesOne, BytesMore
<1>14. ASSUME w.last_ack_seq_num # 0 PROVE a.last_ack_seq_num # 0 /\ Miscounted(a) = Miscounted(w)
  <2>1. n > w.last_ack_seq_num /\ a.last_ack_seq_num = w.last_ack_seq_num
    BY <1>4, <1>5, <1>14
  <2>2. Unacked(a) = Unacked(w) \cup {new}
    BY <1>4, <1>7, <2>1 DEF Unacked
  <2> QED BY <1>4, <1>5, <1>8, <1>13, <1>14, <2>1, <2>2 DEF Miscounted
<1>15. ASSUME w.last_ack_seq_num = 0, n = 0 PROVE Miscounted(a) = Miscounted(w) + size
  <2>1. a.last_ack_seq_num = 0 /\ w.l = {}
    BY <1>2, <1>11, <1>15
  <2>2. Unacked(w) = {}
    BY <2>1 DEF Unacked
  <2>3. Unacked(a) = {}
    BY <1>4, <1>7, <1>15, <2>1 DEF Unacked
  <2> QED BY <1>4, <1>5, <2>2, <2>3, BytesEmpty DEF Miscounted
<1>16. ASSUME w.last_ack_seq_num = 0, n = 1 PROVE Miscounted(a) = Miscounted(w)
  <2>1. a.last_ack_seq_num = 0
    BY <1>4, <1>10, <1>16 DEF LaterKey
  <2>2. \A p \in w.l : p.key = 0
    BY <1>5, <1>16
  <2>3. Unacked(w) = {}
    BY <1>16, <2>2 DEF Unacked
  <2>4. Unacked(a) = {new}
    BY <1>4, <1>7, <1>16, <2>1, <2>2 DEF Unacked
  <2> QED BY <1>4, <1>5, <1>13, <2>3, <2>4, BytesEmpty DEF Miscounted
<1>17. ASSUME w.last_ack_seq_num = 0, n = 2
       PROVE  /\ a.last_ack_seq_num # 0
              /\ Miscounted(a) = Miscounted(w) \/ \E p \in h.l : p.key = 1 /\ Miscounted(a) = Miscounted(w) + p.size
  <2>1. a.last_ack_seq_num = 1
    BY <1>4, <1>10, <1>17 DEF LaterKey
  <2>2. \A p \in w.l : p.key = 0 \/ p.key = 1
    BY <1>5, <1>17
  <2>3. Unacked(a) = {new}
    BY <1>4, <1>7, <1>17, <2>1, <2>2 DEF Unacked
  <2>4. Miscounted(a) = w.outstanding_bytes /\ Miscounted(w) = w.outstanding_bytes - Bytes(Unacked(w))
    BY <1>4, <1>5, <1>13, <2>3 DEF Miscounted
  <2>5. CASE Unacked(w) = {}
    BY <1>5, <2>1, <2>4, <2>5, BytesEmpty
  <2>6. CASE Unacked(w) # {}
    <3>1. PICK p \in Unacked(w) : TRUE
      BY <2>6
    <3>2. p \in w.l /\ p \in h.l /\ p.key = 1
      BY <1>2, <1>17, <2>2, <3>1 DEF Unacked
    <3>3. Unacked(w) = {p}
      <4>1. ASSUME NEW q \in Unacked(w) PROVE q = p
        <5>1. q \in w.l /\ q \in h.l /\ q.key = 1
          BY <1>2, <1>17, <2>2 DEF Unacked
        <5> QED BY <3>2, <5>1
      <4> QED BY <3>1, <4>1
    <3>4. p.size \in Nat /\ Bytes(Unacked(w)) = p.size
      <4>1. p.size \in Nat
        BY <1>8, <3>2 DEF Weighed
      <4> QED BY <3>3, <4>1, BytesOne
    <3> QED BY <1>5, <2>1, <2>4, <3>2, <3>4
  <2> QED BY <2>5, <2>6
<1>18. w.last_ack_seq_num = 0 => h.last_ack_seq_num = 0
  BY <1>2, <1>5
<1>19. n = 0 \/ n = 1 => w.last_ack_seq_num = 0
  BY <1>5
<1>20. h.last_ack_seq_num = 0 => n = 0 \/ n = 1 \/ n = 2
  OBVIOUS
<1>21. CASE h.last_ack_seq_num # 0
  BY <1>2, <1>12, <1>14, <1>18, <1>21
<1>22. CASE h.last_ack_seq_num = 0
  BY <1>2, <1>12, <1>14, <1>15, <1>16, <1>17, <1>19, <1>20, <1>22
<1> QED BY <1>21, <1>22

(* The account of what is under way; together with IInv it is inductive.    *)
HistInv ==
  /\ Accounted(hist, IF Len(sent) = 0 THEN 0 ELSE Len(sent) - 1)
  /\ Miscounted(hist) \in 0 .. FirstTwo
  /\ hist.last_ack_seq_num = 0 =>
       Len(sent) <= 2 /\ Miscounted(hist) = IF Len(sent) = 0 THEN 0 ELSE SizeOf(0)

(* The bytes of the first two packets.                                      *)
LEMMA FirstTwoIs ==
  ASSUME NEW n \in Nat, NEW s \in Seq(Sizes), n = Len(s)
  PROVE  /\ \A i \in 0 .. n - 1 : s[i + 1] \in Nat
         /\ Bytes({[key |-> i, size |-> s[i + 1]] : i \in (0 .. Len(s) - 1) \cap {0, 1}})
              = IF n = 0 THEN 0 ELSE IF n = 1 THEN s[0 + 1] ELSE s[0 + 1] + s[1 + 1]
<1> DEFINE packet(i) == [key |-> i, size |-> s[i + 1]]
           two == {packet(i) : i \in (0 .. Len(s) - 1) \cap {0, 1}}
<1>1. \A i \in 0 .. n - 1 : s[i + 1] \in Nat
  <2> TAKE i \in 0 .. n - 1
  <2>1. i + 1 \in 1 .. Len(s)
    OBVIOUS
  <2>2. s[i + 1] \in Sizes
    BY <2>1
  <2> QED BY <2>2, FeedbackAssumption
<1>2. packet(0).size = s[0 + 1] /\ packet(1).size = s[1 + 1] /\ packet(0) # packet(1)
  OBVIOUS
<1>3. CASE n = 0
  <2>1. two = {}
    BY <1>3
  <2> QED BY <1>1, <1>3, <2>1, BytesEmpty
<1>4. CASE n = 1
  <2>1. two = {packet(0)}
    BY <1>4
  <2>2. packet(0).size \in Nat
    BY <1>1, <1>4
  <2>3. Bytes({packet(0)}) = packet(0).size
    <3> HIDE DEF packet
    <3> QED BY <2>2, BytesOne
  <2> QED BY <1>1, <1>2, <1>4, <2>1, <2>3
<1>5. CASE n > 1
  <2>1. two = {packet(0)} \cup {packet(1)}
    <3>1. (0 .. Len(s) - 1) \cap {0, 1} = {0, 1}
      BY <1>5
    <3> QED BY <3>1
  <2>2. packet(0).size \in Nat /\ packet(1).size \in Nat
    <3>1. 0 \in 0 .. n - 1 /\ 1 \in 0 .. n - 1
      BY <1>5
    <3>2. s[0 + 1] \in Nat /\ s[1 + 1] \in Nat
      BY <1>1, <3>1
    <3> HIDE DEF packet
    <3> QED BY <1>2, <3>2
  <2>3. Bytes({packet(0)} \cup {packet(1)}) = packet(1).size + packet(0).size
    <3> HIDE DEF packet
    <3>1. Bytes({packet(0)}) = packet(0).size /\ Weighed({packet(0)})
      BY <2>2, BytesOne
    <3>2. packet(1) \notin {packet(0)}
      BY <1>2
    <3> QED BY <2>2, <3>1, <3>2, BytesMore
  <2>4. Bytes(two) = s[0 + 1] + s[1 + 1]
    <3> HIDE DEF two, packet
    <3>1. Bytes(two) = packet(1).size + packet(0).size
      BY <2>1, <2>3
    <3>2. packet(0).size = s[0 + 1] /\ packet(1).size = s[1 + 1]
      BY DEF packet
    <3> QED BY <2>2, <3>1, <3>2
  <2>5. Bytes(two) = IF n = 0 THEN 0 ELSE IF n = 1 THEN s[0 + 1] ELSE s[0 + 1] + s[1 + 1]
    <3>1. n # 0 /\ n # 1
      BY <1>5, SMTT(20)
    <3> HIDE DEF two
    <3> QED BY Zenon, <2>4, <3>1
  <2> QED BY Zenon, <1>1, <2>5
<1> QED BY <1>1, <1>3, <1>4, <1>5

LEMMA InitHist == FeedbackInit => HistInv
<1> SUFFICES ASSUME FeedbackInit PROVE HistInv
  OBVIOUS
<1>1. sent = <<>> /\ sent \in Seq(Sizes) /\ Len(sent) = 0 /\ hist = sender_history_create
  BY DEF FeedbackInit
<1>2. /\ hist.last_ack_seq_num = 0 /\ hist.outstanding_bytes = 0 /\ hist.l = {}
      /\ DOMAIN hist = Fields /\ Unacked(hist) = {}
  BY <1>1 DEF sender_history_create, Fields, Unacked
<1>3. Weighed({}) /\ Bytes({}) = 0
  BY FS_EmptySet, BytesEmpty DEF Weighed
<1>4. FirstTwo = 0
  <2>1. Ids = {}
    BY <1>1 DEF Ids
  <2> QED BY <2>1, <1>3 DEF FirstTwo
<1> QED BY <1>1, <1>2, <1>3, <1>4 DEF HistInv, Accounted, Miscounted

LEMMA SendHist == IInv /\ HistInv /\ bbr_sender_send_packet => HistInv'
<1> SUFFICES ASSUME IInv, HistInv, bbr_sender_send_packet PROVE HistInv'
  OBVIOUS
<1>0. PICK n \in Nat : n = Len(sent)
  BY DEF IInv
<1>1. /\ sent \in Seq(Sizes) /\ n = Len(sent) /\ Accounted(hist, IF n = 0 THEN 0 ELSE n - 1)
      /\ hist.last_ack_seq_num = 0 => n <= 2 /\ Miscounted(hist) = IF n = 0 THEN 0 ELSE SizeOf(0)
  BY <1>0 DEF IInv, HistInv
<1>2. PICK size \in Sizes, old \in SUBSET hist.l :
        /\ \A p \in old, q \in hist.l : q.key <= p.key => q \in old
        /\ sent' = Append(sent, size)
        /\ hist' = sender_history_add(hist, Wire(n), size, old)
  BY <1>0, SendsOldest
<1>3. PICK first \in 0 .. n : hist.l = Remembered(first, n)
  BY <1>1 DEF IInv
<1>4. /\ n = 0 => hist.l = {}
      /\ \A p, q \in hist.l : p.key = q.key => p = q
      /\ \A p \in hist.l : p.key = 1 /\ n = 2 => p.size = SizeOf(1)
  BY <1>3 DEF Remembered, Packet
<1>5. wrap16_update(hist.last_value, Wire(n)) = n
  BY <1>1, NextUnwraps
<1>6. size \in Nat
  BY FeedbackAssumption
<1>7. /\ sent' \in Seq(Sizes) /\ Len(sent') = n + 1
      /\ \A i \in 0 .. n - 1 : SizeOf(i)' = SizeOf(i)
      /\ SizeOf(n)' = size
  <2>1. /\ sent' \in Seq(Sizes) /\ Len(sent') = n + 1
        /\ \A i \in 1 .. n : sent'[i] = sent[i]
        /\ sent'[n + 1] = size
    BY <1>1, <1>2
  <2> QED BY <2>1 DEF SizeOf
<1>8. /\ Accounted(hist', n)
      /\ \/ hist.last_ack_seq_num # 0 /\ hist'.last_ack_seq_num # 0 /\ Miscounted(hist') = Miscounted(hist)
         \/ n = 0 /\ Miscounted(hist') = Miscounted(hist) + size
         \/ n = 1 /\ Miscounted(hist') = Miscounted(hist)
         \/ /\ n = 2 /\ hist.last_ack_seq_num = 0 /\ hist'.last_ack_seq_num # 0
            /\ \/ Miscounted(hist') = Miscounted(hist)
               \/ \E p \in hist.l : p.key = 1 /\ Miscounted(hist') = Miscounted(hist) + p.size
  BY <1>1, <1>2, <1>4, <1>5, <1>6, AddAccounts
<1>9. /\ \A i \in 0 .. n - 1 : SizeOf(i) \in Nat
      /\ FirstTwo = IF n = 0 THEN 0 ELSE IF n = 1 THEN SizeOf(0) ELSE SizeOf(0) + SizeOf(1)
  <2>1. /\ \A i \in 0 .. n - 1 : sent[i + 1] \in Nat
        /\ Bytes({[key |-> i, size |-> sent[i + 1]] : i \in (0 .. Len(sent) - 1) \cap {0, 1}})
             = IF n = 0 THEN 0 ELSE IF n = 1 THEN sent[0 + 1] ELSE sent[0 + 1] + sent[1 + 1]
    BY <1>1, FirstTwoIs
  <2> QED BY <2>1 DEF FirstTwo, SizeOf, Ids
<1>10. FirstTwo' = IF n = 0 THEN size ELSE IF n = 1 THEN SizeOf(0) + size ELSE SizeOf(0) + SizeOf(1)
  <2>1. FirstTwo' = IF n + 1 = 0 THEN 0 ELSE IF n + 1 = 1 THEN SizeOf(0)' ELSE SizeOf(0)' + SizeOf(1)'
    <3>1. n + 1 \in Nat /\ sent' \in Seq(Sizes) /\ n + 1 = Len(sent')
      BY <1>7
    <3> QED BY <3>1, FirstTwoIs DEF FirstTwo, SizeOf, Ids
  <2> QED BY <1>7, <2>1
<1>11. /\ Miscounted(hist) \in 0 .. FirstTwo /\ FirstTwo \in Nat
       /\ hist.last_ack_seq_num \in 0 .. (IF n = 0 THEN 0 ELSE n - 1)
  BY <1>1, <1>9 DEF HistInv, Accounted
<1>12. HistInv' <=>
         /\ Accounted(hist', n)
         /\ Miscounted(hist') \in 0 .. FirstTwo'
         /\ hist'.last_ack_seq_num = 0 => n + 1 <= 2 /\ Miscounted(hist') = SizeOf(0)'
  BY <1>7 DEF HistInv, Accounted, Miscounted, Unacked
<1>13. CASE hist.last_ack_seq_num # 0 /\ hist'.last_ack_seq_num # 0 /\ Miscounted(hist') = Miscounted(hist)
  <2>1. n >= 2
    BY <1>11, <1>13
  <2> QED BY <1>8, <1>9, <1>10, <1>11, <1>12, <1>13, <2>1
<1>14. CASE n = 0 /\ Miscounted(hist') = Miscounted(hist) + size
  BY <1>1, <1>6, <1>7, <1>8, <1>10, <1>11, <1>12, <1>14
<1>15. CASE n = 1 /\ Miscounted(hist') = Miscounted(hist)
  BY <1>1, <1>6, <1>7, <1>8, <1>9, <1>10, <1>11, <1>12, <1>15
<1>16. CASE /\ n = 2 /\ hist.last_ack_seq_num = 0 /\ hist'.last_ack_seq_num # 0
            /\ \/ Miscounted(hist') = Miscounted(hist)
               \/ \E p \in hist.l : p.key = 1 /\ Miscounted(hist') = Miscounted(hist) + p.size
  <2>1. CASE Miscounted(hist') = Miscounted(hist)
    BY <1>8, <1>9, <1>10, <1>11, <1>12, <1>16, <2>1
  <2>2. CASE \E p \in hist.l : p.key = 1 /\ Miscounted(hist') = Miscounted(hist) + p.size
    <3>1. Miscounted(hist') = Miscounted(hist) + SizeOf(1)
      BY <1>4, <1>16, <2>2
    <3> QED BY <1>1, <1>8, <1>9, <1>10, <1>11, <1>12, <1>16, <3>1
  <2> QED BY <1>16, <2>1, <2>2
<1> QED BY <1>8, <1>13, <1>14, <1>15, <1>16

LEMMA FeedbackHist == IInv /\ HistInv /\ bbr_sender_on_feedback => HistInv'
<1> SUFFICES ASSUME IInv, HistInv, bbr_sender_on_feedback PROVE HistInv'
  OBVIOUS
<1>0. PICK n \in Nat : n = Len(sent)
  BY DEF IInv
<1>1. Accounted(hist, IF n = 0 THEN 0 ELSE n - 1)
  BY <1>0 DEF HistInv
<1>2. sent' = sent
  BY DEF bbr_sender_on_feedback
<1>3. PICK r \in reports :
        LET first == wrap16_update(hist.last_value, Wire(r.at))
            last  == first + Max({Offset(r, s) : s \in r.samplers})
        IN  hist' = AckedUpTo(hist, last)
  BY DEF bbr_sender_on_feedback, Offset
<1>4. PICK K \in SUBSET (r.at .. n - 1) : r.at \in K /\ r.samplers = {Wire(k) : k \in K}
  BY <1>0 DEF IInv, GenuineReport
<1> DEFINE last == r.at + Max({Offset(r, s) : s \in r.samplers})
<1>5. r.at \in Nat /\ r.at < n /\ last \in r.at .. n - 1 /\ hist' = AckedUpTo(hist, last)
  BY <1>0, <1>3, <1>4, ReportRead
<1> HIDE DEF last
<1>6. n # 0 /\ last \in 0 .. n - 1 /\ n - 1 \in Nat /\ Accounted(hist, n - 1)
  BY <1>1, <1>5
<1>7. /\ Accounted(hist', n - 1) /\ Miscounted(hist') = Miscounted(hist)
      /\ hist'.last_ack_seq_num >= hist.last_ack_seq_num
  BY <1>5, <1>6, AckAccounts
<1>8. hist'.last_ack_seq_num = 0 => hist.last_ack_seq_num = 0
  BY <1>6, <1>7 DEF Accounted
<1>9. FirstTwo' = FirstTwo /\ SizeOf(0)' = SizeOf(0) /\ Len(sent') = n
  BY <1>0, <1>2 DEF FirstTwo, SizeOf, Ids
<1>10. HistInv' <=>
         /\ Accounted(hist', n - 1)
         /\ Miscounted(hist') \in 0 .. FirstTwo'
         /\ hist'.last_ack_seq_num = 0 => n <= 2 /\ Miscounted(hist') = SizeOf(0)'
  BY <1>6, <1>9 DEF HistInv, Accounted, Miscounted, Unacked
<1> QED BY <1>0, <1>6, <1>7, <1>8, <1>9, <1>10 DEF HistInv

LEMMA StepHist == IInv /\ HistInv /\ [FeedbackNext]_feedbackVars => HistInv'
<1> SUFFICES ASSUME IInv, HistInv, [FeedbackNext]_feedbackVars PROVE HistInv'
  OBVIOUS
<1>1. CASE bbr_sender_send_packet
  BY <1>1, SendHist
<1>2. CASE bbr_sender_on_feedback
  BY <1>2, FeedbackHist
<1>3. CASE sent' = sent /\ hist' = hist
  BY <1>3 DEF HistInv, Accounted, Miscounted, Unacked, FirstTwo, SizeOf, Ids
<1>4. bbr_receive_on_received \/ UNCHANGED feedbackVars => sent' = sent /\ hist' = hist
  BY DEF bbr_receive_on_received, feedbackVars
<1> QED BY <1>1, <1>2, <1>3, <1>4 DEF FeedbackNext

(* However packets and reports are lost, repeated and reordered, and        *)
(* whatever gets too old when: what is counted as under way is what neither *)
(* a report nor its age has taken off the account, and at most the bytes of *)
(* the first two packets more.                                              *)
THEOREM InFlightAlwaysNear == FeedbackSpec => []InFlightNearly
<1>1. FeedbackInit => IInv /\ HistInv
  BY InitIInv, InitHist
<1>2. IInv /\ HistInv /\ [FeedbackNext]_feedbackVars => (IInv /\ HistInv)'
  BY StepIInv, StepHist
<1>3. IInv /\ HistInv => InFlightNearly
  BY DEF HistInv, Miscounted, InFlightNearly
<1> QED BY <1>1, <1>2, <1>3, PTL DEF FeedbackSpec

-----------------------------------------------------------------------------
(***************************************************************************)
(* The bytes counted as acknowledged.  n packets were sent, of these sizes *)
(* (w), and those in A arrived.  The ring remembers the size of each       *)
(* packet from start_pos on; what was counted are packets that arrived,    *)
(* none of which can be counted again.                                     *)
(***************************************************************************)
SamplerStates == [start_pos : Int, index : Int, total_data_acked : Nat, points : [0 .. RingSize - 1 -> Point]]

Fits(x, n, w) ==
  /\ x \in SamplerStates
  /\ x.index = n - 1 /\ x.start_pos \in 0 .. n - 1 /\ n <= x.start_pos + RingSize
  /\ \A i \in x.start_pos .. n - 1 : PointOf(x, i).size = w[i]

Once(x, n, w, A) ==
  \E K \in SUBSET A : /\ x.total_data_acked = Total(w, K)
                      /\ \A i \in x.start_pos .. n - 1 : ~PointOf(x, i).ignore => i \notin K

(* The same account of a smaller window, of which more is ignored.          *)
Shrinks(x, y) ==
  /\ y \in SamplerStates /\ y.total_data_acked = x.total_data_acked /\ y.index = x.index
  /\ y.start_pos >= x.start_pos /\ (x.start_pos <= x.index => y.start_pos <= x.index)
  /\ \A i \in Int : /\ PointOf(y, i).size = PointOf(x, i).size
                    /\ PointOf(x, i).ignore => PointOf(y, i).ignore

LEMMA InRing ==
  ASSUME NEW i \in Int
  PROVE  /\ RingSize \in Nat \ {0} /\ i % RingSize \in 0 .. RingSize - 1
         /\ \A x \in SamplerStates : /\ x.points \in [0 .. RingSize - 1 -> Point]
                                     /\ PointOf(x, i) \in Point
<1>1. RingSize \in Nat \ {0}
  BY RingSizeAssumption
<1>2. i % RingSize \in 0 .. RingSize - 1
  BY <1>1, Remainder
<1> QED BY <1>1, <1>2 DEF SamplerStates, PointOf

(* Two packets of a window have points of their own.                        *)
LEMMA OwnPoints ==
  ASSUME NEW i \in Int, NEW j \in Int, i - j < RingSize, j - i < RingSize, i % RingSize = j % RingSize
  PROVE  i = j
<1>1. RingSize \in Nat \ {0} /\ i % RingSize \in Int
  BY RingSizeAssumption, InRing
<1>2. (i % RingSize) - (j % RingSize) \in {i - j, i - j + RingSize, i - j - RingSize}
  BY <1>1, RemaindersDiffer
<1> QED BY <1>1, <1>2

LEMMA ShrunkStays ==
  ASSUME NEW n \in Nat \ {0}, NEW w, NEW A, NEW x, Fits(x, n, w), NEW y, Shrinks(x, y)
  PROVE  Fits(y, n, w) /\ (Once(x, n, w, A) => Once(y, n, w, A))
<1>1. /\ x.start_pos \in 0 .. n - 1 /\ y.start_pos \in Int /\ y.start_pos >= x.start_pos /\ y.start_pos <= n - 1
      /\ y \in SamplerStates /\ y.index = n - 1 /\ n <= x.start_pos + RingSize
  BY DEF Fits, Shrinks, SamplerStates
<1>2. \A i \in y.start_pos .. n - 1 : i \in x.start_pos .. n - 1 /\ i \in Int
  BY <1>1
<1>3. RingSize \in Nat
  BY RingSizeAssumption
<1>4. Fits(y, n, w)
  <2>1. \A i \in y.start_pos .. n - 1 : PointOf(y, i).size = w[i]
    BY <1>2 DEF Fits, Shrinks
  <2> QED BY <1>1, <1>3, <2>1 DEF Fits
<1>5. ASSUME Once(x, n, w, A) PROVE Once(y, n, w, A)
  <2>1. PICK K \in SUBSET A : /\ x.total_data_acked = Total(w, K)
                              /\ \A i \in x.start_pos .. n - 1 : ~PointOf(x, i).ignore => i \notin K
    BY <1>5 DEF Once
  <2>2. y.total_data_acked = Total(w, K)
    BY <2>1 DEF Shrinks
  <2>3. \A i \in y.start_pos .. n - 1 : ~PointOf(y, i).ignore => i \notin K
    BY <1>2, <2>1 DEF Shrinks
  <2> QED BY <2>2, <2>3 DEF Once
<1> QED BY <1>4, <1>5

(* Removing a point, or all old ones, shrinks the window.                   *)
LEMMA RemovedShrinks ==
  ASSUME NEW x \in SamplerStates, NEW k \in Int
  PROVE  /\ Shrinks(x, sampler_remove_point(x, k))
         /\ Tracked(x, k) => PointOf(sampler_remove_point(x, k), k).ignore
<1> DEFINE y == sampler_remove_point(x, k)
           c == k % RingSize
<1>1. /\ RingSize \in Nat \ {0} /\ c \in 0 .. RingSize - 1
      /\ x.points \in [0 .. RingSize - 1 -> Point] /\ x.start_pos \in Int /\ x.index \in Int
      /\ x.total_data_acked \in Nat
  BY InRing DEF SamplerStates
<1>2. CASE ~Tracked(x, k)
  <2>1. y = x
    BY <1>2 DEF sampler_remove_point
  <2> QED BY <1>1, <1>2, <2>1 DEF Shrinks
<1>3. CASE Tracked(x, k)
  <2> DEFINE s == IF k = x.start_pos /\ x.index > k THEN k + 1 ELSE x.start_pos
             p == [x.points EXCEPT ![c].ignore = TRUE]
  <2>1. y = [x EXCEPT !.points = p, !.start_pos = s]
    BY <1>1, <1>3 DEF sampler_remove_point, SamplerStates
  <2>2. s \in Int /\ s >= x.start_pos /\ (x.start_pos <= x.index => s <= x.index)
    BY <1>1
  <2>3. /\ p \in [0 .. RingSize - 1 -> Point] /\ p[c].ignore = TRUE
        /\ \A j \in 0 .. RingSize - 1 : p[j].size = x.points[j].size /\ (x.points[j].ignore => p[j].ignore)
    BY <1>1 DEF Point
  <2> HIDE DEF p, s
  <2>4. /\ y \in SamplerStates /\ y.points = p /\ y.start_pos = s
        /\ y.index = x.index /\ y.total_data_acked = x.total_data_acked
    BY <2>1, <2>2, <2>3 DEF SamplerStates
  <2>5. \A i \in Int : /\ PointOf(y, i).size = PointOf(x, i).size
                       /\ PointOf(x, i).ignore => PointOf(y, i).ignore
    BY <2>3, <2>4, InRing DEF PointOf
  <2>6. PointOf(y, k).ignore
    BY <2>3, <2>4 DEF PointOf
  <2> HIDE DEF y
  <2> QED BY <2>2, <2>4, <2>5, <2>6 DEF Shrinks, y
<1> QED BY <1>2, <1>3

LEMMA OldRemovedShrinks ==
  ASSUME NEW x \in SamplerStates, NEW k \in Int
  PROVE  Shrinks(x, sampler_remove_old(x, k))
<1> DEFINE y == sampler_remove_old(x, k)
           last == IF k <= x.index THEN k ELSE x.index
           gone == {i \in 0 .. RingSize - 1 : \E n \in x.start_pos .. last - 1 : n % RingSize = i}
<1>1. /\ x.points \in [0 .. RingSize - 1 -> Point] /\ x.start_pos \in Int /\ x.index \in Int
      /\ x.total_data_acked \in Nat /\ last \in Int /\ last <= x.index
  BY DEF SamplerStates
<1>2. CASE last <= x.start_pos
  <2>1. y = x
    BY <1>2 DEF sampler_remove_old
  <2> QED BY <1>1, <2>1 DEF Shrinks
<1>3. CASE ~(last <= x.start_pos)
  <2> DEFINE p == [i \in 0 .. RingSize - 1 |->
                     IF i \in gone THEN [x.points[i] EXCEPT !.ignore = TRUE] ELSE x.points[i]]
  <2>1. y = [x EXCEPT !.start_pos = last, !.points = p]
    BY <1>3 DEF sampler_remove_old
  <2> HIDE DEF gone
  <2>2. /\ p \in [0 .. RingSize - 1 -> Point]
        /\ \A j \in 0 .. RingSize - 1 : p[j].size = x.points[j].size /\ (x.points[j].ignore => p[j].ignore)
    <3>1. ASSUME NEW j \in 0 .. RingSize - 1
          PROVE  /\ p[j] \in Point /\ p[j].size = x.points[j].size /\ (x.points[j].ignore => p[j].ignore)
      <4>1. x.points[j] \in Point
        BY <1>1
      <4>2. CASE j \in gone
        <5>1. p[j] = [x.points[j] EXCEPT !.ignore = TRUE]
          BY <4>2
        <5> QED BY <4>1, <5>1 DEF Point
      <4>3. CASE j \notin gone
        <5>1. p[j] = x.points[j]
          BY <4>3
        <5> QED BY <4>1, <5>1
      <4> QED BY <4>2, <4>3
    <3> QED BY <3>1
  <2> HIDE DEF p, last
  <2>3. /\ y \in SamplerStates /\ y.points = p /\ y.start_pos = last
        /\ y.index = x.index /\ y.total_data_acked = x.total_data_acked
    BY <1>1, <2>1, <2>2 DEF SamplerStates
  <2>4. \A i \in Int : /\ PointOf(y, i).size = PointOf(x, i).size
                       /\ PointOf(x, i).ignore => PointOf(y, i).ignore
    BY <2>2, <2>3, InRing DEF PointOf
  <2> HIDE DEF y
  <2> QED BY <1>1, <1>3, <2>3, <2>4 DEF Shrinks, y
<1> QED BY <1>2, <1>3

(* A packet that arrived is counted if it is in the window and was not      *)
(* counted before.                                                          *)
LEMMA AckedOnce ==
  ASSUME NEW n \in Nat \ {0}, NEW w \in [0 .. n - 1 -> Nat], NEW A, A \subseteq 0 .. n - 1,
         NEW x, Fits(x, n, w), Once(x, n, w, A), NEW k \in A
  PROVE  LET y == sampler_on_packet_acked(x, k) IN Fits(y, n, w) /\ Once(y, n, w, A)
<1> DEFINE y == sampler_on_packet_acked(x, k)
<1>1. CASE ~Tracked(x, k) \/ PointOf(x, k).ignore
  <2>1. y = x
    BY <1>1 DEF sampler_on_packet_acked
  <2> QED BY <2>1
<1>2. CASE Tracked(x, k) /\ ~PointOf(x, k).ignore
  <2> DEFINE t == x.total_data_acked + PointOf(x, k).size
             z == [x EXCEPT !.total_data_acked = t]
  <2>1. y = sampler_remove_point(z, k)
    BY <1>2 DEF sampler_on_packet_acked
  <2>2. /\ x \in SamplerStates /\ k \in 0 .. n - 1 /\ k \in x.start_pos .. n - 1
        /\ x.start_pos \in 0 .. n - 1 /\ x.index = n - 1 /\ n <= x.start_pos + RingSize
    BY <1>2 DEF Fits, Tracked, SamplerStates
  <2>3. PointOf(x, k).size = w[k] /\ w[k] \in Nat /\ x.total_data_acked \in Nat
    BY <2>2 DEF Fits, SamplerStates
  <2>4. t = x.total_data_acked + w[k] /\ t \in Nat
    BY <2>3
  <2> HIDE DEF t
  <2>5. /\ z \in SamplerStates /\ z.total_data_acked = t /\ z.start_pos = x.start_pos
        /\ z.index = x.index /\ z.points = x.points
    BY <2>2, <2>4 DEF SamplerStates
  <2> HIDE DEF z
  <2>6. Shrinks(z, y) /\ PointOf(y, k).ignore
    <3>1. Tracked(z, k)
      BY <1>2, <2>5 DEF Tracked
    <3> QED BY <2>1, <2>2, <2>5, <3>1, RemovedShrinks
  <2> HIDE DEF y
  <2>7. Fits(z, n, w)
    BY <2>2, <2>5 DEF Fits, PointOf
  <2>8. PICK K \in SUBSET A : /\ x.total_data_acked = Total(w, K)
                              /\ \A i \in x.start_pos .. n - 1 : ~PointOf(x, i).ignore => i \notin K
    BY DEF Once
  <2>9. k \notin K
    BY <1>2, <2>2, <2>8
  <2>10. Total(w, K \cup {k}) = w[k] + Total(w, K)
    <3>1. IsFiniteSet(K)
      <4>1. IsFiniteSet(0 .. n - 1)
        BY FS_Interval
      <4> QED BY <4>1, FS_Subset
    <3>2. \A i \in K \cup {k} : w[i] \in Int
      BY <2>2
    <3> QED BY <2>9, <3>1, <3>2, TotalWith
  <2>11. y.total_data_acked = Total(w, K \cup {k})
    BY <2>3, <2>4, <2>5, <2>6, <2>8, <2>10 DEF Shrinks
  <2>12. ASSUME NEW i \in y.start_pos .. n - 1, ~PointOf(y, i).ignore
         PROVE  i \notin K \cup {k}
    <3>1. i \in Int /\ i \in x.start_pos .. n - 1
      BY <2>2, <2>5, <2>6 DEF Shrinks, SamplerStates
    <3>2. ~PointOf(z, i).ignore
      BY <2>6, <2>12, <3>1 DEF Shrinks
    <3>3. ~PointOf(x, i).ignore
      BY <2>5, <3>2 DEF PointOf
    <3> QED BY <2>6, <2>8, <2>12, <3>1, <3>3
  <2>13. Once(y, n, w, A)
    BY <2>11, <2>12 DEF Once
  <2>14. Fits(y, n, w)
    BY <2>6, <2>7, ShrunkStays
  <2> QED BY <2>13, <2>14 DEF y
<1> QED BY <1>1, <1>2

(* A packet sent takes the point of one that has left the window.           *)
LEMMA SentFits ==
  ASSUME NEW n \in Nat, NEW w, NEW v \in [0 .. n -> Nat], \A i \in 0 .. n - 1 : v[i] = w[i],
         NEW A, A \subseteq 0 .. n - 1, NEW x,
         n = 0 => x = sampler_create, n # 0 => Fits(x, n, w) /\ Once(x, n, w, A), n < x.start_pos + RingSize
  PROVE  LET y == sampler_on_packet_sent(x, n, v[n]) IN Fits(y, n + 1, v) /\ Once(y, n + 1, v, A)
<1> DEFINE c == n % RingSize
           new == [number |-> n, size |-> v[n], ignore |-> FALSE]
           p == [x.points EXCEPT ![c] = new]
           s == IF x.start_pos = -1 THEN n ELSE x.start_pos
           y == sampler_on_packet_sent(x, n, v[n])
<1>1. /\ RingSize \in Nat \ {0} /\ c \in 0 .. RingSize - 1 /\ v[n] \in Nat
  <2>1. n \in Int /\ n \in 0 .. n
    OBVIOUS
  <2> QED BY <2>1, InRing
<1>2. x \in SamplerStates
  <2>1. sampler_create \in SamplerStates
    BY <1>1 DEF sampler_create, SamplerStates, Point
  <2> QED BY <2>1 DEF Fits
<1>3. IF n = 0 THEN x.start_pos = -1 /\ x.total_data_acked = 0 ELSE x.start_pos \in 0 .. n - 1
  BY DEF sampler_create, Fits
<1>4. s \in 0 .. n /\ (n # 0 => s = x.start_pos) /\ n + 1 <= s + RingSize /\ ~(n <= x.start_pos)
  BY <1>1, <1>3
<1>5. y = [x EXCEPT !.start_pos = s, !.index = n, !.points = p]
  BY <1>4, <1>2 DEF sampler_on_packet_sent, SamplerStates
<1>6. /\ x.points \in [0 .. RingSize - 1 -> Point]
      /\ p \in [0 .. RingSize - 1 -> Point] /\ p[c] = new
      /\ \A j \in 0 .. RingSize - 1 : j # c => p[j] = x.points[j]
  BY <1>1, <1>2 DEF SamplerStates, Point
<1> HIDE DEF p, s, new, y
<1>7. /\ y \in SamplerStates /\ y.points = p /\ y.start_pos = s /\ y.index = n
      /\ y.total_data_acked = x.total_data_acked
  <2>1. s \in Int /\ n \in Int /\ x.total_data_acked \in Nat
    BY <1>2, <1>4 DEF SamplerStates
  <2>2. y = [start_pos |-> s, index |-> n, total_data_acked |-> x.total_data_acked, points |-> p]
    BY <1>2, <1>5 DEF SamplerStates
  <2> QED BY <1>6, <2>1, <2>2 DEF SamplerStates
<1>8. PointOf(y, n) = new
  BY <1>6, <1>7 DEF PointOf
<1>9. ASSUME NEW i \in s .. n - 1 PROVE PointOf(y, i) = PointOf(x, i) /\ i \in 0 .. n - 1 /\ i \in x.start_pos .. n - 1
  <2>1. i \in Int /\ n \in Int /\ i - n < RingSize /\ n - i < RingSize /\ i # n /\ i \in 0 .. n - 1
    BY <1>1, <1>4
  <2>2. i % RingSize # c
    BY <2>1, OwnPoints
  <2>3. i % RingSize \in 0 .. RingSize - 1
    BY <2>1, InRing
  <2> QED BY <1>4, <1>6, <1>7, <2>1, <2>2, <2>3 DEF PointOf
<1>10. Fits(y, n + 1, v)
  <2>1. ASSUME NEW i \in s .. (n + 1) - 1 PROVE PointOf(y, i).size = v[i]
    <3>1. CASE i = n
      BY <1>8, <3>1 DEF new
    <3>2. CASE i # n
      <4>1. i \in s .. n - 1 /\ n # 0
        BY <1>4, <3>2
      <4>2. PointOf(x, i).size = w[i]
        BY <1>9, <4>1 DEF Fits
      <4> QED BY <1>9, <4>1, <4>2
    <3> QED BY <3>1, <3>2
  <2> QED BY <1>4, <1>7, <2>1 DEF Fits
<1>11. PICK K \in SUBSET A : /\ x.total_data_acked = Total(w, K)
                             /\ \A i \in x.start_pos .. n - 1 : ~PointOf(x, i).ignore => i \notin K
  <2>1. CASE n = 0
    <3>1. x.total_data_acked = Total(w, {}) /\ x.start_pos = -1
      BY <1>3, <2>1, TotalEmpty
    <3>2. {} \in SUBSET A
      OBVIOUS
    <3> QED BY <3>1, <3>2
  <2>2. CASE n # 0
    BY <2>2 DEF Once
  <2> QED BY <2>1, <2>2
<1>12. Total(w, K) = Total(v, K)
  <2>1. IsFiniteSet(0 .. n - 1)
    BY FS_Interval
  <2>2. IsFiniteSet(K) /\ \A i \in K : w[i] = v[i]
    BY <2>1, FS_Subset
  <2> QED BY <2>2, TotalSame
<1>13. ASSUME NEW i \in s .. (n + 1) - 1, ~PointOf(y, i).ignore PROVE i \notin K
  <2>1. CASE i = n
    BY <2>1
  <2>2. CASE i # n
    <3>1. i \in s .. n - 1
      BY <1>4, <2>2
    <3> QED BY <1>9, <1>11, <1>13, <3>1
  <2> QED BY <2>1, <2>2
<1>14. Once(y, n + 1, v, A)
  BY <1>7, <1>11, <1>12, <1>13 DEF Once
<1> QED BY <1>10, <1>14 DEF y

(* The greatest of a finite set of keys, with which the folds end.          *)
LEMMA GreatestOf ==
  ASSUME NEW s, s \subseteq Nat, IsFiniteSet(s), s # {}
  PROVE  Max(s) \in s /\ \A k \in s : Max(s) >= k
<1> DEFINE W == {t \in SUBSET s : t # {} /\ ~\E k \in t : \A j \in t : k >= j}
<1>1. W = {}
  <2> SUFFICES ASSUME W # {} PROVE FALSE
    OBVIOUS
  <2>1. PICK t \in W : \A u \in W : u \subseteq t => u = t
    <3>1. \A u \in W : IsFiniteSet(u)
      BY FS_Subset
    <3> HIDE DEF W
    <3> QED BY <3>1, SmallestSet
  <2>2. PICK x \in t : TRUE
    BY <2>1
  <2>3. x \in Nat /\ t \subseteq Nat /\ t \ {x} \in SUBSET s /\ t \ {x} # t
    BY <2>1
  <2>4. CASE t \ {x} = {}
    <3>1. \A j \in t : x >= j
      BY <2>3, <2>4
    <3> QED BY <2>1, <3>1
  <2>5. CASE t \ {x} # {}
    <3>1. PICK m \in t \ {x} : \A j \in t \ {x} : m >= j
      BY <2>1, <2>3, <2>5
    <3>2. m \in Nat
      BY <2>3
    <3>3. CASE m >= x
      <4>1. \A j \in t : m >= j
        BY <3>1, <3>3
      <4> QED BY <2>1, <4>1
    <3>4. CASE x >= m
      <4>1. \A j \in t : x >= j
        BY <2>3, <3>1, <3>2, <3>4
      <4> QED BY <2>1, <4>1
    <3> QED BY <2>3, <3>2, <3>3, <3>4
  <2> QED BY <2>4, <2>5
<1>2. \E k \in s : \A j \in s : k >= j
  BY <1>1
<1> QED BY <1>2 DEF Max

(* What is reported lost is removed point by point.                         *)
LostFold(x, S, g) ==
  g = [s \in SUBSET S |-> IF s = {} THEN x ELSE sampler_remove_point(g[s \ {Max(s)}], Wire(Max(s)))]

LEMMA LostFolds ==
  ASSUME NEW x, NEW S, S \subseteq Nat, IsFiniteSet(S)
  PROVE  \E g : LostFold(x, S, g)
<1> DEFINE good(s, g) == g = [t \in SUBSET s |-> IF t = {} THEN x ELSE sampler_remove_point(g[t \ {Max(t)}], Wire(Max(t)))]
           W == {s \in SUBSET S : ~\E g : good(s, g)}
<1>0. \A s \in SUBSET S : IsFiniteSet(s) /\ s \subseteq Nat
  BY FS_Subset
<1>1. W = {}
  <2> SUFFICES ASSUME W # {} PROVE FALSE
    OBVIOUS
  <2>1. PICK s \in W : \A t \in W : t \subseteq s => t = s
    <3>1. \A u \in W : IsFiniteSet(u)
      BY <1>0
    <3> HIDE DEF W
    <3> QED BY <3>1, SmallestSet
  <2> DEFINE m == Max(s)
             r == s \ {m}
  <2>2. s # {}
    <3>1. ASSUME s = {} PROVE FALSE
      <4> DEFINE g == [t \in SUBSET s |-> x]
      <4>1. \A t \in SUBSET s : t = {}
        BY <3>1
      <4>2. good(s, g)
        BY <4>1
      <4> QED BY <4>2
    <3> QED BY <3>1
  <2>3. m \in s /\ \A k \in s : m >= k
    <3>1. IsFiniteSet(s) /\ s \subseteq Nat
      BY <1>0
    <3> QED BY <2>2, <3>1, GreatestOf
  <2>4. r \in SUBSET S /\ r \subseteq s /\ r # s /\ s \subseteq Nat /\ IsFiniteSet(s)
    BY <1>0, <2>3
  <2> HIDE DEF m
  <2>5. PICK g : good(r, g)
    BY <2>1, <2>4
  <2> DEFINE h == [t \in SUBSET s |-> IF m \in t THEN sampler_remove_point(g[t \ {m}], Wire(m)) ELSE g[t]]
             k == [t \in SUBSET s |-> IF t = {} THEN x ELSE sampler_remove_point(h[t \ {Max(t)}], Wire(Max(t)))]
  <2>6. ASSUME NEW t \in SUBSET s PROVE h[t] = k[t]
    <3>1. CASE t = {}
      <4>1. h[t] = g[t] /\ {} \in SUBSET r
        BY <3>1
      <4>2. g[{}] = x
        BY <2>5, <4>1
      <4> QED BY <3>1, <4>1, <4>2
    <3>2. CASE t # {} /\ m \in t
      <4>1. Max(t) = m
        <5>1. t \subseteq Nat /\ IsFiniteSet(t)
          BY <2>4, FS_Subset
        <5>2. Max(t) \in t /\ \A j \in t : Max(t) >= j
          BY <3>2, <5>1, GreatestOf
        <5>3. m \in Nat /\ Max(t) \in Nat /\ Max(t) >= m /\ m >= Max(t)
          BY <2>3, <2>4, <3>2, <5>1, <5>2
        <5> QED BY <5>3
      <4>2. t \ {m} \in SUBSET s /\ m \notin t \ {m}
        OBVIOUS
      <4>3. h[t \ {m}] = g[t \ {m}]
        BY <4>2
      <4>4. h[t] = sampler_remove_point(g[t \ {m}], Wire(m))
        BY <3>2
      <4>5. k[t] = sampler_remove_point(h[t \ {Max(t)}], Wire(Max(t)))
        BY <3>2
      <4> HIDE DEF h, k
      <4> QED BY <4>1, <4>3, <4>4, <4>5
    <3>3. CASE t # {} /\ m \notin t
      <4>1. t \in SUBSET r /\ t \ {Max(t)} \in SUBSET s /\ m \notin t \ {Max(t)}
        BY <3>3
      <4>2. h[t] = g[t] /\ h[t \ {Max(t)}] = g[t \ {Max(t)}]
        BY <3>3, <4>1
      <4>3. g[t] = sampler_remove_point(g[t \ {Max(t)}], Wire(Max(t)))
        BY <2>5, <3>3, <4>1
      <4>4. k[t] = sampler_remove_point(h[t \ {Max(t)}], Wire(Max(t)))
        BY <3>3
      <4> HIDE DEF h, k
      <4> QED BY <4>2, <4>3, <4>4
    <3> QED BY <3>1, <3>2, <3>3
  <2>7. h = k
    <3>1. h = [t \in SUBSET s |-> h[t]] /\ k = [t \in SUBSET s |-> k[t]]
      OBVIOUS
    <3> HIDE DEF h, k
    <3> QED BY <2>6, <3>1
  <2>8. good(s, h)
    BY <2>7
  <2> HIDE DEF h, good
  <2> QED BY <2>1, <2>8
<1>2. PICK g : good(S, g)
  BY <1>1
<1> QED BY <1>2 DEF LostFold

LEMMA LostKeeps ==
  ASSUME NEW n \in Nat \ {0}, NEW w, NEW A, A \subseteq 0 .. n - 1,
         NEW x, Fits(x, n, w), Once(x, n, w, A),
         NEW S, S \subseteq Nat, IsFiniteSet(S)
  PROVE  Fits(WithoutLost(x, S), n, w) /\ Once(WithoutLost(x, S), n, w, A)
<1> DEFINE iter[s \in SUBSET S] == IF s = {} THEN x ELSE LET k == Max(s) IN sampler_remove_point(iter[s \ {k}], Wire(k))
<1>1. WithoutLost(x, S) = iter[S]
  BY DEF WithoutLost, MapThenFoldSet
<1>2. iter = [s \in SUBSET S |-> IF s = {} THEN x ELSE LET k == Max(s) IN sampler_remove_point(iter[s \ {k}], Wire(k))]
  <2>1. S \subseteq Nat
    OBVIOUS
  <2>2. PICK g : LostFold(x, S, g)
    BY <2>1, LostFolds
  <2>3. g = [s \in SUBSET S |-> IF s = {} THEN x ELSE LET k == Max(s) IN sampler_remove_point(g[s \ {k}], Wire(k))]
    BY <2>2 DEF LostFold
  <2> QED BY <2>3
<1> HIDE DEF iter
<1> DEFINE W == {s \in SUBSET S : ~(Fits(iter[s], n, w) /\ Once(iter[s], n, w, A))}
<1>3. W = {}
  <2> SUFFICES ASSUME W # {} PROVE FALSE
    OBVIOUS
  <2>1. PICK s \in W : \A t \in W : t \subseteq s => t = s
    <3>1. \A u \in W : IsFiniteSet(u)
      BY FS_Subset
    <3> HIDE DEF W
    <3> QED BY <3>1, SmallestSet
  <2>2. s # {}
    <3>1. iter[{}] = x
      BY <1>2
    <3> QED BY <2>1, <3>1
  <2>3. Max(s) \in s
    <3>1. s \subseteq S /\ S \subseteq Nat
      OBVIOUS
    <3>2. IsFiniteSet(s) /\ s \subseteq Nat
      BY <3>1, FS_Subset
    <3> QED BY <2>2, <3>2, GreatestOf
  <2> DEFINE k == Max(s)
             z == iter[s \ {k}]
  <2>4. iter[s] = sampler_remove_point(z, Wire(k))
    BY <1>2, <2>1, <2>2
  <2>5. k \in Nat /\ k \in Nat /\ Fits(z, n, w) /\ Once(z, n, w, A)
    <3>1. s \subseteq S /\ s \ {k} \in SUBSET S /\ s \ {k} # s /\ s \ {k} \subseteq s
      BY <2>1, <2>3
    <3>2. s \ {k} \notin W
      BY <2>1, <3>1
    <3>3. k \in S
      BY <2>3, <3>1
    <3>4. Fits(z, n, w) /\ Once(z, n, w, A)
      BY <3>1, <3>2
    <3> HIDE DEF k, z
    <3> QED BY <3>3, <3>4
  <2> HIDE DEF k, z
  <2>6. Fits(iter[s], n, w) /\ Once(iter[s], n, w, A)
    <3>1. SeqRange \in Nat \ {0} /\ Wire(k) \in Int
      BY <2>5, SeqRangeAssumption DEF Wire
    <3>2. z \in SamplerStates
      BY <2>5 DEF Fits
    <3>3. Shrinks(z, sampler_remove_point(z, Wire(k)))
      BY <3>1, <3>2, RemovedShrinks
    <3> QED BY <2>4, <2>5, <3>3, ShrunkStays
  <2> QED BY <2>1, <2>4, <2>6
<1> QED BY <1>1, <1>3

(* What is reported received is counted, each packet at most once.          *)
AckedFold(x, S, g) ==
  g = [s \in SUBSET S |-> IF s = {} THEN x ELSE sampler_on_packet_acked(g[s \ {Max(s)}], Max(s))]

LEMMA AckedFolds ==
  ASSUME NEW x, NEW S, S \subseteq Nat, IsFiniteSet(S)
  PROVE  \E g : AckedFold(x, S, g)
<1> DEFINE good(s, g) == g = [t \in SUBSET s |-> IF t = {} THEN x ELSE sampler_on_packet_acked(g[t \ {Max(t)}], Max(t))]
           W == {s \in SUBSET S : ~\E g : good(s, g)}
<1>0. \A s \in SUBSET S : IsFiniteSet(s) /\ s \subseteq Nat
  BY FS_Subset
<1>1. W = {}
  <2> SUFFICES ASSUME W # {} PROVE FALSE
    OBVIOUS
  <2>1. PICK s \in W : \A t \in W : t \subseteq s => t = s
    <3>1. \A u \in W : IsFiniteSet(u)
      BY <1>0
    <3> HIDE DEF W
    <3> QED BY <3>1, SmallestSet
  <2> DEFINE m == Max(s)
             r == s \ {m}
  <2>2. s # {}
    <3>1. ASSUME s = {} PROVE FALSE
      <4> DEFINE g == [t \in SUBSET s |-> x]
      <4>1. \A t \in SUBSET s : t = {}
        BY <3>1
      <4>2. good(s, g)
        BY <4>1
      <4> QED BY <4>2
    <3> QED BY <3>1
  <2>3. m \in s /\ \A k \in s : m >= k
    <3>1. IsFiniteSet(s) /\ s \subseteq Nat
      BY <1>0
    <3> QED BY <2>2, <3>1, GreatestOf
  <2>4. r \in SUBSET S /\ r \subseteq s /\ r # s /\ s \subseteq Nat /\ IsFiniteSet(s)
    BY <1>0, <2>3
  <2> HIDE DEF m
  <2>5. PICK g : good(r, g)
    BY <2>1, <2>4
  <2> DEFINE h == [t \in SUBSET s |-> IF m \in t THEN sampler_on_packet_acked(g[t \ {m}], m) ELSE g[t]]
             k == [t \in SUBSET s |-> IF t = {} THEN x ELSE sampler_on_packet_acked(h[t \ {Max(t)}], Max(t))]
  <2>6. ASSUME NEW t \in SUBSET s PROVE h[t] = k[t]
    <3>1. CASE t = {}
      <4>1. h[t] = g[t] /\ {} \in SUBSET r
        BY <3>1
      <4>2. g[{}] = x
        BY <2>5, <4>1
      <4> QED BY <3>1, <4>1, <4>2
    <3>2. CASE t # {} /\ m \in t
      <4>1. Max(t) = m
        <5>1. t \subseteq Nat /\ IsFiniteSet(t)
          BY <2>4, FS_Subset
        <5>2. Max(t) \in t /\ \A j \in t : Max(t) >= j
          BY <3>2, <5>1, GreatestOf
        <5>3. m \in Nat /\ Max(t) \in Nat /\ Max(t) >= m /\ m >= Max(t)
          BY <2>3, <2>4, <3>2, <5>1, <5>2
        <5> QED BY <5>3
      <4>2. t \ {m} \in SUBSET s /\ m \notin t \ {m}
        OBVIOUS
      <4>3. h[t \ {m}] = g[t \ {m}]
        BY <4>2
      <4>4. h[t] = sampler_on_packet_acked(g[t \ {m}], m)
        BY <3>2
      <4>5. k[t] = sampler_on_packet_acked(h[t \ {Max(t)}], Max(t))
        BY <3>2
      <4> HIDE DEF h, k
      <4> QED BY <4>1, <4>3, <4>4, <4>5
    <3>3. CASE t # {} /\ m \notin t
      <4>1. t \in SUBSET r /\ t \ {Max(t)} \in SUBSET s /\ m \notin t \ {Max(t)}
        BY <3>3
      <4>2. h[t] = g[t] /\ h[t \ {Max(t)}] = g[t \ {Max(t)}]
        BY <3>3, <4>1
      <4>3. g[t] = sampler_on_packet_acked(g[t \ {Max(t)}], Max(t))
        BY <2>5, <3>3, <4>1
      <4>4. k[t] = sampler_on_packet_acked(h[t \ {Max(t)}], Max(t))
        BY <3>3
      <4> HIDE DEF h, k
      <4> QED BY <4>2, <4>3, <4>4
    <3> QED BY <3>1, <3>2, <3>3
  <2>7. h = k
    <3>1. h = [t \in SUBSET s |-> h[t]] /\ k = [t \in SUBSET s |-> k[t]]
      OBVIOUS
    <3> HIDE DEF h, k
    <3> QED BY <2>6, <3>1
  <2>8. good(s, h)
    BY <2>7
  <2> HIDE DEF h, good
  <2> QED BY <2>1, <2>8
<1>2. PICK g : good(S, g)
  BY <1>1
<1> QED BY <1>2 DEF AckedFold

LEMMA AckedKeeps ==
  ASSUME NEW n \in Nat \ {0}, NEW w \in [0 .. n - 1 -> Nat], NEW A, A \subseteq 0 .. n - 1,
         NEW x, Fits(x, n, w), Once(x, n, w, A),
         NEW S, S \subseteq A, IsFiniteSet(S)
  PROVE  Fits(WithAcked(x, S), n, w) /\ Once(WithAcked(x, S), n, w, A)
<1> DEFINE iter[s \in SUBSET S] == IF s = {} THEN x ELSE LET k == Max(s) IN sampler_on_packet_acked(iter[s \ {k}], k)
<1>1. WithAcked(x, S) = iter[S]
  BY DEF WithAcked, MapThenFoldSet
<1>2. iter = [s \in SUBSET S |-> IF s = {} THEN x ELSE LET k == Max(s) IN sampler_on_packet_acked(iter[s \ {k}], k)]
  <2>1. S \subseteq Nat
    OBVIOUS
  <2>2. PICK g : AckedFold(x, S, g)
    BY <2>1, AckedFolds
  <2>3. g = [s \in SUBSET S |-> IF s = {} THEN x ELSE LET k == Max(s) IN sampler_on_packet_acked(g[s \ {k}], k)]
    BY <2>2 DEF AckedFold
  <2> QED BY <2>3
<1> HIDE DEF iter
<1> DEFINE W == {s \in SUBSET S : ~(Fits(iter[s], n, w) /\ Once(iter[s], n, w, A))}
<1>3. W = {}
  <2> SUFFICES ASSUME W # {} PROVE FALSE
    OBVIOUS
  <2>1. PICK s \in W : \A t \in W : t \subseteq s => t = s
    <3>1. \A u \in W : IsFiniteSet(u)
      BY FS_Subset
    <3> HIDE DEF W
    <3> QED BY <3>1, SmallestSet
  <2>2. s # {}
    <3>1. iter[{}] = x
      BY <1>2
    <3> QED BY <2>1, <3>1
  <2>3. Max(s) \in s
    <3>1. s \subseteq S /\ S \subseteq Nat
      OBVIOUS
    <3>2. IsFiniteSet(s) /\ s \subseteq Nat
      BY <3>1, FS_Subset
    <3> QED BY <2>2, <3>2, GreatestOf
  <2> DEFINE k == Max(s)
             z == iter[s \ {k}]
  <2>4. iter[s] = sampler_on_packet_acked(z, k)
    BY <1>2, <2>1, <2>2
  <2>5. k \in A /\ k \in Nat /\ Fits(z, n, w) /\ Once(z, n, w, A)
    <3>1. s \subseteq S /\ s \ {k} \in SUBSET S /\ s \ {k} # s /\ s \ {k} \subseteq s
      BY <2>1, <2>3
    <3>2. s \ {k} \notin W
      BY <2>1, <3>1
    <3>3. k \in S
      BY <2>3, <3>1
    <3>4. Fits(z, n, w) /\ Once(z, n, w, A)
      BY <3>1, <3>2
    <3> HIDE DEF k, z
    <3> QED BY <3>3, <3>4
  <2> HIDE DEF k, z
  <2>6. Fits(iter[s], n, w) /\ Once(iter[s], n, w, A)
    BY <2>4, <2>5, AckedOnce
  <2> QED BY <2>1, <2>4, <2>6
<1> QED BY <1>1, <1>3

(* So a report counts no byte that did not come, and none twice.            *)
LEMMA SampledKeeps ==
  ASSUME NEW n \in Nat \ {0}, NEW w \in [0 .. n - 1 -> Nat], NEW A, A \subseteq 0 .. n - 1,
         NEW x, Fits(x, n, w), Once(x, n, w, A),
         NEW received, received \subseteq A, NEW lost, lost \subseteq Nat, IsFiniteSet(lost)
  PROVE  Fits(Sampled(x, received, lost), n, w) /\ Once(Sampled(x, received, lost), n, w, A)
<1> DEFINE without == WithoutLost(x, lost)
           acked == WithAcked(without, received)
<1>1. Fits(without, n, w) /\ Once(without, n, w, A)
  BY LostKeeps
<1>2. received \subseteq Nat /\ IsFiniteSet(received)
  <2>1. IsFiniteSet(0 .. n - 1)
    BY FS_Interval
  <2>2. received \subseteq 0 .. n - 1 /\ received \subseteq Nat
    OBVIOUS
  <2>3. IsFiniteSet(received)
    BY <2>1, <2>2, FS_Subset
  <2> QED BY <2>2, <2>3
<1> HIDE DEF without
<1>3. Fits(acked, n, w) /\ Once(acked, n, w, A)
  BY <1>1, <1>2, AckedKeeps
<1>4. Sampled(x, received, lost) = IF received = {} THEN acked ELSE sampler_remove_old(acked, Max(received))
  BY DEF Sampled, without
<1> HIDE DEF acked
<1>5. CASE received = {}
  BY <1>3, <1>4, <1>5
<1>6. CASE received # {}
  <2>1. Max(received) \in Int
    <3>1. Max(received) \in received
      BY <1>2, <1>6, GreatestOf
    <3>2. \A k \in received : k \in Int
      BY <1>2
    <3> QED BY <3>1, <3>2
  <2>2. acked \in SamplerStates
    BY <1>3 DEF Fits
  <2>3. Shrinks(acked, sampler_remove_old(acked, Max(received)))
    BY <2>1, <2>2, OldRemovedShrinks
  <2> QED BY <1>3, <1>4, <1>6, <2>3, ShrunkStays
<1> QED BY <1>5, <1>6

(* The packets that arrived account for every byte that did, and the        *)
(* receiver collects and reports no others.                                 *)
Weights == [id \in Ids |-> SizeOf(id)]

CameIn(A) ==
  /\ A \cap fresh = {} /\ arrived = Total(Weights, A)
  /\ \A id \in Ids : Recent(id) => id \in fresh \cup A
  /\ recv.cache \subseteq A
  /\ \A r \in reports : Arrived(r, A)
  /\ Len(sent) = 0 => sampler = sampler_create
  /\ Len(sent) # 0 => Fits(sampler, Len(sent), Weights) /\ Once(sampler, Len(sent), Weights, A)

SamplerInv == \E A \in SUBSET Ids : CameIn(A)

LEMMA WeightsAre ==
  ASSUME NEW n \in Nat, NEW s \in Seq(Sizes), n = Len(s)
  PROVE  [id \in 0 .. Len(s) - 1 |-> s[id + 1]] \in [0 .. n - 1 -> Nat]
<1>1. \A i \in 0 .. n - 1 : s[i + 1] \in Nat
  BY FirstTwoIs
<1> QED BY <1>1

(* More packets may have arrived than were counted.                         *)
LEMMA MoreArrived ==
  ASSUME NEW A, NEW B, A \subseteq B
  PROVE  /\ \A r : Arrived(r, A) => Arrived(r, B)
         /\ \A x, n, w : Once(x, n, w, A) => Once(x, n, w, B)
BY DEF Arrived, Once

LEMMA InitSampler == FeedbackInit => SamplerInv
<1> SUFFICES ASSUME FeedbackInit PROVE SamplerInv
  OBVIOUS
<1>1. /\ Len(sent) = 0 /\ sampler = sampler_create /\ recv.cache = {} /\ reports = {} /\ arrived = 0 /\ fresh = {}
  BY DEF FeedbackInit, bbr_receive_create
<1>2. Ids = {} /\ Total(Weights, {}) = 0
  BY <1>1, TotalEmpty DEF Ids
<1>3. {} \in SUBSET Ids
  OBVIOUS
<1>4. CameIn({})
  BY <1>1, <1>2 DEF CameIn
<1> QED BY <1>3, <1>4 DEF SamplerInv

LEMMA SendSampler == IInv /\ SamplerInv /\ bbr_sender_send_packet => SamplerInv'
<1> SUFFICES ASSUME IInv, SamplerInv, bbr_sender_send_packet PROVE SamplerInv'
  OBVIOUS
<1>0. PICK n \in Nat : n = Len(sent)
  BY DEF IInv
<1>1. sent \in Seq(Sizes) /\ n = Len(sent) /\ Ids = 0 .. n - 1 /\ DOMAIN hist = Fields /\ Lag \in Nat \ {0}
  BY <1>0, HalfRange DEF IInv, Ids
<1>2. PICK A \in SUBSET Ids : CameIn(A)
  BY DEF SamplerInv
<1>3. PICK size \in Sizes, old \in SUBSET hist.l :
        /\ sent' = Append(sent, size)
        /\ hist' = sender_history_add(hist, Wire(n), size, old)
        /\ sampler' = sampler_on_packet_sent(sampler, hist'.last_value, size)
  BY <1>1 DEF bbr_sender_send_packet
<1>4. /\ n < sampler.start_pos + RingSize
      /\ fresh' = {i \in fresh : i >= n + 1 - Lag} \cup {n}
      /\ reports' \subseteq reports /\ recv' = recv /\ arrived' = arrived
  BY <1>1 DEF bbr_sender_send_packet
<1>5. hist'.last_value = n
  BY <1>1, <1>3, Adding, NextUnwraps
<1>6. /\ sent' \in Seq(Sizes) /\ Len(sent') = n + 1
      /\ \A i \in 1 .. n : sent'[i] = sent[i]
      /\ sent'[n + 1] = size
  BY <1>1, <1>3
<1> DEFINE w == Weights
           v == Weights'
<1>7. w \in [0 .. n - 1 -> Nat] /\ v \in [0 .. n -> Nat] /\ Ids' = 0 .. n
  <2>1. [id \in 0 .. Len(sent) - 1 |-> sent[id + 1]] \in [0 .. n - 1 -> Nat]
    BY <1>1, WeightsAre
  <2>2. [id \in 0 .. Len(sent') - 1 |-> sent'[id + 1]] \in [0 .. (n + 1) - 1 -> Nat]
    <3>1. n + 1 \in Nat
      OBVIOUS
    <3> QED BY <1>6, <3>1, WeightsAre
  <2>3. (n + 1) - 1 = n
    OBVIOUS
  <2> QED BY <1>6, <2>1, <2>2, <2>3 DEF Weights, Ids, SizeOf
<1>8. v[n] = size /\ \A i \in 0 .. n - 1 : v[i] = w[i]
  <2>1. Ids' = 0 .. n
    BY <1>7
  <2>2. v[n] = sent'[n + 1]
    BY <2>1 DEF Weights, SizeOf
  <2>3. ASSUME NEW i \in 0 .. n - 1 PROVE v[i] = w[i]
    <3>1. v[i] = sent'[i + 1] /\ w[i] = sent[i + 1] /\ i + 1 \in 1 .. n
      BY <1>1, <2>1 DEF Weights, SizeOf
    <3> QED BY <1>6, <3>1
  <2> QED BY <1>6, <2>2, <2>3
<1> HIDE DEF w, v
<1>9. A \subseteq 0 .. n - 1 /\ n \notin A
  BY <1>1
<1>10. Total(w, A) = Total(v, A)
  <2>0. n - 1 \in Int
    BY <1>1
  <2>1. IsFiniteSet(0 .. n - 1)
    BY <2>0, FS_Interval
  <2>2. IsFiniteSet(A) /\ \A i \in A : w[i] = v[i]
    BY <1>8, <1>9, <2>1, FS_Subset
  <2> QED BY <2>2, TotalSame
<1>11. Fits(sampler', n + 1, v) /\ Once(sampler', n + 1, v, A)
  <2>1. n = 0 => sampler = sampler_create
    BY <1>1, <1>2 DEF CameIn
  <2>2. n # 0 => Fits(sampler, n, w) /\ Once(sampler, n, w, A)
    BY <1>1, <1>2 DEF CameIn, w
  <2>3. sampler' = sampler_on_packet_sent(sampler, n, v[n])
    BY <1>3, <1>5, <1>8
  <2> QED BY <1>4, <1>7, <1>8, <1>9, <2>1, <2>2, <2>3, SentFits
<1>12. A \cap fresh' = {} /\ \A id \in Ids' : Recent(id)' => id \in fresh' \cup A
  <2>1. A \cap fresh' = {}
    BY <1>2, <1>4, <1>9 DEF CameIn
  <2>2. ASSUME NEW id \in Ids', Recent(id)' PROVE id \in fresh' \cup A
    <3>1. id \in 0 .. n /\ id >= n + 1 - Lag
      BY <1>1, <1>6, <1>7, <2>2 DEF Recent
    <3>2. CASE id = n
      BY <1>4, <3>2
    <3>3. CASE id # n
      <4>1. id \in Ids /\ Recent(id)
        BY <1>1, <3>1, <3>3 DEF Recent
      <4> QED BY <1>2, <1>4, <3>1, <4>1 DEF CameIn
    <3> QED BY <3>2, <3>3
  <2> QED BY <2>1, <2>2
<1>13. recv'.cache \subseteq A /\ \A r \in reports' : Arrived(r, A)
  BY <1>2, <1>4 DEF CameIn
<1>14. arrived' = Total(v, A)
  BY <1>2, <1>4, <1>10 DEF CameIn, w
<1>15. CameIn(A)'
  BY <1>6, <1>11, <1>12, <1>13, <1>14 DEF CameIn, Arrived, Once, Fits, PointOf, v
<1>16. A \in SUBSET Ids'
  BY <1>7, <1>9
<1> QED BY <1>15, <1>16 DEF SamplerInv

LEMMA ReceiveSampler == IInv /\ SamplerInv /\ bbr_receive_on_received => SamplerInv'
<1> SUFFICES ASSUME IInv, SamplerInv, bbr_receive_on_received PROVE SamplerInv'
  OBVIOUS
<1>0. PICK n \in Nat : n = Len(sent)
  BY DEF IInv
<1>1. sent \in Seq(Sizes) /\ n = Len(sent) /\ Ids = 0 .. n - 1 /\ Lag \in Nat \ {0}
  BY <1>0, HalfRange DEF IInv, Ids
<1>2. PICK A \in SUBSET Ids : CameIn(A)
  BY DEF SamplerInv
<1>3. sent' = sent /\ sampler' = sampler
  BY DEF bbr_receive_on_received
<1>4. PICK id \in {i \in 0 .. n - 1 : Recent(i)}, waited \in BOOLEAN :
        LET sequence == wrap16_update(recv.last_value, Wire(id))
            newest   == recv.max_seq < sequence
            cleared  == newest /\ recv.base_seq = -1
            cache    == (IF cleared THEN {} ELSE recv.cache) \cup {sequence}
            due      == Cardinality(cache) >= BBR_FEEDBACK_THROLD \/ (Cardinality(cache) > 2 /\ waited)
            new      == [recv EXCEPT !.last_value = sequence,
                                     !.max_seq = IF newest THEN sequence ELSE recv.max_seq,
                                     !.base_seq = IF cleared THEN sequence ELSE recv.base_seq]
        IN  /\ id \in fresh \/ Duplicating
            /\ fresh' = fresh \ {id}
            /\ arrived' = arrived + (IF id \in fresh THEN SizeOf(id) ELSE 0)
            /\ IF ~newest /\ sequence \in recv.cache
                 THEN recv' = new /\ UNCHANGED reports
               ELSE IF due
                 THEN recv' = [new EXCEPT !.cache = {}] /\ reports' = reports \cup Reports(cache)
                 ELSE recv' = [new EXCEPT !.cache = cache] /\ UNCHANGED reports
  BY <1>1 DEF bbr_receive_on_received
<1>5. id \in 0 .. n - 1 /\ id >= n - Lag /\ id \in Ids
  BY <1>1 DEF Recent
<1>6. wrap16_update(recv.last_value, Wire(id)) = id
  BY <1>1, <1>5, ArrivalUnwraps
<1> DEFINE newest  == recv.max_seq < id
           cleared == newest /\ recv.base_seq = -1
           cache   == (IF cleared THEN {} ELSE recv.cache) \cup {id}
           new     == [recv EXCEPT !.last_value = id,
                                   !.max_seq = IF newest THEN id ELSE recv.max_seq,
                                   !.base_seq = IF cleared THEN id ELSE recv.base_seq]
           B == A \cup {id}
<1>7. /\ fresh' = fresh \ {id}
      /\ arrived' = arrived + (IF id \in fresh THEN SizeOf(id) ELSE 0)
      /\ \/ recv' = new /\ reports' = reports
         \/ recv' = [new EXCEPT !.cache = {}] /\ reports' = reports \cup Reports(cache)
         \/ recv' = [new EXCEPT !.cache = cache] /\ reports' = reports
  BY <1>4, <1>6
<1>8. DOMAIN recv = {"last_value", "max_seq", "base_seq", "cache"}
  BY DEF IInv
<1>9. DOMAIN new = {"last_value", "max_seq", "base_seq", "cache"} /\ new.cache = recv.cache
  BY <1>8
<1>10. cache \subseteq B /\ recv.cache \subseteq B /\ B \subseteq Ids /\ cache \subseteq Nat /\ A \subseteq B
  <2>1. recv.cache \subseteq A /\ A \subseteq 0 .. n - 1 /\ id \in Nat
    BY <1>1, <1>2, <1>5 DEF CameIn
  <2>2. cache \subseteq B /\ B \subseteq 0 .. n - 1
    BY <1>5, <2>1
  <2>3. 0 .. n - 1 \subseteq Nat
    OBVIOUS
  <2> HIDE DEF cache
  <2> QED BY <1>1, <2>1, <2>2, <2>3
<1>11. \A r \in Reports(cache) : Arrived(r, B)
  <2> HIDE DEF cache, B
  <2> QED BY <1>10, ReportsArrived, MoreArrived
<1>12. \A r \in reports : Arrived(r, B)
  <2> HIDE DEF B
  <2> QED BY <1>2, <1>10, MoreArrived DEF CameIn
<1> HIDE DEF new, cache
<1>13. recv'.cache \subseteq B /\ \A r \in reports' : Arrived(r, B)
  <2>1. recv'.cache \in {recv.cache, {}, cache}
    BY <1>7, <1>9
  <2> HIDE DEF B
  <2> QED BY <1>7, <1>10, <1>11, <1>12, <2>1
<1>14. arrived' = Total(Weights, B)
  <2>1. CASE id \in fresh
    <3>1. id \notin A
      BY <1>2, <2>1 DEF CameIn
    <3>2. Weights \in [0 .. n - 1 -> Nat] /\ Weights[id] = SizeOf(id)
      <4>1. [i \in 0 .. Len(sent) - 1 |-> sent[i + 1]] \in [0 .. n - 1 -> Nat]
        BY <1>1, WeightsAre
      <4> QED BY <1>5, <4>1 DEF Weights, Ids, SizeOf
    <3>3. IsFiniteSet(A)
      <4>1. IsFiniteSet(0 .. n - 1)
        BY FS_Interval
      <4> QED BY <1>1, <4>1, FS_Subset
    <3>4. \A i \in A \cup {id} : Weights[i] \in Int
      BY <1>1, <1>5, <3>2
    <3>5. Total(Weights, A \cup {id}) = Weights[id] + Total(Weights, A)
      BY <3>1, <3>3, <3>4, TotalWith
    <3>6. arrived' = arrived + SizeOf(id) /\ arrived = Total(Weights, A) /\ arrived \in Nat /\ SizeOf(id) \in Nat
      <4>1. \A i \in A : Weights[i] \in Nat
        BY <1>1, <3>2
      <4>2. Total(Weights, A) \in Nat
        BY <3>3, <4>1, TotalNat
      <4>3. Weights[id] \in Nat
        BY <1>5, <3>2
      <4> QED BY <1>2, <1>7, <2>1, <3>2, <4>2, <4>3 DEF CameIn
    <3> QED BY <3>2, <3>5, <3>6
  <2>2. CASE id \notin fresh
    <3>1. B = A
      <4>1. Recent(id)
        BY <1>4
      <4> QED BY <1>2, <1>5, <2>2, <4>1 DEF CameIn
    <3>2. arrived = Total(Weights, A) /\ arrived \in Nat
      <4>1. [i \in 0 .. Len(sent) - 1 |-> sent[i + 1]] \in [0 .. n - 1 -> Nat]
        BY <1>1, WeightsAre
      <4>2. IsFiniteSet(0 .. n - 1)
        BY FS_Interval
      <4>3. IsFiniteSet(A) /\ \A i \in A : Weights[i] \in Nat
        BY <1>1, <4>1, <4>2, FS_Subset DEF Weights, Ids, SizeOf
      <4> QED BY <1>2, <4>3, TotalNat DEF CameIn
    <3>3. arrived' = arrived + 0
      BY <1>7, <2>2
    <3> QED BY <3>1, <3>2, <3>3
  <2> QED BY <2>1, <2>2
<1>15. B \cap fresh' = {} /\ \A i \in Ids : Recent(i) => i \in fresh' \cup B
  BY <1>2, <1>7 DEF CameIn
<1>16. /\ Len(sent) = 0 => sampler = sampler_create
       /\ Len(sent) # 0 => Fits(sampler, Len(sent), Weights) /\ Once(sampler, Len(sent), Weights, B)
  <2> HIDE DEF B
  <2> QED BY <1>2, <1>10, MoreArrived DEF CameIn
<1> HIDE DEF B
<1>17. Weights' = Weights /\ Ids' = Ids /\ \A i : Recent(i)' <=> Recent(i)
  BY <1>3 DEF Weights, Ids, SizeOf, Recent
<1>18. CameIn(B)'
  <2>1. B \cap fresh' = {} /\ arrived' = Total(Weights', B)
    BY <1>14, <1>15, <1>17
  <2>2. \A i \in Ids' : Recent(i)' => i \in fresh' \cup B
    BY <1>15, <1>17
  <2>3. /\ Len(sent') = 0 => sampler' = sampler_create
        /\ Len(sent') # 0 => Fits(sampler', Len(sent'), Weights') /\ Once(sampler', Len(sent'), Weights', B)
    BY <1>3, <1>16, <1>17
  <2> QED BY <1>13, <2>1, <2>2, <2>3 DEF CameIn, Arrived, Once, Fits, PointOf
<1> QED BY <1>10, <1>17, <1>18 DEF SamplerInv

LEMMA FeedbackSampler == IInv /\ SamplerInv /\ bbr_sender_on_feedback => SamplerInv'
<1> SUFFICES ASSUME IInv, SamplerInv, bbr_sender_on_feedback PROVE SamplerInv'
  OBVIOUS
<1>0. PICK n \in Nat : n = Len(sent)
  BY DEF IInv
<1>1. sent \in Seq(Sizes) /\ n = Len(sent) /\ Ids = 0 .. n - 1
  BY <1>0 DEF IInv, Ids
<1>2. PICK A \in SUBSET Ids : CameIn(A)
  BY DEF SamplerInv
<1>3. sent' = sent /\ recv' = recv /\ fresh' = fresh /\ arrived' = arrived
  BY DEF bbr_sender_on_feedback
<1>4. PICK r \in reports :
        LET first    == wrap16_update(hist.last_value, Wire(r.at))
            last     == first + Max({Offset(r, s) : s \in r.samplers})
            listed   == Listed({p.key : p \in {q \in hist.l : q.key \in first .. last}})
            received == listed \cap {first + Offset(r, s) : s \in r.samplers}
        IN  /\ sampler' = IF listed = {} THEN sampler ELSE Sampled(sampler, received, listed \ received)
            /\ reports' \in {reports, reports \ {r}}
  BY DEF bbr_sender_on_feedback, Offset
<1>5. PICK K \in SUBSET A : r.at \in K /\ (\A k \in K : k >= r.at) /\ r.samplers = {Wire(k) : k \in K}
  BY <1>2 DEF CameIn, Arrived
<1>6. K \in SUBSET (r.at .. Len(sent) - 1) /\ n # 0 /\ r.at \in Nat
  <2>1. \A k \in K : k \in 0 .. n - 1 /\ k >= r.at
    BY <1>1, <1>5
  <2>2. r.at \in 0 .. n - 1
    BY <1>5, <2>1
  <2>3. \A k \in K : k \in r.at .. Len(sent) - 1
    BY <1>1, <2>1, <2>2
  <2> QED BY <2>2, <2>3
<1>7. /\ wrap16_update(hist.last_value, Wire(r.at)) = r.at
      /\ {r.at + Offset(r, s) : s \in r.samplers} = K
  BY <1>5, <1>6, ReportRead
<1> DEFINE last   == r.at + Max({Offset(r, s) : s \in r.samplers})
           found  == {p.key : p \in {q \in hist.l : q.key \in r.at .. last}}
           listed == Listed(found)
           received == listed \cap K
<1>8. /\ sampler' = IF listed = {} THEN sampler ELSE Sampled(sampler, received, listed \ received)
      /\ reports' \subseteq reports
  BY <1>4, <1>7
<1>9. found \subseteq 0 .. n - 1
  <2>1. PICK f \in 0 .. n : hist.l = Remembered(f, n)
    BY <1>1 DEF IInv
  <2>2. \A p \in hist.l : p.key \in 0 .. n - 1
    BY <2>1 DEF Remembered, Packet
  <2> HIDE DEF last
  <2> QED BY <2>2
<1> HIDE DEF found, last
<1>10. listed \subseteq found
  BY DEF Listed
<1> HIDE DEF listed
<1>11. IsFiniteSet(listed \ received) /\ listed \ received \subseteq Nat /\ received \subseteq A
  <2>1. IsFiniteSet(0 .. n - 1)
    BY FS_Interval
  <2>2. listed \ received \subseteq 0 .. n - 1 /\ 0 .. n - 1 \subseteq Nat
    <3>1. listed \subseteq 0 .. n - 1 /\ 0 .. n - 1 \subseteq Nat
      BY <1>9, <1>10
    <3> QED BY <3>1
  <2>3. IsFiniteSet(listed \ received)
    BY <2>1, <2>2, FS_Subset
  <2> QED BY <2>2, <2>3
<1>12. Fits(sampler, n, Weights) /\ Once(sampler, n, Weights, A)
  BY <1>1, <1>2, <1>6 DEF CameIn
<1>13. Weights \in [0 .. n - 1 -> Nat]
  <2>1. [i \in 0 .. Len(sent) - 1 |-> sent[i + 1]] \in [0 .. n - 1 -> Nat]
    BY <1>1, WeightsAre
  <2> QED BY <2>1 DEF Weights, Ids, SizeOf
<1>14. Fits(sampler', n, Weights) /\ Once(sampler', n, Weights, A)
  <2>1. A \subseteq 0 .. n - 1 /\ n \in Nat \ {0}
    BY <1>1, <1>6
  <2> HIDE DEF received
  <2>2. CASE listed = {}
    BY <1>8, <1>12, <2>2
  <2>3. CASE listed # {}
    <3>1. sampler' = Sampled(sampler, received, listed \ received)
      BY <1>8, <2>3
    <3> QED BY <1>11, <1>12, <1>13, <2>1, <3>1, SampledKeeps
  <2> QED BY <2>2, <2>3
<1>15. Weights' = Weights /\ Ids' = Ids /\ \A i : Recent(i)' <=> Recent(i)
  BY <1>3 DEF Weights, Ids, SizeOf, Recent
<1>16. CameIn(A)'
  <2>1. A \cap fresh' = {} /\ arrived' = Total(Weights', A) /\ recv'.cache \subseteq A
    BY <1>2, <1>3, <1>15 DEF CameIn
  <2>2. \A i \in Ids' : Recent(i)' => i \in fresh' \cup A
    BY <1>2, <1>3, <1>15 DEF CameIn
  <2>3. \A x \in reports' : Arrived(x, A)
    BY <1>2, <1>8 DEF CameIn
  <2>4. /\ Len(sent') = 0 => sampler' = sampler_create
        /\ Len(sent') # 0 => Fits(sampler', Len(sent'), Weights') /\ Once(sampler', Len(sent'), Weights', A)
    BY <1>1, <1>3, <1>6, <1>14, <1>15
  <2> QED BY <2>1, <2>2, <2>3, <2>4 DEF CameIn, Arrived, Once, Fits, PointOf
<1> QED BY <1>15, <1>16 DEF SamplerInv

LEMMA StepSampler == IInv /\ SamplerInv /\ [FeedbackNext]_feedbackVars => SamplerInv'
<1> SUFFICES ASSUME IInv, SamplerInv, [FeedbackNext]_feedbackVars PROVE SamplerInv'
  OBVIOUS
<1>1. CASE bbr_sender_send_packet
  BY <1>1, SendSampler
<1>2. CASE bbr_receive_on_received
  BY <1>2, ReceiveSampler
<1>3. CASE bbr_sender_on_feedback
  BY <1>3, FeedbackSampler
<1>4. CASE UNCHANGED feedbackVars
  <2>1. PICK A \in SUBSET Ids : CameIn(A)
    BY DEF SamplerInv
  <2>2. /\ sent' = sent /\ sampler' = sampler /\ recv' = recv /\ fresh' = fresh
        /\ reports' = reports /\ arrived' = arrived
    BY <1>4 DEF feedbackVars
  <2>3. Weights' = Weights /\ Ids' = Ids /\ \A i : Recent(i)' <=> Recent(i)
    BY <2>2 DEF Weights, Ids, SizeOf, Recent
  <2>4. /\ Len(sent') = 0 => sampler' = sampler_create
        /\ Len(sent') # 0 => Fits(sampler', Len(sent'), Weights') /\ Once(sampler', Len(sent'), Weights', A)
    BY <2>1, <2>2, <2>3 DEF CameIn
  <2>5. A \cap fresh' = {} /\ arrived' = Total(Weights', A) /\ recv'.cache \subseteq A
    BY <2>1, <2>2, <2>3 DEF CameIn
  <2>6. /\ \A i \in Ids' : Recent(i)' => i \in fresh' \cup A
        /\ \A x \in reports' : Arrived(x, A)
    BY <2>1, <2>2, <2>3 DEF CameIn
  <2>7. CameIn(A)'
    BY <2>4, <2>5, <2>6 DEF CameIn, Arrived, Once, Fits, PointOf
  <2> QED BY <2>1, <2>3, <2>7 DEF SamplerInv
<1> QED BY <1>1, <1>2, <1>3, <1>4 DEF FeedbackNext

(* What was counted is a part of what arrived.                              *)
LEMMA CountedCame ==
  ASSUME IInv, SamplerInv
  PROVE  AckedArrived /\ sampler \in SamplerStates /\ arrived \in Nat
<1>0. PICK n \in Nat : n = Len(sent)
  BY DEF IInv
<1>1. sent \in Seq(Sizes) /\ n = Len(sent) /\ Ids = 0 .. n - 1
  BY <1>0 DEF IInv, Ids
<1>2. PICK A \in SUBSET Ids : CameIn(A)
  BY DEF SamplerInv
<1>3. IsFiniteSet(A) /\ \A i \in A : Weights[i] \in Nat
  <2>1. [i \in 0 .. Len(sent) - 1 |-> sent[i + 1]] \in [0 .. n - 1 -> Nat]
    BY <1>1, WeightsAre
  <2>2. IsFiniteSet(0 .. n - 1)
    BY FS_Interval
  <2> QED BY <1>1, <2>1, <2>2, FS_Subset DEF Weights, Ids, SizeOf
<1>4. arrived = Total(Weights, A) /\ arrived \in Nat
  BY <1>2, <1>3, TotalNat DEF CameIn
<1>5. CASE n = 0
  <2>1. sampler = sampler_create
    BY <1>1, <1>2, <1>5 DEF CameIn
  <2>2. sampler \in SamplerStates /\ sampler.total_data_acked = 0
    BY <2>1, RingSizeAssumption DEF sampler_create, SamplerStates, Point
  <2> QED BY <1>4, <2>2 DEF AckedArrived
<1>6. CASE n # 0
  <2>1. Fits(sampler, n, Weights) /\ Once(sampler, n, Weights, A)
    BY <1>1, <1>2, <1>6 DEF CameIn
  <2>2. PICK K \in SUBSET A : sampler.total_data_acked = Total(Weights, K)
    BY <2>1 DEF Once
  <2>3. Total(Weights, K) <= Total(Weights, A)
    BY <1>3, TotalPart
  <2> QED BY <1>4, <2>1, <2>2, <2>3 DEF Fits, AckedArrived
<1> QED BY <1>5, <1>6

(* However packets and reports are lost, repeated and reordered, and        *)
(* packets reported lost come later: bytes are counted as acknowledged at   *)
(* most once, and only if they came.                                        *)
THEOREM AckedAlwaysArrived == FeedbackSpec => []AckedArrived
<1>1. FeedbackInit => IInv /\ SamplerInv
  BY InitIInv, InitSampler
<1>2. IInv /\ SamplerInv /\ [FeedbackNext]_feedbackVars => (IInv /\ SamplerInv)'
  BY StepIInv, StepSampler
<1>3. IInv /\ SamplerInv => AckedArrived
  BY CountedCame
<1> QED BY <1>1, <1>2, <1>3, PTL DEF FeedbackSpec

(* The bytes the controller is told of are those of the network.            *)
THEOREM BytesAlwaysAccounted == FeedbackSpec => []BytesAccounted
<1> QED BY InFlightAlwaysNear, AckedAlwaysArrived, PTL DEF BytesAccounted

-----------------------------------------------------------------------------
(***************************************************************************)
(* The types: a history is a record of its fields, which the invariants    *)
(* above bound, and no byte is taken off the account twice.                *)
(***************************************************************************)
IsHistory(h) ==
  h \in [last_value : {h.last_value}, last_ack_seq_num : {h.last_ack_seq_num},
         l : {h.l}, outstanding_bytes : {h.outstanding_bytes}]

Receivers == [last_value : Nat, max_seq : Int, base_seq : Int, cache : SUBSET Nat]

Typed == /\ IsHistory(hist) /\ recv \in Receivers
         /\ fresh \subseteq Nat /\ reports \subseteq Report

LEMMA Refilled ==
  ASSUME NEW h, IsHistory(h), NEW a, NEW b, NEW c, NEW d
  PROVE  /\ IsHistory([h EXCEPT !.l = a, !.outstanding_bytes = b, !.last_ack_seq_num = c])
         /\ IsHistory([h EXCEPT !.last_value = a, !.outstanding_bytes = b, !.last_ack_seq_num = c])
         /\ IsHistory([h EXCEPT !.last_value = a, !.l = d, !.outstanding_bytes = b, !.last_ack_seq_num = c])
<1>1. PICK p, q, r, t : h \in [last_value : {p}, last_ack_seq_num : {q}, l : {r}, outstanding_bytes : {t}]
  BY Zenon DEF IsHistory
<1>2. [h EXCEPT !.l = a, !.outstanding_bytes = b, !.last_ack_seq_num = c]
        \in [last_value : {p}, last_ack_seq_num : {c}, l : {a}, outstanding_bytes : {b}]
  BY <1>1
<1>3. [h EXCEPT !.last_value = a, !.outstanding_bytes = b, !.last_ack_seq_num = c]
        \in [last_value : {a}, last_ack_seq_num : {c}, l : {r}, outstanding_bytes : {b}]
  BY <1>1
<1>4. [h EXCEPT !.last_value = a, !.l = d, !.outstanding_bytes = b, !.last_ack_seq_num = c]
        \in [last_value : {a}, last_ack_seq_num : {c}, l : {d}, outstanding_bytes : {b}]
  BY <1>1
<1>5. \A g, u, v, w, x : g \in [last_value : {u}, last_ack_seq_num : {v}, l : {w}, outstanding_bytes : {x}]
                        => IsHistory(g)
  BY DEF IsHistory
<1>6. IsHistory([h EXCEPT !.l = a, !.outstanding_bytes = b, !.last_ack_seq_num = c])
  BY <1>2, <1>5, Zenon
<1>7. IsHistory([h EXCEPT !.last_value = a, !.outstanding_bytes = b, !.last_ack_seq_num = c])
  BY <1>3, <1>5, Zenon
<1>8. IsHistory([h EXCEPT !.last_value = a, !.l = d, !.outstanding_bytes = b, !.last_ack_seq_num = c])
  BY <1>4, <1>5, Zenon
<1> QED BY <1>6, <1>7, <1>8

LEMMA HistoryShape ==
  ASSUME NEW h, IsHistory(h)
  PROVE  /\ \A seq, size, old : IsHistory(sender_history_add(h, seq, size, old))
         /\ \A key : IsHistory(AckedUpTo(h, key))
<1>1. ASSUME NEW seq, NEW size, NEW old PROVE IsHistory(sender_history_add(h, seq, size, old))
  <2> DEFINE w == Without(h, old)
  <2>1. IsHistory(w)
    BY Refilled, Zenon DEF Without
  <2> HIDE DEF w
  <2>2. PICK a, b, c, d : sender_history_add(h, seq, size, old)
          = [w EXCEPT !.last_value = a, !.l = d, !.outstanding_bytes = b, !.last_ack_seq_num = c]
    BY Zenon DEF sender_history_add, w
  <2>3. IsHistory([w EXCEPT !.last_value = a, !.l = d, !.outstanding_bytes = b, !.last_ack_seq_num = c])
    BY ONLY <2>1, Refilled, Zenon
  <2> QED BY <2>2, <2>3, Zenon
<1>2. ASSUME NEW key PROVE IsHistory(AckedUpTo(h, key))
  BY Refilled, Zenon DEF AckedUpTo
<1> QED BY <1>1, <1>2

LEMMA ReportsTyped ==
  ASSUME NEW cache, cache \subseteq Nat
  PROVE  Reports(cache) \subseteq Report
<1> DEFINE start == StartIn(cache)
           together(k) == {j \in cache : start[j] = start[k]}
<1> SUFFICES ASSUME NEW r \in Reports(cache) PROVE r \in Report
  OBVIOUS
<1>1. PICK k \in cache : r = [at |-> Min(together(k)), samplers |-> {Wire(j) : j \in together(k)}]
  BY DEF Reports
<1>2. together(k) \subseteq Nat /\ k \in together(k)
  OBVIOUS
<1> HIDE DEF together
<1>3. Min(together(k)) \in Nat
  <2>1. Min(together(k)) \in together(k)
    BY <1>2, LeastExists
  <2>2. \A y \in together(k) : y \in Nat
    BY <1>2
  <2> QED BY <2>1, <2>2
<1>4. {Wire(j) : j \in together(k)} \in SUBSET (0 .. SeqRange - 1)
  <2>1. \A j \in Nat : Wire(j) \in 0 .. SeqRange - 1
    BY SeqRangeAssumption, Remainder DEF Wire
  <2>2. \A y \in together(k) : y \in Nat
    BY <1>2
  <2>3. \A j \in together(k) : Wire(j) \in 0 .. SeqRange - 1
    BY <2>1, <2>2
  <2> QED BY <2>3
<1> QED BY <1>1, <1>3, <1>4 DEF Report

LEMMA InitTyped == FeedbackInit => Typed
<1> SUFFICES ASSUME FeedbackInit PROVE Typed
  OBVIOUS
<1>1. IsHistory(hist)
  BY DEF FeedbackInit, sender_history_create, IsHistory
<1>2. recv \in Receivers /\ fresh = {} /\ reports = {}
  BY DEF FeedbackInit, bbr_receive_create, Receivers
<1> QED BY <1>1, <1>2 DEF Typed

LEMMA StepTyped == IInv /\ Typed /\ [FeedbackNext]_feedbackVars => Typed'
<1> SUFFICES ASSUME IInv, Typed, [FeedbackNext]_feedbackVars PROVE Typed'
  OBVIOUS
<1>0. PICK n \in Nat : n = Len(sent)
  BY DEF IInv
<1>1. CASE bbr_sender_send_packet
  <2>1. PICK size, old : hist' = sender_history_add(hist, Wire(n), size, old)
    BY <1>0, <1>1 DEF bbr_sender_send_packet
  <2>2. fresh' \subseteq fresh \cup {n} /\ reports' \subseteq reports /\ recv' = recv
    BY <1>0, <1>1 DEF bbr_sender_send_packet
  <2>3. IsHistory(hist')
    BY <2>1, HistoryShape DEF Typed
  <2> QED BY <2>2, <2>3 DEF Typed, IsHistory
<1>2. CASE bbr_receive_on_received
  <2>1. PICK id \in {i \in 0 .. n - 1 : Recent(i)}, waited \in BOOLEAN :
          LET sequence == wrap16_update(recv.last_value, Wire(id))
              newest   == recv.max_seq < sequence
              cleared  == newest /\ recv.base_seq = -1
              cache    == (IF cleared THEN {} ELSE recv.cache) \cup {sequence}
              due      == Cardinality(cache) >= BBR_FEEDBACK_THROLD \/ (Cardinality(cache) > 2 /\ waited)
              new      == [recv EXCEPT !.last_value = sequence,
                                       !.max_seq = IF newest THEN sequence ELSE recv.max_seq,
                                       !.base_seq = IF cleared THEN sequence ELSE recv.base_seq]
          IN  IF ~newest /\ sequence \in recv.cache
                THEN recv' = new /\ UNCHANGED reports
              ELSE IF due
                THEN recv' = [new EXCEPT !.cache = {}] /\ reports' = reports \cup Reports(cache)
                ELSE recv' = [new EXCEPT !.cache = cache] /\ UNCHANGED reports
    BY <1>0, <1>2 DEF bbr_receive_on_received
  <2>2. id \in 0 .. n - 1 /\ id >= n - Lag
    BY <1>0 DEF Recent
  <2>3. wrap16_update(recv.last_value, Wire(id)) = id
    BY <1>0, <2>2, ArrivalUnwraps
  <2> DEFINE newest  == recv.max_seq < id
             cleared == newest /\ recv.base_seq = -1
             cache   == (IF cleared THEN {} ELSE recv.cache) \cup {id}
             m == IF newest THEN id ELSE recv.max_seq
             b == IF cleared THEN id ELSE recv.base_seq
             new == [recv EXCEPT !.last_value = id, !.max_seq = m, !.base_seq = b]
  <2>4. \/ recv' = new /\ reports' = reports
        \/ recv' = [new EXCEPT !.cache = {}] /\ reports' = reports \cup Reports(cache)
        \/ recv' = [new EXCEPT !.cache = cache] /\ reports' = reports
    BY <2>1, <2>3
  <2>5. cache \subseteq Nat /\ m \in Int /\ b \in Int /\ id \in Nat
    <3>1. recv.max_seq \in Int /\ recv.base_seq \in Int /\ recv.cache \subseteq Nat
      BY DEF Typed, Receivers
    <3> QED BY <2>2, <3>1
  <2> HIDE DEF cache, m, b
  <2>6. new \in Receivers
    BY <2>5 DEF Typed, Receivers
  <2> HIDE DEF new
  <2>7. [new EXCEPT !.cache = {}] \in Receivers /\ [new EXCEPT !.cache = cache] \in Receivers
    BY <2>5, <2>6 DEF Receivers
  <2>8. recv' \in Receivers /\ reports' \subseteq Report
    BY <2>4, <2>5, <2>6, <2>7, ReportsTyped DEF Typed
  <2>9. hist' = hist /\ fresh' \subseteq fresh
    BY <1>2 DEF bbr_receive_on_received
  <2> QED BY <2>8, <2>9 DEF Typed, IsHistory
<1>3. CASE bbr_sender_on_feedback
  <2>1. \E key : hist' = AckedUpTo(hist, key)
    BY <1>3 DEF bbr_sender_on_feedback
  <2>2. IsHistory(hist')
    BY <2>1, HistoryShape DEF Typed
  <2>3. recv' = recv /\ fresh' = fresh /\ reports' \subseteq reports
    BY <1>3 DEF bbr_sender_on_feedback
  <2> QED BY <2>2, <2>3 DEF Typed, IsHistory
<1>4. CASE UNCHANGED feedbackVars
  BY <1>4 DEF feedbackVars, Typed, IsHistory
<1> QED BY <1>1, <1>2, <1>3, <1>4 DEF FeedbackNext

(* The counter of bytes under way never goes below zero, which in the code  *)
(* would wrap, and everything else is of its type.                          *)
THEOREM TypesAlwaysOK == FeedbackSpec => []TypeOK
<1>1. FeedbackInit => IInv /\ HistInv /\ SamplerInv /\ Typed
  BY InitIInv, InitHist, InitSampler, InitTyped
<1>2. IInv /\ HistInv /\ SamplerInv /\ Typed /\ [FeedbackNext]_feedbackVars
        => (IInv /\ HistInv /\ SamplerInv /\ Typed)'
  BY StepIInv, StepHist, StepSampler, StepTyped
<1>3. IInv /\ HistInv /\ SamplerInv /\ Typed => TypeOK
  <2> SUFFICES ASSUME IInv, HistInv, SamplerInv, Typed PROVE TypeOK
    OBVIOUS
  <2>0. PICK n \in Nat : n = Len(sent)
    BY DEF IInv
  <2>1. hist.last_value \in Nat /\ hist.last_ack_seq_num \in Nat /\ hist.outstanding_bytes \in Nat
    <3>1. Accounted(hist, IF n = 0 THEN 0 ELSE n - 1) /\ Miscounted(hist) \in 0 .. FirstTwo
      BY <2>0 DEF HistInv
    <3>2. Bytes(Unacked(hist)) \in Nat
      BY <3>1, UnackedWeighed DEF Accounted
    <3>3. hist.outstanding_bytes \in Int /\ hist.outstanding_bytes - Bytes(Unacked(hist)) >= 0
      <4>1. \A k \in 0 .. FirstTwo : k >= 0
        OBVIOUS
      <4> QED BY <3>1, <4>1 DEF Miscounted, Accounted
    <3> QED BY <2>0, <3>1, <3>2, <3>3 DEF IInv, Accounted
  <2>2. hist.l \subseteq [key : Nat, size : Sizes]
    <3>1. PICK f \in 0 .. n : hist.l = Remembered(f, n)
      BY <2>0 DEF IInv
    <3>2. ASSUME NEW id \in f .. n - 1 PROVE Packet(id) \in [key : Nat, size : Sizes]
      <4>1. id \in Nat /\ id + 1 \in 1 .. Len(sent) /\ sent \in Seq(Sizes)
        BY <2>0 DEF IInv
      <4>2. sent[id + 1] \in Sizes
        BY <4>1
      <4> QED BY <4>1, <4>2 DEF Packet, SizeOf
    <3> QED BY <3>1, <3>2 DEF Remembered
  <2>3. hist \in [last_value : Nat, last_ack_seq_num : Nat, l : SUBSET [key : Nat, size : Sizes], outstanding_bytes : Nat]
    <3>1. hist = [last_value |-> hist.last_value, last_ack_seq_num |-> hist.last_ack_seq_num,
                  l |-> hist.l, outstanding_bytes |-> hist.outstanding_bytes]
      BY DEF Typed, IsHistory
    <3> DEFINE a == hist.last_value
               b == hist.last_ack_seq_num
               c == hist.l
               d == hist.outstanding_bytes
    <3>2. /\ hist = [last_value |-> a, last_ack_seq_num |-> b, l |-> c, outstanding_bytes |-> d]
          /\ a \in Nat /\ b \in Nat /\ c \in SUBSET [key : Nat, size : Sizes] /\ d \in Nat
      BY <2>1, <2>2, <3>1
    <3> HIDE DEF a, b, c, d
    <3> QED BY <3>2
  <2>4. sampler \in SamplerStates /\ arrived \in Nat
    BY CountedCame
  <2> QED BY <2>3, <2>4 DEF TypeOK, IInv, Typed, Receivers, SamplerStates
<1> QED BY <1>1, <1>2, <1>3, PTL DEF FeedbackSpec

-----------------------------------------------------------------------------
(***************************************************************************)
(* The feedback of GCC, however arrivals, reports and repetitions of both  *)
(* follow each other.                                                      *)
(***************************************************************************)
Half == SeqRange \div 2

(* A time that stands for one at which this packet came.                    *)
SameTime(ts, k) == \E t \in Arrivals(k) : (ts - t) % TsRange = 0

(* A history of n packets, of which the last one looked up is near.         *)
SenderKnows(h, n) ==
  /\ DOMAIN h = Fields /\ h.last_value \in Nat
  /\ \A p \in h.l : p.key \in 0 .. n - 1
  /\ IF n = 0 THEN h.last_value = 0 ELSE h.last_value <= n - 1 /\ n - h.last_value <= Half

(* What was given is known no more: it is given once, with a time of its.   *)
GivenOnce(g, h, n) == \A x \in DOMAIN g :
  /\ x.packet \in 0 .. n - 1 /\ g[x] = 1 /\ SameTime(x.arrival_ts, x.packet)
  /\ \A y \in DOMAIN g : x.packet = y.packet => x = y
  /\ \A p \in h.l : p.key # x.packet

(* A report of two packets or more, which gives each a time of its own.     *)
TrueSample(sample, k, min_ts) ==
  sample.seq = Wired(k) /\ sample.delta \in Int /\ SameTime(min_ts + sample.delta, k)

ReportTrue(r, n) ==
  /\ DOMAIN r.samples \subseteq 0 .. n - 1 /\ r.min_ts \in Int
  /\ \E j, k \in DOMAIN r.samples : j # k
  /\ \A k \in DOMAIN r.samples : TrueSample(r.samples[k], k, r.min_ts)

ReceiverKnows(p) ==
  /\ DOMAIN p = {"last_value", "wnd_start_seq", "max_arrival_seq", "arrival_times"}
  /\ p.last_value \in Nat /\ p.max_arrival_seq \in Int
  /\ p.wnd_start_seq \in Int /\ p.wnd_start_seq >= -1
  /\ p.wnd_start_seq = -1 => DOMAIN p.arrival_times = {}
  /\ DOMAIN p.arrival_times \subseteq DOMAIN stamps
  /\ \A k \in DOMAIN p.arrival_times : p.arrival_times[k] \in stamps[k]

(* The inductive invariant.                                                 *)
GccInv ==
  /\ gccSent \in Nat /\ gccNow \in Nat /\ air \subseteq 0 .. gccSent - 1
  /\ DOMAIN stamps \subseteq 0 .. gccSent - 1 /\ \A k \in DOMAIN stamps : stamps[k] \subseteq Nat
  /\ SenderKnows(gccHist, gccSent) /\ (gccSent = 0 \/ gccSent - gccHist.last_value < Half)
  /\ GivenOnce(given, gccHist, gccSent)
  /\ ReceiverKnows(proxy)
  /\ \A r \in gccMsgs : ReportTrue(r, gccSent)
  /\ NoneLeftOut

LEMMA HalfIs == Half \in Nat /\ Half > 1 /\ SeqRange = 2 * Half /\ SeqRange \in Nat \ {0} /\ TsRange \in Nat \ {0}
BY SeqRangeAssumption, GccAssumption DEF Half

LEMMA InitGcc == GccInit => GccInv
<1> SUFFICES ASSUME GccInit PROVE GccInv
  OBVIOUS
<1>1. DOMAIN given = {}
  BY DEF GccInit
<1>2. DOMAIN gccHist = Fields /\ gccHist.last_value = 0 /\ gccHist.l = {}
  BY DEF GccInit, sender_history_create, Fields
<1>3. /\ gccSent = 0 /\ gccNow = 0 /\ air = {} /\ stamps = <<>> /\ gccMsgs = {}
      /\ proxy = [last_value |-> 0, wnd_start_seq |-> -1, max_arrival_seq |-> -1, arrival_times |-> <<>>]
  BY DEF GccInit, estimator_proxy_create
<1>4. DOMAIN stamps = {} /\ DOMAIN proxy.arrival_times = {}
  BY <1>3
<1>5. ReceiverKnows(proxy)
  BY <1>3, <1>4 DEF ReceiverKnows
<1>6. SenderKnows(gccHist, gccSent) /\ GivenOnce(given, gccHist, gccSent) /\ NoneLeftOut
  BY <1>1, <1>2, <1>3, <1>4 DEF SenderKnows, GivenOnce, NoneLeftOut
<1> QED BY <1>3, <1>4, <1>5, <1>6 DEF GccInv

(* Looking a sample up: the number is unwrapped to the packet's, which goes *)
(* out of the list when it is in it, and is given then.                     *)
LEMMA LookUp ==
  ASSUME NEW n \in Nat \ {0}, NEW x, SenderKnows(x.hist, n), GivenOnce(x.given, x.hist, n),
         NEW k \in 0 .. n - 1, n - k <= Half, NEW sample, NEW min_ts, TrueSample(sample, k, min_ts)
  PROVE  LET y == LookedUp(x, sample, min_ts)
         IN  SenderKnows(y.hist, n) /\ GivenOnce(y.given, y.hist, n) /\ y.hist.last_value = k
<1> DEFINE h == x.hist
           y == LookedUp(x, sample, min_ts)
           gift == [packet |-> k, arrival_ts |-> min_ts + sample.delta]
<1>1. wrap16_update(h.last_value, sample.seq) = k
  <2>1. h.last_value \in Nat /\ h.last_value <= n - 1 /\ n - h.last_value <= Half /\ Half \in Nat
    BY HalfIs DEF SenderKnows
  <2>2. k - h.last_value < SeqRange \div 2 /\ h.last_value - k < SeqRange \div 2 /\ k \in Nat
    BY <2>1 DEF Half
  <2>3. sample.seq = k % SeqRange
    BY DEF TrueSample, Wired
  <2> HIDE DEF h
  <2> QED BY <2>1, <2>2, <2>3, UnwrapsTrue
<1>2. y = [hist |-> Found(h, k), given |-> IF \E p \in h.l : p.key = k THEN OnceMore(x.given, gift) ELSE x.given]
  BY <1>1 DEF LookedUp
<1>3. DOMAIN Found(h, k) = Fields /\ Found(h, k).last_value = k /\ Found(h, k).l = {p \in h.l : p.key # k}
  <2>1. DOMAIN h = Fields
    BY DEF SenderKnows
  <2>2. AckedUpTo(h, k).last_value = k /\ DOMAIN AckedUpTo(h, k) = Fields
    BY <2>1, Acknowledging
  <2> QED BY <2>2 DEF Found, Fields
<1> HIDE DEF h, y
<1>4. SenderKnows(Found(h, k), n)
  BY <1>3 DEF SenderKnows, h
<1>5. GivenOnce(x.given, Found(h, k), n)
  BY <1>3 DEF GivenOnce, h
<1>6. ASSUME NEW p \in h.l, p.key = k PROVE GivenOnce(OnceMore(x.given, gift), Found(h, k), n)
  <2> DEFINE g == OnceMore(x.given, gift)
  <2>1. \A z \in DOMAIN x.given : z.packet # k
    BY <1>6 DEF GivenOnce, h
  <2>2. gift \notin DOMAIN x.given /\ gift.packet = k /\ gift.arrival_ts = min_ts + sample.delta
    BY <2>1
  <2> HIDE DEF gift
  <2>4. DOMAIN g = DOMAIN x.given \cup {gift} /\ \A e \in DOMAIN g : g[e] = IF e = gift THEN 1 ELSE x.given[e]
    <3>1. \A e \in DOMAIN x.given : x.given[e] = 1
      BY DEF GivenOnce
    <3> QED BY <2>2, <3>1 DEF OnceMore
  <2> HIDE DEF g
  <2>5. SameTime(gift.arrival_ts, k)
    BY <2>2 DEF TrueSample
  <2>6. ASSUME NEW e \in DOMAIN g
        PROVE /\ e.packet \in 0 .. n - 1 /\ g[e] = 1 /\ SameTime(e.arrival_ts, e.packet)
              /\ \A z \in DOMAIN g : e.packet = z.packet => e = z
              /\ \A q \in Found(h, k).l : q.key # e.packet
    <3>1. CASE e = gift
      BY <1>3, <2>1, <2>2, <2>4, <2>5, <3>1
    <3>2. CASE e # gift
      <4>1. e \in DOMAIN x.given /\ g[e] = x.given[e]
        BY <2>4, <3>2
      <4> QED BY <1>5, <2>1, <2>2, <2>4, <4>1 DEF GivenOnce
    <3> QED BY <3>1, <3>2
  <2> QED BY <2>6 DEF GivenOnce, g
<1>7. y.hist = Found(h, k) /\ GivenOnce(y.given, Found(h, k), n)
  BY <1>2, <1>5, <1>6
<1> QED BY <1>3, <1>4, <1>7 DEF y

(* A report is looked up sample by sample.                                  *)
LookUpFold(x, r, S, g) ==
  g = [s \in SUBSET S |-> IF s = {} THEN x ELSE LookedUp(g[s \ {Max(s)}], r.samples[Max(s)], r.min_ts)]

LEMMA LookUpFolds ==
  ASSUME NEW x, NEW r, NEW S, S \subseteq Nat, IsFiniteSet(S)
  PROVE  \E g : LookUpFold(x, r, S, g)
<1> DEFINE good(s, g) == g = [t \in SUBSET s |-> IF t = {} THEN x ELSE LookedUp(g[t \ {Max(t)}], r.samples[Max(t)], r.min_ts)]
           W == {s \in SUBSET S : ~\E g : good(s, g)}
<1>0. \A s \in SUBSET S : IsFiniteSet(s) /\ s \subseteq Nat
  BY FS_Subset
<1>1. W = {}
  <2> SUFFICES ASSUME W # {} PROVE FALSE
    OBVIOUS
  <2>1. PICK s \in W : \A t \in W : t \subseteq s => t = s
    <3>1. \A u \in W : IsFiniteSet(u)
      BY <1>0
    <3> HIDE DEF W
    <3> QED BY <3>1, SmallestSet
  <2> DEFINE m == Max(s)
             rest == s \ {m}
  <2>2. s # {}
    <3>1. ASSUME s = {} PROVE FALSE
      <4> DEFINE g == [t \in SUBSET s |-> x]
      <4>1. \A t \in SUBSET s : t = {}
        BY <3>1
      <4>2. good(s, g)
        BY <4>1
      <4> QED BY <4>2
    <3> QED BY <3>1
  <2>3. m \in s /\ \A k \in s : m >= k
    <3>1. IsFiniteSet(s) /\ s \subseteq Nat
      BY <1>0
    <3> QED BY <2>2, <3>1, GreatestOf
  <2>4. rest \in SUBSET S /\ rest \subseteq s /\ rest # s /\ s \subseteq Nat /\ IsFiniteSet(s)
    BY <1>0, <2>3
  <2> HIDE DEF m
  <2>5. PICK g : good(rest, g)
    BY <2>1, <2>4
  <2> DEFINE h == [t \in SUBSET s |-> IF m \in t THEN LookedUp(g[t \ {m}], r.samples[m], r.min_ts) ELSE g[t]]
             k == [t \in SUBSET s |-> IF t = {} THEN x ELSE LookedUp(h[t \ {Max(t)}], r.samples[Max(t)], r.min_ts)]
  <2>6. ASSUME NEW t \in SUBSET s PROVE h[t] = k[t]
    <3>1. CASE t = {}
      <4>1. h[t] = g[t] /\ {} \in SUBSET rest
        BY <3>1
      <4>2. g[{}] = x
        BY <2>5, <4>1
      <4> QED BY <3>1, <4>1, <4>2
    <3>2. CASE t # {} /\ m \in t
      <4>1. Max(t) = m
        <5>1. t \subseteq Nat /\ IsFiniteSet(t)
          BY <2>4, FS_Subset
        <5>2. Max(t) \in t /\ \A j \in t : Max(t) >= j
          BY <3>2, <5>1, GreatestOf
        <5>3. m \in Nat /\ Max(t) \in Nat /\ Max(t) >= m /\ m >= Max(t)
          BY <2>3, <2>4, <3>2, <5>1, <5>2
        <5> QED BY <5>3
      <4>2. t \ {m} \in SUBSET s /\ m \notin t \ {m}
        OBVIOUS
      <4>3. h[t \ {m}] = g[t \ {m}]
        BY <4>2
      <4>4. h[t] = LookedUp(g[t \ {m}], r.samples[m], r.min_ts)
        BY <3>2
      <4>5. k[t] = LookedUp(h[t \ {Max(t)}], r.samples[Max(t)], r.min_ts)
        BY <3>2
      <4> HIDE DEF h, k
      <4> QED BY <4>1, <4>3, <4>4, <4>5
    <3>3. CASE t # {} /\ m \notin t
      <4>1. t \in SUBSET rest /\ t \ {Max(t)} \in SUBSET s /\ m \notin t \ {Max(t)}
        BY <3>3
      <4>2. h[t] = g[t] /\ h[t \ {Max(t)}] = g[t \ {Max(t)}]
        BY <3>3, <4>1
      <4>3. g[t] = LookedUp(g[t \ {Max(t)}], r.samples[Max(t)], r.min_ts)
        BY <2>5, <3>3, <4>1
      <4>4. k[t] = LookedUp(h[t \ {Max(t)}], r.samples[Max(t)], r.min_ts)
        BY <3>3
      <4> HIDE DEF h, k
      <4> QED BY <4>2, <4>3, <4>4
    <3> QED BY <3>1, <3>2, <3>3
  <2>7. h = k
    <3>1. h = [t \in SUBSET s |-> h[t]] /\ k = [t \in SUBSET s |-> k[t]]
      OBVIOUS
    <3> HIDE DEF h, k
    <3> QED BY <2>6, <3>1
  <2>8. good(s, h)
    BY <2>7
  <2> HIDE DEF h, good
  <2> QED BY <2>1, <2>8
<1>2. PICK g : good(S, g)
  BY <1>1
<1> QED BY <1>2 DEF LookUpFold


LEMMA LookUpKeeps ==
  ASSUME NEW n \in Nat \ {0}, NEW x, SenderKnows(x.hist, n), GivenOnce(x.given, x.hist, n),
         NEW r, ReportTrue(r, n), \A k \in DOMAIN r.samples : n - k <= Half
  PROVE  LET y == AllLookedUp(x, r)
         IN  SenderKnows(y.hist, n) /\ GivenOnce(y.given, y.hist, n) /\ n - y.hist.last_value < Half
<1> DEFINE S == DOMAIN r.samples
           iter[s \in SUBSET S] == IF s = {} THEN x ELSE LET k == Max(s) IN LookedUp(iter[s \ {k}], r.samples[k], r.min_ts)
<1>1. AllLookedUp(x, r) = iter[S]
  BY DEF AllLookedUp, MapThenFoldSet
<1>0. S \subseteq 0 .. n - 1 /\ S \subseteq Nat /\ IsFiniteSet(S)
  <2>1. S \subseteq 0 .. n - 1 /\ IsFiniteSet(0 .. n - 1)
    BY FS_Interval DEF ReportTrue
  <2> HIDE DEF S
  <2>2. \A k \in S : k \in Nat
    BY <2>1
  <2>3. IsFiniteSet(S)
    BY <2>1, FS_Subset
  <2> QED BY <2>1, <2>2, <2>3
<1>2. iter = [s \in SUBSET S |-> IF s = {} THEN x ELSE LET k == Max(s) IN LookedUp(iter[s \ {k}], r.samples[k], r.min_ts)]
  <2>2. PICK g : LookUpFold(x, r, S, g)
    <3> HIDE DEF S
    <3> QED BY <1>0, LookUpFolds
  <2>3. g = [s \in SUBSET S |-> IF s = {} THEN x ELSE LET k == Max(s) IN LookedUp(g[s \ {k}], r.samples[k], r.min_ts)]
    BY <2>2 DEF LookUpFold
  <2> QED BY <2>3
<1>s. \A k \in S : k \in 0 .. n - 1 /\ n - k <= Half /\ TrueSample(r.samples[k], k, r.min_ts)
  BY <1>0 DEF ReportTrue
<1>t. \E j, k \in S : j # k
  BY DEF ReportTrue
<1> HIDE DEF iter, S
<1> DEFINE Known(y) == SenderKnows(y.hist, n) /\ GivenOnce(y.given, y.hist, n)
           W == {s \in SUBSET S : ~(Known(iter[s]) /\ (s # {} => iter[s].hist.last_value = Max(s)))}
<1>3. W = {}
  <2> SUFFICES ASSUME W # {} PROVE FALSE
    OBVIOUS
  <2>1. PICK s \in W : \A t \in W : t \subseteq s => t = s
    <3>1. \A u \in W : IsFiniteSet(u)
      BY <1>0, FS_Subset
    <3> HIDE DEF W
    <3> QED BY <3>1, SmallestSet
  <2>2. s # {}
    <3>1. iter[{}] = x
      BY <1>2
    <3> QED BY <2>1, <3>1
  <2>3. Max(s) \in s
    <3>1. s \subseteq S /\ S \subseteq Nat
      BY <1>0
    <3>2. IsFiniteSet(s) /\ s \subseteq Nat
      BY <1>0, <3>1, FS_Subset
    <3> QED BY <2>2, <3>2, GreatestOf
  <2> DEFINE k == Max(s)
             z == iter[s \ {k}]
  <2>4. iter[s] = LookedUp(z, r.samples[k], r.min_ts)
    BY <1>2, <2>1, <2>2
  <2>5. k \in S /\ Known(z)
    <3>1. s \subseteq S /\ s \ {k} \in SUBSET S /\ s \ {k} # s /\ s \ {k} \subseteq s
      BY <2>1, <2>3
    <3>2. s \ {k} \notin W
      BY <2>1, <3>1
    <3>3. k \in S
      BY <2>3, <3>1
    <3>4. Known(z)
      BY <3>1, <3>2
    <3> HIDE DEF k, z
    <3> QED BY <3>3, <3>4
  <2> HIDE DEF k, z
  <2>6. Known(iter[s]) /\ iter[s].hist.last_value = k
    BY <1>s, <2>4, <2>5, LookUp
  <2> QED BY <2>1, <2>6 DEF k
<1>4. Known(iter[S]) /\ iter[S].hist.last_value = Max(S)
  <2>1. S \notin W /\ S # {}
    BY <1>3, <1>t
  <2> QED BY <2>1
<1>5. n - Max(S) < Half
  <2>1. Max(S) \in S /\ \A k \in S : Max(S) >= k
    BY <1>0, <1>t, GreatestOf
  <2>2. PICK j \in S : j # Max(S)
    BY <1>t
  <2>3. j \in 0 .. n - 1 /\ Max(S) \in 0 .. n - 1 /\ Max(S) >= j /\ n - j <= Half
    BY <1>s, <2>1, <2>2
  <2> QED BY <2>2, <2>3, HalfIs
<1> QED BY <1>1, <1>4, <1>5

(* Packets noted stay noted, so what is true of their times stays true.     *)
LEMMA TimesStay ==
  ASSUME DOMAIN stamps \subseteq DOMAIN stamps', \A k \in DOMAIN stamps : stamps[k] \subseteq stamps'[k]
  PROVE  /\ \A ts, k : SameTime(ts, k) => SameTime(ts, k)'
         /\ \A g, h, n : GivenOnce(g, h, n) => GivenOnce(g, h, n)'
         /\ \A r, n : ReportTrue(r, n) => ReportTrue(r, n)'
<1>1. ASSUME NEW ts, NEW k, SameTime(ts, k) PROVE SameTime(ts, k)'
  <2>1. PICK t \in Arrivals(k) : (ts - t) % TsRange = 0
    BY <1>1 DEF SameTime
  <2>2. t \in Arrivals(k)'
    BY <2>1 DEF Arrivals
  <2> QED BY <2>1, <2>2 DEF SameTime
<1>2. ASSUME NEW g, NEW h, NEW n, GivenOnce(g, h, n) PROVE GivenOnce(g, h, n)'
  BY <1>1, <1>2 DEF GivenOnce
<1>3. ASSUME NEW r, NEW n, ReportTrue(r, n) PROVE ReportTrue(r, n)'
  BY <1>1, <1>3 DEF ReportTrue, TrueSample
<1> QED BY <1>1, <1>2, <1>3

LEMMA SendGcc == GccInv /\ cc_feedback_add_packet => GccInv'
<1> SUFFICES ASSUME GccInv, cc_feedback_add_packet PROVE GccInv'
  OBVIOUS
<1> DEFINE n == gccSent
<1>1. /\ n \in Nat /\ gccSent' = n + 1 /\ air' = air \cup {n}
      /\ UNCHANGED <<proxy, gccMsgs, given, stamps, accounted, gccNow>>
  BY DEF GccInv, cc_feedback_add_packet
<1>2. PICK old, h : gccHist' = h /\ h = sender_history_add(gccHist, Wired(n), 1, old)
  BY DEF cc_feedback_add_packet
<1>3. /\ DOMAIN gccHist = Fields /\ gccHist.last_value \in Nat
      /\ \A p \in gccHist.l : p.key \in 0 .. n - 1
      /\ n - gccHist.last_value < Half /\ gccHist.last_value - n < Half
  BY <1>1, HalfIs DEF GccInv, SenderKnows
<1>4. wrap16_update(gccHist.last_value, Wired(n)) = n
  BY <1>1, <1>3, UnwrapsTrue DEF Wired, Half
<1>5. /\ DOMAIN h = Fields /\ h.last_value = n
      /\ \A p \in h.l : p \in gccHist.l \/ p.key = n
  BY <1>2, <1>3, <1>4, Adding
<1> HIDE DEF n
<1>6. SenderKnows(h, n + 1) /\ (n + 1) - h.last_value < Half
  BY <1>1, <1>3, <1>5, HalfIs DEF SenderKnows
<1>7. GivenOnce(given, h, n + 1)
  <2>1. GivenOnce(given, gccHist, n)
    BY DEF GccInv, n
  <2> QED BY <1>1, <1>5, <2>1 DEF GivenOnce
<1>8. \A r \in gccMsgs : ReportTrue(r, n + 1)
  <2>1. \A r \in gccMsgs : ReportTrue(r, n)
    BY DEF GccInv, n
  <2> QED BY <1>1, <2>1 DEF ReportTrue
<1>9. PICK g, msgs, m : g = given /\ msgs = gccMsgs /\ m = n + 1
  OBVIOUS
<1>10. GivenOnce(g, h, m)' /\ \A r \in msgs : ReportTrue(r, m)'
  BY <1>1, <1>7, <1>8, <1>9, TimesStay
<1>13. GivenOnce(given, gccHist, gccSent)' /\ \A r \in gccMsgs' : ReportTrue(r, gccSent)'
  BY <1>1, <1>2, <1>9, <1>10
<1>11. /\ air' \subseteq 0 .. n /\ DOMAIN stamps \subseteq 0 .. n
  <2>1. air \subseteq 0 .. n - 1 /\ DOMAIN stamps \subseteq 0 .. n - 1
    BY DEF GccInv, n
  <2>2. 0 .. n - 1 \subseteq 0 .. n /\ {n} \subseteq 0 .. n
    BY <1>1
  <2> QED BY <1>1, <2>1, <2>2
<1>12. /\ ReceiverKnows(proxy)' /\ NoneLeftOut'
  BY <1>1 DEF GccInv, ReceiverKnows, NoneLeftOut, Pending
<1> QED BY <1>1, <1>2, <1>6, <1>13, <1>11, <1>12 DEF GccInv, n

(* What proxy q is once packet k is noted at time ts in proxy p.            *)
NotedIn(p, q, k, ts) ==
  /\ DOMAIN q = DOMAIN p /\ q.last_value = p.last_value /\ q.max_arrival_seq \in Int
  /\ q.wnd_start_seq \in Int /\ q.wnd_start_seq >= 0 /\ q.wnd_start_seq <= k
  /\ (p.wnd_start_seq = -1 \/ q.wnd_start_seq <= p.wnd_start_seq)
  /\ DOMAIN q.arrival_times = (DOMAIN p.arrival_times \ Forgotten(p, k, ts)) \cup {k}
  /\ \A j \in DOMAIN q.arrival_times :
       IF j \in DOMAIN p.arrival_times THEN q.arrival_times[j] = p.arrival_times[j]
       ELSE j = k /\ q.arrival_times[j] = ts

(* A packet noted is pending, and nothing that was is lost sight of.        *)
LEMMA NotedKnows ==
  ASSUME NEW p, ReceiverKnows(p), DOMAIN stamps \subseteq Nat, NEW k \in Nat, NEW ts \in Nat
  PROVE  NotedIn(p, Noted(p, k, ts), k, ts)
<1> DEFINE q == Noted(p, k, ts)
           w == IF p.wnd_start_seq = -1 THEN Wired(k) ELSE Min({p.wnd_start_seq, k})
           m == Max({p.max_arrival_seq, k})
           a == Entered(p.arrival_times, Forgotten(p, k, ts), k, ts)
<1>1. q = [p EXCEPT !.wnd_start_seq = w, !.max_arrival_seq = m, !.arrival_times = a]
  BY DEF Noted
<1>2. p.wnd_start_seq \in Int /\ p.max_arrival_seq \in Int /\ p.wnd_start_seq >= -1 /\ k \in Int
  BY DEF ReceiverKnows
<1>3. w \in Int /\ w >= 0 /\ w <= k /\ (p.wnd_start_seq = -1 \/ w <= p.wnd_start_seq)
  <2>1. \E x \in {p.wnd_start_seq, k} : \A y \in {p.wnd_start_seq, k} : x =< y
    <3>1. p.wnd_start_seq <= k \/ k <= p.wnd_start_seq
      BY <1>2
    <3> QED BY <1>2, <3>1
  <2>2. /\ Min({p.wnd_start_seq, k}) \in {p.wnd_start_seq, k}
        /\ \A y \in {p.wnd_start_seq, k} : Min({p.wnd_start_seq, k}) =< y
    BY <2>1 DEF Min
  <2>3. Wired(k) \in Nat /\ Wired(k) <= k
    <3>1. SeqRange \in Nat \ {0}
      BY HalfIs
    <3>2. PICK j \in Int : k = SeqRange * j + (k % SeqRange) /\ k % SeqRange \in 0 .. SeqRange - 1
      BY <1>2, <3>1, Remainder
    <3>3. j >= 0
      <4> SUFFICES ASSUME j <= -1 PROVE FALSE
        OBVIOUS
      <4>1. SeqRange * j <= -SeqRange
        BY <3>1
      <4> QED BY <3>1, <3>2, <4>1
    <3>4. SeqRange * j >= 0
      BY <3>1, <3>3
    <3> QED BY <3>1, <3>2, <3>4 DEF Wired
  <2> QED BY <1>2, <2>2, <2>3
<1>4. m \in Int
  <2>1. \E x \in {p.max_arrival_seq, k} : \A y \in {p.max_arrival_seq, k} : x >= y
    <3>1. p.max_arrival_seq <= k \/ k <= p.max_arrival_seq
      BY <1>2
    <3> QED BY <1>2, <3>1
  <2>2. m \in {p.max_arrival_seq, k}
    BY <2>1 DEF Max
  <2> QED BY <1>2, <2>2
<1>5. /\ DOMAIN a = (DOMAIN p.arrival_times \ Forgotten(p, k, ts)) \cup {k}
      /\ \A j \in DOMAIN a : IF j \in DOMAIN p.arrival_times THEN a[j] = p.arrival_times[j]
                             ELSE j = k /\ a[j] = ts
  BY DEF Entered
<1> HIDE DEF w, m, a
<1>6. /\ DOMAIN q = DOMAIN p /\ q.last_value = p.last_value /\ q.max_arrival_seq = m
      /\ q.wnd_start_seq = w /\ q.arrival_times = a
  BY <1>1 DEF ReceiverKnows
<1> HIDE DEF q
<1>7. NotedIn(p, q, k, ts)
  BY <1>3, <1>4, <1>5, <1>6 DEF NotedIn
<1> QED BY <1>7 DEF q

LEMMA ReceiveGcc == GccInv /\ estimator_proxy_incoming => GccInv'
<1> SUFFICES ASSUME GccInv, estimator_proxy_incoming PROVE GccInv'
  OBVIOUS
<1>1. PICK packet \in {x \in air : Deliverable(x)} :
        /\ air' \subseteq air
        /\ LET n == wrap16_update(proxy.last_value, Wired(packet))
               p == [proxy EXCEPT !.last_value = n]
           IN  IF TooFar(p, n) THEN proxy' = p /\ UNCHANGED <<stamps, accounted>>
               ELSE /\ proxy' = Noted(p, n, gccNow)
                    /\ stamps' = [k \in DOMAIN stamps \cup {packet} |-> Arrivals(k) \cup IF k = packet THEN {gccNow} ELSE {}]
                    /\ accounted' = accounted \cup Forgotten(p, n, gccNow)
  BY DEF estimator_proxy_incoming, InFlight
<1>2. /\ packet \in 0 .. gccSent - 1 /\ packet \in Nat /\ gccSent \in Nat /\ gccNow \in Nat
      /\ packet < proxy.last_value + Half /\ proxy.last_value < packet + Half /\ proxy.last_value \in Nat
      /\ DOMAIN stamps \subseteq 0 .. gccSent - 1 /\ DOMAIN stamps \subseteq Nat
  BY <1>1 DEF GccInv, Deliverable, Half, ReceiverKnows
<1>3. wrap16_update(proxy.last_value, Wired(packet)) = packet
  <2>1. packet - proxy.last_value < SeqRange \div 2 /\ proxy.last_value - packet < SeqRange \div 2
    BY <1>2, HalfIs DEF Half
  <2> QED BY <1>2, <2>1, UnwrapsTrue DEF Wired
<1> DEFINE p == [proxy EXCEPT !.last_value = packet]
<1>4. ReceiverKnows(p) /\ p.arrival_times = proxy.arrival_times /\ p.wnd_start_seq = proxy.wnd_start_seq
  BY <1>2 DEF GccInv, ReceiverKnows
<1>5. IF TooFar(p, packet) THEN proxy' = p /\ stamps' = stamps /\ accounted' = accounted
      ELSE /\ proxy' = Noted(p, packet, gccNow)
           /\ stamps' = [k \in DOMAIN stamps \cup {packet} |-> Arrivals(k) \cup IF k = packet THEN {gccNow} ELSE {}]
           /\ accounted' = accounted \cup Forgotten(p, packet, gccNow)
  BY <1>1, <1>3
<1> HIDE DEF p
<1>6. UNCHANGED <<gccSent, gccHist, gccMsgs, given, gccNow>> /\ air' \subseteq 0 .. gccSent - 1
  BY <1>1 DEF estimator_proxy_incoming, GccInv
<1>7. /\ DOMAIN stamps \subseteq DOMAIN stamps' /\ DOMAIN stamps' \subseteq 0 .. gccSent - 1
      /\ \A k \in DOMAIN stamps : stamps[k] \subseteq stamps'[k]
      /\ \A k \in DOMAIN stamps' : stamps'[k] \subseteq Nat
  <2>1. CASE TooFar(p, packet)
    BY <1>2, <1>5, <2>1 DEF GccInv
  <2>2. CASE ~TooFar(p, packet)
    <3>1. \A k : Arrivals(k) \subseteq Nat
      BY DEF Arrivals, GccInv
    <3>2. \A k \in DOMAIN stamps : Arrivals(k) = stamps[k]
      BY DEF Arrivals
    <3> QED BY <1>2, <1>5, <2>2, <3>1, <3>2
  <2> QED BY <2>1, <2>2
<1>8. GivenOnce(given, gccHist, gccSent)' /\ \A r \in gccMsgs' : ReportTrue(r, gccSent)'
  <2>1. PICK g, h, n, msgs : g = given /\ h = gccHist /\ n = gccSent /\ msgs = gccMsgs
    OBVIOUS
  <2>2. GivenOnce(g, h, n) /\ \A r \in msgs : ReportTrue(r, n)
    BY <2>1 DEF GccInv
  <2>3. GivenOnce(g, h, n)' /\ \A r \in msgs : ReportTrue(r, n)'
    BY <1>7, <2>2, TimesStay
  <2> QED BY <1>6, <2>1, <2>3
<1>9. ReceiverKnows(proxy)' /\ NoneLeftOut'
  <2>1. CASE TooFar(p, packet)
    <3>1. proxy' = p /\ stamps' = stamps /\ accounted' = accounted
      BY <1>5, <2>1
    <3> QED BY <1>4, <3>1 DEF ReceiverKnows, NoneLeftOut, Pending, GccInv
  <2>2. CASE ~TooFar(p, packet)
    <3> DEFINE q == Noted(p, packet, gccNow)
    <3>0. NotedIn(p, q, packet, gccNow)
      <4>1. DOMAIN stamps \subseteq Nat
        BY <1>2
      <4> HIDE DEF q
      <4>2. packet \in Nat /\ gccNow \in Nat /\ ReceiverKnows(p)
        BY <1>2, <1>4
      <4> QED BY <4>1, <4>2, NotedKnows DEF q
    <3>1. /\ DOMAIN q = DOMAIN p /\ q.last_value = p.last_value /\ q.max_arrival_seq \in Int
          /\ q.wnd_start_seq \in Int /\ q.wnd_start_seq >= 0 /\ q.wnd_start_seq <= packet
          /\ (p.wnd_start_seq = -1 \/ q.wnd_start_seq <= p.wnd_start_seq)
          /\ DOMAIN q.arrival_times = (DOMAIN p.arrival_times \ Forgotten(p, packet, gccNow)) \cup {packet}
          /\ \A j \in DOMAIN q.arrival_times :
               IF j \in DOMAIN p.arrival_times THEN q.arrival_times[j] = p.arrival_times[j]
               ELSE j = packet /\ q.arrival_times[j] = gccNow
      BY <3>0 DEF NotedIn
    <3>2. proxy' = q /\ accounted' = accounted \cup Forgotten(p, packet, gccNow)
      BY <1>5, <2>2
    <3>3. DOMAIN stamps' = DOMAIN stamps \cup {packet} /\ gccNow \in stamps'[packet]
      BY <1>5, <2>2
    <3> HIDE DEF q
    <3>4. DOMAIN q.arrival_times \subseteq DOMAIN stamps' /\ \A j \in DOMAIN q.arrival_times : q.arrival_times[j] \in stamps'[j]
      BY <1>4, <1>7, <3>1, <3>3 DEF ReceiverKnows
    <3>5. ReceiverKnows(proxy)'
      BY <1>4, <3>1, <3>2, <3>4 DEF ReceiverKnows
    <3>6. ASSUME NEW k \in DOMAIN stamps' PROVE k \in accounted' \cup Pending(q)
      <4>1. CASE k = packet
        BY <3>1, <4>1 DEF Pending
      <4>2. CASE k # packet
        <5>1. k \in accounted \/ (k \in DOMAIN p.arrival_times /\ k >= p.wnd_start_seq)
          BY <1>4, <3>3, <4>2 DEF GccInv, NoneLeftOut, Pending
        <5>2. CASE k \in DOMAIN p.arrival_times /\ k >= p.wnd_start_seq /\ k \notin Forgotten(p, packet, gccNow)
          <6>1. k \in DOMAIN q.arrival_times /\ k \in Int /\ p.wnd_start_seq \in Int /\ p.wnd_start_seq # -1
            BY <1>2, <1>4, <3>1, <5>2 DEF ReceiverKnows
          <6>2. k >= q.wnd_start_seq
            BY <3>1, <5>2, <6>1
          <6> QED BY <6>1, <6>2 DEF Pending
        <5> QED BY <3>2, <5>1, <5>2
      <4> QED BY <4>1, <4>2
    <3> QED BY <3>2, <3>5, <3>6 DEF NoneLeftOut, Pending
  <2> QED BY <2>1, <2>2
<1> QED BY <1>6, <1>7, <1>8, <1>9 DEF GccInv

(* A report gives of each packet a time at which it came.                   *)
LEMMA ReportGcc ==
  ASSUME GccInv, Cardinality(ReportedNow(proxy)) > 2
  PROVE  /\ ReportTrue(EncodedReport(proxy), gccSent)
         /\ ReportedNow(proxy) \subseteq 0 .. gccSent - 1 /\ NextStart(proxy) \in Nat
         /\ \A k \in Pending(proxy) \ ReportedNow(proxy) : k >= NextStart(proxy)
<1> DEFINE R == ReportedNow(proxy)
           P == Pending(proxy)
           times == {proxy.arrival_times[k] : k \in R}
           low == Min(times)
<1>0. gccSent \in Nat
  BY DEF GccInv
<1>1. /\ R \subseteq P /\ P \subseteq DOMAIN proxy.arrival_times
      /\ \A k \in P : k \in 0 .. gccSent - 1 /\ proxy.arrival_times[k] \in stamps[k] /\ stamps[k] \subseteq Nat
                      /\ Arrivals(k) = stamps[k]
  BY DEF ReportedNow, Pending, GccInv, ReceiverKnows, Arrivals
<1>2. IsFiniteSet(P) /\ IsFiniteSet(R) /\ P \subseteq Nat /\ R \subseteq Nat
  <2>1. IsFiniteSet(0 .. gccSent - 1) /\ P \subseteq 0 .. gccSent - 1
    BY <1>0, <1>1, FS_Interval
  <2>2. IsFiniteSet(P)
    BY <2>1, FS_Subset
  <2>3. IsFiniteSet(R)
    BY <1>1, <2>2, FS_Subset
  <2>4. P \subseteq Nat
    BY <1>0, <2>1
  <2> QED BY <1>1, <2>2, <2>3, <2>4
<1>3. \E j, k \in R : j # k
  <2> SUFFICES ASSUME \A j, k \in R : j = k PROVE FALSE
    OBVIOUS
  <2>1. R # {}
    BY FS_EmptySet
  <2>2. PICK x \in R : TRUE
    BY <2>1
  <2>3. R = {x}
    BY <2>2
  <2>4. Cardinality(R) = 1
    BY <2>3, FS_Singleton
  <2> QED BY <2>4
<1>4. \A k \in R : proxy.arrival_times[k] \in Nat
  BY <1>1
<1>5. low \in Nat
  <2>1. times \subseteq Nat /\ times # {}
    BY <1>3, <1>4
  <2> HIDE DEF times
  <2> QED BY <2>1, LeastExists
<1> HIDE DEF times, low, P
<1>6. EncodedReport(proxy) = [min_ts |-> low, samples |-> [k \in R |-> [seq |-> Wired(k), delta |-> (proxy.arrival_times[k] - low) % TsRange]]]
  BY DEF EncodedReport, low, times
<1> HIDE DEF R
<1>7. ASSUME NEW k \in R PROVE TrueSample([seq |-> Wired(k), delta |-> (proxy.arrival_times[k] - low) % TsRange], k, low)
  <2> DEFINE a == proxy.arrival_times[k]
             d == (a - low) % TsRange
  <2>1. a \in Int /\ low \in Int /\ TsRange \in Nat \ {0} /\ a \in Arrivals(k)
    BY <1>1, <1>4, <1>5, HalfIs
  <2> HIDE DEF a, d
  <2>2. d \in 0 .. TsRange - 1 /\ \E q \in Int : a - low = TsRange * q + d
    <3>1. a - low \in Int
      BY <2>1
    <3> QED BY <2>1, <3>1, Remainder DEF d
  <2>3. (low + d - a) % TsRange = 0
    <3>1. PICK q \in Int : a - low = TsRange * q + d
      BY <2>2
    <3>2. low + d - a = -(TsRange * q)
      BY <2>1, <2>2, <3>1
    <3>3. -(TsRange * q) = TsRange * (-q) + 0 /\ -q \in Int
      BY <2>1
    <3>4. (TsRange * (-q) + 0) % TsRange = 0
      BY <2>1, <3>3, OnlyRemainder
    <3> QED BY <3>2, <3>3, <3>4
  <2> QED BY <2>1, <2>2, <2>3 DEF TrueSample, SameTime, a, d
<1>8. ReportTrue(EncodedReport(proxy), gccSent)
  BY <1>1, <1>3, <1>5, <1>6, <1>7 DEF ReportTrue
<1>9. Max(R) \in R /\ \A k \in R : Max(R) >= k
  BY <1>2, <1>3, GreatestOf
<1>10. ASSUME NEW k \in P \ R PROVE k >= Max(R) + 1
  <2> DEFINE m == Max(R)
  <2>1. m \in P /\ m \in Nat /\ k \in Nat /\ k # m
    BY <1>1, <1>2, <1>9
  <2> SUFFICES ASSUME k < m PROVE FALSE
    BY <2>1
  <2> HIDE DEF m
  <2>2. \A x \in P : (x \in R <=> Cardinality({j \in P : j < x}) < MAX_FEELBACK_COUNT)
    BY DEF R, P, ReportedNow
  <2>3. {j \in P : j < k} \subseteq {j \in P : j < m}
    <3>1. ASSUME NEW j \in P, j < k PROVE j < m
      BY <1>2, <2>1, <3>1
    <3> QED BY <3>1
  <2>4. IsFiniteSet({j \in P : j < m}) /\ IsFiniteSet({j \in P : j < k})
    BY <1>2, FS_Subset
  <2>5. /\ Cardinality({j \in P : j < k}) <= Cardinality({j \in P : j < m})
        /\ Cardinality({j \in P : j < k}) \in Nat /\ Cardinality({j \in P : j < m}) \in Nat
    BY <2>3, <2>4, FS_Subset, FS_CardinalityType
  <2>6. MAX_FEELBACK_COUNT \in Nat
    BY GccAssumption
  <2>7. Cardinality({j \in P : j < m}) < MAX_FEELBACK_COUNT /\ ~(Cardinality({j \in P : j < k}) < MAX_FEELBACK_COUNT)
    BY <1>9, <2>1, <2>2 DEF m
  <2> QED BY <2>5, <2>6, <2>7
<1>11. R \subseteq 0 .. gccSent - 1 /\ NextStart(proxy) = Max(R) + 1 /\ Max(R) \in Nat
  BY <1>1, <1>2, <1>9 DEF NextStart, R
<1> QED BY <1>8, <1>10, <1>11 DEF P, R

LEMMA HeartbeatGcc == GccInv /\ estimator_proxy_heartbeat => GccInv'
<1> SUFFICES ASSUME GccInv, estimator_proxy_heartbeat PROVE GccInv'
  OBVIOUS
<1> DEFINE R == ReportedNow(proxy)
           start == NextStart(proxy)
           report == EncodedReport(proxy)
<1>1. /\ Cardinality(R) > 2 /\ proxy' = [proxy EXCEPT !.wnd_start_seq = start]
      /\ \A r \in gccMsgs' : r \in gccMsgs \/ r = report
      /\ accounted' = accounted \cup R
      /\ UNCHANGED <<gccSent, gccHist, air, given, stamps, gccNow>>
  BY DEF estimator_proxy_heartbeat
<1>2. /\ ReportTrue(report, gccSent) /\ start \in Nat
      /\ \A k \in Pending(proxy) \ R : k >= start
  BY <1>1, ReportGcc
<1> HIDE DEF R, start, report
<1>3. /\ proxy'.wnd_start_seq = start /\ proxy'.arrival_times = proxy.arrival_times
      /\ proxy'.last_value = proxy.last_value /\ proxy'.max_arrival_seq = proxy.max_arrival_seq
      /\ DOMAIN proxy' = DOMAIN proxy
  BY <1>1 DEF GccInv, ReceiverKnows
<1>4. ReceiverKnows(proxy)'
  BY <1>1, <1>2, <1>3 DEF GccInv, ReceiverKnows
<1>5. NoneLeftOut'
  BY <1>1, <1>2, <1>3 DEF GccInv, NoneLeftOut, Pending
<1>6. \A r : ReportTrue(r, gccSent) => ReportTrue(r, gccSent)'
  BY <1>1 DEF ReportTrue, TrueSample, SameTime, Arrivals
<1>7. \A r \in gccMsgs' : ReportTrue(r, gccSent)'
  BY <1>1, <1>2, <1>6 DEF GccInv
<1>8. GivenOnce(given, gccHist, gccSent)'
  BY <1>1 DEF GccInv, GivenOnce, SameTime, Arrivals
<1> QED BY <1>1, <1>4, <1>5, <1>7, <1>8 DEF GccInv

LEMMA FeedbackGcc == GccInv /\ cc_feedback_on_feedback => GccInv'
<1> SUFFICES ASSUME GccInv, cc_feedback_on_feedback PROVE GccInv'
  OBVIOUS
<1> DEFINE before == [hist |-> gccHist, given |-> given]
<1>1. PICK r \in gccMsgs : /\ Lately(r) /\ gccMsgs' \subseteq gccMsgs
                           /\ LET x == AllLookedUp(before, r) IN gccHist' = x.hist /\ given' = x.given
  BY DEF cc_feedback_on_feedback, InFlight
<1>2. UNCHANGED <<gccSent, air, proxy, stamps, accounted, gccNow>>
  BY DEF cc_feedback_on_feedback
<1>3. ReportTrue(r, gccSent) /\ gccSent \in Nat /\ SenderKnows(gccHist, gccSent) /\ GivenOnce(given, gccHist, gccSent)
  BY <1>1 DEF GccInv
<1>4. gccSent \in Nat \ {0} /\ \A k \in DOMAIN r.samples : gccSent - k <= Half
  <2>1. \A k \in DOMAIN r.samples : k \in 0 .. gccSent - 1 /\ k + Half >= gccSent
    BY <1>1, <1>3 DEF ReportTrue, Lately, Half
  <2>2. \E k \in DOMAIN r.samples : TRUE
    BY <1>3 DEF ReportTrue
  <2> QED BY <1>3, <2>1, <2>2, HalfIs
<1>5. before.hist = gccHist /\ before.given = given
  OBVIOUS
<1> HIDE DEF before
<1>6. LET y == AllLookedUp(before, r)
      IN  SenderKnows(y.hist, gccSent) /\ GivenOnce(y.given, y.hist, gccSent) /\ gccSent - y.hist.last_value < Half
  BY <1>3, <1>4, <1>5, LookUpKeeps
<1>7. PICK h, g : h = gccHist' /\ g = given'
  OBVIOUS
<1>8. SenderKnows(h, gccSent) /\ GivenOnce(g, h, gccSent) /\ gccSent - h.last_value < Half
  BY <1>1, <1>6, <1>7
<1>9. GivenOnce(g, h, gccSent)' /\ \A m : ReportTrue(m, gccSent) => ReportTrue(m, gccSent)'
  BY <1>2, <1>8 DEF GivenOnce, ReportTrue, TrueSample, SameTime, Arrivals
<1>10. GivenOnce(given, gccHist, gccSent)' /\ \A m \in gccMsgs' : ReportTrue(m, gccSent)'
  BY <1>1, <1>7, <1>9 DEF GccInv
<1>11. SenderKnows(gccHist, gccSent)' /\ (gccSent - gccHist.last_value < Half)'
  BY <1>2, <1>7, <1>8
<1>12. ReceiverKnows(proxy)' /\ NoneLeftOut'
  BY <1>2 DEF GccInv, ReceiverKnows, NoneLeftOut, Pending
<1> QED BY <1>2, <1>10, <1>11, <1>12 DEF GccInv

LEMMA StepGcc == GccInv /\ [GccNext]_gccVars => GccInv'
<1> SUFFICES ASSUME GccInv, [GccNext]_gccVars PROVE GccInv'
  OBVIOUS
<1>1. CASE GccTick
  <2>1. UNCHANGED <<gccSent, gccHist, air, proxy, gccMsgs, given, stamps, accounted>> /\ gccNow' \in Nat
    BY <1>1, GccAssumption DEF GccTick, GccInv
  <2> QED BY <2>1 DEF GccInv, GivenOnce, ReportTrue, TrueSample, SameTime, Arrivals, ReceiverKnows, SenderKnows, NoneLeftOut, Pending
<1>2. CASE UNCHANGED gccVars
  BY <1>2 DEF gccVars, GccInv, GivenOnce, ReportTrue, TrueSample, SameTime, Arrivals, ReceiverKnows, SenderKnows, NoneLeftOut, Pending
<1> QED BY <1>1, <1>2, SendGcc, ReceiveGcc, HeartbeatGcc, FeedbackGcc DEF GccNext

(* A packet that came is given to the estimators of GCC once at most, with  *)
(* a time at which it came, and is left out of no report.                   *)
THEOREM GccFeedbackAlwaysSound == GccSpec => []GccFeedbackSound
<1>1. GccInv => GccFeedbackSound
  <2> SUFFICES ASSUME GccInv PROVE GivenTrue
    BY DEF GccInv, GccFeedbackSound
  <2> QED BY DEF GccInv, GivenOnce, GivenTrue, SameTime
<1> QED BY <1>1, InitGcc, StepGcc, PTL DEF GccSpec

-----------------------------------------------------------------------------
(***************************************************************************)
(* The windowed filter is sound for every size of its window, whatever is  *)
(* fed to it and whenever.                                                 *)
(***************************************************************************)
Samples == [sample : Nat, ts : Nat]

FilterTypeOK == /\ estimates \in [0 .. 2 -> Samples]
                /\ round_trip \in Nat
                /\ marked \in Samples

(* The estimates are in the order of their times and of their samples, none *)
(* is later than the last sample.                                           *)
InOrder == /\ estimates[0].ts <= estimates[1].ts
           /\ estimates[1].ts <= estimates[2].ts
           /\ estimates[2].ts <= round_trip
           /\ estimates[1].sample <= estimates[0].sample
           /\ estimates[2].sample <= estimates[1].sample
           /\ marked.ts <= round_trip

FilterInv == FilterTypeOK /\ InOrder /\ BestFresh /\ NoneGreaterSince

(* What an update keeps, of any estimates e when the sample s is fed: the   *)
(* filter's invariant with e for its estimates and s.ts for the time.       *)
Kept(e, s, m) ==
  /\ e \in [0 .. 2 -> Samples]
  /\ e[0].ts <= e[1].ts /\ e[1].ts <= e[2].ts /\ e[2].ts <= s.ts
  /\ e[1].sample <= e[0].sample /\ e[2].sample <= e[1].sample
  /\ m.ts > e[0].ts => m.sample <= e[0].sample
  /\ m.ts > e[1].ts => m.sample <= e[1].sample
  /\ m.ts > e[2].ts => m.sample <= e[2].sample

-----------------------------------------------------------------------------
(* A filter reset to a sample knows of nothing greater since.               *)
LEMMA ResetKeeps ==
  ASSUME NEW s \in Samples, NEW m \in Samples, m.ts <= s.ts
  PROVE  Kept(wnd_filter_reset(s), s, m)
BY DEF Kept, wnd_filter_reset, Samples

(* A sample that is less than the best takes the places it may take, and    *)
(* what held of an earlier sample m holds still, and of s as well.          *)
LEMMA ReplacedKeeps ==
  ASSUME NEW e, NEW s \in Samples, NEW m \in Samples,
         Kept(e, s, m), m.ts <= s.ts, s.sample < e[0].sample
  PROVE  /\ Kept(Replaced(e, s), s, m)
         /\ Kept(Replaced(e, s), s, s)
         /\ Replaced(e, s)[0] = e[0]
         /\ s.sample <= Replaced(e, s)[2].sample
         /\ e[2].ts <= Replaced(e, s)[2].ts
<1>1. CASE s.sample >= e[1].sample
  <2>1. Replaced(e, s) = [e EXCEPT ![1] = s, ![2] = s]
    BY <1>1 DEF Replaced
  <2> QED BY <1>1, <2>1 DEF Kept, Samples
<1>2. CASE ~(s.sample >= e[1].sample) /\ s.sample >= e[2].sample
  <2>1. Replaced(e, s) = [e EXCEPT ![2] = s]
    BY <1>2 DEF Replaced
  <2> QED BY <1>2, <2>1 DEF Kept, Samples
<1>3. CASE ~(s.sample >= e[1].sample) /\ ~(s.sample >= e[2].sample)
  <2>1. Replaced(e, s) = e
    BY <1>3 DEF Replaced
  <2> QED BY <1>3, <2>1 DEF Kept, Samples
<1> QED BY <1>1, <1>2, <1>3

(* When the best is too old, the best after moving up is one within the     *)
(* window, for the third was.                                               *)
LEMMA ShiftedKeeps ==
  ASSUME NEW e, NEW s \in Samples, NEW m \in Samples,
         Kept(e, s, m), m.ts <= s.ts, s.sample <= e[2].sample, ~TooOld(e[2], s)
  PROVE  Kept(Shifted(e, s), s, m) /\ ~TooOld(Shifted(e, s)[0], s)
<1> DEFINE up == [i \in 0 .. 2 |-> IF i = 2 THEN s ELSE e[i + 1]]
<1>1. up[0] = e[1] /\ up[1] = e[2] /\ up[2] = s
  OBVIOUS
<1>2. up \in [0 .. 2 -> Samples]
  BY DEF Kept
<1>3. CASE TooOld(up[0], s)
  <2>1. Shifted(e, s) = [up EXCEPT ![0] = up[1], ![1] = s]
    BY <1>3 DEF Shifted
  <2> HIDE DEF up
  <2> QED BY <1>1, <1>2, <2>1 DEF Kept, Samples, TooOld
<1>4. CASE ~TooOld(up[0], s)
  <2>1. Shifted(e, s) = up
    BY <1>4 DEF Shifted
  <2> HIDE DEF up
  <2> QED BY <1>1, <1>2, <1>4, <2>1 DEF Kept, Samples, TooOld
<1> QED BY <1>3, <1>4

(* Spreading changes neither the best nor what is known.                    *)
LEMMA SpreadKeeps ==
  ASSUME NEW e, NEW s \in Samples, NEW m \in Samples,
         Kept(e, s, m), m.ts <= s.ts, s.sample <= e[2].sample
  PROVE  Kept(Spread(e, s), s, m) /\ Spread(e, s)[0] = e[0]
<1>1. CASE Spread(e, s) = [e EXCEPT ![1] = s, ![2] = s]
  BY <1>1 DEF Kept, Samples
<1>2. CASE Spread(e, s) = [e EXCEPT ![2] = s]
  BY <1>2 DEF Kept, Samples
<1>3. CASE Spread(e, s) = e
  BY <1>3 DEF Kept, Samples
<1> QED BY <1>1, <1>2, <1>3 DEF Spread

(* An update leaves a best from within the window, and no sample m fed      *)
(* before, nor the one fed now, is greater than an estimate older than it.  *)
LEMMA UpdateKeeps ==
  ASSUME NEW e, NEW s \in Samples, NEW m \in Samples, Kept(e, s, m), m.ts <= s.ts
  PROVE  /\ Kept(Updated(e, s), s, m)
         /\ Kept(Updated(e, s), s, s)
         /\ ~TooOld(Updated(e, s)[0], s)
<1>1. CASE e[0].sample = 0 \/ s.sample >= e[0].sample \/ TooOld(e[2], s)
  <2>1. Updated(e, s) = wnd_filter_reset(s)
    BY <1>1 DEF Updated
  <2>2. ~TooOld(wnd_filter_reset(s)[0], s)
    BY FilterAssumption DEF TooOld, wnd_filter_reset, Samples
  <2>3. s.ts <= s.ts
    BY DEF Samples
  <2> QED BY <2>1, <2>2, <2>3, ResetKeeps
<1>2. CASE ~(e[0].sample = 0 \/ s.sample >= e[0].sample \/ TooOld(e[2], s))
  <2>1. s.sample < e[0].sample
    BY <1>2 DEF Kept, Samples
  <2>2. /\ Kept(Replaced(e, s), s, m)
        /\ Kept(Replaced(e, s), s, s)
        /\ s.ts <= s.ts
        /\ s.sample <= Replaced(e, s)[2].sample
        /\ e[2].ts <= Replaced(e, s)[2].ts
    BY <2>1, ReplacedKeeps DEF Samples
  <2>3. ~TooOld(Replaced(e, s)[2], s)
    BY <1>2, <2>2, FilterAssumption DEF TooOld, Kept, Samples
  <2>4. CASE TooOld(Replaced(e, s)[0], s)
    <3>1. Updated(e, s) = Shifted(Replaced(e, s), s)
      BY <1>2, <2>4 DEF Updated
    <3> QED BY <2>2, <2>3, <3>1, ShiftedKeeps
  <2>5. CASE ~TooOld(Replaced(e, s)[0], s)
    <3>1. Updated(e, s) = Spread(Replaced(e, s), s)
      BY <1>2, <2>5 DEF Updated
    <3> QED BY <2>2, <2>5, <3>1, SpreadKeeps
  <2> QED BY <2>4, <2>5
<1> QED BY <1>1, <1>2

-----------------------------------------------------------------------------
LEMMA FilterInitInv == FilterInit => FilterInv
BY FilterAssumption
DEF FilterInit, FilterInv, FilterTypeOK, InOrder, BestFresh, NoneGreaterSince, TooOld,
    wnd_filter_reset, Sample, Samples

LEMMA FilterStepInv == FilterInv /\ [FilterNext]_filterVars => FilterInv'
<1> SUFFICES ASSUME FilterInv, [FilterNext]_filterVars PROVE FilterInv'
  OBVIOUS
<1>1. CASE FilterNext
  <2>1. PICK sample \in BwSamples, gap \in RoundGaps : wnd_filter_update(Sample(sample, round_trip + gap))
    BY <1>1 DEF FilterNext
  <2> DEFINE s == Sample(sample, round_trip + gap)
  <2>2. s \in Samples /\ round_trip <= s.ts /\ s.ts = round_trip + gap
    BY FilterAssumption DEF Sample, Samples, FilterInv, FilterTypeOK
  <2>3. estimates' = Updated(estimates, s) /\ round_trip' = s.ts /\ marked' \in {marked, s}
    BY <2>1 DEF wnd_filter_update
  <2> HIDE DEF s
  <2>4. marked' \in Samples /\ marked'.ts <= s.ts
    BY <2>2, <2>3 DEF FilterInv, FilterTypeOK, InOrder, Samples
  <2>5. Kept(estimates, s, marked) /\ marked \in Samples /\ marked.ts <= s.ts
    BY <2>2 DEF FilterInv, FilterTypeOK, InOrder, NoneGreaterSince, Kept, Samples
  <2>6. Kept(estimates', s, marked') /\ ~TooOld(estimates'[0], s)
    <3>1. CASE marked' = marked
      BY <2>2, <2>3, <2>5, <3>1, UpdateKeeps
    <3>2. CASE marked' = s
      BY <2>2, <2>3, <2>5, <3>2, UpdateKeeps
    <3> QED BY <2>3, <3>1, <3>2
  <2>7. FilterTypeOK' /\ InOrder'
    BY <2>2, <2>3, <2>4, <2>6 DEF FilterTypeOK, InOrder, Kept, Samples
  <2>8. BestFresh'
    BY <2>3, <2>6 DEF BestFresh, TooOld
  <2>9. NoneGreaterSince'
    BY <2>6 DEF NoneGreaterSince, Kept
  <2> QED BY <2>7, <2>8, <2>9 DEF FilterInv
<1>2. CASE UNCHANGED filterVars
  BY <1>2 DEF filterVars, FilterInv, FilterTypeOK, InOrder, BestFresh, NoneGreaterSince
<1> QED BY <1>1, <1>2

(* Whatever is fed to it, with any pauses, and whatever its window: the     *)
(* best estimate is from within the window and no sample since is greater.  *)
THEOREM FilterAlwaysSound == FilterSpec => []FilterSound
<1>1. FilterInv => FilterSound
  BY DEF FilterInv, FilterSound
<1> QED BY <1>1, FilterInitInv, FilterStepInv, PTL DEF FilterSpec

-----------------------------------------------------------------------------
Modes == {"STARTUP", "DRAIN", "PROBE_BW", "PROBE_RTT"}

Gains == {"high", "drain", "up", "down", "one"}

Recoveries == {"NOT_IN_RECOVERY", "CONSERVATION", "GROWTH"}

Controllers ==
  [mode : Modes, pacing_gain : Gains, cycle_current_offset : Int,
   is_at_full_bandwidth : BOOLEAN, rounds_without_bandwidth_gain : Int,
   last_sent_packet : Int, current_round_trip_end : Int, min_rtt : Nat, min_rtt_timestamp : Int,
   exit_probe_rtt_at : Int, probe_rtt_round_passed : BOOLEAN, exiting_quiescence : BOOLEAN,
   is_app_limited : BOOLEAN, end_of_app_limited_phase : Int,
   recovery_state : Recoveries, end_recovery_at : Int, recovery_window : Int, congestion_window : Int]

(* The modes of a controller b are sound, but for one whose startup found   *)
(* the full bandwidth a step before.                                        *)
ModesFit(b) ==
  /\ b.mode = "STARTUP" => b.pacing_gain = "high"
  /\ b.mode = "DRAIN" => b.is_at_full_bandwidth /\ b.pacing_gain = "drain"
  /\ b.mode = "PROBE_BW" => b.is_at_full_bandwidth /\ b.pacing_gain = bbr_get_pacing_gain(b.cycle_current_offset)
  /\ b.mode = "PROBE_RTT" => b.pacing_gain = "one"

StartupFit(b) == b.mode = "STARTUP" => ~b.is_at_full_bandwidth

WindowFits(b) == b.congestion_window \in min_congestion_window .. max_congestion_window

RecoveryFits(b) == bbr_in_recovery(b) => b.recovery_window >= min_congestion_window

RttFits(b) == b.min_rtt = 0 \/ b.min_rtt >= 5

Fit(b) == b \in Controllers /\ ModesFit(b) /\ WindowFits(b) /\ RttFits(b)

(* It leaves PROBE_RTT no earlier than some time after it entered at t.     *)
ExitFits(b, t) ==
  b.mode = "PROBE_RTT" /\ b.exit_probe_rtt_at # None => b.exit_probe_rtt_at >= t + kProbeRttTimeMs

ControllerInv ==
  /\ Fit(bbr) /\ StartupFit(bbr) /\ RecoveryFits(bbr)
  /\ bbrNow \in Nat /\ entered \in Nat /\ entered <= bbrNow
  /\ ExitFits(bbr, entered)

-----------------------------------------------------------------------------
(* What a step of a feedback that is not about PROBE_RTT leaves alone.      *)
SameProbing(b, c) ==
  /\ c.exit_probe_rtt_at = b.exit_probe_rtt_at
  /\ c.exiting_quiescence = b.exiting_quiescence
  /\ c.mode = "PROBE_RTT" <=> b.mode = "PROBE_RTT"

(* Counting the round trip and the least RTT: the latter rises only when it *)
(* has expired.                                                             *)
LEMMA CountedFits ==
  ASSUME NEW b, NEW last_acked \in Nat, NEW rtt \in Nat \cup {None}, NEW now \in Nat,
         Fit(b), StartupFit(b),
         NEW c \in bbr_update_min_rtt(bbr_update_round_trip_counter(b, last_acked), now, last_acked, rtt)
  PROVE  /\ Fit(c) /\ StartupFit(c) /\ SameProbing(b, c)
         /\ b.min_rtt > 0 /\ c.min_rtt > b.min_rtt => rtt # None /\ MinRttExpired(b, now)
<1> DEFINE d == bbr_update_round_trip_counter(b, last_acked)
<1>1. Fit(d) /\ StartupFit(d) /\ SameProbing(b, d) /\ d.min_rtt = b.min_rtt /\ d.min_rtt_timestamp = b.min_rtt_timestamp
  BY DEF bbr_update_round_trip_counter, Fit, Controllers, ModesFit, StartupFit, WindowFits, RttFits, SameProbing
<1> HIDE DEF d
<1>2. MinRttExpired(d, now) <=> MinRttExpired(b, now)
  BY <1>1 DEF MinRttExpired
<1> DEFINE e == IF rtt # None /\ (MinRttExpired(d, now) \/ rtt < d.min_rtt \/ d.min_rtt = 0)
                THEN [d EXCEPT !.min_rtt = AtLeast(5, rtt), !.min_rtt_timestamp = now] ELSE d
<1>3. /\ Fit(e) /\ StartupFit(e) /\ SameProbing(b, e)
      /\ b.min_rtt > 0 /\ e.min_rtt > b.min_rtt => rtt # None /\ MinRttExpired(b, now)
  <2>1. AtLeast(5, rtt) \in Nat /\ AtLeast(5, rtt) >= 5 /\ (AtLeast(5, rtt) = 5 \/ AtLeast(5, rtt) = rtt)
    BY DEF AtLeast, None
  <2>2. CASE rtt # None /\ (MinRttExpired(d, now) \/ rtt < d.min_rtt \/ d.min_rtt = 0)
    <3>1. e = [d EXCEPT !.min_rtt = AtLeast(5, rtt), !.min_rtt_timestamp = now]
      BY <2>2
    <3> HIDE DEF e
    <3>2. Fit(e) /\ StartupFit(e) /\ SameProbing(b, e) /\ e.min_rtt = AtLeast(5, rtt)
      <4>1. e \in Controllers /\ e.min_rtt = AtLeast(5, rtt)
        <5> DEFINE r == AtLeast(5, rtt)
        <5>1. r \in Nat /\ e = [d EXCEPT !.min_rtt = r, !.min_rtt_timestamp = now]
          BY <2>1, <3>1
        <5> HIDE DEF r
        <5>2. d \in Controllers
          BY <1>1 DEF Fit
        <5> DEFINE f == [d EXCEPT !.min_rtt = r]
        <5>3. f \in Controllers
          BY <5>1, <5>2 DEF Controllers
        <5>4. e = [f EXCEPT !.min_rtt_timestamp = now]
          BY <5>1
        <5> HIDE DEF f
        <5>5. e \in Controllers
          BY <5>3, <5>4 DEF Controllers
        <5>6. e.min_rtt = r
          BY <5>1, <5>2 DEF Controllers
        <5> QED BY <5>5, <5>6 DEF r
      <4>2. ModesFit(e) /\ StartupFit(e) /\ WindowFits(e)
        BY <1>1, <3>1 DEF Fit, Controllers, ModesFit, StartupFit, WindowFits
      <4>3. SameProbing(b, e)
        BY <1>1, <3>1 DEF Fit, Controllers, SameProbing
      <4> QED BY <2>1, <4>1, <4>2, <4>3 DEF Fit, RttFits
    <3>3. b.min_rtt > 0 /\ e.min_rtt > b.min_rtt => MinRttExpired(b, now)
      <4>1. rtt \in Nat /\ b.min_rtt \in Nat
        BY <2>2 DEF Fit, Controllers
      <4> QED BY <1>1, <1>2, <2>1, <2>2, <3>2, <4>1 DEF Fit, RttFits
    <3> QED BY <2>2, <3>2, <3>3
  <2>3. CASE ~(rtt # None /\ (MinRttExpired(d, now) \/ rtt < d.min_rtt \/ d.min_rtt = 0))
    <3>1. e = d
      BY <2>3
    <3> HIDE DEF e
    <3>2. ~(b.min_rtt > 0 /\ e.min_rtt > b.min_rtt)
      BY <1>1, <3>1 DEF Fit, Controllers
    <3> QED BY <1>1, <3>1, <3>2
  <2> QED BY <2>2, <2>3
<1>4. c = e \/ c = [e EXCEPT !.is_app_limited = FALSE]
  <2>1. c \in {e} \cup IF last_acked > d.end_of_app_limited_phase THEN {[e EXCEPT !.is_app_limited = FALSE]} ELSE {}
    BY Zenon DEF bbr_update_min_rtt, d
  <2> HIDE DEF e
  <2> QED BY <2>1
<1> HIDE DEF e
<1>5. CASE c = e
  BY <1>3, <1>5
<1>6. CASE c = [e EXCEPT !.is_app_limited = FALSE]
  <2>1. c \in Controllers
    BY <1>3, <1>6 DEF Fit, Controllers
  <2>2. /\ c.mode = e.mode /\ c.pacing_gain = e.pacing_gain /\ c.cycle_current_offset = e.cycle_current_offset
        /\ c.is_at_full_bandwidth = e.is_at_full_bandwidth /\ c.congestion_window = e.congestion_window
        /\ c.min_rtt = e.min_rtt /\ c.exit_probe_rtt_at = e.exit_probe_rtt_at
        /\ c.exiting_quiescence = e.exiting_quiescence
    BY <1>3, <1>6 DEF Fit, Controllers
  <2>3. ModesFit(c) /\ StartupFit(c) /\ WindowFits(c) /\ RttFits(c)
    BY <1>3, <2>2 DEF Fit, ModesFit, StartupFit, WindowFits, RttFits
  <2>4. SameProbing(b, c)
    BY <1>3, <2>2 DEF SameProbing
  <2> QED BY <1>3, <2>1, <2>2, <2>3, <2>4 DEF Fit
<1> QED BY <1>4, <1>5, <1>6

(* Recovery changes the window of recovery only.                            *)
LEMMA RecoveryStepFits ==
  ASSUME NEW b, NEW last_acked \in Nat, NEW losses \in BOOLEAN, NEW round \in BOOLEAN, Fit(b), StartupFit(b)
  PROVE  LET c == bbr_update_recovery_state(b, last_acked, losses, round)
         IN  Fit(c) /\ StartupFit(c) /\ SameProbing(b, c) /\ c.min_rtt = b.min_rtt
<1> DEFINE d == IF losses THEN [b EXCEPT !.end_recovery_at = last_acked] ELSE b
           c == bbr_update_recovery_state(b, last_acked, losses, round)
<1>1. Fit(d) /\ StartupFit(d) /\ SameProbing(b, d) /\ d.min_rtt = b.min_rtt
  BY DEF Fit, Controllers, ModesFit, StartupFit, WindowFits, RttFits, SameProbing
<1>2. \/ c = d
      \/ c = [d EXCEPT !.recovery_state = "CONSERVATION", !.recovery_window = 0, !.current_round_trip_end = last_acked]
      \/ c = [d EXCEPT !.recovery_state = "NOT_IN_RECOVERY"]
      \/ c = [d EXCEPT !.recovery_state = "GROWTH"]
  BY Zenon DEF bbr_update_recovery_state
<1> HIDE DEF c, d
<1>3. c \in Controllers
  <2>1. d \in Controllers
    BY <1>1 DEF Fit
  <2>2. CASE c = [d EXCEPT !.recovery_state = "CONSERVATION", !.recovery_window = 0, !.current_round_trip_end = last_acked]
    <3> DEFINE s == [d EXCEPT !.recovery_state = "CONSERVATION"]
               w == [s EXCEPT !.recovery_window = 0]
    <3>1. s \in Controllers
      BY <2>1 DEF Controllers, Recoveries
    <3> HIDE DEF s
    <3>2. w \in Controllers
      BY <3>1 DEF Controllers
    <3>3. c = [w EXCEPT !.current_round_trip_end = last_acked]
      BY <2>2 DEF s
    <3> HIDE DEF w
    <3> QED BY <3>2, <3>3 DEF Controllers
  <2>3. CASE c = [d EXCEPT !.recovery_state = "NOT_IN_RECOVERY"]
    BY <2>1, <2>3 DEF Controllers, Recoveries
  <2>4. CASE c = [d EXCEPT !.recovery_state = "GROWTH"]
    BY <2>1, <2>4 DEF Controllers, Recoveries
  <2> QED BY Zenon, <1>2, <2>1, <2>2, <2>3, <2>4
<1>4. Fit(c) /\ StartupFit(c) /\ SameProbing(b, c) /\ c.min_rtt = b.min_rtt
  <2>1. d \in Controllers
    BY <1>1 DEF Fit
  <2> DEFINE Alike == /\ c.mode = d.mode /\ c.is_at_full_bandwidth = d.is_at_full_bandwidth
                      /\ c.pacing_gain = d.pacing_gain /\ c.cycle_current_offset = d.cycle_current_offset
                      /\ c.congestion_window = d.congestion_window /\ c.min_rtt = d.min_rtt
                      /\ c.exit_probe_rtt_at = d.exit_probe_rtt_at /\ c.exiting_quiescence = d.exiting_quiescence
  <2>2. Alike
    <3>1. CASE c = d
      BY <3>1
    <3>2. CASE c = [d EXCEPT !.recovery_state = "CONSERVATION", !.recovery_window = 0, !.current_round_trip_end = last_acked]
      BY <2>1, <3>2 DEF Controllers
    <3>3. CASE c = [d EXCEPT !.recovery_state = "NOT_IN_RECOVERY"]
      BY <2>1, <3>3 DEF Controllers
    <3>4. CASE c = [d EXCEPT !.recovery_state = "GROWTH"]
      BY <2>1, <3>4 DEF Controllers
    <3> QED BY Zenon, <1>2, <3>1, <3>2, <3>3, <3>4
  <2>3. ModesFit(c) /\ StartupFit(c)
    BY <1>1, <2>2 DEF Fit, ModesFit, StartupFit
  <2>4. WindowFits(c) /\ RttFits(c)
    BY <1>1, <2>2 DEF Fit, WindowFits, RttFits
  <2>5. SameProbing(b, c) /\ c.min_rtt = b.min_rtt
    BY <1>1, <2>2 DEF SameProbing
  <2> QED BY <1>3, <2>3, <2>4, <2>5 DEF Fit
<1> QED BY <1>4 DEF c

(* Each phase of the cycle has a gain.                                      *)
LEMMA GainIsGain == ASSUME NEW index PROVE bbr_get_pacing_gain(index) \in Gains
<1>1. CASE index = 0
  BY <1>1 DEF bbr_get_pacing_gain, Gains
<1>2. CASE index = 1
  BY <1>2 DEF bbr_get_pacing_gain, Gains
<1>3. CASE index # 0 /\ index # 1
  BY <1>3 DEF bbr_get_pacing_gain, Gains
<1> QED BY <1>1, <1>2, <1>3

(* The gain cycle moves on with its gain.                                   *)
LEMMA CycleFits ==
  ASSUME NEW b, Fit(b), StartupFit(b), NEW c \in bbr_update_gain_cycle_phase(b)
  PROVE  Fit(c) /\ StartupFit(c) /\ SameProbing(b, c) /\ c.min_rtt = b.min_rtt
<1>1. CASE c = b
  BY <1>1 DEF SameProbing
<1>2. CASE c # b
  <2> DEFINE next == (b.cycle_current_offset + 1) % kGainCycleLength
  <2>1. b.mode = "PROBE_BW" /\ c = [b EXCEPT !.cycle_current_offset = next, !.pacing_gain = bbr_get_pacing_gain(next)]
    BY <1>2 DEF bbr_update_gain_cycle_phase
  <2>2. next \in Int /\ bbr_get_pacing_gain(next) \in Gains
    BY BbrConstants, GainIsGain DEF Fit, Controllers
  <2> HIDE DEF next
  <2> QED BY <2>1, <2>2 DEF Fit, Controllers, ModesFit, StartupFit, WindowFits, RttFits, SameProbing
<1> QED BY <1>1, <1>2

(* Startup may find the full bandwidth.                                     *)
LEMMA FullFits ==
  ASSUME NEW b, Fit(b), ~b.is_at_full_bandwidth, NEW c \in bbr_check_if_full_bandwidth_reached(b)
  PROVE  Fit(c) /\ SameProbing(b, c) /\ c.min_rtt = b.min_rtt
<1> DEFINE n == b.rounds_without_bandwidth_gain + 1
           full == n >= num_startup_rtts \/ bbr_in_recovery(b)
<1>1. n \in Int
  BY DEF Fit, Controllers
<1>2. \/ c = b
      \/ c = [b EXCEPT !.rounds_without_bandwidth_gain = 0]
      \/ c = [b EXCEPT !.rounds_without_bandwidth_gain = n, !.is_at_full_bandwidth = TRUE]
      \/ c = [b EXCEPT !.rounds_without_bandwidth_gain = n, !.is_at_full_bandwidth = FALSE]
  <2>1. full \in {TRUE, FALSE}
    BY Zenon DEF bbr_in_recovery
  <2>2. CASE full = TRUE
    BY Zenon, <2>2 DEF bbr_check_if_full_bandwidth_reached
  <2>3. CASE full = FALSE
    BY Zenon, <2>3 DEF bbr_check_if_full_bandwidth_reached
  <2> QED BY <2>1, <2>2, <2>3
<1> HIDE DEF n, full
<1>3. c \in Controllers
  <2>1. b \in Controllers
    BY DEF Fit
  <2>2. CASE c = [b EXCEPT !.rounds_without_bandwidth_gain = 0]
    BY <2>1, <2>2 DEF Controllers
  <2>3. CASE c = [b EXCEPT !.rounds_without_bandwidth_gain = n, !.is_at_full_bandwidth = TRUE]
    BY <1>1, <2>1, <2>3 DEF Controllers
  <2>4. CASE c = [b EXCEPT !.rounds_without_bandwidth_gain = n, !.is_at_full_bandwidth = FALSE]
    BY <1>1, <2>1, <2>4 DEF Controllers
  <2> QED BY <1>2, <2>1, <2>2, <2>3, <2>4
<1>4. ModesFit(c)
  BY <1>2 DEF Fit, Controllers, ModesFit
<1>5. WindowFits(c) /\ RttFits(c) /\ SameProbing(b, c) /\ c.min_rtt = b.min_rtt
  BY <1>2 DEF Fit, Controllers, WindowFits, RttFits, SameProbing
<1> QED BY <1>3, <1>4, <1>5 DEF Fit

(* A cycle may start anywhere but at its draining phase; the mode it starts *)
(* from must have found the full bandwidth.                                 *)
LEMMA ProbeBandwidthFits ==
  ASSUME NEW b, Fit(b), b.is_at_full_bandwidth, NEW c \in bbr_enter_probe_bandwidth_mode(b)
  PROVE  /\ Fit(c) /\ c.mode = "PROBE_BW" /\ c.min_rtt = b.min_rtt
         /\ c.exit_probe_rtt_at = b.exit_probe_rtt_at /\ c.exiting_quiescence = b.exiting_quiescence
<1>1. PICK offset \in EntryOffsets :
        c = [b EXCEPT !.mode = "PROBE_BW", !.cycle_current_offset = offset, !.pacing_gain = bbr_get_pacing_gain(offset)]
  BY DEF bbr_enter_probe_bandwidth_mode
<1>2. offset \in Int /\ bbr_get_pacing_gain(offset) \in Gains
  BY BbrConstants, GainIsGain DEF EntryOffsets
<1> QED BY <1>1, <1>2 DEF Fit, Controllers, Modes, Gains, ModesFit, WindowFits, RttFits

(* Startup that has found the full bandwidth is left.                       *)
LEMMA ExitFitsStartup ==
  ASSUME NEW b, Fit(b), NEW c \in bbr_maybe_exit_startup_or_drain(b)
  PROVE  Fit(c) /\ StartupFit(c) /\ SameProbing(b, c) /\ c.min_rtt = b.min_rtt
<1> DEFINE d == IF b.mode = "STARTUP" /\ b.is_at_full_bandwidth
                THEN [b EXCEPT !.mode = "DRAIN", !.pacing_gain = "drain"] ELSE b
<1>1. Fit(d) /\ StartupFit(d) /\ SameProbing(b, d) /\ d.min_rtt = b.min_rtt
  <2>1. CASE b.mode = "STARTUP" /\ b.is_at_full_bandwidth
    <3>1. d = [b EXCEPT !.mode = "DRAIN", !.pacing_gain = "drain"]
      BY <2>1
    <3> HIDE DEF d
    <3> QED BY <2>1, <3>1 DEF Fit, Controllers, Modes, Gains, ModesFit, StartupFit, WindowFits, RttFits, SameProbing
  <2>2. CASE ~(b.mode = "STARTUP" /\ b.is_at_full_bandwidth)
    <3>1. d = b
      BY <2>2
    <3> QED BY <2>2, <3>1 DEF StartupFit, SameProbing
  <2> QED BY <2>1, <2>2
<1>2. c = d \/ (d.mode = "DRAIN" /\ c \in bbr_enter_probe_bandwidth_mode(d))
  BY DEF bbr_maybe_exit_startup_or_drain
<1> HIDE DEF d
<1>3. CASE c = d
  BY <1>1, <1>3
<1>4. CASE d.mode = "DRAIN" /\ c \in bbr_enter_probe_bandwidth_mode(d)
  <2>1. d.is_at_full_bandwidth
    BY <1>1, <1>4 DEF Fit, ModesFit
  <2> QED BY <1>1, <1>4, <2>1, ProbeBandwidthFits DEF StartupFit, SameProbing
<1> QED BY <1>2, <1>3, <1>4

-----------------------------------------------------------------------------
(* Leaving PROBE_RTT keeps the controller sound, whichever mode it goes to. *)
LEMMA LeaveFits ==
  ASSUME NEW b, NEW now \in Nat, Fit(b), NEW c \in LeaveProbeRtt(b, now)
  PROVE  Fit(c) /\ StartupFit(c) /\ c.mode # "PROBE_RTT" /\ c.min_rtt = b.min_rtt
<1> DEFINE d == [b EXCEPT !.min_rtt_timestamp = now]
<1>1. Fit(d) /\ d.min_rtt = b.min_rtt /\ d.is_at_full_bandwidth = b.is_at_full_bandwidth
  BY DEF Fit, Controllers, ModesFit, WindowFits, RttFits
<1>2. CASE ~b.is_at_full_bandwidth
  <2>1. c = [d EXCEPT !.mode = "STARTUP", !.pacing_gain = "high"]
    BY <1>2 DEF LeaveProbeRtt, bbr_enter_startup_mode
  <2> HIDE DEF d
  <2> QED BY <1>1, <1>2, <2>1 DEF Fit, Controllers, Modes, Gains, ModesFit, StartupFit, WindowFits, RttFits
<1>3. CASE b.is_at_full_bandwidth
  <2>1. c \in bbr_enter_probe_bandwidth_mode(d) /\ d.is_at_full_bandwidth
    BY <1>1, <1>3 DEF LeaveProbeRtt
  <2> HIDE DEF d
  <2> QED BY <1>1, <2>1, ProbeBandwidthFits DEF StartupFit
<1> QED BY <1>2, <1>3

(* In PROBE_RTT, the time to leave is set once, and is not before it.       *)
LEMMA ProbingFits ==
  ASSUME NEW b, NEW now \in Nat, NEW t \in Nat, NEW round \in BOOLEAN, t <= now,
         Fit(b), b.mode = "PROBE_RTT", ExitFits(b, t), NEW c \in ProbingRtt(b, now, round)
  PROVE  /\ Fit(c) /\ StartupFit(c) /\ c.min_rtt = b.min_rtt /\ ExitFits(c, t)
         /\ c.mode # "PROBE_RTT" => b.exit_probe_rtt_at # None /\ now >= t + kProbeRttTimeMs
<1> DEFINE a == [b EXCEPT !.is_app_limited = TRUE]
           d == [a EXCEPT !.end_of_app_limited_phase = b.last_sent_packet]
           e == [d EXCEPT !.probe_rtt_round_passed = d.probe_rtt_round_passed \/ round]
           Same(x) == x.mode = "PROBE_RTT" /\ x.min_rtt = b.min_rtt /\ x.exit_probe_rtt_at = b.exit_probe_rtt_at
<1>1. Fit(a) /\ Same(a) /\ a.last_sent_packet = b.last_sent_packet
  BY DEF Fit, Controllers, ModesFit, WindowFits, RttFits
<1>2. Fit(d) /\ Same(d)
  <2> HIDE DEF a
  <2> QED BY <1>1 DEF Fit, Controllers, ModesFit, WindowFits, RttFits
<1>3. Fit(e) /\ Same(e)
  <2>1. (d.probe_rtt_round_passed \/ round) \in {TRUE, FALSE}
    BY Zenon
  <2>2. e = [d EXCEPT !.probe_rtt_round_passed = TRUE] \/ e = [d EXCEPT !.probe_rtt_round_passed = FALSE]
    <3> HIDE DEF d
    <3> QED BY Zenon, <2>1
  <2> HIDE DEF d, e
  <2>3. CASE e = [d EXCEPT !.probe_rtt_round_passed = TRUE]
    BY <1>2, <2>3 DEF Fit, Controllers, ModesFit, WindowFits, RttFits
  <2>4. CASE e = [d EXCEPT !.probe_rtt_round_passed = FALSE]
    BY <1>2, <2>4 DEF Fit, Controllers, ModesFit, WindowFits, RttFits
  <2> QED BY <2>2, <2>3, <2>4
<1>4. CASE b.exit_probe_rtt_at = None
  <2> DEFINE f == [d EXCEPT !.exit_probe_rtt_at = now + kProbeRttTimeMs]
  <2>1. c = d \/ c = [f EXCEPT !.probe_rtt_round_passed = FALSE]
    BY <1>2, <1>4 DEF ProbingRtt
  <2>2. now + kProbeRttTimeMs \in Int /\ now + kProbeRttTimeMs >= t + kProbeRttTimeMs
    BY BbrConstants
  <2> HIDE DEF d
  <2>3. Fit(f) /\ f.mode = "PROBE_RTT" /\ f.min_rtt = b.min_rtt /\ f.exit_probe_rtt_at = now + kProbeRttTimeMs
    BY <1>2, <2>2 DEF Fit, Controllers, ModesFit, WindowFits, RttFits
  <2> HIDE DEF f
  <2>4. CASE c = d
    BY <1>2, <1>4, <2>4 DEF StartupFit, ExitFits
  <2>5. CASE c = [f EXCEPT !.probe_rtt_round_passed = FALSE]
    BY <2>2, <2>3, <2>5 DEF Fit, Controllers, ModesFit, WindowFits, RttFits, StartupFit, ExitFits
  <2> QED BY <2>1, <2>4, <2>5
<1>5. CASE b.exit_probe_rtt_at # None
  <2>1. \/ ~ProbeRttDone(e, now) /\ c = e
        \/ ProbeRttDone(e, now) /\ c \in LeaveProbeRtt(e, now)
    BY <1>2, <1>5 DEF ProbingRtt
  <2> HIDE DEF e
  <2>2. CASE c = e
    BY <1>3, <2>2 DEF StartupFit, ExitFits
  <2>3. CASE ProbeRttDone(e, now) /\ c \in LeaveProbeRtt(e, now)
    <3>1. Fit(c) /\ StartupFit(c) /\ c.mode # "PROBE_RTT" /\ c.min_rtt = e.min_rtt
      BY <1>3, <2>3, LeaveFits
    <3>2. now >= t + kProbeRttTimeMs
      <4>1. now >= b.exit_probe_rtt_at /\ b.exit_probe_rtt_at >= t + kProbeRttTimeMs
        BY <1>3, <1>5, <2>3 DEF ProbeRttDone, ExitFits
      <4>2. b.exit_probe_rtt_at \in Int
        BY DEF Fit, Controllers
      <4> QED BY <4>1, <4>2, BbrConstants
    <3> QED BY <1>3, <1>5, <3>1, <3>2 DEF ExitFits
  <2> QED BY <2>1, <2>2, <2>3
<1> QED BY <1>4, <1>5

(* A feedback that enters PROBE_RTT stays in it.                            *)
LEMMA ProbeRttFits ==
  ASSUME NEW b, NEW now \in Nat, NEW t \in Nat, NEW round \in BOOLEAN, NEW expired \in BOOLEAN, t <= now,
         Fit(b), StartupFit(b), ExitFits(b, t),
         NEW c \in bbr_maybe_enter_or_exit_probe_rtt(b, now, round, expired)
  PROVE  /\ Fit(c) /\ StartupFit(c) /\ c.min_rtt = b.min_rtt
         /\ b.mode = "PROBE_RTT" => ExitFits(c, t) /\ (c.mode # "PROBE_RTT" => now >= t + kProbeRttTimeMs)
         /\ b.mode # "PROBE_RTT" => ExitFits(c, now)
         /\ expired /\ ~b.exiting_quiescence => "PROBE_RTT" \in {b.mode, c.mode}
<1> DEFINE d == IF ProbeRttDue(b, expired) THEN EnterProbeRtt(b) ELSE b
           after == IF d.mode = "PROBE_RTT" THEN ProbingRtt(d, now, round) ELSE {d}
<1>1. PICK e \in after : c = [e EXCEPT !.exiting_quiescence = FALSE]
  BY DEF bbr_maybe_enter_or_exit_probe_rtt
<1>2. /\ Fit(e) /\ StartupFit(e) /\ e.min_rtt = b.min_rtt
      /\ b.mode = "PROBE_RTT" => ExitFits(e, t) /\ (e.mode # "PROBE_RTT" => now >= t + kProbeRttTimeMs)
      /\ b.mode # "PROBE_RTT" => ExitFits(e, now)
      /\ expired /\ ~b.exiting_quiescence => "PROBE_RTT" \in {b.mode, e.mode}
  <2>1. CASE ProbeRttDue(b, expired)
    <3>1. d = EnterProbeRtt(b) /\ b.mode # "PROBE_RTT"
      BY <2>1 DEF ProbeRttDue
    <3> HIDE DEF d
    <3>2. Fit(d) /\ d.mode = "PROBE_RTT" /\ d.exit_probe_rtt_at = None /\ d.min_rtt = b.min_rtt
      <4> DEFINE x == [b EXCEPT !.mode = "PROBE_RTT"]
                 y == [x EXCEPT !.pacing_gain = "one"]
      <4>1. x \in Controllers /\ WindowFits(x) /\ RttFits(x) /\ x.mode = "PROBE_RTT" /\ x.min_rtt = b.min_rtt
        BY DEF Fit, Controllers, Modes, WindowFits, RttFits
      <4>2. y \in Controllers /\ WindowFits(y) /\ RttFits(y) /\ y.mode = "PROBE_RTT" /\ y.min_rtt = b.min_rtt /\ y.pacing_gain = "one"
        <5> HIDE DEF x
        <5> QED BY <4>1 DEF Controllers, Gains, WindowFits, RttFits
      <4>3. d = [y EXCEPT !.exit_probe_rtt_at = None]
        BY <3>1 DEF EnterProbeRtt
      <4>4. None \in Int
        BY DEF None
      <4> HIDE DEF y
      <4>5. d \in Controllers /\ d.mode = "PROBE_RTT" /\ d.exit_probe_rtt_at = None /\ d.min_rtt = b.min_rtt
        BY <4>2, <4>3, <4>4 DEF Controllers
      <4>6. ModesFit(d) /\ WindowFits(d) /\ RttFits(d)
        BY <4>2, <4>3 DEF Controllers, ModesFit, WindowFits, RttFits
      <4> QED BY <4>5, <4>6 DEF Fit
    <3>3. e \in ProbingRtt(d, now, round) /\ ExitFits(d, now)
      BY <1>1, <3>2 DEF ExitFits
    <3>4. Fit(e) /\ StartupFit(e) /\ e.min_rtt = d.min_rtt /\ ExitFits(e, now) /\ e.mode = "PROBE_RTT"
      BY <3>2, <3>3, ProbingFits
    <3> QED BY <3>1, <3>2, <3>4
  <2>2. CASE ~ProbeRttDue(b, expired) /\ b.mode = "PROBE_RTT"
    <3>1. e \in ProbingRtt(b, now, round)
      BY <1>1, <2>2
    <3> HIDE DEF after, d
    <3> QED BY <2>2, <3>1, ProbingFits
  <2>3. CASE ~ProbeRttDue(b, expired) /\ b.mode # "PROBE_RTT"
    <3>1. e = b
      BY <1>1, <2>3
    <3> QED BY <2>3, <3>1 DEF ProbeRttDue, ExitFits
  <2> QED BY <2>1, <2>2, <2>3
<1> HIDE DEF after, d
<1>3. /\ c \in Controllers
      /\ c.mode = e.mode /\ c.pacing_gain = e.pacing_gain /\ c.cycle_current_offset = e.cycle_current_offset
      /\ c.is_at_full_bandwidth = e.is_at_full_bandwidth /\ c.congestion_window = e.congestion_window
      /\ c.min_rtt = e.min_rtt /\ c.exit_probe_rtt_at = e.exit_probe_rtt_at
  BY <1>1, <1>2 DEF Fit, Controllers
<1>4. Fit(c) /\ StartupFit(c)
  BY <1>2, <1>3 DEF Fit, ModesFit, WindowFits, RttFits, StartupFit
<1>5. \A u : ExitFits(e, u) => ExitFits(c, u)
  BY <1>3 DEF ExitFits
<1> QED BY <1>2, <1>3, <1>4, <1>5

-----------------------------------------------------------------------------
(* Whatever is acknowledged or lost, both windows stay open.                *)
LEMMA WindowsFit ==
  ASSUME NEW b, NEW ackeds \in SUBSET Nat, NEW losts \in SUBSET Nat, Fit(b), StartupFit(b),
         NEW c \in Windows(b, ackeds, losts)
  PROVE  /\ Fit(c) /\ StartupFit(c) /\ RecoveryFits(c)
         /\ c.mode = b.mode /\ c.exit_probe_rtt_at = b.exit_probe_rtt_at /\ c.min_rtt = b.min_rtt
<1>0. PICK acked \in ackeds, lost \in losts, in_flight \in Amounts :
        \E d \in bbr_calculate_congestion_window(b, acked) : c = bbr_calculate_recovery_window(d, acked, lost, in_flight)
  BY DEF Windows
<1>1. PICK d \in bbr_calculate_congestion_window(b, acked) : c = bbr_calculate_recovery_window(d, acked, lost, in_flight)
  BY <1>0
<1>2. /\ Fit(d) /\ StartupFit(d)
      /\ d.mode = b.mode /\ d.exit_probe_rtt_at = b.exit_probe_rtt_at /\ d.min_rtt = b.min_rtt
  <2>1. CASE d = b
    BY <2>1
  <2>2. CASE d # b
    <3> DEFINE grown == b.congestion_window + acked
    <3>1. grown \in Int
      BY DEF Fit, Controllers
    <3> HIDE DEF grown
    <3>2. PICK w \in Int : d = [b EXCEPT !.congestion_window = CappedAt(AtLeast(w, min_congestion_window), max_congestion_window)]
      <4>1. PICK w \in (IF b.is_at_full_bandwidth THEN {CappedAt(v, grown) : v \in Targets} ELSE {b.congestion_window, grown}) :
              d = [b EXCEPT !.congestion_window = CappedAt(AtLeast(w, min_congestion_window), max_congestion_window)]
        BY <2>2 DEF bbr_calculate_congestion_window, grown
      <4>2. w \in Int
        BY <3>1, <4>1, BbrConstants DEF Fit, Controllers, CappedAt
      <4> QED BY <4>1, <4>2
    <3> DEFINE v == CappedAt(AtLeast(w, min_congestion_window), max_congestion_window)
    <3>3. v \in min_congestion_window .. max_congestion_window /\ v \in Int
      BY BbrConstants DEF CappedAt, AtLeast
    <3>4. d = [b EXCEPT !.congestion_window = v]
      BY <3>2
    <3> HIDE DEF v
    <3> QED BY <3>3, <3>4 DEF Fit, Controllers, ModesFit, StartupFit, WindowFits, RttFits
  <2> QED BY <2>1, <2>2
<1>3. CASE ~bbr_in_recovery(d)
  <2>1. c = d
    BY <1>1, <1>3 DEF bbr_calculate_recovery_window
  <2> QED BY <1>2, <1>3, <2>1 DEF RecoveryFits
<1>4. CASE bbr_in_recovery(d)
  <2>1. PICK x \in Int : c = [d EXCEPT !.recovery_window = AtLeast(min_congestion_window, x)]
    <3> DEFINE left  == IF d.recovery_window >= lost THEN d.recovery_window - lost ELSE kMaxSegmentSize
               grown == IF d.recovery_state = "GROWTH" THEN left + acked ELSE left
               x == IF d.recovery_window = 0 THEN in_flight + acked ELSE AtLeast(grown, in_flight + acked)
    <3>1. acked \in Int /\ lost \in Int /\ in_flight \in Int /\ d.recovery_window \in Int
      BY <1>2, BbrConstants DEF Fit, Controllers
    <3>2. left \in Int
      BY <3>1, BbrConstants
    <3>3. grown \in Int
      <4> HIDE DEF left
      <4> QED BY <3>1, <3>2
    <3>4. x \in Int
      <4> HIDE DEF grown
      <4> QED BY <3>1, <3>3 DEF AtLeast
    <3>5. c = [d EXCEPT !.recovery_window = AtLeast(min_congestion_window, x)]
      BY Zenon, <1>1, <1>4 DEF bbr_calculate_recovery_window
    <3> QED BY <3>4, <3>5
  <2> DEFINE w == AtLeast(min_congestion_window, x)
  <2>2. w \in Int /\ w >= min_congestion_window /\ c = [d EXCEPT !.recovery_window = w]
    BY <2>1, BbrConstants DEF AtLeast
  <2> HIDE DEF w
  <2> QED BY <1>2, <2>2 DEF Fit, Controllers, ModesFit, StartupFit, WindowFits, RttFits, RecoveryFits
<1> QED BY <1>3, <1>4

-----------------------------------------------------------------------------
(* What a step promises: ProbeRttLasts and RttGivenUp.                      *)
StepPromises ==
  /\ bbr.mode = "PROBE_RTT" /\ bbr'.mode # "PROBE_RTT" => bbrNow >= entered + kProbeRttTimeMs
  /\ bbr.min_rtt > 0 /\ bbr'.min_rtt > bbr.min_rtt =>
       "PROBE_RTT" \in {bbr.mode, bbr'.mode} \/ bbr.exiting_quiescence

(* A feedback takes the controller through the steps above.                 *)
LEMMA FeedbackFits ==
  ASSUME ControllerInv, NEW last_acked \in Nat \cup {None}, NEW rtt \in Nat \cup {None}, NEW losses \in BOOLEAN,
         bbr_on_feedback(last_acked, rtt, losses)
  PROVE  ControllerInv' /\ StepPromises
<1> DEFINE some    == last_acked # None
           round   == some /\ RoundStart(bbr, last_acked)
           expired == some /\ rtt # None /\ MinRttExpired(bbr, bbrNow)
           counted == IF some
                      THEN {bbr_update_recovery_state(b, last_acked, losses, round) :
                              b \in bbr_update_min_rtt(bbr_update_round_trip_counter(bbr, last_acked), bbrNow, last_acked, rtt)}
                      ELSE {bbr}
           ackeds  == IF some THEN Amounts ELSE {0}
           losts   == IF losses THEN Amounts \ {0} ELSE {0}
<1>0. PICK b1 \in counted :
        \E b2 \in bbr_update_gain_cycle_phase(b1) :
        \E b3 \in (IF round /\ ~b2.is_at_full_bandwidth THEN bbr_check_if_full_bandwidth_reached(b2) ELSE {b2}) :
        \E b4 \in bbr_maybe_exit_startup_or_drain(b3) :
        \E b5 \in bbr_maybe_enter_or_exit_probe_rtt(b4, bbrNow, round, expired) : bbr' \in Windows(b5, ackeds, losts)
  BY DEF bbr_on_feedback
<1>1. PICK b2 \in bbr_update_gain_cycle_phase(b1) :
        \E b3 \in (IF round /\ ~b2.is_at_full_bandwidth THEN bbr_check_if_full_bandwidth_reached(b2) ELSE {b2}) :
        \E b4 \in bbr_maybe_exit_startup_or_drain(b3) :
        \E b5 \in bbr_maybe_enter_or_exit_probe_rtt(b4, bbrNow, round, expired) : bbr' \in Windows(b5, ackeds, losts)
  BY <1>0
<1>2. /\ entered' = IF bbr'.mode = "PROBE_RTT" /\ bbr.mode # "PROBE_RTT" THEN bbrNow ELSE entered
      /\ bbrNow' = bbrNow
  BY DEF bbr_on_feedback
<1>3. ackeds \in SUBSET Nat /\ losts \in SUBSET Nat /\ round \in BOOLEAN /\ expired \in BOOLEAN
  BY BbrConstants DEF RoundStart, MinRttExpired
<1>4. /\ Fit(b1) /\ StartupFit(b1) /\ SameProbing(bbr, b1)
      /\ bbr.min_rtt > 0 /\ b1.min_rtt > bbr.min_rtt => expired
  <2>1. CASE some
    <3>1. PICK b \in bbr_update_min_rtt(bbr_update_round_trip_counter(bbr, last_acked), bbrNow, last_acked, rtt) :
            b1 = bbr_update_recovery_state(b, last_acked, losses, round)
      BY <1>0, <2>1
    <3>2. last_acked \in Nat /\ bbrNow \in Nat /\ Fit(bbr) /\ StartupFit(bbr)
      BY <2>1 DEF ControllerInv
    <3>3. /\ Fit(b) /\ StartupFit(b) /\ SameProbing(bbr, b)
          /\ bbr.min_rtt > 0 /\ b.min_rtt > bbr.min_rtt => rtt # None /\ MinRttExpired(bbr, bbrNow)
      BY <3>2, CountedFits
    <3> HIDE DEF round
    <3>4. Fit(b1) /\ StartupFit(b1) /\ SameProbing(b, b1) /\ b1.min_rtt = b.min_rtt
      <4> DEFINE c == bbr_update_recovery_state(b, last_acked, losses, round)
      <4>1. Fit(c) /\ StartupFit(c) /\ SameProbing(b, c) /\ c.min_rtt = b.min_rtt
        BY <1>3, <3>2, <3>3, RecoveryStepFits
      <4>2. b1 = c
        BY <3>1
      <4> HIDE DEF c
      <4> QED BY <4>1, <4>2
    <3> QED BY <2>1, <3>3, <3>4 DEF SameProbing
  <2>2. CASE ~some
    <3>1. b1 = bbr
      BY <1>0, <2>2
    <3>2. Fit(bbr) /\ StartupFit(bbr) /\ ~(bbr.min_rtt > bbr.min_rtt)
      BY DEF ControllerInv, Fit, Controllers
    <3> QED BY <3>1, <3>2 DEF SameProbing
  <2> QED BY <2>1, <2>2
<1>5. Fit(b2) /\ StartupFit(b2) /\ SameProbing(b1, b2) /\ b2.min_rtt = b1.min_rtt
  BY <1>4, CycleFits
<1> HIDE DEF counted, ackeds, losts, round, expired, some
<1>6. PICK b3 \in (IF round /\ ~b2.is_at_full_bandwidth THEN bbr_check_if_full_bandwidth_reached(b2) ELSE {b2}) :
        \E b4 \in bbr_maybe_exit_startup_or_drain(b3) :
        \E b5 \in bbr_maybe_enter_or_exit_probe_rtt(b4, bbrNow, round, expired) : bbr' \in Windows(b5, ackeds, losts)
  BY <1>1
<1>7. Fit(b3) /\ SameProbing(b2, b3) /\ b3.min_rtt = b2.min_rtt
  <2>1. CASE round /\ ~b2.is_at_full_bandwidth
    BY <1>5, <1>6, <2>1, FullFits
  <2>2. CASE ~(round /\ ~b2.is_at_full_bandwidth)
    <3>1. b3 = b2
      BY <1>6, <2>2
    <3> QED BY <1>5, <3>1 DEF SameProbing
  <2> QED BY <2>1, <2>2
<1>8. PICK b4 \in bbr_maybe_exit_startup_or_drain(b3) :
        \E b5 \in bbr_maybe_enter_or_exit_probe_rtt(b4, bbrNow, round, expired) : bbr' \in Windows(b5, ackeds, losts)
  BY <1>6
<1>9. Fit(b4) /\ StartupFit(b4) /\ SameProbing(b3, b4) /\ b4.min_rtt = b3.min_rtt
  BY <1>7, <1>8, ExitFitsStartup
<1>10. SameProbing(bbr, b4) /\ b4.min_rtt = b1.min_rtt
  BY <1>4, <1>5, <1>7, <1>9 DEF SameProbing
<1>11. PICK b5 \in bbr_maybe_enter_or_exit_probe_rtt(b4, bbrNow, round, expired) : bbr' \in Windows(b5, ackeds, losts)
  BY <1>8
<1>12. /\ Fit(b5) /\ StartupFit(b5) /\ b5.min_rtt = b4.min_rtt
       /\ b4.mode = "PROBE_RTT" => ExitFits(b5, entered) /\ (b5.mode # "PROBE_RTT" => bbrNow >= entered + kProbeRttTimeMs)
       /\ b4.mode # "PROBE_RTT" => ExitFits(b5, bbrNow)
       /\ expired /\ ~b4.exiting_quiescence => "PROBE_RTT" \in {b4.mode, b5.mode}
  <2>1. bbrNow \in Nat /\ entered \in Nat /\ entered <= bbrNow /\ ExitFits(bbr, entered)
    BY DEF ControllerInv
  <2>2. ExitFits(b4, entered)
    BY <1>10, <2>1 DEF ExitFits, SameProbing
  <2> QED BY <1>3, <1>9, <1>11, <2>1, <2>2, ProbeRttFits
<1>13. /\ Fit(bbr') /\ StartupFit(bbr') /\ RecoveryFits(bbr')
       /\ bbr'.mode = b5.mode /\ bbr'.exit_probe_rtt_at = b5.exit_probe_rtt_at /\ bbr'.min_rtt = b5.min_rtt
  BY <1>3, <1>11, <1>12, WindowsFit
<1>14. ControllerInv'
  <2>1. bbrNow' \in Nat /\ entered' \in Nat /\ entered' <= bbrNow'
    BY <1>2 DEF ControllerInv
  <2>2. ExitFits(bbr', entered')
    <3>1. CASE bbr.mode = "PROBE_RTT"
      BY <1>2, <1>10, <1>12, <1>13, <3>1 DEF ExitFits, SameProbing
    <3>2. CASE bbr.mode # "PROBE_RTT"
      BY <1>2, <1>10, <1>12, <1>13, <3>2 DEF ExitFits, SameProbing
    <3> QED BY <3>1, <3>2
  <2>3. Fit(bbr)' /\ StartupFit(bbr)' /\ RecoveryFits(bbr)' /\ ExitFits(bbr, entered)'
    BY <1>13, <2>2 DEF Fit, Controllers, ModesFit, WindowFits, RttFits, StartupFit, RecoveryFits, bbr_in_recovery, ExitFits
  <2> QED BY <2>1, <2>3 DEF ControllerInv
<1>15. bbr.mode = "PROBE_RTT" /\ bbr'.mode # "PROBE_RTT" => bbrNow >= entered + kProbeRttTimeMs
  BY <1>10, <1>12, <1>13 DEF SameProbing
<1>16. bbr.min_rtt > 0 /\ bbr'.min_rtt > bbr.min_rtt => "PROBE_RTT" \in {bbr.mode, bbr'.mode} \/ bbr.exiting_quiescence
  BY <1>4, <1>10, <1>12, <1>13 DEF SameProbing
<1> QED BY <1>14, <1>15, <1>16 DEF StepPromises

-----------------------------------------------------------------------------
(* A new controller is sound.                                              *)
THEOREM InvInitially == BbrControllerInit => ControllerInv
<1> SUFFICES ASSUME BbrControllerInit PROVE ControllerInv
  OBVIOUS
<1>1. bbr \in Controllers
  BY BbrConstants DEF BbrControllerInit, Controllers, Modes, Gains, Recoveries, None
<1>2. ModesFit(bbr) /\ WindowFits(bbr) /\ RttFits(bbr) /\ StartupFit(bbr)
  BY BbrConstants DEF BbrControllerInit, ModesFit, WindowFits, RttFits, StartupFit
<1>3. RecoveryFits(bbr) /\ ExitFits(bbr, entered)
  BY DEF BbrControllerInit, RecoveryFits, bbr_in_recovery, ExitFits
<1> QED BY <1>1, <1>2, <1>3 DEF ControllerInv, Fit, BbrControllerInit

(* Every step keeps the invariant and its promises.                         *)
LEMMA StepKeepsInv ==
  ASSUME ControllerInv, [BbrControllerNext]_controllerVars
  PROVE  ControllerInv' /\ StepPromises
<1> USE DEF ControllerInv
<1>0. bbr.min_rtt \in Nat
  BY DEF Fit, Controllers
<1>1. ASSUME NEW idle \in BOOLEAN, bbr_on_send_packet(idle) PROVE ControllerInv' /\ StepPromises
  <2> DEFINE p == bbr.last_sent_packet + 1
             x == bbr.exiting_quiescence \/ (idle /\ bbr.is_app_limited)
             s == [bbr EXCEPT !.last_sent_packet = p]
  <2>0. x \in {TRUE, FALSE}
    BY Zenon
  <2>1. p \in Int
    BY DEF Fit, Controllers
  <2>2. bbr' = [s EXCEPT !.exiting_quiescence = x] /\ bbrNow' = bbrNow /\ entered' = entered
    BY <1>1 DEF bbr_on_send_packet
  <2> HIDE DEF p, x
  <2>3. Fit(s) /\ StartupFit(s) /\ RecoveryFits(s) /\ ExitFits(s, entered) /\ s.mode = bbr.mode /\ s.min_rtt = bbr.min_rtt
    BY <2>1 DEF Fit, Controllers, ModesFit, WindowFits, RttFits, StartupFit, RecoveryFits, bbr_in_recovery, ExitFits
  <2> HIDE DEF s
  <2>4. /\ Fit(bbr') /\ StartupFit(bbr') /\ RecoveryFits(bbr') /\ ExitFits(bbr', entered)
        /\ bbr'.mode = bbr.mode /\ bbr'.min_rtt = bbr.min_rtt
    <3>1. CASE x = TRUE
      BY <2>2, <2>3, <3>1 DEF Fit, Controllers, ModesFit, WindowFits, RttFits, StartupFit, RecoveryFits, bbr_in_recovery, ExitFits
    <3>2. CASE x = FALSE
      BY <2>2, <2>3, <3>2 DEF Fit, Controllers, ModesFit, WindowFits, RttFits, StartupFit, RecoveryFits, bbr_in_recovery, ExitFits
    <3> QED BY <2>0, <3>1, <3>2
  <2>5. Fit(bbr)' /\ StartupFit(bbr)' /\ RecoveryFits(bbr)' /\ ExitFits(bbr, entered)'
    BY <2>2, <2>4 DEF Fit, Controllers, ModesFit, WindowFits, RttFits, StartupFit, RecoveryFits, bbr_in_recovery, ExitFits
  <2> QED BY <1>0, <2>2, <2>4, <2>5 DEF StepPromises
<1>2. ASSUME NEW last_acked \in 0 .. bbr.last_sent_packet, NEW rtt \in RttSamples \cup {None}, NEW losses \in BOOLEAN,
             bbr_on_feedback(last_acked, rtt, losses)
      PROVE  ControllerInv' /\ StepPromises
  <2>1. last_acked \in Nat \cup {None} /\ rtt \in Nat \cup {None}
    BY BbrConstants DEF Fit, Controllers
  <2> QED BY <1>2, <2>1, FeedbackFits
<1>3. ASSUME bbr_on_feedback(None, None, TRUE) PROVE ControllerInv' /\ StepPromises
  <2>1. None \in Nat \cup {None} /\ TRUE \in BOOLEAN
    OBVIOUS
  <2> QED BY <1>3, <2>1, FeedbackFits
<1>4. ASSUME ControllerTick PROVE ControllerInv' /\ StepPromises
  <2>1. bbrNow' = bbrNow + 1 /\ bbr' = bbr /\ entered' = entered
    BY <1>4 DEF ControllerTick
  <2> QED BY <1>0, <2>1
        DEF StepPromises, Fit, Controllers, ModesFit, WindowFits, RttFits, StartupFit, RecoveryFits, bbr_in_recovery, ExitFits
<1>5. ASSUME UNCHANGED controllerVars PROVE ControllerInv' /\ StepPromises
  BY <1>0, <1>5
  DEF controllerVars, StepPromises, Fit, Controllers, ModesFit, WindowFits, RttFits, StartupFit, RecoveryFits, bbr_in_recovery, ExitFits
<1> QED BY <1>1, <1>2, <1>3, <1>4, <1>5 DEF BbrControllerNext

(* In every controller the modes agree with what it has found out, and the  *)
(* windows let packets out, however much is lost.                           *)
THEOREM ControllerAlwaysSound == BbrControllerSpec => []ControllerSound
<1>1. BbrControllerInit => ControllerInv
  BY InvInitially
<1>2. ControllerInv /\ [BbrControllerNext]_controllerVars => ControllerInv'
  BY StepKeepsInv
<1>3. ControllerInv => ControllerSound
  BY DEF ControllerInv, Fit, ModesFit, StartupFit, WindowFits, RecoveryFits, ControllerSound, ModesSound, WindowFloor
<1> QED BY <1>1, <1>2, <1>3, PTL DEF BbrControllerSpec

(* PROBE_RTT lasts its time in every controller.                            *)
THEOREM ProbeRttAlwaysLasts == BbrControllerSpec => ProbeRttLasts
<1>1. BbrControllerInit => ControllerInv
  BY InvInitially
<1>2. ControllerInv /\ [BbrControllerNext]_controllerVars => ControllerInv'
  BY StepKeepsInv
<1>3. ControllerInv /\ [BbrControllerNext]_controllerVars =>
        [bbr.mode = "PROBE_RTT" /\ bbr'.mode # "PROBE_RTT" => bbrNow >= entered + kProbeRttTimeMs]_controllerVars
  BY StepKeepsInv DEF StepPromises
<1> QED BY <1>1, <1>2, <1>3, PTL DEF BbrControllerSpec, ProbeRttLasts

(* A least RTT is given up only while it is probed for, or after idling.    *)
THEOREM RttGivenUpOnlyProbing == BbrControllerSpec => RttGivenUp
<1>1. BbrControllerInit => ControllerInv
  BY InvInitially
<1>2. ControllerInv /\ [BbrControllerNext]_controllerVars => ControllerInv'
  BY StepKeepsInv
<1>3. ControllerInv /\ [BbrControllerNext]_controllerVars =>
        [bbr.min_rtt > 0 /\ bbr'.min_rtt > bbr.min_rtt =>
           "PROBE_RTT" \in {bbr.mode, bbr'.mode} \/ bbr.exiting_quiescence]_controllerVars
  BY StepKeepsInv DEF StepPromises
<1> QED BY <1>1, <1>2, <1>3, PTL DEF BbrControllerSpec, RttGivenUp

-----------------------------------------------------------------------------
(***************************************************************************)
(* The reports of REMB.  The sums of the code's loops are sums over sets   *)
(* (NumberLemmas), and a sum stays what it is when its terms are renamed.  *)
(***************************************************************************)
(* The sum of the community modules is the one of NumberLemmas.             *)
LEMMA SumIsTotal ==
  ASSUME NEW f, NEW S, IsFiniteSet(S)
  PROVE  SumFunctionOnSet(f, S) = Total(f, S)
<1> DEFINE iter[s \in SUBSET S] ==
             IF s = {} THEN 0 ELSE LET x == CHOOSE y \in s : TRUE IN f[x] + iter[s \ {x}]
<1>1. SumFunctionOnSet(f, S) = iter[S]
  BY DEF SumFunctionOnSet, FoldFunctionOnSet, MapThenFoldSet
<1>2. PICK g : Adds(f, S, g)
  BY AddsExists
<1>3. g = [s \in SUBSET S |-> IF s = {} THEN 0 ELSE LET x == CHOOSE y \in s : TRUE IN f[x] + g[s \ {x}]]
  BY <1>2 DEF Adds, Pick
<1>4. iter = [s \in SUBSET S |-> IF s = {} THEN 0 ELSE LET x == CHOOSE y \in s : TRUE IN f[x] + iter[s \ {x}]]
  BY <1>3
<1> HIDE DEF iter
<1>5. Adds(f, S, iter)
  BY <1>4 DEF Adds, Pick
<1>6. iter[S] = Total(f, S)
  BY <1>5, TotalOf
<1> QED BY <1>1, <1>6

(* Terms that are all zero add up to nothing, and natural numbers that do   *)
(* are all zero.                                                            *)
LEMMA TotalZero ==
  ASSUME NEW f, NEW S, IsFiniteSet(S), \A x \in S : f[x] \in Nat
  PROVE  Total(f, S) = 0 <=> \A x \in S : f[x] = 0
<1>1. ASSUME Total(f, S) = 0, NEW x \in S PROVE f[x] = 0
  <2>1. Total(f, S) = f[x] + Total(f, S \ {x})
    BY TotalWithout
  <2>2. Total(f, S \ {x}) \in Nat
    BY FS_Subset, TotalNat
  <2> QED BY <1>1, <2>1, <2>2
<1>2. ASSUME \A x \in S : f[x] = 0, Total(f, S) # 0 PROVE FALSE
  <2> DEFINE W == {s \in SUBSET S : Total(f, s) # 0}
  <2>1. W # {} /\ \A s \in W : IsFiniteSet(s)
    BY <1>2, FS_Subset
  <2>2. PICK s \in W : \A t \in W : t \subseteq s => t = s
    <3> HIDE DEF W
    <3> QED BY <2>1, SmallestSet
  <2>3. s # {}
    BY <2>2, TotalEmpty
  <2>4. PICK x \in s : TRUE
    BY <2>3
  <2>5. Total(f, s) = f[x] + Total(f, s \ {x})
    BY <2>1, <2>2, <2>4, TotalWithout
  <2>6. s \ {x} \in SUBSET S /\ s \ {x} # s /\ s \ {x} \subseteq s
    BY <2>4
  <2>7. Total(f, s \ {x}) = 0
    BY <2>2, <2>6
  <2> QED BY <1>2, <2>2, <2>4, <2>5, <2>7
<1> QED BY <1>1, <1>2

(* A sum with its terms renamed, no two to one.                             *)
LEMMA TotalMoved ==
  ASSUME NEW f, NEW S, IsFiniteSet(S), NEW e, NEW h,
         \A x \in S : f[x] \in Int /\ e[h[x]] = f[x],
         \A x, y \in S : h[x] = h[y] => x = y,
         NEW T, IsFiniteSet(T), T = {h[x] : x \in S}
  PROVE  Total(f, S) = Total(e, T)
<1> SUFFICES ASSUME Total(f, S) # Total(e, T) PROVE FALSE
  OBVIOUS
<1> DEFINE I(s) == {h[x] : x \in s}
           W == {s \in SUBSET S : Total(f, s) # Total(e, I(s))}
<1>1. W # {} /\ \A s \in W : IsFiniteSet(s)
  BY FS_Subset
<1>2. PICK s \in W : \A t \in W : t \subseteq s => t = s
  <2> HIDE DEF W
  <2> QED BY <1>1, SmallestSet
<1>3. s # {}
  <2>1. ASSUME s = {} PROVE FALSE
    <3>1. I({}) = {}
      OBVIOUS
    <3>2. Total(f, {}) = 0 /\ Total(e, {}) = 0
      BY TotalEmpty
    <3> QED BY <2>1, <1>2, <3>1, <3>2
  <2> QED BY <2>1
<1>4. PICK x \in s : TRUE
  BY <1>3
<1>5. x \in S /\ s \subseteq S /\ IsFiniteSet(s)
  BY <1>1, <1>2, <1>4
<1>6. Total(f, s) = f[x] + Total(f, s \ {x})
  BY <1>4, <1>5, TotalWithout
<1>7. s \ {x} \in SUBSET S /\ s \ {x} # s /\ s \ {x} \subseteq s
  BY <1>4, <1>5
<1>8. Total(f, s \ {x}) = Total(e, I(s \ {x}))
  BY <1>2, <1>7
<1>9. IsFiniteSet(I(s)) /\ h[x] \in I(s)
  <2>1. IsFiniteSet(I(s))
    BY <1>5, FS_Subset
  <2> QED BY <2>1, <1>4
<1>10. I(s) \ {h[x]} = I(s \ {x})
  BY <1>4, <1>5
<1>11. \A z \in I(s) : e[z] \in Int
  BY <1>5
<1>12. Total(e, I(s)) = e[h[x]] + Total(e, I(s) \ {h[x]})
  BY <1>9, <1>11, TotalWithout
<1>13. Total(f, s) = Total(e, I(s))
  BY <1>5, <1>6, <1>8, <1>10, <1>12
<1> QED BY <1>2, <1>13

-----------------------------------------------------------------------------
(***************************************************************************)
(* The ring of buckets, read from its oldest.                              *)
(***************************************************************************)
Offsets == 0 .. wnd_size - 1

Held(r) == [k \in Offsets |-> r.buckets[BucketAt(r, k)].sum]

SamplesHeld(r) == [k \in Offsets |-> r.buckets[BucketAt(r, k)].sample]

(* A bucket without samples is empty.                                       *)
Bucket == {b \in [sum : Nat, sample : Nat] : b.sample = 0 => b.sum = 0}

Buckets == [Offsets -> Bucket]

Rates == [oldest_ts : Nat \cup {-1}, oldest_index : Offsets, accumulated_count : Nat, sample_num : Nat, buckets : Buckets]

RateFits(r) ==
  /\ r \in Rates
  /\ r.accumulated_count = Total(Held(r), Offsets)
  /\ r.sample_num = Total(SamplesHeld(r), Offsets)
  /\ r.oldest_ts = -1 => r.sample_num = 0

LEMMA OffsetsFinite == IsFiniteSet(Offsets) /\ wnd_size \in Nat /\ wnd_size > 1 /\ Offsets \subseteq Nat
<1>1. wnd_size \in Nat /\ wnd_size > 1
  BY StatsAssumption
<1>2. wnd_size - 1 \in Int
  BY <1>1
<1> QED BY <1>1, <1>2, FS_Interval DEF Offsets

(* An offset of less than a turn turns the ring once at most.               *)
LEMMA BucketTurned ==
  ASSUME NEW r, r.oldest_index \in Offsets, NEW k \in 0 .. wnd_size
  PROVE  BucketAt(r, k) = IF r.oldest_index + k < wnd_size THEN r.oldest_index + k ELSE r.oldest_index + k - wnd_size
<1> DEFINE i == r.oldest_index
           R == wnd_size
<1>0. i \in 0 .. R - 1 /\ R \in Nat \ {0} /\ k \in Nat /\ k <= R
  BY OffsetsFinite DEF Offsets
<1> HIDE DEF i, R
<1>1. CASE i + k < R
  <2>1. i + k \in 0 .. R - 1
    BY <1>0, <1>1
  <2>2. R * 0 + (i + k) = i + k
    BY <1>0
  <2>3. (R * 0 + (i + k)) % R = i + k
    BY <1>0, <2>1, OnlyRemainder
  <2>4. (i + k) % R = i + k
    BY <2>2, <2>3
  <2> QED BY <1>1, <2>4 DEF BucketAt, i, R
<1>2. CASE ~(i + k < R)
  <2>1. i + k - R \in 0 .. R - 1
    BY <1>0, <1>2
  <2>2. R * 1 + (i + k - R) = i + k
    BY <1>0
  <2>3. (R * 1 + (i + k - R)) % R = i + k - R
    BY <1>0, <2>1, OnlyRemainder
  <2>4. (i + k) % R = i + k - R
    BY <2>2, <2>3
  <2> QED BY <1>2, <2>4 DEF BucketAt, i, R
<1> QED BY <1>1, <1>2

(* Every offset has a bucket.                                               *)
LEMMA BucketIn ==
  ASSUME NEW r, r.oldest_index \in Offsets, NEW k \in 0 .. wnd_size
  PROVE  BucketAt(r, k) \in Offsets
<1> DEFINE i == r.oldest_index
           R == wnd_size
<1>0. i \in 0 .. R - 1 /\ R \in Nat \ {0} /\ k \in Nat /\ k <= R
  BY OffsetsFinite DEF Offsets
<1>1. BucketAt(r, k) = IF i + k < R THEN i + k ELSE i + k - R
  BY BucketTurned
<1> HIDE DEF i, R
<1>2. BucketAt(r, k) \in 0 .. R - 1
  BY <1>0, <1>1
<1> QED BY <1>2 DEF R, Offsets

(* Two offsets have two buckets.                                            *)
LEMMA BucketsApart ==
  ASSUME NEW r, r.oldest_index \in Offsets, NEW k \in Offsets, NEW m \in Offsets, BucketAt(r, k) = BucketAt(r, m)
  PROVE  k = m
<1> DEFINE i == r.oldest_index
           R == wnd_size
<1>0. i \in 0 .. R - 1 /\ R \in Nat \ {0} /\ k \in 0 .. R - 1 /\ m \in 0 .. R - 1
  BY OffsetsFinite DEF Offsets
<1>1. BucketAt(r, k) = IF i + k < R THEN i + k ELSE i + k - R
  BY <1>0, BucketTurned
<1>2. BucketAt(r, m) = IF i + m < R THEN i + m ELSE i + m - R
  BY <1>0, BucketTurned
<1>3. BucketAt(r, k) = BucketAt(r, m)
  OBVIOUS
<1> HIDE DEF i, R
<1>4. (IF i + k < R THEN i + k ELSE i + k - R) = (IF i + m < R THEN i + m ELSE i + m - R)
  BY <1>1, <1>2, <1>3
<1> QED BY <1>0, <1>4

(* Turned on by n, the ring has at an offset what it had n further.         *)
LEMMA BucketFurther ==
  ASSUME NEW r, r.oldest_index \in Offsets, NEW n \in 0 .. wnd_size, NEW e, e.oldest_index = BucketAt(r, n),
         NEW k \in Offsets
  PROVE  BucketAt(e, k) = IF k + n < wnd_size THEN BucketAt(r, k + n) ELSE BucketAt(r, k + n - wnd_size)
<1> DEFINE i == r.oldest_index
           j == e.oldest_index
           R == wnd_size
<1>0. i \in 0 .. R - 1 /\ R \in Nat \ {0} /\ k \in 0 .. R - 1 /\ n \in 0 .. R
  BY OffsetsFinite DEF Offsets
<1>1. j \in Offsets
  BY BucketIn
<1>2. BucketAt(e, k) = IF j + k < R THEN j + k ELSE j + k - R
  BY <1>0, <1>1, BucketTurned
<1>3. j = IF i + n < R THEN i + n ELSE i + n - R
  BY BucketTurned
<1>4. CASE k + n < R
  <2>1. k + n \in 0 .. wnd_size
    BY <1>0, <1>4
  <2>2. BucketAt(r, k + n) = IF i + (k + n) < R THEN i + (k + n) ELSE i + (k + n) - R
    BY <2>1, BucketTurned
  <2> HIDE DEF i, j, R
  <2>3. BucketAt(e, k) = BucketAt(r, k + n)
    BY <1>0, <1>2, <1>3, <1>4, <2>2
  <2> QED BY <1>4, <2>3 DEF R
<1>5. CASE ~(k + n < R)
  <2>1. k + n - wnd_size \in 0 .. wnd_size
    BY <1>0, <1>5
  <2>2. BucketAt(r, k + n - wnd_size) = IF i + (k + n - R) < R THEN i + (k + n - R) ELSE i + (k + n - R) - R
    BY <2>1, BucketTurned
  <2> HIDE DEF i, j, R
  <2>3. BucketAt(e, k) = BucketAt(r, k + n - wnd_size)
    BY <1>0, <1>2, <1>3, <1>5, <2>2
  <2> QED BY <1>5, <2>3 DEF R
<1> QED BY <1>4, <1>5

(* What the ring holds at an offset.                                        *)
LEMMA HeldNat ==
  ASSUME NEW r \in Rates, NEW k \in Offsets
  PROVE  /\ Held(r)[k] \in Nat /\ Held(r)[k] = r.buckets[BucketAt(r, k)].sum
         /\ SamplesHeld(r)[k] \in Nat /\ SamplesHeld(r)[k] = r.buckets[BucketAt(r, k)].sample
         /\ SamplesHeld(r)[k] = 0 => Held(r)[k] = 0
         /\ BucketAt(r, k) \in Offsets
<1>1. k \in 0 .. wnd_size /\ r.oldest_index \in Offsets
  BY OffsetsFinite DEF Rates, Offsets
<1>2. BucketAt(r, k) \in Offsets
  BY <1>1, BucketIn
<1>3. r.buckets[BucketAt(r, k)] \in Bucket
  BY <1>2 DEF Rates, Buckets
<1>4. Held(r)[k] = r.buckets[BucketAt(r, k)].sum /\ SamplesHeld(r)[k] = r.buckets[BucketAt(r, k)].sample
  BY DEF Held, SamplesHeld
<1> QED BY <1>2, <1>3, <1>4 DEF Bucket

(* The sums the loop takes off are the sums of the first offsets.           *)
LEMMA SumIs ==
  ASSUME NEW r, NEW n \in 0 .. wnd_size
  PROVE  SumOf(r, n) = Total(Held(r), 0 .. n - 1) /\ SampleOf(r, n) = Total(SamplesHeld(r), 0 .. n - 1)
<1> DEFINE f == [i \in 0 .. n - 1 |-> r.buckets[BucketAt(r, i)].sum]
           g == [i \in 0 .. n - 1 |-> r.buckets[BucketAt(r, i)].sample]
<1>0. n \in Nat /\ wnd_size \in Nat /\ n <= wnd_size /\ 0 .. n - 1 \subseteq Offsets /\ IsFiniteSet(0 .. n - 1)
  <2>1. n \in Nat /\ n - 1 \in Int /\ wnd_size \in Nat /\ n <= wnd_size
    BY OffsetsFinite
  <2> QED BY <2>1, FS_Interval DEF Offsets
<1>1. \A i \in 0 .. n - 1 : f[i] = Held(r)[i]
  BY <1>0 DEF Held
<1>2. \A i \in 0 .. n - 1 : g[i] = SamplesHeld(r)[i]
  BY <1>0 DEF SamplesHeld
<1>3. SumOf(r, n) = SumFunctionOnSet(f, 0 .. n - 1) /\ SampleOf(r, n) = SumFunctionOnSet(g, 0 .. n - 1)
  <2>1. DOMAIN f = 0 .. n - 1 /\ DOMAIN g = 0 .. n - 1
    OBVIOUS
  <2>2. SumOf(r, n) = SumFunction(f) /\ SampleOf(r, n) = SumFunction(g)
    BY DEF SumOf, SampleOf
  <2> HIDE DEF f, g
  <2>3. SumFunction(f) = SumFunctionOnSet(f, DOMAIN f) /\ SumFunction(g) = SumFunctionOnSet(g, DOMAIN g)
    BY DEF SumFunction
  <2> QED BY <2>1, <2>2, <2>3
<1> HIDE DEF f, g
<1>4. SumFunctionOnSet(f, 0 .. n - 1) = Total(f, 0 .. n - 1) /\ SumFunctionOnSet(g, 0 .. n - 1) = Total(g, 0 .. n - 1)
  BY <1>0, SumIsTotal
<1>5. Total(f, 0 .. n - 1) = Total(Held(r), 0 .. n - 1)
  BY <1>0, <1>1, TotalSame
<1>6. Total(g, 0 .. n - 1) = Total(SamplesHeld(r), 0 .. n - 1)
  BY <1>0, <1>2, TotalSame
<1> QED BY <1>3, <1>4, <1>5, <1>6

(* How far the loop goes: to the new window, or until nothing is left.      *)
LEMMA OutdatedIs ==
  ASSUME NEW r, RateFits(r), NEW from \in Nat, r.oldest_ts \in Nat, from > r.oldest_ts
  PROVE  LET n == Outdated(r, from)
             d == from - r.oldest_ts
         IN  n \in 0 .. wnd_size /\ n <= d /\ (n = d \/ Total(SamplesHeld(r), 0 .. n - 1) = Total(SamplesHeld(r), Offsets))
<1> DEFINE d == from - r.oldest_ts
           m == Min({d, wnd_size})
           T == {n \in 0 .. m : n = d \/ SampleOf(r, n) = r.sample_num}
<1>1. d \in Nat /\ wnd_size \in Nat /\ r \in Rates
  BY OffsetsFinite DEF RateFits
<1>2. m \in {d, wnd_size} /\ m <= d /\ m <= wnd_size
  <2>1. {d, wnd_size} \subseteq Nat /\ {d, wnd_size} # {}
    BY <1>1
  <2> HIDE DEF d
  <2> QED BY <2>1, LeastExists
<1>3. \A n \in 0 .. m : n \in 0 .. wnd_size /\ n <= d
  <2> HIDE DEF d, m
  <2> QED BY <1>1, <1>2
<1>4. \A n \in 0 .. m : SampleOf(r, n) = Total(SamplesHeld(r), 0 .. n - 1)
  BY <1>1, <1>3, SumIs
<1>5. m \in T
  <2>1. m \in 0 .. m
    <3> HIDE DEF d, m
    <3> QED BY <1>1, <1>2
  <2>2. CASE m = d
    BY <2>1, <2>2
  <2>3. CASE m = wnd_size
    <3>1. SampleOf(r, m) = Total(SamplesHeld(r), Offsets)
      BY <1>4, <2>1, <2>3 DEF Offsets
    <3>2. SampleOf(r, m) = r.sample_num
      BY <3>1 DEF RateFits
    <3> QED BY <2>1, <3>2
  <2> QED BY <1>2, <2>2, <2>3
<1>6. T \subseteq Nat /\ T # {}
  BY <1>5
<1>7. Outdated(r, from) = Min(T)
  BY DEF Outdated
<1>8. Min(T) \in T
  <2> HIDE DEF T
  <2> QED BY <1>6, LeastExists
<1>9. r.sample_num = Total(SamplesHeld(r), Offsets)
  BY DEF RateFits
<1> DEFINE n == Outdated(r, from)
<1>10. n \in 0 .. m /\ (n = d \/ SampleOf(r, n) = r.sample_num)
  BY <1>7, <1>8
<1> HIDE DEF n, m
<1>11. n \in 0 .. wnd_size /\ n <= d /\ (n = d \/ Total(SamplesHeld(r), 0 .. n - 1) = Total(SamplesHeld(r), Offsets))
  BY <1>3, <1>4, <1>9, <1>10
<1> QED BY <1>11 DEF n

(* Emptied of its n oldest buckets and turned on by as many, the ring holds *)
(* what it held n further, and nothing beyond.                              *)
Emptied(r, n, ts) ==
  [oldest_ts         |-> ts,
   oldest_index      |-> BucketAt(r, n),
   accumulated_count |-> r.accumulated_count - SumOf(r, n),
   sample_num        |-> r.sample_num - SampleOf(r, n),
   buckets |-> [i \in 0 .. wnd_size - 1 |->
                  IF \E k \in 0 .. n - 1 : i = BucketAt(r, k) THEN [sum |-> 0, sample |-> 0] ELSE r.buckets[i]]]

LEMMA EmptiedHolds ==
  ASSUME NEW r \in Rates, NEW n \in 0 .. wnd_size, NEW ts
  PROVE  /\ Emptied(r, n, ts).buckets \in Buckets
         /\ Emptied(r, n, ts).oldest_index \in Offsets
         /\ \A k \in Offsets : Held(Emptied(r, n, ts))[k] = IF k + n < wnd_size THEN Held(r)[k + n] ELSE 0
         /\ \A k \in Offsets : SamplesHeld(Emptied(r, n, ts))[k] = IF k + n < wnd_size THEN SamplesHeld(r)[k + n] ELSE 0
<1> DEFINE e == Emptied(r, n, ts)
           empty == [sum |-> 0, sample |-> 0]
           Out(i) == \E k \in 0 .. n - 1 : i = BucketAt(r, k)
<1>0. wnd_size \in Nat /\ wnd_size > 1 /\ n \in Nat /\ n <= wnd_size /\ r.oldest_index \in Offsets /\ r.buckets \in Buckets
  BY OffsetsFinite DEF Rates
<1>1. e.buckets = [i \in Offsets |-> IF Out(i) THEN empty ELSE r.buckets[i]] /\ e.oldest_index = BucketAt(r, n)
  BY DEF Emptied, Offsets
<1>2. e.oldest_index \in Offsets
  BY <1>0, <1>1, BucketIn
<1>3. e.buckets \in Buckets
  <2>1. empty \in Bucket
    BY DEF Bucket
  <2> HIDE DEF e, empty, Out
  <2> QED BY <1>0, <1>1, <2>1 DEF Buckets
<1>4. ASSUME NEW k \in Offsets
      PROVE  /\ Held(e)[k] = IF k + n < wnd_size THEN Held(r)[k + n] ELSE 0
             /\ SamplesHeld(e)[k] = IF k + n < wnd_size THEN SamplesHeld(r)[k + n] ELSE 0
  <2>0. k \in Nat /\ k < wnd_size
    BY <1>0 DEF Offsets
  <2>1. Held(e)[k] = e.buckets[BucketAt(e, k)].sum /\ SamplesHeld(e)[k] = e.buckets[BucketAt(e, k)].sample
    BY DEF Held, SamplesHeld
  <2>2. BucketAt(e, k) = IF k + n < wnd_size THEN BucketAt(r, k + n) ELSE BucketAt(r, k + n - wnd_size)
    <3> HIDE DEF e
    <3> QED BY <1>0, <1>1, BucketFurther
  <2>3. CASE k + n < wnd_size
    <3>1. k + n \in Offsets /\ k + n \in 0 .. wnd_size
      BY <1>0, <2>0, <2>3 DEF Offsets
    <3>2. BucketAt(r, k + n) \in Offsets
      BY <1>0, <3>1, BucketIn
    <3>3. ~Out(BucketAt(r, k + n))
      <4>1. ASSUME NEW m \in 0 .. n - 1, BucketAt(r, k + n) = BucketAt(r, m) PROVE FALSE
        <5>1. m \in Offsets /\ m # k + n
          BY <1>0, <2>0 DEF Offsets
        <5> QED BY <1>0, <3>1, <4>1, <5>1, BucketsApart
      <4> QED BY <4>1
    <3>4. e.buckets[BucketAt(r, k + n)] = r.buckets[BucketAt(r, k + n)]
      <4> HIDE DEF e, Out, empty
      <4> QED BY <1>1, <3>2, <3>3
    <3>5. Held(r)[k + n] = r.buckets[BucketAt(r, k + n)].sum /\ SamplesHeld(r)[k + n] = r.buckets[BucketAt(r, k + n)].sample
      BY <3>1 DEF Held, SamplesHeld
    <3> HIDE DEF e
    <3> QED BY <2>1, <2>2, <2>3, <3>4, <3>5
  <2>4. CASE ~(k + n < wnd_size)
    <3>1. k + n - wnd_size \in 0 .. n - 1 /\ k + n - wnd_size \in 0 .. wnd_size
      BY <1>0, <2>0, <2>4
    <3>2. BucketAt(r, k + n - wnd_size) \in Offsets
      BY <1>0, <3>1, BucketIn
    <3>3. Out(BucketAt(r, k + n - wnd_size))
      BY <3>1
    <3>4. e.buckets[BucketAt(r, k + n - wnd_size)] = empty
      <4> HIDE DEF e, Out, empty
      <4> QED BY <1>1, <3>2, <3>3
    <3>5. Held(e)[k] = empty.sum /\ SamplesHeld(e)[k] = empty.sample
      <4> HIDE DEF e, empty
      <4> QED BY <2>1, <2>2, <2>4, <3>4
    <3> QED BY <2>4, <3>5
  <2> QED BY <2>3, <2>4
<1> QED BY <1>2, <1>3, <1>4

(* The sum over such a ring.                                                *)
LEMMA TotalFurther ==
  ASSUME NEW f, NEW g, NEW n \in 0 .. wnd_size, \A k \in Offsets : f[k] \in Nat,
         \A k \in Offsets : g[k] = IF k + n < wnd_size THEN f[k + n] ELSE 0
  PROVE  /\ Total(g, Offsets) = Total(f, Offsets) - Total(f, 0 .. n - 1) /\ Total(g, Offsets) \in Nat
         /\ Total(f, 0 .. n - 1) = Total(f, Offsets) => \A k \in Offsets : k >= n => f[k] = 0
<1> DEFINE A == 0 .. n - 1
           B == n .. wnd_size - 1
           C == 0 .. wnd_size - n - 1
           D == wnd_size - n .. wnd_size - 1
           h == [k \in C |-> k + n]
<1>0. wnd_size \in Nat /\ n \in Nat /\ n <= wnd_size
  BY OffsetsFinite
<1>1. /\ A \subseteq Offsets /\ B = Offsets \ A /\ C \subseteq Offsets /\ D = Offsets \ C
      /\ IsFiniteSet(A) /\ IsFiniteSet(B) /\ IsFiniteSet(C) /\ IsFiniteSet(D) /\ IsFiniteSet(Offsets)
  <2>1. A \subseteq Offsets /\ B = Offsets \ A
    BY <1>0 DEF Offsets
  <2>2. C \subseteq Offsets /\ D = Offsets \ C
    BY <1>0 DEF Offsets
  <2> HIDE DEF A, B, C, D
  <2> QED BY <2>1, <2>2, OffsetsFinite, FS_Subset
<1>2. \A k \in Offsets : f[k] \in Nat
  OBVIOUS
<1>3. \A k \in Offsets : g[k] = IF k + n < wnd_size THEN f[k + n] ELSE 0
  OBVIOUS
<1>4. \A k \in C : k \in Offsets /\ k + n \in B /\ k + n \in Offsets /\ h[k] = k + n /\ k + n < wnd_size
  BY <1>0 DEF Offsets
<1>5. \A k \in D : k \in Offsets /\ ~(k + n < wnd_size)
  BY <1>0 DEF Offsets
<1>6. B = {h[k] : k \in C}
  <2>1. ASSUME NEW b \in B PROVE \E k \in C : b = h[k]
    <3>1. b - n \in C /\ (b - n) + n = b
      BY <1>0
    <3> QED BY <3>1
  <2> QED BY <1>4, <2>1
<1>7. \A k, m \in C : h[k] = h[m] => k = m
  BY <1>0
<1> HIDE DEF A, B, C, D, h
<1>8. \A k \in Offsets : g[k] \in Nat
  <2>1. ASSUME NEW k \in Offsets PROVE g[k] \in Nat
    <3>1. CASE k + n < wnd_size
      <4>1. k + n \in Offsets
        BY <1>0, <3>1 DEF Offsets
      <4> QED BY <1>2, <1>3, <3>1, <4>1
    <3>2. CASE ~(k + n < wnd_size)
      BY <1>3, <3>2
    <3> QED BY <3>1, <3>2
  <2> QED BY <2>1
<1>9. Total(f, Offsets) = Total(f, A) + Total(f, B)
  BY <1>1, <1>2, TotalSplit
<1>10. Total(g, Offsets) = Total(g, C) + Total(g, D)
  BY <1>1, <1>8, TotalSplit
<1>11. Total(g, D) = 0
  <2>1. \A k \in D : g[k] = 0 /\ g[k] \in Nat
    BY <1>3, <1>5, <1>8
  <2> QED BY <1>1, <2>1, TotalZero
<1>12. Total(g, C) = Total(f, B)
  <2> DEFINE from == g
             to == f
  <2>1. \A k \in C : from[k] \in Int /\ to[h[k]] = from[k]
    BY <1>3, <1>4, <1>8
  <2> HIDE DEF from, to
  <2>2. Total(from, C) = Total(to, B)
    BY <1>1, <1>6, <1>7, <2>1, TotalMoved
  <2> QED BY <2>2 DEF from, to
<1>13. Total(f, A) \in Nat /\ Total(f, B) \in Nat /\ Total(g, C) \in Nat
  BY <1>1, <1>2, <1>8, TotalNat
<1>14. Total(g, Offsets) = Total(f, Offsets) - Total(f, A) /\ Total(g, Offsets) \in Nat
  BY <1>9, <1>10, <1>11, <1>12, <1>13
<1>15. ASSUME Total(f, A) = Total(f, Offsets), NEW k \in Offsets, k >= n PROVE f[k] = 0
  <2>1. Total(f, B) = 0
    BY <1>9, <1>13, <1>15
  <2>2. k \in B
    BY <1>0, <1>15 DEF B, Offsets
  <2>3. \A b \in B : f[b] \in Nat
    BY <1>1, <1>2
  <2> QED BY <1>1, <2>1, <2>2, <2>3, TotalZero
<1> QED BY <1>14, <1>15 DEF A

(* What the loop empties leaves the counts exact; where it stops early,     *)
(* nothing was left.                                                        *)
LEMMA EmptiedFits ==
  ASSUME NEW r, RateFits(r), NEW n \in 0 .. wnd_size, NEW ts \in Nat
  PROVE  /\ RateFits(Emptied(r, n, ts))
         /\ Total(SamplesHeld(r), 0 .. n - 1) = Total(SamplesHeld(r), Offsets) => \A k \in Offsets : k >= n => Held(r)[k] = 0
<1> DEFINE e == Emptied(r, n, ts)
<1>1. r \in Rates /\ \A k \in Offsets : Held(r)[k] \in Nat /\ SamplesHeld(r)[k] \in Nat /\ (SamplesHeld(r)[k] = 0 => Held(r)[k] = 0)
  BY HeldNat DEF RateFits
<1>2. /\ e.buckets \in Buckets /\ e.oldest_index \in Offsets
      /\ \A k \in Offsets : Held(e)[k] = IF k + n < wnd_size THEN Held(r)[k + n] ELSE 0
      /\ \A k \in Offsets : SamplesHeld(e)[k] = IF k + n < wnd_size THEN SamplesHeld(r)[k + n] ELSE 0
  BY <1>1, EmptiedHolds
<1>3. /\ e.accumulated_count = r.accumulated_count - SumOf(r, n) /\ e.sample_num = r.sample_num - SampleOf(r, n)
      /\ e.oldest_ts = ts
      /\ e = [oldest_ts |-> ts, oldest_index |-> e.oldest_index, accumulated_count |-> e.accumulated_count,
              sample_num |-> e.sample_num, buckets |-> e.buckets]
  BY DEF Emptied
<1> HIDE DEF e
<1>4. Total(Held(e), Offsets) = Total(Held(r), Offsets) - Total(Held(r), 0 .. n - 1) /\ Total(Held(e), Offsets) \in Nat
  BY <1>1, <1>2, TotalFurther
<1>5. /\ Total(SamplesHeld(e), Offsets) = Total(SamplesHeld(r), Offsets) - Total(SamplesHeld(r), 0 .. n - 1) /\ Total(SamplesHeld(e), Offsets) \in Nat
      /\ Total(SamplesHeld(r), 0 .. n - 1) = Total(SamplesHeld(r), Offsets) => \A k \in Offsets : k >= n => SamplesHeld(r)[k] = 0
  BY <1>1, <1>2, TotalFurther
<1>6. e.accumulated_count = Total(Held(e), Offsets) /\ e.sample_num = Total(SamplesHeld(e), Offsets)
  BY <1>3, <1>4, <1>5, SumIs DEF RateFits
<1>7. e \in Rates
  <2>1. e.accumulated_count \in Nat /\ e.sample_num \in Nat
    BY <1>4, <1>5, <1>6
  <2> QED BY <1>2, <1>3, <2>1 DEF Rates
<1>8. RateFits(e)
  BY <1>3, <1>6, <1>7 DEF RateFits
<1> QED BY <1>1, <1>5, <1>8 DEF e

(* What the ring tells of the bytes that came by their times, as far back   *)
(* as the window: a bucket has those of its time, and no other came.        *)
Tells(r, now, b) ==
  \A t \in 0 .. LastTime :
    b[t] = IF t > now - wnd_size /\ r.oldest_ts # -1 /\ t - r.oldest_ts \in Offsets THEN Held(r)[t - r.oldest_ts] ELSE 0

(* Erased by rate_stat_erase, the ring tells the same.                      *)
LEMMA ErasedFits ==
  ASSUME NEW r, RateFits(r), NEW now \in Nat, r.oldest_ts <= now
  PROVE  LET e == rate_stat_erase(r, now)
         IN  /\ RateFits(e) /\ e.oldest_ts <= now
             /\ e.oldest_ts = -1 \/ e.oldest_ts > now - wnd_size
             /\ \A b : Tells(r, now, b) => Tells(e, now, b)
<1> DEFINE e == rate_stat_erase(r, now)
           from == now - wnd_size + 1
           n == Outdated(r, from)
           d == from - r.oldest_ts
<1>0. wnd_size \in Nat /\ wnd_size > 1 /\ r \in Rates /\ r.oldest_ts \in Nat \cup {-1}
  BY OffsetsFinite DEF RateFits, Rates
<1>1. CASE r.oldest_ts = -1 \/ from <= r.oldest_ts
  <2>1. e = r
    BY <1>1 DEF rate_stat_erase
  <2>2. r.oldest_ts = -1 \/ r.oldest_ts > now - wnd_size
    BY <1>0, <1>1
  <2> QED BY <2>1, <2>2
<1>2. CASE ~(r.oldest_ts = -1 \/ from <= r.oldest_ts)
  <2>1. e = Emptied(r, n, from)
    BY <1>2 DEF rate_stat_erase, Emptied
  <2>2. r.oldest_ts \in Nat /\ from \in Nat /\ from > r.oldest_ts /\ d \in Nat /\ d > 0
    BY <1>0, <1>2
  <2>3. n \in 0 .. wnd_size /\ n <= d /\ (n = d \/ Total(SamplesHeld(r), 0 .. n - 1) = Total(SamplesHeld(r), Offsets))
    <3> HIDE DEF from
    <3> QED BY <2>2, OutdatedIs
  <2>4. e.oldest_ts = from
    BY <2>1 DEF Emptied
  <2>5. \A k \in Offsets : Held(e)[k] = IF k + n < wnd_size THEN Held(r)[k + n] ELSE 0
    BY <1>0, <2>1, <2>3, EmptiedHolds
  <2>6. RateFits(e) /\ (n # d => \A k \in Offsets : k >= n => Held(r)[k] = 0)
    BY <2>1, <2>2, <2>3, EmptiedFits
  <2>7. from <= now /\ from > now - wnd_size
    BY <1>0
  <2>8. ASSUME NEW b, Tells(r, now, b), NEW t \in 0 .. LastTime
        PROVE  b[t] = IF t > now - wnd_size /\ e.oldest_ts # -1 /\ t - e.oldest_ts \in Offsets THEN Held(e)[t - e.oldest_ts] ELSE 0
    <3>1. b[t] = IF t > now - wnd_size /\ r.oldest_ts # -1 /\ t - r.oldest_ts \in Offsets THEN Held(r)[t - r.oldest_ts] ELSE 0
      BY <2>8 DEF Tells
    <3>2. t \in Nat
      OBVIOUS
    <3>3. CASE ~(t > now - wnd_size)
      BY <3>1, <3>3
    <3>4. CASE t > now - wnd_size
      <4> DEFINE k == t - from
      <4>1. k \in Nat /\ t - r.oldest_ts = k + d /\ k + d \in Nat
        BY <1>0, <2>2, <3>2, <3>4
      <4>2. b[t] = IF k + d \in Offsets THEN Held(r)[k + d] ELSE 0
        BY <2>2, <3>1, <3>4, <4>1
      <4>3. e.oldest_ts # -1 /\ t - e.oldest_ts = k
        BY <2>2, <2>4
      <4> HIDE DEF k, d, from, n
      <4>4. k + d \in Offsets <=> k + d < wnd_size
        BY <1>0, <4>1 DEF Offsets
      <4>5. CASE k \notin Offsets
        <5>1. k + d \notin Offsets
          BY <1>0, <2>2, <4>1, <4>5 DEF Offsets
        <5> QED BY <4>2, <4>3, <4>5, <5>1
      <4>6. CASE k \in Offsets
        <5>1. Held(e)[k] = IF k + n < wnd_size THEN Held(r)[k + n] ELSE 0
          BY <2>5, <4>6
        <5>2. CASE n = d
          <6>1. Held(e)[k] = b[t]
            BY <4>2, <4>4, <5>1, <5>2
          <6> QED BY <3>4, <4>3, <4>6, <6>1
        <5>3. CASE n # d
          <6>1. n \in Nat /\ n <= d
            BY <2>3
          <6>2. Held(e)[k] = 0
            <7>1. CASE k + n < wnd_size
              <8>1. k + n \in Offsets /\ k + n >= n
                BY <1>0, <4>1, <6>1, <7>1 DEF Offsets
              <8> QED BY <2>6, <5>1, <5>3, <7>1, <8>1
            <7> QED BY <5>1, <7>1
          <6>3. b[t] = 0
            <7>1. CASE k + d \in Offsets
              <8>1. k + d >= n
                BY <2>2, <4>1, <6>1
              <8> QED BY <2>6, <4>2, <5>3, <7>1, <8>1
            <7> QED BY <4>2, <7>1
          <6> QED BY <3>4, <4>3, <4>6, <6>2, <6>3
        <5> QED BY <5>2, <5>3
      <4> QED BY <4>5, <4>6
    <3> QED BY <3>3, <3>4
  <2> HIDE DEF e, from
  <2>9. \A b : Tells(r, now, b) => Tells(e, now, b)
    BY <2>8 DEF Tells
  <2> QED BY <2>4, <2>6, <2>7, <2>9 DEF e
<1> QED BY <1>1, <1>2

(* The first packet opens the window; each adds to the bucket of its time.  *)
LEMMA OpenedFits ==
  ASSUME NEW e, RateFits(e), NEW now \in 0 .. LastTime, e.oldest_ts <= now, e.oldest_ts = -1 \/ e.oldest_ts > now - wnd_size
  PROVE  LET o == IF e.oldest_ts = -1 THEN [e EXCEPT !.oldest_ts = now] ELSE e
         IN  /\ RateFits(o) /\ o.oldest_ts \in Nat /\ now - o.oldest_ts \in Offsets
             /\ \A b : Tells(e, now, b) => Tells(o, now, b)
<1> DEFINE o == IF e.oldest_ts = -1 THEN [e EXCEPT !.oldest_ts = now] ELSE e
<1>0. wnd_size \in Nat /\ wnd_size > 1 /\ e \in Rates /\ e.oldest_ts \in Nat \cup {-1} /\ now \in Nat
  BY OffsetsFinite DEF RateFits, Rates
<1>1. CASE e.oldest_ts # -1
  <2>1. o = e /\ e.oldest_ts \in Nat
    BY <1>0, <1>1
  <2>2. now - e.oldest_ts \in Offsets
    BY <1>0, <1>1, <2>1 DEF Offsets
  <2> QED BY <2>1, <2>2
<1>2. CASE e.oldest_ts = -1
  <2>1. o = [e EXCEPT !.oldest_ts = now]
    BY <1>2
  <2>2. /\ o.oldest_ts = now /\ o.oldest_index = e.oldest_index /\ o.buckets = e.buckets
        /\ o.accumulated_count = e.accumulated_count /\ o.sample_num = e.sample_num /\ o \in Rates
    BY <1>0, <2>1 DEF Rates
  <2> HIDE DEF o
  <2>3. Held(o) = Held(e) /\ SamplesHeld(o) = SamplesHeld(e)
    BY <2>2 DEF Held, SamplesHeld, BucketAt
  <2>4. RateFits(o)
    BY <1>0, <2>2, <2>3 DEF RateFits
  <2>5. now - o.oldest_ts \in Offsets
    BY <1>0, <2>2 DEF Offsets
  <2>6. \A k \in Offsets : Held(o)[k] = 0
    <3>1. Total(SamplesHeld(e), Offsets) = 0
      BY <1>2 DEF RateFits
    <3>2. \A k \in Offsets : SamplesHeld(e)[k] \in Nat /\ (SamplesHeld(e)[k] = 0 => Held(e)[k] = 0)
      BY <1>0, HeldNat
    <3>3. \A k \in Offsets : SamplesHeld(e)[k] = 0
      BY <3>1, <3>2, OffsetsFinite, TotalZero
    <3> QED BY <2>3, <3>2, <3>3
  <2>7. \A b : Tells(e, now, b) => Tells(o, now, b)
    BY <1>2, <2>6 DEF Tells
  <2> QED BY <1>0, <2>2, <2>4, <2>5, <2>7 DEF o
<1> QED BY <1>1, <1>2

(* A packet of c bytes counted at offset k.                                 *)
Counted(o, c, k) ==
  [o EXCEPT !.sample_num = o.sample_num + 1, !.accumulated_count = o.accumulated_count + c,
            !.buckets[BucketAt(o, k)] = [sum |-> o.buckets[BucketAt(o, k)].sum + c, sample |-> o.buckets[BucketAt(o, k)].sample + 1]]

(* Two functions of the offsets, g being f with c more at k.                *)
RaisedAt(f, g, k, c) ==
  \A m \in Offsets : f[m] \in Nat /\ g[m] = IF m = k THEN f[k] + c ELSE f[m]

LEMMA TotalRaised ==
  ASSUME NEW f, NEW g, NEW k \in Offsets, NEW c \in Nat, RaisedAt(f, g, k, c)
  PROVE  Total(g, Offsets) = Total(f, Offsets) + c
<1>assumed. \A m \in Offsets : f[m] \in Nat /\ g[m] = IF m = k THEN f[k] + c ELSE f[m]
  BY DEF RaisedAt
<1>0. IsFiniteSet(Offsets) /\ IsFiniteSet(Offsets \ {k})
  BY OffsetsFinite, FS_Subset
<1>1. \A m \in Offsets : f[m] \in Nat /\ g[m] \in Nat
  BY <1>assumed
<1>2. Total(f, Offsets) = f[k] + Total(f, Offsets \ {k})
  BY <1>0, <1>1, TotalWithout
<1>3. Total(g, Offsets) = g[k] + Total(g, Offsets \ {k})
  BY <1>0, <1>1, TotalWithout
<1>4. Total(g, Offsets \ {k}) = Total(f, Offsets \ {k})
  <2>1. \A m \in Offsets \ {k} : g[m] = f[m]
    BY <1>assumed
  <2> QED BY <1>0, <2>1, TotalSame
<1>5. Total(f, Offsets \ {k}) \in Nat
  BY <1>0, <1>1, TotalNat
<1>6. g[k] = f[k] + c /\ f[k] \in Nat
  BY <1>assumed
<1> QED BY <1>2, <1>3, <1>4, <1>5, <1>6

LEMMA CountedHolds ==
  ASSUME NEW o, RateFits(o), o.oldest_ts \in Nat, NEW c \in Nat, NEW k \in Offsets
  PROVE  /\ RateFits(Counted(o, c, k)) /\ Counted(o, c, k).oldest_ts = o.oldest_ts
         /\ \A m \in Offsets : Held(Counted(o, c, k))[m] = IF m = k THEN Held(o)[k] + c ELSE Held(o)[m]
<1> DEFINE u == Counted(o, c, k)
           i == BucketAt(o, k)
           one == [sum |-> o.buckets[i].sum + c, sample |-> o.buckets[i].sample + 1]
<1>0. o \in Rates /\ o.oldest_index \in Offsets /\ o.buckets \in Buckets /\ o.accumulated_count \in Nat /\ o.sample_num \in Nat
  BY DEF RateFits, Rates
<1>1. i \in Offsets /\ Held(o)[k] = o.buckets[i].sum /\ Held(o)[k] \in Nat /\ SamplesHeld(o)[k] = o.buckets[i].sample /\ SamplesHeld(o)[k] \in Nat
  BY <1>0, HeldNat
<1>2. one \in Bucket /\ one.sum = Held(o)[k] + c /\ one.sample = SamplesHeld(o)[k] + 1
  BY <1>1 DEF Bucket
<1>3. u = [o EXCEPT !.sample_num = o.sample_num + 1, !.accumulated_count = o.accumulated_count + c, !.buckets = [o.buckets EXCEPT ![i] = one]]
  BY <1>0 DEF Counted, Rates
<1> HIDE DEF u, i, one
<1>4. /\ u.oldest_ts = o.oldest_ts /\ u.oldest_index = o.oldest_index /\ u.buckets = [o.buckets EXCEPT ![i] = one]
      /\ u.accumulated_count = o.accumulated_count + c /\ u.sample_num = o.sample_num + 1
  BY <1>0, <1>3 DEF Rates
<1>5. u.buckets \in Buckets
  BY <1>0, <1>1, <1>2, <1>4 DEF Buckets
<1>6. u \in Rates
  <2>1. u = [oldest_ts |-> u.oldest_ts, oldest_index |-> u.oldest_index, accumulated_count |-> u.accumulated_count, sample_num |-> u.sample_num, buckets |-> u.buckets]
    BY <1>0, <1>3 DEF Rates
  <2>2. u.oldest_ts \in Nat \cup {-1} /\ u.oldest_index \in Offsets /\ u.accumulated_count \in Nat /\ u.sample_num \in Nat
    BY <1>0, <1>4
  <2> QED BY <1>5, <2>1, <2>2 DEF Rates
<1>7. ASSUME NEW m \in Offsets
      PROVE  /\ Held(u)[m] = IF m = k THEN Held(o)[k] + c ELSE Held(o)[m]
             /\ SamplesHeld(u)[m] = IF m = k THEN SamplesHeld(o)[k] + 1 ELSE SamplesHeld(o)[m]
  <2>1. Held(u)[m] = u.buckets[BucketAt(o, m)].sum /\ SamplesHeld(u)[m] = u.buckets[BucketAt(o, m)].sample
    BY <1>4 DEF Held, SamplesHeld, BucketAt
  <2>2. BucketAt(o, m) \in Offsets /\ Held(o)[m] = o.buckets[BucketAt(o, m)].sum /\ SamplesHeld(o)[m] = o.buckets[BucketAt(o, m)].sample
    BY <1>0, HeldNat
  <2>3. CASE m = k
    <3>1. u.buckets[i] = one
      BY <1>0, <1>1, <1>4 DEF Buckets
    <3> QED BY <1>2, <2>1, <2>3, <3>1 DEF i
  <2>4. CASE m # k
    <3>1. BucketAt(o, m) # i
      BY <1>0, <2>4, BucketsApart DEF i
    <3>2. u.buckets[BucketAt(o, m)] = o.buckets[BucketAt(o, m)]
      BY <1>0, <1>4, <2>2, <3>1 DEF Buckets
    <3> QED BY <2>1, <2>2, <2>4, <3>2
  <2> QED BY <2>3, <2>4
<1>8. \A m \in Offsets : Held(o)[m] \in Nat /\ SamplesHeld(o)[m] \in Nat
  BY <1>0, HeldNat
<1>9. Total(Held(u), Offsets) = Total(Held(o), Offsets) + c
  <2> DEFINE f == Held(o)
             g == Held(u)
  <2>1. \A m \in Offsets : f[m] \in Nat
    BY <1>8
  <2>2. \A m \in Offsets : g[m] = IF m = k THEN f[k] + c ELSE f[m]
    BY <1>7
  <2> HIDE DEF f, g
  <2>3. RaisedAt(f, g, k, c)
    BY <2>1, <2>2 DEF RaisedAt
  <2>4. Total(g, Offsets) = Total(f, Offsets) + c
    BY <2>3, TotalRaised
  <2> QED BY <2>4 DEF f, g
<1>10. Total(SamplesHeld(u), Offsets) = Total(SamplesHeld(o), Offsets) + 1
  <2> DEFINE f == SamplesHeld(o)
             g == SamplesHeld(u)
  <2>1. \A m \in Offsets : f[m] \in Nat
    BY <1>8
  <2>2. \A m \in Offsets : g[m] = IF m = k THEN f[k] + 1 ELSE f[m]
    BY <1>7
  <2> HIDE DEF f, g
  <2>3. RaisedAt(f, g, k, 1)
    BY <2>1, <2>2 DEF RaisedAt
  <2>4. Total(g, Offsets) = Total(f, Offsets) + 1
    BY <2>3, TotalRaised
  <2> QED BY <2>4 DEF f, g
<1>11. RateFits(u)
  <2>1. o.accumulated_count = Total(Held(o), Offsets) /\ o.sample_num = Total(SamplesHeld(o), Offsets)
    BY DEF RateFits
  <2>2. u.oldest_ts # -1
    BY <1>4
  <2> QED BY <1>4, <1>6, <1>9, <1>10, <2>1, <2>2 DEF RateFits
<1> QED BY <1>4, <1>7, <1>11 DEF u

(* rate_stat_update: the ring tells of the new packet as well.              *)
LEMMA UpdatedFits ==
  ASSUME NEW r, RateFits(r), NEW c \in Nat, NEW now \in 0 .. LastTime, r.oldest_ts <= now
  PROVE  LET u == rate_stat_update(r, c, now)
         IN  /\ RateFits(u) /\ u.oldest_ts <= now
             /\ \A b \in [0 .. LastTime -> Nat] : Tells(r, now, b) => Tells(u, now, [b EXCEPT ![now] = b[now] + c])
<1> DEFINE e == rate_stat_erase(r, now)
           o == IF e.oldest_ts = -1 THEN [e EXCEPT !.oldest_ts = now] ELSE e
           k == now - o.oldest_ts
           u == Counted(o, c, k)
<1>0. wnd_size \in Nat /\ wnd_size > 1 /\ now \in Nat /\ r.oldest_ts \in Int
  BY OffsetsFinite DEF RateFits, Rates
<1>1. /\ RateFits(e) /\ e.oldest_ts <= now
      /\ e.oldest_ts = -1 \/ e.oldest_ts > now - wnd_size
      /\ \A b : Tells(r, now, b) => Tells(e, now, b)
  BY <1>0, ErasedFits
<1>2. rate_stat_update(r, c, now) = u
  BY <1>0 DEF rate_stat_update, Counted
<1> HIDE DEF e
<1>3. /\ RateFits(o) /\ o.oldest_ts \in Nat /\ k \in Offsets
      /\ \A b : Tells(e, now, b) => Tells(o, now, b)
  BY <1>1, OpenedFits
<1> HIDE DEF o
<1>4. /\ RateFits(u) /\ u.oldest_ts = o.oldest_ts
      /\ \A m \in Offsets : Held(u)[m] = IF m = k THEN Held(o)[k] + c ELSE Held(o)[m]
  BY <1>3, CountedHolds
<1> HIDE DEF u
<1>5. o.oldest_ts <= now /\ o.oldest_ts # -1
  BY <1>0, <1>3 DEF Offsets
<1>6. ASSUME NEW b \in [0 .. LastTime -> Nat], Tells(r, now, b), NEW t \in 0 .. LastTime
      PROVE  [b EXCEPT ![now] = b[now] + c][t]
               = IF t > now - wnd_size /\ u.oldest_ts # -1 /\ t - u.oldest_ts \in Offsets THEN Held(u)[t - u.oldest_ts] ELSE 0
  <2>1. Tells(o, now, b)
    BY <1>1, <1>3, <1>6
  <2>2. b[t] = IF t > now - wnd_size /\ o.oldest_ts # -1 /\ t - o.oldest_ts \in Offsets THEN Held(o)[t - o.oldest_ts] ELSE 0
    BY <2>1 DEF Tells
  <2>3. CASE t = now
    <3>1. t > now - wnd_size /\ t - o.oldest_ts = k
      BY <1>0, <2>3
    <3>2. b[t] = Held(o)[k]
      BY <1>3, <1>5, <2>2, <3>1
    <3>3. [b EXCEPT ![now] = b[now] + c][t] = Held(o)[k] + c
      BY <2>3, <3>2
    <3>4. Held(u)[k] = Held(o)[k] + c
      BY <1>3, <1>4
    <3> HIDE DEF k
    <3> QED BY <1>3, <1>4, <1>5, <3>1, <3>3, <3>4
  <2>4. CASE t # now
    <3>1. [b EXCEPT ![now] = b[now] + c][t] = b[t]
      BY <2>4
    <3>2. t - o.oldest_ts # k
      BY <1>0, <1>3, <2>4
    <3>3. t - o.oldest_ts \in Offsets => Held(u)[t - o.oldest_ts] = Held(o)[t - o.oldest_ts]
      BY <1>4, <3>2
    <3> HIDE DEF k
    <3> QED BY <1>4, <2>2, <3>1, <3>3
  <2> QED BY <2>3, <2>4
<1>7. \A b \in [0 .. LastTime -> Nat] : Tells(r, now, b) => Tells(u, now, [b EXCEPT ![now] = b[now] + c])
  BY <1>6 DEF Tells
<1> QED BY <1>2, <1>4, <1>5, <1>7

(* What a report gives as rate are the bytes of the window.                 *)
LEMMA RatesTrue ==
  ASSUME NEW r, RateFits(r), NEW now \in 0 .. LastTime, r.oldest_ts <= now, NEW b \in [0 .. LastTime -> Nat], Tells(r, now, b),
         RateOf(rate_stat_erase(r, now), now) > 0
  PROVE  RateOf(rate_stat_erase(r, now), now) = SumFunctionOnSet(b, {t \in 0 .. now : t > now - wnd_size})
<1> DEFINE e == rate_stat_erase(r, now)
           from == now - wnd_size + 1
           T == {t \in 0 .. now : t > now - wnd_size}
           h == [k \in Offsets |-> from + k]
           f == Held(e)
<1>0. wnd_size \in Nat /\ wnd_size > 1 /\ now \in Nat /\ LastTime \in Nat /\ now <= LastTime
  BY OffsetsFinite, RembAssumption
<1>1. /\ RateFits(e) /\ e.oldest_ts <= now
      /\ e.oldest_ts = -1 \/ e.oldest_ts > now - wnd_size
      /\ Tells(e, now, b)
  BY <1>0, ErasedFits
<1> HIDE DEF e
<1>2. RateOf(e, now) = e.accumulated_count /\ e.sample_num # 0 /\ ~(now - e.oldest_ts + 1 < wnd_size)
  BY DEF RateOf, e
<1>3. e.oldest_ts \in Nat /\ e \in Rates
  BY <1>1, <1>2 DEF RateFits, Rates
<1>4. e.oldest_ts = from
  <2> DEFINE x == e.oldest_ts
  <2>1. x \in Nat /\ x > now - wnd_size /\ ~(now - x + 1 < wnd_size)
    BY <1>1, <1>2, <1>3
  <2> HIDE DEF x
  <2>2. x = from
    BY <1>0, <2>1
  <2> QED BY <2>2 DEF x
<1>5. \A k \in Offsets : h[k] = from + k /\ from + k \in T /\ from + k \in 0 .. LastTime /\ (from + k) - from = k
  BY <1>0, <1>3, <1>4 DEF Offsets
<1>6. T = {h[k] : k \in Offsets}
  <2>1. ASSUME NEW t \in T PROVE \E k \in Offsets : t = h[k]
    <3>1. t - from \in Offsets /\ from + (t - from) = t
      BY <1>0, <1>3, <1>4 DEF Offsets
    <3> QED BY <1>5, <3>1
  <2> QED BY <1>5, <2>1
<1>7. IsFiniteSet(T) /\ IsFiniteSet(Offsets)
  <2>1. IsFiniteSet(0 .. now)
    BY <1>0, FS_Interval
  <2> QED BY <2>1, OffsetsFinite, FS_Subset
<1>8. \A k \in Offsets : f[k] \in Int /\ b[h[k]] = f[k]
  <2>1. ASSUME NEW k \in Offsets PROVE f[k] \in Int /\ b[h[k]] = f[k]
    <3>1. f[k] \in Nat
      BY <1>3, HeldNat
    <3>2. h[k] \in 0 .. LastTime /\ h[k] > now - wnd_size /\ h[k] - e.oldest_ts = k /\ e.oldest_ts # -1
      BY <1>3, <1>4, <1>5
    <3> HIDE DEF h, f
    <3>3. b[h[k]] = Held(e)[k]
      BY <1>1, <3>2 DEF Tells
    <3> QED BY <3>1, <3>3 DEF f
  <2> QED BY <2>1
<1>9. \A k, m \in Offsets : h[k] = h[m] => k = m
  BY <1>0, <1>5 DEF Offsets
<1> HIDE DEF f, h, T
<1> HIDE DEF from
<1>10. Total(f, Offsets) = Total(b, T)
  <2> DEFINE c == b
  <2>1. \A k \in Offsets : f[k] \in Int /\ c[h[k]] = f[k]
    BY <1>8
  <2> HIDE DEF c
  <2>2. Total(f, Offsets) = Total(c, T)
    BY <1>6, <1>7, <1>9, <2>1, TotalMoved
  <2> QED BY <2>2 DEF c
<1>11. SumFunctionOnSet(b, T) = Total(b, T)
  BY <1>7, SumIsTotal
<1>12. RateOf(e, now) = SumFunctionOnSet(b, T)
  BY <1>1, <1>2, <1>10, <1>11 DEF RateFits, f
<1> QED BY <1>12 DEF e, T

-----------------------------------------------------------------------------
(* The list of the loss statistics and what was seen: it holds all from its *)
(* first on, as long as nothing came after the list had gone past it.       *)
ListFits(s, had, late) ==
  /\ DOMAIN s.list \subseteq had /\ had \subseteq 0 .. LastId
  /\ s = [max_id |-> s.max_id, list |-> s.list]
  /\ s.max_id = IF had = {} THEN -1 ELSE Max(had)
  /\ ~late => \A x \in DOMAIN s.list, y \in had : y >= x => y \in DOMAIN s.list

Evicted(s, now) == [s EXCEPT !.list = loss_evict_oldest(s.list, now)]

(* Eviction takes away from below.                                          *)
LEMMA EvictedFits ==
  ASSUME NEW s, NEW had, NEW late \in BOOLEAN, ListFits(s, had, late), NEW now
  PROVE  ListFits(Evicted(s, now), had, late)
<1> DEFINE l == s.list
           P(x) == /\ l[x] + k_loss_statistics_window_ms >= now
                   /\ Cardinality({y \in DOMAIN l : y >= x}) <= k_max_statistics_window_number
           e == Evicted(s, now)
           K == {id \in DOMAIN l : \E x \in DOMAIN l : x <= id /\ P(x)}
<1>1. DOMAIN loss_evict_oldest(l, now) = K
  BY DEF loss_evict_oldest, Restrict
<1>2. e.list = loss_evict_oldest(l, now) /\ e.max_id = s.max_id /\ e = [max_id |-> e.max_id, list |-> e.list]
  <2>1. s = [max_id |-> s.max_id, list |-> s.list]
    BY DEF ListFits
  <2> QED BY <2>1 DEF Evicted
<1>3. DOMAIN e.list = K
  BY <1>1, <1>2
<1>4. ASSUME ~late, NEW x \in K, NEW y \in had, y >= x PROVE y \in K
  <2>1. y \in DOMAIN l
    BY <1>4 DEF ListFits
  <2>2. PICK z \in DOMAIN l : z <= x /\ P(z)
    OBVIOUS
  <2>3. x \in Int /\ y \in Int /\ z \in Int
    BY <2>1, <2>2 DEF ListFits
  <2> HIDE DEF P
  <2>4. z <= y
    BY <1>4, <2>2, <2>3
  <2> QED BY <2>1, <2>2, <2>4
<1>5. K \subseteq had
  BY DEF ListFits
<1> HIDE DEF K, e
<1>6. ListFits(e, had, late)
  BY <1>2, <1>3, <1>4, <1>5 DEF ListFits
<1> QED BY <1>6 DEF e

LEMMA GreatestId ==
  ASSUME NEW S, S \subseteq 0 .. LastId, S # {}
  PROVE  Max(S) \in S /\ \A y \in S : Max(S) >= y
BY RembAssumption, GreatestExists

(* A packet may come late, again, or ahead (loss_statistics_incoming).      *)
LEMMA IncomingFits ==
  ASSUME NEW s, NEW had, NEW late \in BOOLEAN, ListFits(s, had, late), NEW id \in 0 .. LastId, NEW now
  PROVE  ListFits(loss_statistics_incoming(s, id, now), had \cup {id}, late \/ \E x \in had : x > id /\ x \notin DOMAIN s.list)
<1> DEFINE l == [x \in DOMAIN s.list \cup {id} |-> IF x \in DOMAIN s.list THEN s.list[x] ELSE now]
           m == Max({s.max_id, id})
           i == [max_id |-> m, list |-> l]
           past == late \/ \E x \in had : x > id /\ x \notin DOMAIN s.list
<1>1. loss_statistics_incoming(s, id, now) = Evicted(i, now)
  <2>1. loss_statistics_incoming(s, id, now) = [max_id |-> m, list |-> loss_evict_oldest(l, now)]
    BY DEF loss_statistics_incoming
  <2> HIDE DEF l, m
  <2>2. i.list = l
    OBVIOUS
  <2>3. Evicted(i, now) = [i EXCEPT !.list = loss_evict_oldest(l, now)]
    BY <2>2 DEF Evicted
  <2> QED BY <2>1, <2>3
<1>2. DOMAIN l = DOMAIN s.list \cup {id}
  OBVIOUS
<1>3. had \cup {id} \subseteq 0 .. LastId /\ LastId \in Nat
  BY RembAssumption DEF ListFits
<1>4. m = Max(had \cup {id})
  <2>1. s.max_id \in Int /\ id \in Int /\ \A y \in had : y \in Int /\ s.max_id >= y
    <3>1. CASE had = {}
      BY <3>1 DEF ListFits
    <3>2. CASE had # {}
      <4>1. had \subseteq 0 .. LastId /\ s.max_id = Max(had)
        BY <3>2 DEF ListFits
      <4>2. s.max_id \in had /\ \A y \in had : s.max_id >= y
        BY <3>2, <4>1, GreatestId
      <4>3. \A y \in had : y \in Int
        BY <4>1
      <4> QED BY <4>2, <4>3
    <3>3. id \in Int
      OBVIOUS
    <3> QED BY <3>1, <3>2, <3>3
  <2>2. m \in {s.max_id, id} /\ m >= s.max_id /\ m >= id
    <3>1. CASE s.max_id >= id
      BY <2>1, <3>1 DEF Max
    <3>2. CASE ~(s.max_id >= id)
      BY <2>1, <3>2 DEF Max
    <3> QED BY <3>1, <3>2
  <2>3. m \in had \cup {id}
    <3>1. CASE had = {}
      <4>1. s.max_id = -1
        BY <3>1 DEF ListFits
      <4> QED BY <2>2, <4>1
    <3>2. CASE had # {}
      <4>1. had \subseteq 0 .. LastId /\ s.max_id = Max(had)
        BY <3>2 DEF ListFits
      <4>2. s.max_id \in had
        BY <3>2, <4>1, GreatestId
      <4> QED BY <2>2, <4>2
    <3> QED BY <3>1, <3>2
  <2> HIDE DEF m
  <2>4. \A y \in had \cup {id} : m >= y /\ y \in Int
    BY <2>1, <2>2
  <2>5. Max(had \cup {id}) \in had \cup {id} /\ \A y \in had \cup {id} : Max(had \cup {id}) >= y
    BY <1>3, GreatestId
  <2> QED BY <2>3, <2>4, <2>5
<1>5. ASSUME ~past, NEW x \in DOMAIN s.list \cup {id}, NEW y \in had \cup {id}, y >= x PROVE y \in DOMAIN s.list \cup {id}
  <2>1. CASE x \in DOMAIN s.list /\ y \in had
    BY <1>5, <2>1 DEF ListFits
  <2>2. CASE x = id /\ y \in had /\ y # id
    <3>1. y > id
      BY <1>3, <1>5, <2>2
    <3> QED BY <1>5, <2>2, <3>1
  <2> QED BY <2>1, <2>2
<1>6. ListFits(i, had \cup {id}, past)
  <2>1. i.list = l /\ i.max_id = m /\ i = [max_id |-> i.max_id, list |-> i.list]
    OBVIOUS
  <2>2. DOMAIN s.list \cup {id} \subseteq had \cup {id}
    BY DEF ListFits
  <2>3. had \cup {id} # {}
    OBVIOUS
  <2> HIDE DEF i, l, m, past
  <2> QED BY <1>2, <1>3, <1>4, <1>5, <2>1, <2>2, <2>3 DEF ListFits
<1>7. past \in BOOLEAN
  OBVIOUS
<1> HIDE DEF i, past
<1>8. ListFits(Evicted(i, now), had \cup {id}, past)
  BY <1>6, <1>7, EvictedFits
<1> QED BY <1>1, <1>8 DEF past

(* What a report counts as lost was never seen.                             *)
LEMMA FractionTrue ==
  ASSUME NEW s, NEW had, ListFits(s, had, FALSE), FractionOf(s).num > 0
  PROVE  FractionOf(s).lost = Cardinality((Max(had) - FractionOf(s).num + 1 .. Max(had)) \ had)
<1> DEFINE D == DOMAIN s.list
           first == First(s.list)
           top == Max(had)
           distance == s.max_id - first + 1
           count == Cardinality(D)
           I == first .. top
<1>1. ~(s.max_id = -1 \/ count < k_min_statistics_number \/ distance <= 0)
  BY DEF FractionOf, NoFraction
<1>2. FractionOf(s) = [lost |-> IF distance <= count THEN 0 ELSE distance - count, num |-> distance]
  BY <1>1 DEF FractionOf
<1>3. had # {} /\ s.max_id = top /\ had \subseteq 0 .. LastId /\ D \subseteq had
  BY <1>1 DEF ListFits
<1>4. LastId \in Nat /\ IsFiniteSet(0 .. LastId) /\ k_min_statistics_number \in Nat \ {0}
  BY RembAssumption, StatsAssumption, FS_Interval
<1>5. IsFiniteSet(D) /\ count \in Nat
  BY <1>3, <1>4, FS_Subset, FS_CardinalityType
<1>6. D # {}
  <2>1. ASSUME D = {} PROVE FALSE
    <3>1. count = 0
      BY <2>1, FS_EmptySet
    <3> HIDE DEF count
    <3> QED BY <1>1, <1>4, <3>1
  <2> QED BY <2>1
<1>7. first \in D /\ \A y \in D : first <= y
  <2>1. D \subseteq Nat
    BY <1>3, <1>4
  <2> QED BY <1>6, <2>1, LeastExists DEF First
<1>8. top \in had /\ \A y \in had : top >= y
  BY <1>3, GreatestId
<1> HIDE DEF D, first, top
<1>9. top \in Int /\ first \in Int /\ first <= top
  <2>1. top \in 0 .. LastId /\ first \in 0 .. LastId /\ first \in had
    BY <1>3, <1>7, <1>8
  <2> QED BY <1>8, <2>1
<1>10. D \subseteq I
  BY <1>3, <1>7, <1>8, <1>9
<1>11. ASSUME NEW y \in had, y \in I PROVE y \in D
  <2>1. y >= first
    BY <1>9, <1>11
  <2> QED BY <1>7, <2>1 DEF ListFits, D
<1>12. I \ had = I \ D
  BY <1>3, <1>11
<1>13. IsFiniteSet(I) /\ Cardinality(I) = top - first + 1
  BY <1>9, FS_Interval
<1>14. Cardinality(I \ D) = Cardinality(I) - Cardinality(I \cap D)
  BY <1>13, FS_Difference
<1>15. I \cap D = D
  BY <1>10
<1>16. Cardinality(I \ had) = distance - count
  BY <1>3, <1>12, <1>13, <1>14, <1>15
<1>17. Cardinality(I \ had) \in Nat
  BY <1>12, <1>13, FS_Difference, FS_CardinalityType
<1>18. FractionOf(s).num = distance /\ distance = top - first + 1
  BY <1>2, <1>3
<1>19. top - FractionOf(s).num + 1 = first
  BY <1>9, <1>18
<1>20. FractionOf(s).lost = IF distance <= count THEN 0 ELSE distance - count
  BY <1>2
<1>21. distance \in Int
  BY <1>9, <1>18
<1> HIDE DEF distance, count, I
<1>22. FractionOf(s).lost = Cardinality(I \ had)
  BY <1>5, <1>16, <1>17, <1>20, <1>21
<1> QED BY <1>19, <1>22 DEF I, top

-----------------------------------------------------------------------------
(***************************************************************************)
(* The receiver.                                                           *)
(***************************************************************************)
RembFits ==
  /\ rembNow \in 0 .. LastTime /\ bytes \in [0 .. LastTime -> Nat] /\ tooLate \in BOOLEAN
  /\ remb = [feedback_ts |-> remb.feedback_ts, loss_stat |-> remb.loss_stat, rate |-> remb.rate]
  /\ RateFits(remb.rate) /\ remb.rate.oldest_ts <= rembNow /\ Tells(remb.rate, rembNow, bytes)
  /\ ListFits(remb.loss_stat, seen, tooLate)

LEMMA InitRemb == RembInit => RembFits
<1> SUFFICES ASSUME RembInit PROVE RembFits
  OBVIOUS
<1> DEFINE r == rate_stat_init
<1>0. LastTime \in Nat /\ wnd_size \in Nat /\ wnd_size > 1
  BY OffsetsFinite, RembAssumption
<1>1. /\ remb = [feedback_ts |-> 0, loss_stat |-> loss_statistics_init, rate |-> r] /\ rembNow = 0
      /\ bytes = [t \in 0 .. LastTime |-> 0] /\ seen = {} /\ tooLate = FALSE
  BY DEF RembInit, remb_receive_create
<1>2. r \in Rates
  <2>1. r.buckets \in Buckets
    BY DEF rate_stat_init, Buckets, Bucket, Offsets
  <2>2. 0 \in Offsets
    BY <1>0 DEF Offsets
  <2> QED BY <2>1, <2>2 DEF rate_stat_init, Rates
<1>3. \A k \in Offsets : Held(r)[k] = 0 /\ SamplesHeld(r)[k] = 0
  <2>1. ASSUME NEW k \in Offsets PROVE Held(r)[k] = 0 /\ SamplesHeld(r)[k] = 0
    <3>1. BucketAt(r, k) \in Offsets /\ Held(r)[k] = r.buckets[BucketAt(r, k)].sum /\ SamplesHeld(r)[k] = r.buckets[BucketAt(r, k)].sample
      BY <1>2, HeldNat
    <3>2. \A i \in Offsets : r.buckets[i].sum = 0 /\ r.buckets[i].sample = 0
      BY DEF rate_stat_init, Offsets
    <3> QED BY <3>1, <3>2
  <2> QED BY <2>1
<1>4. Total(Held(r), Offsets) = 0 /\ Total(SamplesHeld(r), Offsets) = 0
  <2>1. \A k \in Offsets : Held(r)[k] \in Nat /\ SamplesHeld(r)[k] \in Nat
    BY <1>3
  <2> QED BY <1>3, <2>1, OffsetsFinite, TotalZero
<1>5. RateFits(r) /\ r.oldest_ts = -1
  BY <1>2, <1>4 DEF RateFits, rate_stat_init
<1>6. Tells(r, 0, bytes)
  BY <1>1, <1>5 DEF Tells
<1>7. ListFits(loss_statistics_init, {}, FALSE)
  <2>1. loss_statistics_init = [max_id |-> -1, list |-> <<>>] /\ DOMAIN <<>> = {}
    BY DEF loss_statistics_init
  <2> QED BY <2>1 DEF ListFits
<1> HIDE DEF r
<1>8. rembNow \in 0 .. LastTime /\ bytes \in [0 .. LastTime -> Nat] /\ tooLate \in BOOLEAN
  <2>1. rembNow \in 0 .. LastTime
    BY <1>0, <1>1
  <2>2. bytes \in [0 .. LastTime -> Nat]
    BY <1>1
  <2>3. tooLate \in BOOLEAN
    BY <1>1
  <2> QED BY <2>1, <2>2, <2>3
<1>9. remb = [feedback_ts |-> remb.feedback_ts, loss_stat |-> remb.loss_stat, rate |-> remb.rate] /\ remb.rate = r /\ remb.loss_stat = loss_statistics_init
  BY <1>1
<1>10. r.oldest_ts <= rembNow
  BY <1>1, <1>5
<1> QED BY <1>1, <1>5, <1>6, <1>7, <1>8, <1>9, <1>10 DEF RembFits

LEMMA ReceiveRemb ==
  ASSUME RembFits, NEW id \in 0 .. LastId, NEW size \in RembSizes, remb_receive_on_received(id, size)
  PROVE  RembFits'
<1> DEFINE r == remb.rate
           u == rate_stat_update(r, size, rembNow)
           s == loss_statistics_incoming(remb.loss_stat, id, rembNow)
<1>1. /\ remb' = [remb EXCEPT !.loss_stat = s, !.rate = u]
      /\ bytes' = [bytes EXCEPT ![rembNow] = bytes[rembNow] + size]
      /\ seen' = seen \cup {id}
      /\ tooLate' = (tooLate \/ \E x \in seen : x > id /\ x \notin DOMAIN remb.loss_stat.list)
      /\ rembNow' = rembNow
  BY DEF remb_receive_on_received
<1>2. /\ rembNow \in 0 .. LastTime /\ bytes \in [0 .. LastTime -> Nat] /\ tooLate \in BOOLEAN
      /\ remb = [feedback_ts |-> remb.feedback_ts, loss_stat |-> remb.loss_stat, rate |-> r]
      /\ RateFits(r) /\ r.oldest_ts <= rembNow /\ Tells(r, rembNow, bytes)
      /\ ListFits(remb.loss_stat, seen, tooLate)
  BY DEF RembFits
<1> HIDE DEF r
<1>0. size \in Nat
  BY RembAssumption
<1>3. RateFits(u) /\ u.oldest_ts <= rembNow /\ Tells(u, rembNow, [bytes EXCEPT ![rembNow] = bytes[rembNow] + size])
  BY <1>0, <1>2, UpdatedFits
<1>4. ListFits(s, seen \cup {id}, tooLate \/ \E x \in seen : x > id /\ x \notin DOMAIN remb.loss_stat.list)
  BY <1>2, IncomingFits
<1> HIDE DEF u, s
<1>5. remb' = [feedback_ts |-> remb.feedback_ts, loss_stat |-> s, rate |-> u]
  BY <1>1, <1>2
<1>6. bytes' \in [0 .. LastTime -> Nat] /\ tooLate' \in BOOLEAN
  BY <1>0, <1>1, <1>2
<1> QED BY <1>1, <1>2, <1>3, <1>4, <1>5, <1>6 DEF RembFits

LEMMA HeartbeatRemb == ASSUME RembFits, remb_receive_heartbeat PROVE RembFits'
<1> DEFINE r == remb.rate
           e == rate_stat_erase(r, rembNow)
           s == Evicted(remb.loss_stat, rembNow)
<1>1. /\ \/ remb' = [remb EXCEPT !.rate = e]
         \/ remb' = [feedback_ts |-> rembNow, loss_stat |-> s, rate |-> e]
      /\ rembNow' = rembNow /\ bytes' = bytes /\ seen' = seen /\ tooLate' = tooLate
  BY DEF remb_receive_heartbeat, Evicted
<1>2. /\ rembNow \in 0 .. LastTime /\ bytes \in [0 .. LastTime -> Nat] /\ tooLate \in BOOLEAN
      /\ remb = [feedback_ts |-> remb.feedback_ts, loss_stat |-> remb.loss_stat, rate |-> r]
      /\ RateFits(r) /\ r.oldest_ts <= rembNow /\ Tells(r, rembNow, bytes)
      /\ ListFits(remb.loss_stat, seen, tooLate)
  BY DEF RembFits
<1> HIDE DEF r
<1>3. RateFits(e) /\ e.oldest_ts <= rembNow /\ Tells(e, rembNow, bytes)
  BY <1>2, ErasedFits
<1>4. ListFits(s, seen, tooLate)
  BY <1>2, EvictedFits
<1> HIDE DEF e, s
<1>5. remb' = [feedback_ts |-> remb.feedback_ts, loss_stat |-> remb.loss_stat, rate |-> e] \/ remb' = [feedback_ts |-> rembNow, loss_stat |-> s, rate |-> e]
  BY <1>1, <1>2
<1> QED BY <1>1, <1>2, <1>3, <1>4, <1>5 DEF RembFits

LEMMA TickRemb == ASSUME RembFits, NEW ms \in Pauses, RembTick(ms) PROVE RembFits'
<1>0. wnd_size \in Nat /\ ms \in Nat /\ LastTime \in Nat /\ rembNow \in Nat
  BY OffsetsFinite, RembAssumption DEF RembFits
<1>1. /\ rembNow' = rembNow + ms /\ rembNow' \in 0 .. LastTime
      /\ bytes' = [t \in 0 .. LastTime |-> IF t > rembNow' - wnd_size THEN bytes[t] ELSE 0]
      /\ remb' = remb /\ seen' = seen /\ tooLate' = tooLate
  BY <1>0 DEF RembTick
<1>2. bytes' \in [0 .. LastTime -> Nat]
  BY <1>1 DEF RembFits
<1>3. remb.rate.oldest_ts <= rembNow'
  <2>1. remb.rate.oldest_ts \in Int
    BY DEF RembFits, RateFits, Rates
  <2> QED BY <1>0, <1>1, <2>1 DEF RembFits
<1>4. Tells(remb.rate, rembNow', bytes')
  <2>1. ASSUME NEW t \in 0 .. LastTime
        PROVE  bytes'[t] = IF t > rembNow' - wnd_size /\ remb.rate.oldest_ts # -1 /\ t - remb.rate.oldest_ts \in Offsets
                           THEN Held(remb.rate)[t - remb.rate.oldest_ts] ELSE 0
    <3>1. bytes[t] = IF t > rembNow - wnd_size /\ remb.rate.oldest_ts # -1 /\ t - remb.rate.oldest_ts \in Offsets
                     THEN Held(remb.rate)[t - remb.rate.oldest_ts] ELSE 0
      BY DEF RembFits, Tells
    <3>2. t > rembNow' - wnd_size => t > rembNow - wnd_size
      BY <1>0, <1>1
    <3>3. bytes'[t] = IF t > rembNow' - wnd_size THEN bytes[t] ELSE 0
      BY <1>1
    <3> QED BY <3>1, <3>2, <3>3
  <2> QED BY <2>1 DEF Tells
<1> QED BY <1>1, <1>2, <1>3, <1>4 DEF RembFits

LEMMA StepRemb == RembFits /\ [RembNext]_rembVars => RembFits'
<1> SUFFICES ASSUME RembFits, [RembNext]_rembVars PROVE RembFits'
  OBVIOUS
<1>1. CASE \E id \in 0 .. LastId, size \in RembSizes : remb_receive_on_received(id, size)
  BY <1>1, ReceiveRemb
<1>2. CASE remb_receive_heartbeat
  BY <1>2, HeartbeatRemb
<1>3. CASE \E ms \in Pauses : RembTick(ms)
  BY <1>3, TickRemb
<1>4. CASE UNCHANGED rembVars
  BY <1>4 DEF rembVars, RembFits
<1> QED BY <1>1, <1>2, <1>3, <1>4 DEF RembNext

LEMMA ReportedTrue == ASSUME RembFits, [RembNext]_rembVars PROVE [Reported => RateTrue /\ LossTrue]_rembVars
<1>1. CASE \E id \in 0 .. LastId, size \in RembSizes : remb_receive_on_received(id, size)
  BY <1>1 DEF remb_receive_on_received, Reported
<1>2. CASE remb_receive_heartbeat
  <2> SUFFICES ASSUME Reported PROVE RateTrue /\ LossTrue
    OBVIOUS
  <2> DEFINE r == remb.rate
             e == rate_stat_erase(r, rembNow)
             s == Evicted(remb.loss_stat, rembNow)
             bitrate == RateOf(e, rembNow)
  <2>1. /\ rembNow \in 0 .. LastTime /\ bytes \in [0 .. LastTime -> Nat] /\ tooLate \in BOOLEAN
        /\ RateFits(r) /\ r.oldest_ts <= rembNow /\ Tells(r, rembNow, bytes)
        /\ ListFits(remb.loss_stat, seen, tooLate)
    BY DEF RembFits
  <2>2. /\ ~(bitrate <= 0)
        /\ remb_msg'.remb = bitrate
        /\ remb_msg'.loss \in {NoFraction, Garbage, FractionOf(s)}
    BY <1>2 DEF remb_receive_heartbeat, Evicted, Reported
  <2>3. RateFits(e)
    BY <2>1, ErasedFits
  <2>4. bitrate \in Int
    BY <2>3 DEF RateOf, RateFits, Rates
  <2> HIDE DEF r
  <2>5. bitrate > 0
    <3> HIDE DEF bitrate
    <3> QED BY <2>2, <2>4
  <2>6. bitrate = SumFunctionOnSet(bytes, {t \in 0 .. rembNow : t > rembNow - wnd_size})
    BY <2>1, <2>5, RatesTrue
  <2>7. RateTrue
    BY <2>2, <2>6 DEF RateTrue
  <2>8. ListFits(s, seen, tooLate)
    BY <2>1, EvictedFits
  <2> HIDE DEF s, bitrate
  <2>9. ASSUME remb_msg'.loss.num > 0, ~tooLate
        PROVE  remb_msg'.loss.lost = Cardinality((Max(seen) - remb_msg'.loss.num + 1 .. Max(seen)) \ seen)
    <3>1. remb_msg'.loss = FractionOf(s)
      <4>1. NoFraction.num = 0 /\ Garbage.num = -2
        BY DEF NoFraction, Garbage
      <4> QED BY <2>2, <2>9, <4>1
    <3>2. ListFits(s, seen, FALSE)
      <4>1. tooLate = FALSE
        BY <2>1, <2>9
      <4> QED BY <2>8, <4>1
    <3> QED BY <2>9, <3>1, <3>2, FractionTrue
  <2>10. LossTrue
    BY <2>9 DEF LossTrue
  <2> QED BY <2>7, <2>10
<1>3. CASE \E ms \in Pauses : RembTick(ms)
  BY <1>3 DEF RembTick, Reported
<1>4. CASE UNCHANGED rembVars
  BY <1>4
<1> QED BY <1>1, <1>2, <1>3, <1>4 DEF RembNext

(* A report gives the rate of what came within the window before it, and as *)
(* lost what was never seen, for every window, every pause and every order  *)
(* in which packets come (remb_receive_heartbeat).                          *)
THEOREM RembAlwaysTrue == RembSpec => RembTrue
<1>1. RembFits /\ [RembNext]_rembVars => [Reported => RateTrue /\ LossTrue]_rembVars
  BY ReportedTrue
<1>2. RembSpec => []RembFits
  BY InitRemb, StepRemb, PTL DEF RembSpec
<1> QED BY <1>1, <1>2, PTL DEF RembSpec, RembTrue
=============================================================================
