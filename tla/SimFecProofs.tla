---------------------------- MODULE SimFecProofs ----------------------------
(***************************************************************************)
(* What is proved of forward error correction, for every value of the      *)
(* constants: what is recovered is what was lost, and what a group points  *)
(* to is still in the cache.                                               *)
(***************************************************************************)
EXTENDS SimFec, NumberLemmas, SequenceTheorems

-----------------------------------------------------------------------------
(* The shape of a group: numbers, whatever the number of its segments.      *)

(* Every number has an integer square root: of the numbers whose square is  *)
(* beyond n, one more than the root is the least.                           *)
LEMMA RootExists ==
  ASSUME NEW n \in Nat
  PROVE  \E k \in 0 .. n : k * k <= n /\ n < (k + 1) * (k + 1)
<1> DEFINE T == {k \in Nat : n < (k + 1) * (k + 1)}
<1>1. n \in T
  <2>1. n < (n + 1) * (n + 1)
    OBVIOUS
  <2>2. QED
    BY <2>1
<1>2. PICK k \in T : \A y \in T : k <= y
  <2>1. T \subseteq Nat /\ T # {}
    BY <1>1
  <2>2. QED
    <3> HIDE DEF T
    <3> QED BY <2>1, LeastOfNat
<1>3. k \in Nat /\ n < (k + 1) * (k + 1) /\ k <= n
  BY <1>1, <1>2
<1>4. k * k <= n
  <2>1. CASE k = 0
    BY <2>1
  <2>2. CASE k > 0
    <3>1. k - 1 \in Nat /\ k - 1 \notin T
      BY <2>2, <1>2, <1>3
    <3>2. ~(n < ((k - 1) + 1) * ((k - 1) + 1))
      BY <3>1
    <3>3. (k - 1) + 1 = k
      BY <1>3
    <3>4. ~(n < k * k)
      BY <3>2, <3>3
    <3>5. QED
      BY <3>4, <1>3
  <2>3. QED
    BY <2>1, <2>2, <1>3
<1>5. QED
  BY <1>3, <1>4

LEMMA RootNat == ASSUME NEW n \in Nat PROVE RootColumns(n) \in Nat
<1> DEFINE c == CHOOSE k \in 0 .. n : k * k <= n /\ n < (k + 1) * (k + 1)
<1>1. c \in 0 .. n
  BY RootExists
<1>2. RootColumns(n) = IF 100 * n > (10 * c + 1) * (10 * c + 1) THEN c + 1 ELSE c
  BY DEF RootColumns
<1>3. QED
  <2> HIDE DEF c
  <2> QED BY <1>1, <1>2

LEMMA CeilDivNat ==
  ASSUME NEW a \in Nat, NEW b \in Nat, b > 0
  PROVE  CeilDiv(a, b) \in Nat /\ (a > 0 => CeilDiv(a, b) > 0)
<1>1. a + b - 1 \in Nat
  OBVIOUS
<1>2. (a + b - 1) \div b \in Nat
  BY <1>1
<1>3. a > 0 => (a + b - 1) \div b > 0
  OBVIOUS
<1>4. QED
  BY <1>2, <1>3 DEF CeilDiv

LEMMA ShapeNat ==
  ASSUME NEW n \in Nat, n > 0, NEW fraction \in 0 .. 255
  PROVE  LET shape == flex_fec_sender_num_packets(n, fraction) IN shape.row \in Nat /\ shape.col \in Nat
<1> DEFINE colum == Smaller(20, Larger(3, RootColumns(n)))
           row   == CeilDiv(n, colum)
           lines == (n * fraction + 128) \div 256
           col   == IF lines = 0 THEN n ELSE CeilDiv(n, lines)
           shape == flex_fec_sender_num_packets(n, fraction)
<1>1. colum \in Nat /\ colum > 0
  BY RootNat DEF Smaller, Larger
<1>2. row \in Nat /\ row > 0
  <2> HIDE DEF colum
  <2> QED BY <1>1, CeilDivNat
<1>3. lines \in Nat
  <2>1. n * fraction \in Nat
    OBVIOUS
  <2>2. n * fraction + 128 \in Nat
    BY <2>1
  <2>3. QED
    BY <2>2
<1>4. col \in Nat /\ col > 0
  <2> HIDE DEF lines
  <2> QED BY <1>3, CeilDivNat
<1>5. CeilDiv(n, row) \in Nat /\ CeilDiv(n, col) \in Nat
  <2> HIDE DEF row, col
  <2> QED BY <1>2, <1>4, CeilDivNat
<1>6. shape = IF fraction >= FEC_LOSS_THROLD /\ n >= MATRIX_SIZE
                THEN [row |-> row, col |-> CeilDiv(n, row), matrix |-> TRUE]
              ELSE IF fraction = 0
                THEN [row |-> 0, col |-> 0, matrix |-> FALSE]
                ELSE [row |-> IF lines = 0 THEN 1 ELSE CeilDiv(n, col), col |-> col, matrix |-> FALSE]
  BY Zenon DEF flex_fec_sender_num_packets
<1>7. shape.row \in Nat /\ shape.col \in Nat
  <2> HIDE DEF row, col, lines, shape
  <2> QED BY <1>2, <1>4, <1>5, <1>6
<1>8. QED
  BY <1>7

(* The places on a line are places of the group.                            *)
LEMMA CellsInGroup ==
  ASSUME NEW g \in Group, NEW index \in [column : BOOLEAN, at : Nat]
  PROVE  Cells(g, index) \subseteq 0 .. g.count - 1
<1>0. g.col \in Nat /\ g.row \in Nat /\ g.count \in Nat /\ index.at \in Nat
  BY DEF Group
<1> DEFINE col == g.col
           at == index.at
           byColumn == {i * col + at : i \in 0 .. g.row - 1}
           byRow == {at * col + i : i \in 0 .. col - 1}
           all == IF index.column THEN byColumn ELSE byRow
<1>1. byColumn \subseteq Nat
  <2>1. ASSUME NEW i \in 0 .. g.row - 1 PROVE i * col + at \in Nat
    <3>1. i \in Nat /\ col \in Nat /\ at \in Nat
      BY <1>0
    <3>2. i * col \in Nat
      BY <3>1
    <3>3. QED
      BY <3>1, <3>2
  <2>2. QED
    BY <2>1
<1>2. byRow \subseteq Nat
  <2>1. ASSUME NEW i \in 0 .. col - 1 PROVE at * col + i \in Nat
    <3>1. i \in Nat /\ col \in Nat /\ at \in Nat
      BY <1>0
    <3>2. at * col \in Nat
      BY <3>1
    <3>3. QED
      BY <3>1, <3>2
  <2>2. QED
    BY <2>1
<1>3. Cells(g, index) = {k \in all : k < g.count}
  BY Zenon DEF Cells
<1>4. all \subseteq Nat
  <2> HIDE DEF byColumn, byRow
  <2> QED BY <1>1, <1>2
<1>5. ASSUME NEW k \in Cells(g, index) PROVE k \in 0 .. g.count - 1
  <2>1. k \in all /\ k < g.count
    <3> HIDE DEF all
    <3> QED BY <1>3, <1>5
  <2>2. k \in Nat
    <3> HIDE DEF all
    <3> QED BY <2>1, <1>4
  <2>3. QED
    BY <2>1, <2>2, <1>0
<1>6. QED
  BY <1>5

(* The packet ids of a group.                                               *)
Members(g) == g.base_id .. g.base_id + g.count - 1

LEMMA LineInGroup ==
  ASSUME NEW g \in Group, NEW index \in [column : BOOLEAN, at : Nat]
  PROVE  Line(g, index) \subseteq Members(g) /\ IsFiniteSet(Line(g, index))
<1>0. g.base_id \in Nat /\ g.count \in Nat
  BY DEF Group
<1>1. Line(g, index) \subseteq Members(g)
  <2>1. ASSUME NEW p \in Line(g, index) PROVE p \in Members(g)
    <3>1. PICK k \in Cells(g, index) : p = g.base_id + k
      BY <2>1 DEF Line
    <3>2. k \in 0 .. g.count - 1
      BY CellsInGroup
    <3>3. QED
      BY <1>0, <3>1, <3>2 DEF Members
  <2>2. QED
    BY <2>1
<1>2. IsFiniteSet(Members(g))
  <2>1. g.base_id \in Int /\ g.base_id + g.count - 1 \in Int
    BY <1>0
  <2>2. QED
    BY <2>1, FS_Interval DEF Members
<1>3. QED
  BY <1>1, <1>2, FS_Subset

(* The open group of the sender, and one with consecutive segments.         *)
OpenFlex == [fec_id : 1 .. MaxFecId, base_id : Nat, segs : Seq(Nat), fec_ts : Nat]

Consecutive(g) == \A i \in 1 .. Len(g.segs) : g.segs[i] = g.base_id + i - 1

(* What the FEC packets of a closed group are: of one group, each the       *)
(* exclusive or of the very line the receiver will look at.                 *)
MadeOf(g, made, ts) ==
  /\ made \subseteq Fec
  /\ \A f \in made : /\ f.group.fec_id = g.fec_id /\ f.group.base_id = g.base_id
                     /\ f.group.count = Len(g.segs) /\ f.send_ts = ts
                     /\ f.xor = Line(f.group, f.index)
  /\ \A f, h \in made : f.group = h.group

LEMMA UpdateMakesLines ==
  ASSUME NEW g \in OpenFlex, Len(g.segs) > 0, Consecutive(g),
         NEW fraction \in 0 .. 255, NEW ts \in Nat
  PROVE  MadeOf(g, flex_fec_sender_update(g, fraction, ts), ts)
<1> DEFINE count == Len(g.segs)
           shape == flex_fec_sender_num_packets(count, fraction)
           group == [fec_id |-> g.fec_id, base_id |-> g.base_id, count |-> count, col |-> shape.col, row |-> shape.row]
           xor(index) == {g.segs[k + 1] : k \in Cells(group, index)}
           made == flex_fec_sender_update(g, fraction, ts)
           lines == ProtectedLines(group, shape.matrix)
<1>0. count \in Nat /\ count > 0
  BY DEF OpenFlex
<1>1. shape.row \in Nat /\ shape.col \in Nat
  <2> HIDE DEF count
  <2> QED BY <1>0, ShapeNat
<1>2. group \in Group
  <2> HIDE DEF shape, count
  <2> QED BY <1>0, <1>1 DEF Group, OpenFlex
<1>3. ASSUME NEW index \in lines PROVE index \in [column : BOOLEAN, at : Nat]
  <2>1. \/ index \in {RowIndex(r) : r \in 0 .. group.row - 1}
        \/ index \in {ColIndex(c) : c \in 0 .. group.col - 1}
    <3> HIDE DEF group, shape
    <3> QED BY Zenon DEF ProtectedLines
  <2>2. group.row \in Nat /\ group.col \in Nat
    BY <1>2 DEF Group
  <2>3. CASE index \in {RowIndex(r) : r \in 0 .. group.row - 1}
    <3>1. PICK r \in 0 .. group.row - 1 : index = [column |-> FALSE, at |-> r]
      BY <2>3 DEF RowIndex
    <3>2. r \in Nat
      <4> HIDE DEF group
      <4> QED BY <2>2
    <3>3. QED
      BY <3>1, <3>2
  <2>4. CASE index \in {ColIndex(c) : c \in 0 .. group.col - 1}
    <3>1. PICK c \in 0 .. group.col - 1 : index = [column |-> TRUE, at |-> c]
      BY <2>4 DEF ColIndex
    <3>2. c \in Nat
      <4> HIDE DEF group
      <4> QED BY <2>2
    <3>3. QED
      BY <3>1, <3>2
  <2>5. QED
    BY <2>1, <2>3, <2>4
<1>4. ASSUME NEW index \in lines PROVE xor(index) = Line(group, index) /\ xor(index) \subseteq Nat
  <2>1. Cells(group, index) \subseteq 0 .. count - 1
    <3>1. group.count = count
      OBVIOUS
    <3>2. Cells(group, index) \subseteq 0 .. group.count - 1
      <4> HIDE DEF group
      <4> QED BY <1>2, <1>3, CellsInGroup
    <3>3. QED
      BY <3>1, <3>2
  <2>2. ASSUME NEW k \in Cells(group, index) PROVE g.segs[k + 1] = group.base_id + k /\ group.base_id + k \in Nat
    <3>1. k \in 0 .. count - 1
      BY <2>1
    <3>2. k + 1 \in 1 .. Len(g.segs) /\ g.base_id \in Nat
      BY <3>1, <1>0 DEF OpenFlex
    <3>3. g.segs[k + 1] = g.base_id + (k + 1) - 1
      BY <3>2 DEF Consecutive
    <3>4. group.base_id = g.base_id
      OBVIOUS
    <3>5. QED
      <4> HIDE DEF group
      <4> QED BY <3>1, <3>2, <3>3, <3>4
  <2>3. QED
    <3> HIDE DEF group
    <3> QED BY <2>2 DEF Line
<1>5. made = IF shape.col <= 1 THEN {}
             ELSE {[group |-> group, index |-> index, xor |-> xor(index), send_ts |-> ts] : index \in lines}
  BY Zenon DEF flex_fec_sender_update
<1>6. ASSUME NEW f \in made
      PROVE  \E index \in lines : f = [group |-> group, index |-> index, xor |-> xor(index), send_ts |-> ts]
  <2> HIDE DEF group, shape, lines, xor, made
  <2> QED BY <1>5, <1>6
<1>7. ASSUME NEW f \in made
      PROVE  /\ f \in Fec /\ f.group = group /\ f.send_ts = ts /\ f.xor = Line(f.group, f.index)
  <2>1. PICK index \in lines : f = [group |-> group, index |-> index, xor |-> xor(index), send_ts |-> ts]
    BY <1>6
  <2>2. xor(index) = Line(group, index) /\ xor(index) \subseteq Nat /\ index \in [column : BOOLEAN, at : Nat]
    BY <1>3, <1>4
  <2>3. QED
    <3> HIDE DEF group, lines, xor, made
    <3> QED BY <2>1, <2>2, <1>2 DEF Fec
<1>8. group.fec_id = g.fec_id /\ group.base_id = g.base_id /\ group.count = Len(g.segs)
  OBVIOUS
<1>9. made \subseteq Fec /\ \A f, h \in made : f.group = h.group
  <2> HIDE DEF group, made
  <2> QED BY <1>7
<1>10. ASSUME NEW f \in made
       PROVE  /\ f.group.fec_id = g.fec_id /\ f.group.base_id = g.base_id
              /\ f.group.count = Len(g.segs) /\ f.send_ts = ts
              /\ f.xor = Line(f.group, f.index)
  <2> HIDE DEF group, made
  <2> QED BY <1>7, <1>8
<1>11. QED
  <2> HIDE DEF made
  <2>1. MadeOf(g, made, ts)
    BY <1>9, <1>10 DEF MadeOf
  <2>2. QED
    BY <2>1 DEF made

-----------------------------------------------------------------------------
(* The invariant.                                                           *)

Sent == Cardinality(segs)

(* Segments are numbered from 1 on, each number once.                       *)
NumberedIn(S, n) ==
  /\ \A s \in S : s.packet_id \in 1 .. n
  /\ \A p \in 1 .. n : \E s \in S : s.packet_id = p
  /\ \A s, t \in S : s.packet_id = t.packet_id => s = t

Numbered == Sent \in Nat /\ NumberedIn(segs, Sent)

Dated == /\ \A s \in segs : s.timestamp <= clock
         /\ flex.fec_ts <= clock
         /\ segs = {} => clock = 0

(* The open group holds the last segments sent, which carry its id.         *)
OpenGroup == flex.segs # <<>> =>
  /\ flex.base_id >= 1 /\ flex.base_id + Len(flex.segs) = Sent + 1
  /\ Consecutive(flex)
  /\ \A s \in segs : s.packet_id >= flex.base_id => s.fec_id = flex.fec_id /\ flex.fec_ts <= s.timestamp

(* A group made protects segments sent, which carry its id.                 *)
GroupsMade == \A f \in fecs :
  /\ f.group.base_id >= 1 /\ f.group.count >= 1 /\ f.group.base_id + f.group.count <= Sent + 1
  /\ f.xor = Line(f.group, f.index)
  /\ \A s \in segs : s.packet_id \in Members(f.group) => s.fec_id = f.group.fec_id

(* The open group has an id of its own, unless the ids are about to come    *)
(* round; so has each group made.                                           *)
ComingRound == flex.segs = <<>> /\ flex.fec_id = 1 /\ \E s \in segs : s.fec_id = MaxFecId

OwnIds ==
  /\ \/ ComingRound
     \/ (\A s \in segs : s.fec_id <= flex.fec_id) /\ (\A f \in fecs : f.group.fec_id < flex.fec_id)
  /\ \A f, h \in fecs : f.group.fec_id = h.group.fec_id => f.group = h.group
  /\ \A f \in fecs, s \in segs : s.fec_id = f.group.fec_id => s.packet_id < f.group.base_id + f.group.count

SenderTyped == /\ clock \in 0 .. MaxTime
               /\ flex \in OpenFlex
               /\ segs \subseteq FecSegment
               /\ fecs \subseteq Fec

SenderInv == SenderTyped /\ Numbered /\ Dated /\ OpenGroup /\ GroupsMade /\ (Unwrapped => OwnIds)

-----------------------------------------------------------------------------
(* A step of the sender.                                                    *)

(* So many numbers, so many segments.                                       *)
LEMMA CountOfNumbered ==
  ASSUME NEW S, NEW n \in Nat, NumberedIn(S, n)
  PROVE  IsFiniteSet(S) /\ Cardinality(S) = n
<1> DEFINE seg(p) == CHOOSE s \in S : s.packet_id = p
           b == [p \in 1 .. n |-> seg(p)]
<1>1. ASSUME NEW p \in 1 .. n PROVE seg(p) \in S /\ seg(p).packet_id = p
  BY DEF NumberedIn
<1>2. b \in [1 .. n -> S] /\ \A p \in 1 .. n : b[p].packet_id = p
  <2> HIDE DEF seg
  <2> QED BY <1>1
<1>3. \A p, q \in 1 .. n : b[p] = b[q] => p = q
  <2> HIDE DEF b
  <2> QED BY <1>2
<1>4. \A s \in S : \E p \in 1 .. n : b[p] = s
  <2>1. ASSUME NEW s \in S PROVE \E p \in 1 .. n : b[p] = s
    <3>1. s.packet_id \in 1 .. n
      BY DEF NumberedIn
    <3>2. b[s.packet_id] \in S /\ b[s.packet_id].packet_id = s.packet_id
      <4> HIDE DEF b
      <4> QED BY <1>2, <3>1
    <3>3. b[s.packet_id] = s
      <4> HIDE DEF b
      <4> QED BY <3>2 DEF NumberedIn
    <3>4. QED
      <4> HIDE DEF b
      <4> QED BY <3>1, <3>3
  <2>2. QED
    BY <2>1
<1>5. ExistsBijection(1 .. n, S)
  <2>1. b \in Injection(1 .. n, S)
    <3> HIDE DEF b
    <3> QED BY <1>2, <1>3 DEF Injection, IsInjective
  <2>2. b \in Surjection(1 .. n, S)
    <3> HIDE DEF b
    <3> QED BY <1>2, <1>4 DEF Surjection
  <2>3. QED
    <3> HIDE DEF b
    <3> QED BY Zenon, <2>1, <2>2 DEF ExistsBijection, Bijection
<1>6. IsFiniteSet(1 .. n) /\ Cardinality(1 .. n) = n
  <2>1. 1 \in Int /\ n \in Int
    OBVIOUS
  <2>2. IsFiniteSet(1 .. n) /\ Cardinality(1 .. n) = IF 1 > n THEN 0 ELSE n - 1 + 1
    BY <2>1, FS_Interval
  <2>3. QED
    BY <2>2
<1>7. QED
  BY <1>5, <1>6, FS_Bijection

(* The segments of a frame.                                                 *)
FrameSegs(first, total, fid, fec_id, now) ==
  {[packet_id |-> p, fid |-> fid, fec_id |-> fec_id, timestamp |-> now] : p \in first .. first + total - 1}

LEMMA FrameSegsAre ==
  ASSUME NEW first \in Nat, NEW total \in Nat, NEW fid \in Nat, NEW fec_id \in 1 .. MaxFecId, NEW now \in Nat
  PROVE  LET A == FrameSegs(first, total, fid, fec_id, now)
         IN  /\ A \subseteq FecSegment
             /\ \A s \in A : s.packet_id \in first .. first + total - 1 /\ s.fec_id = fec_id /\ s.timestamp = now
             /\ \A p \in first .. first + total - 1 : \E s \in A : s.packet_id = p
             /\ \A s, t \in A : s.packet_id = t.packet_id => s = t
<1> DEFINE A == FrameSegs(first, total, fid, fec_id, now)
           seg(p) == [packet_id |-> p, fid |-> fid, fec_id |-> fec_id, timestamp |-> now]
<1>1. A = {seg(p) : p \in first .. first + total - 1}
  BY DEF FrameSegs
<1>2. \A p \in first .. first + total - 1 : seg(p) \in FecSegment
  BY DEF FecSegment
<1>3. \A p : seg(p).packet_id = p /\ seg(p).fec_id = fec_id /\ seg(p).timestamp = now
  OBVIOUS
<1>4. QED
  <2> HIDE DEF A, seg
  <2>1. A \subseteq FecSegment
    BY <1>1, <1>2
  <2>2. \A s \in A : s.packet_id \in first .. first + total - 1 /\ s.fec_id = fec_id /\ s.timestamp = now
    BY <1>1, <1>3
  <2>3. \A p \in first .. first + total - 1 : \E s \in A : s.packet_id = p
    BY <1>1, <1>3
  <2>4. \A s, t \in A : s.packet_id = t.packet_id => s = t
    BY <1>1, <1>3
  <2>5. QED
    BY <2>1, <2>2, <2>3, <2>4 DEF A

LEMMA NumberedGrows ==
  ASSUME NEW S, NEW n \in Nat, NumberedIn(S, n), NEW A, NEW m \in Nat,
         \A s \in A : s.packet_id \in n + 1 .. m,
         \A p \in n + 1 .. m : \E s \in A : s.packet_id = p,
         \A s, t \in A : s.packet_id = t.packet_id => s = t,
         n <= m
  PROVE  NumberedIn(S \cup A, m)
<1>1. \A s \in S \cup A : s.packet_id \in 1 .. m
  BY DEF NumberedIn
<1>2. \A p \in 1 .. m : \E s \in S \cup A : s.packet_id = p
  <2>1. ASSUME NEW p \in 1 .. m PROVE \E s \in S \cup A : s.packet_id = p
    <3>1. CASE p \in 1 .. n
      BY <3>1 DEF NumberedIn
    <3>2. CASE p \in n + 1 .. m
      BY <3>2
    <3>3. QED
      BY <3>1, <3>2
  <2>2. QED
    BY <2>1
<1>3. \A s \in S, t \in A : s.packet_id # t.packet_id
  BY DEF NumberedIn
<1>4. QED
  BY <1>1, <1>2, <1>3 DEF NumberedIn

LEMMA LastFrameNat ==
  ASSUME SenderTyped, Numbered
  PROVE  LastFrame \in Nat
<1>1. CASE segs = {}
  BY <1>1 DEF LastFrame
<1>2. CASE segs # {}
  <2>1. \E s \in segs : s.packet_id = Sent
    <3>1. PICK s \in segs : TRUE
      BY <1>2
    <3>2. s.packet_id \in 1 .. Sent /\ Sent \in Nat
      BY DEF Numbered, NumberedIn
    <3>3. Sent \in 1 .. Sent
      BY <3>2
    <3>4. QED
      BY <3>3 DEF Numbered, NumberedIn
  <2>2. PICK s \in segs : s = CHOOSE t \in segs : t.packet_id = Sent
    BY <2>1
  <2>3. LastFrame = s.fid
    BY <1>2, <2>2 DEF LastFrame, Sent
  <2>4. s \in FecSegment
    BY DEF SenderTyped
  <2>5. QED
    BY <2>3, <2>4 DEF FecSegment
<1>3. QED
  BY <1>1, <1>2

(* The open group with the segments of a frame.                             *)
GrownGroup(g, first, total, now) ==
  /\ g \in OpenFlex /\ Len(g.segs) > 0 /\ Consecutive(g)
  /\ g.fec_id = flex.fec_id
  /\ g.base_id >= 1 /\ g.base_id <= first /\ g.base_id + Len(g.segs) = first + total
  /\ g.fec_ts <= now /\ now <= g.fec_ts + RegroupDelay
  /\ \A s \in segs : s.packet_id >= g.base_id => s.fec_id = flex.fec_id /\ g.fec_ts <= s.timestamp

LEMMA GroupGrows ==
  ASSUME SenderInv, NEW total \in Nat, total > 0, NEW now \in Nat, clock <= now
  PROVE  GrownGroup(WithFrame(Sent + 1, total, now), Sent + 1, total, now)
<1> DEFINE first == Sent + 1
           added == [i \in 1 .. total |-> first + i - 1]
           g == WithFrame(first, total, now)
<1>0. /\ first \in Nat /\ flex \in OpenFlex /\ clock \in Nat /\ RegroupDelay \in Nat
      /\ flex.segs \in Seq(Nat) /\ flex.fec_ts \in Nat /\ flex.base_id \in Nat /\ flex.fec_id \in 1 .. MaxFecId
  BY FecAssumption DEF SenderInv, SenderTyped, Numbered, OpenFlex
<1>1. added \in Seq(Nat) /\ Len(added) = total /\ \A i \in 1 .. total : added[i] = first + i - 1
  <2>1. \A i \in 1 .. total : first + i - 1 \in Nat
    BY <1>0
  <2>2. QED
    <3> HIDE DEF first
    <3> QED BY <2>1
<1>2. ASSUME NEW s \in segs PROVE ~(s.packet_id >= first)
  BY <1>0 DEF SenderInv, Numbered, NumberedIn
<1>3. CASE flex.segs = <<>> \/ flex.fec_ts + RegroupDelay < now
  <2>1. g = [flex EXCEPT !.base_id = first, !.segs = added, !.fec_ts = now]
    <3> HIDE DEF first
    <3> QED BY Zenon, <1>3 DEF WithFrame
  <2>2. g \in OpenFlex /\ g.segs = added /\ g.base_id = first /\ g.fec_ts = now /\ g.fec_id = flex.fec_id
    <3> HIDE DEF first, added, g
    <3> QED BY <2>1, <1>0, <1>1 DEF OpenFlex
  <2>3. Consecutive(g)
    <3> HIDE DEF first, added, g
    <3> QED BY <2>2, <1>1 DEF Consecutive
  <2>4. \A s \in segs : ~(s.packet_id >= g.base_id)
    BY <1>2, <2>2
  <2>5. first >= 1
    BY DEF SenderInv, Numbered
  <2>6. QED
    <3> HIDE DEF first, added, g
    <3>1. GrownGroup(g, first, total, now)
      BY <2>2, <2>3, <2>4, <2>5, <1>0, <1>1 DEF GrownGroup
    <3>2. QED
      BY <3>1 DEF g, first
<1>4. CASE ~(flex.segs = <<>> \/ flex.fec_ts + RegroupDelay < now)
  <2>1. g = [flex EXCEPT !.segs = flex.segs \o added]
    <3> HIDE DEF first
    <3> QED BY Zenon, <1>4 DEF WithFrame
  <2> DEFINE n == Len(flex.segs)
             both == flex.segs \o added
  <2>2. /\ both \in Seq(Nat) /\ Len(both) = n + total /\ n \in Nat
        /\ \A i \in 1 .. n + total : both[i] = IF i <= n THEN flex.segs[i] ELSE added[i - n]
    <3> HIDE DEF added
    <3> QED BY <1>0, <1>1, ConcatProperties, LenProperties
  <2>3. g \in OpenFlex /\ g.segs = both /\ g.base_id = flex.base_id /\ g.fec_ts = flex.fec_ts /\ g.fec_id = flex.fec_id
    <3> HIDE DEF first, added, both, g
    <3> QED BY <2>1, <1>0, <2>2 DEF OpenFlex, both
  <2>4. /\ flex.base_id >= 1 /\ flex.base_id + n = first /\ Consecutive(flex)
        /\ \A s \in segs : s.packet_id >= flex.base_id => s.fec_id = flex.fec_id /\ flex.fec_ts <= s.timestamp
    BY <1>4 DEF SenderInv, OpenGroup
  <2> DEFINE base == flex.base_id
  <2>8. n \in Nat /\ base \in Nat /\ first = base + n /\ base >= 1
    <3> HIDE DEF first, n
    <3> QED BY <1>0, <2>2, <2>4
  <2>5. Consecutive(g)
    <3>1. ASSUME NEW i \in 1 .. n + total PROVE both[i] = flex.base_id + i - 1
      <4>1. CASE i <= n
        <5>1. i \in 1 .. Len(flex.segs) /\ both[i] = flex.segs[i]
          BY <4>1, <2>2
        <5>2. flex.segs[i] = flex.base_id + i - 1
          BY <5>1, <2>4 DEF Consecutive
        <5>3. QED
          <6> HIDE DEF both
          <6> QED BY <5>1, <5>2
      <4>2. CASE ~(i <= n)
        <5>1. i - n \in 1 .. total /\ both[i] = added[i - n]
          <6> HIDE DEF both, added
          <6> QED BY <4>2, <2>2
        <5>2. added[i - n] = first + (i - n) - 1
          <6> HIDE DEF added
          <6> QED BY <5>1, <1>1
        <5>3. QED
          <6>1. i \in Int /\ first + (i - n) - 1 = base + i - 1
            <7> HIDE DEF first, n, base
            <7> QED BY <2>8
          <6>2. QED
            <7> HIDE DEF added, both, first, n
            <7> QED BY <5>1, <5>2, <6>1
      <4>3. QED
        BY <4>1, <4>2
    <3>2. QED
      <4> HIDE DEF both, n, g
      <4> QED BY <3>1, <2>2, <2>3 DEF Consecutive
  <2>6. flex.fec_ts <= clock /\ now <= flex.fec_ts + RegroupDelay
    BY <1>0, <1>4 DEF SenderInv, Dated
  <2>7. QED
    <3> HIDE DEF first, added, g, both, n
    <3>1. GrownGroup(g, first, total, now)
      <4>1. Len(g.segs) > 0 /\ g.base_id >= 1 /\ g.base_id <= first /\ g.base_id + Len(g.segs) = first + total
        <5>1. Len(g.segs) = n + total /\ g.base_id = base
          BY <2>2, <2>3
        <5>2. QED
          <6> HIDE DEF base
          <6> QED BY <5>1, <2>8
      <4>2. g.fec_ts <= now /\ now <= g.fec_ts + RegroupDelay
        BY <2>3, <2>6, <1>0
      <4>3. \A s \in segs : s.packet_id >= g.base_id => s.fec_id = flex.fec_id /\ g.fec_ts <= s.timestamp
        BY <2>3, <2>4
      <4>4. QED
        BY <2>3, <2>5, <4>1, <4>2, <4>3 DEF GrownGroup
    <3>2. QED
      BY <3>1 DEF g, first
<1>5. QED
  BY <1>3, <1>4

(* What sim_sender_fec does: the frame's segments A are sent, the open      *)
(* group grows to g, and either stays open or is made into FEC packets.     *)
Closes(g, made, now) ==
  /\ \E delay \in FecDelays : MadeOf(g, made, now + delay)
  /\ flex' = [flex_fec_sender_create EXCEPT !.fec_id = NextFecId(flex.fec_id)]

FrameSent(g, A, total, now, made) ==
  /\ total \in Nat /\ total > 0 /\ now \in 0 .. MaxTime /\ clock <= now
  /\ GrownGroup(g, Sent + 1, total, now)
  /\ A \subseteq FecSegment
  /\ \A s \in A : s.packet_id \in Sent + 1 .. Sent + total /\ s.fec_id = flex.fec_id /\ s.timestamp = now
  /\ clock' = now /\ segs' = segs \cup A /\ fecs' = fecs \cup made
  /\ Sent' = Sent + total /\ NumberedIn(segs', Sent + total)
  /\ (made = {} /\ flex' = g) \/ Closes(g, made, now)
  /\ UNCHANGED <<rec, put, passed, heard>>

LEMMA FrameIsSent ==
  ASSUME SenderInv, sim_sender_fec
  PROVE  \E g, A, total, now, made : FrameSent(g, A, total, now, made)
<1>1. PICK gap \in FrameGaps, total \in FrameTotals, fraction \in ProtectFractions, delay \in FecDelays :
        LET now   == IF segs = {} THEN 0 ELSE clock + gap
            first == Cardinality(segs) + 1
            g     == WithFrame(first, total, now)
        IN  /\ now <= MaxTime /\ first + total - 1 <= MaxPackets
            /\ clock' = now
            /\ segs' = segs \cup {[packet_id |-> p, fid |-> LastFrame + 1, fec_id |-> flex.fec_id, timestamp |-> now]
                                  : p \in first .. first + total - 1}
            /\ IF Over(g, now)
                 THEN /\ fecs' = fecs \cup flex_fec_sender_update(g, fraction, now + delay)
                      /\ flex' = [flex_fec_sender_create EXCEPT !.fec_id = NextFecId(g.fec_id)]
                 ELSE /\ UNCHANGED fecs
                      /\ flex' = g
  BY DEF sim_sender_fec
<1> DEFINE now  == IF segs = {} THEN 0 ELSE clock + gap
           g    == WithFrame(Sent + 1, total, now)
           A    == FrameSegs(Sent + 1, total, LastFrame + 1, flex.fec_id, now)
           update == flex_fec_sender_update(g, fraction, now + delay)
           made == IF Over(g, now) THEN update ELSE {}
<1>2. /\ now <= MaxTime /\ clock' = now /\ segs' = segs \cup A
      /\ IF Over(g, now)
           THEN /\ fecs' = fecs \cup update
                /\ flex' = [flex_fec_sender_create EXCEPT !.fec_id = NextFecId(g.fec_id)]
           ELSE /\ UNCHANGED fecs
                /\ flex' = g
  BY Zenon, <1>1 DEF Sent, FrameSegs
<1>3. /\ total \in Nat /\ total > 0 /\ gap \in Nat /\ fraction \in 0 .. 255 /\ delay \in Nat /\ MaxTime \in Nat
      /\ Sent \in Nat /\ clock \in Nat /\ flex.fec_id \in 1 .. MaxFecId
  <2>1. total \in Nat \ {0} /\ gap \in Nat /\ fraction \in 0 .. 255 /\ delay \in Nat /\ MaxTime \in Nat
    BY FecAssumption
  <2>2. Sent \in Nat /\ clock \in Nat /\ flex.fec_id \in 1 .. MaxFecId
    BY DEF SenderInv, SenderTyped, Numbered, OpenFlex
  <2>3. QED
    BY <2>1, <2>2
<1>4. now \in Nat /\ now \in 0 .. MaxTime /\ clock <= now
  BY <1>2, <1>3 DEF SenderInv, Dated
<1>5. GrownGroup(g, Sent + 1, total, now)
  <2> HIDE DEF now
  <2> QED BY <1>3, <1>4, GroupGrows
<1>6. LastFrame + 1 \in Nat /\ Sent + 1 \in Nat
  BY <1>3, LastFrameNat DEF SenderInv
<1>7. /\ A \subseteq FecSegment
      /\ \A s \in A : s.packet_id \in Sent + 1 .. (Sent + 1) + total - 1 /\ s.fec_id = flex.fec_id /\ s.timestamp = now
      /\ \A p \in Sent + 1 .. (Sent + 1) + total - 1 : \E s \in A : s.packet_id = p
      /\ \A s, t \in A : s.packet_id = t.packet_id => s = t
  <2> HIDE DEF now
  <2> QED BY <1>3, <1>4, <1>6, FrameSegsAre
<1>8. (Sent + 1) + total - 1 = Sent + total
  BY <1>3
<1>9. NumberedIn(segs', Sent + total)
  <2>1. NumberedIn(segs, Sent) /\ Sent + total \in Nat /\ Sent <= Sent + total
    BY <1>3 DEF SenderInv, Numbered
  <2>2. NumberedIn(segs \cup A, Sent + total)
    <3> HIDE DEF A
    <3> QED BY <1>3, <1>7, <1>8, <2>1, NumberedGrows
  <2>3. QED
    <3> HIDE DEF A
    <3> QED BY <2>2, <1>2
<1>10. Sent' = Sent + total
  <2>1. Sent + total \in Nat
    BY <1>3
  <2>2. Cardinality(segs') = Sent + total
    BY <1>9, <2>1, CountOfNumbered
  <2>3. QED
    BY <2>2 DEF Sent
<1>11. fecs' = fecs \cup made
  <2> HIDE DEF g, now, update
  <2> QED BY <1>2
<1>12. (made = {} /\ flex' = g) \/ Closes(g, made, now)
  <2>1. CASE ~Over(g, now)
    <3> HIDE DEF g, now, update
    <3> QED BY <1>2, <2>1
  <2>2. CASE Over(g, now)
    <3>1. flex' = [flex_fec_sender_create EXCEPT !.fec_id = NextFecId(flex.fec_id)]
      <4>1. g.fec_id = flex.fec_id
        <5> HIDE DEF g, now
        <5> QED BY <1>5 DEF GrownGroup
      <4>2. QED
        <5> HIDE DEF g, now, update
        <5> QED BY <1>2, <2>2, <4>1
    <3>2. MadeOf(g, update, now + delay)
      <4>1. g \in OpenFlex /\ Len(g.segs) > 0 /\ Consecutive(g)
        <5> HIDE DEF g, now
        <5> QED BY <1>5 DEF GrownGroup
      <4>2. now + delay \in Nat
        <5> HIDE DEF now
        <5> QED BY <1>3, <1>4
      <4>3. QED
        <5> HIDE DEF g, now
        <5> QED BY <4>1, <4>2, <1>3, UpdateMakesLines
    <3>3. made = update
      <4> HIDE DEF g, now, update
      <4> QED BY <2>2
    <3>4. QED
      <4> HIDE DEF g, now, update, made
      <4> QED BY <3>1, <3>2, <3>3 DEF Closes
  <2>3. QED
    BY <2>1, <2>2
<1>13. UNCHANGED <<rec, put, passed, heard>>
  BY DEF sim_sender_fec
<1>14. FrameSent(g, A, total, now, made)
  <2>1. \A s \in A : s.packet_id \in Sent + 1 .. Sent + total /\ s.fec_id = flex.fec_id /\ s.timestamp = now
    <3> HIDE DEF A, now
    <3> QED BY <1>7, <1>8
  <2>2. A \subseteq FecSegment
    <3> HIDE DEF A, now
    <3> QED BY <1>7
  <2>3. clock' = now /\ segs' = segs \cup A
    <3> HIDE DEF g, A, now, update
    <3> QED BY <1>2
  <2>4. QED
    <3> HIDE DEF g, A, now, made
    <3> QED BY Zenon, <1>3, <1>4, <1>5, <2>1, <2>2, <2>3, <1>9, <1>10, <1>11, <1>12, <1>13 DEF FrameSent
<1>15. QED
  <2> HIDE DEF g, A, now, made
  <2> QED BY Zenon, <1>14

(* The group opened when another closes.                                    *)
LEMMA NewGroup ==
  ASSUME SenderTyped, NEW g, NEW made, NEW now, Closes(g, made, now)
  PROVE  /\ flex' \in OpenFlex /\ flex'.segs = <<>> /\ flex'.fec_ts = 0
         /\ flex'.fec_id = NextFecId(flex.fec_id)
<1>1. MaxFecId \in Nat /\ flex.fec_id \in 1 .. MaxFecId
  BY FecAssumption DEF SenderTyped, OpenFlex
<1>2. NextFecId(flex.fec_id) \in 1 .. MaxFecId
  BY <1>1 DEF NextFecId
<1>3. flex' = [fec_id |-> NextFecId(flex.fec_id), base_id |-> 0, segs |-> <<>>, fec_ts |-> 0]
  BY DEF Closes, flex_fec_sender_create
<1>4. QED
  BY <1>2, <1>3 DEF OpenFlex

(* What a frame leaves of the sender's invariant.                           *)
LEMMA FrameKeepsTypes ==
  ASSUME SenderInv, NEW g, NEW A, NEW total, NEW now, NEW made, FrameSent(g, A, total, now, made)
  PROVE  SenderTyped'
<1>1. clock' \in 0 .. MaxTime /\ segs' \subseteq FecSegment
  BY DEF SenderInv, SenderTyped, FrameSent
<1>2. flex' \in OpenFlex
  <2>1. CASE made = {} /\ flex' = g
    BY <2>1 DEF FrameSent, GrownGroup
  <2>2. CASE Closes(g, made, now)
    BY <2>2, NewGroup DEF SenderInv
  <2>3. QED
    BY <2>1, <2>2 DEF FrameSent
<1>3. fecs' \subseteq Fec
  <2>1. made \subseteq Fec
    BY DEF FrameSent, Closes, MadeOf
  <2>2. QED
    BY <2>1 DEF SenderInv, SenderTyped, FrameSent
<1>4. QED
  BY <1>1, <1>2, <1>3 DEF SenderTyped

LEMMA FrameKeepsDates ==
  ASSUME SenderInv, NEW g, NEW A, NEW total, NEW now, NEW made, FrameSent(g, A, total, now, made)
  PROVE  Dated'
<1>0. now \in Nat /\ clock \in Nat /\ clock <= now /\ clock' = now /\ segs' = segs \cup A
  BY DEF SenderInv, SenderTyped, FrameSent
<1>1. ASSUME NEW s \in segs' PROVE s.timestamp <= clock'
  <2>1. CASE s \in segs
    <3>1. s.timestamp \in Nat /\ s.timestamp <= clock
      BY <2>1 DEF SenderInv, SenderTyped, Dated, FecSegment
    <3>2. QED
      BY <3>1, <1>0
  <2>2. CASE s \in A
    BY <2>2, <1>0 DEF FrameSent
  <2>3. QED
    BY <2>1, <2>2, <1>0
<1>2. flex'.fec_ts <= clock'
  <2>1. CASE made = {} /\ flex' = g
    BY <2>1, <1>0 DEF FrameSent, GrownGroup
  <2>2. CASE Closes(g, made, now)
    BY <2>2, <1>0, NewGroup DEF SenderInv
  <2>3. QED
    BY <2>1, <2>2 DEF FrameSent
<1>3. segs' # {}
  <2>1. total \in Nat /\ total > 0 /\ Sent \in Nat /\ NumberedIn(segs', Sent + total)
    BY DEF FrameSent, SenderInv, Numbered
  <2>2. Sent + total \in 1 .. Sent + total
    BY <2>1
  <2>3. QED
    BY <2>1, <2>2 DEF NumberedIn
<1>4. QED
  BY <1>1, <1>2, <1>3 DEF Dated

LEMMA FrameKeepsOpenGroup ==
  ASSUME SenderInv, NEW g, NEW A, NEW total, NEW now, NEW made, FrameSent(g, A, total, now, made)
  PROVE  OpenGroup'
<1>1. CASE made = {} /\ flex' = g
  <2>1. GrownGroup(g, Sent + 1, total, now) /\ segs' = segs \cup A /\ Sent' = Sent + total
    BY DEF FrameSent
  <2>2. Sent \in Nat /\ total \in Nat
    BY DEF SenderInv, Numbered, FrameSent
  <2>3. g.base_id + Len(g.segs) = Sent' + 1
    <3>1. g.base_id + Len(g.segs) = (Sent + 1) + total
      BY <2>1 DEF GrownGroup
    <3>2. QED
      BY <3>1, <2>1, <2>2
  <2>4. g.base_id >= 1 /\ Consecutive(g) /\ g.fec_id = flex.fec_id /\ g.fec_ts <= now
    BY <2>1 DEF GrownGroup
  <2>5. ASSUME NEW s \in segs', s.packet_id >= g.base_id PROVE s.fec_id = g.fec_id /\ g.fec_ts <= s.timestamp
    <3>1. CASE s \in segs
      BY <3>1, <2>1, <2>4, <2>5 DEF GrownGroup
    <3>2. CASE s \in A
      BY <3>2, <2>4 DEF FrameSent
    <3>3. QED
      BY <3>1, <3>2, <2>1
  <2>6. QED
    BY <1>1, <2>3, <2>4, <2>5 DEF OpenGroup, Consecutive
<1>2. CASE Closes(g, made, now)
  BY <1>2, NewGroup DEF OpenGroup, SenderInv
<1>3. QED
  BY <1>1, <1>2 DEF FrameSent

LEMMA FrameKeepsGroupsMade ==
  ASSUME SenderInv, NEW g, NEW A, NEW total, NEW now, NEW made, FrameSent(g, A, total, now, made)
  PROVE  GroupsMade'
<1>0. /\ Sent \in Nat /\ total \in Nat /\ Sent' = Sent + total /\ segs' = segs \cup A /\ fecs' = fecs \cup made
      /\ fecs \subseteq Fec
  BY DEF SenderInv, SenderTyped, Numbered, FrameSent
<1>1. ASSUME NEW f \in fecs
      PROVE  /\ f.group.base_id >= 1 /\ f.group.count >= 1 /\ f.group.base_id + f.group.count <= Sent' + 1
             /\ f.xor = Line(f.group, f.index)
             /\ \A s \in segs' : s.packet_id \in Members(f.group) => s.fec_id = f.group.fec_id
  <2>1. f.group.base_id \in Nat /\ f.group.count \in Nat
    BY <1>0 DEF Fec, Group
  <2>2. /\ f.group.base_id >= 1 /\ f.group.count >= 1 /\ f.group.base_id + f.group.count <= Sent + 1
        /\ f.xor = Line(f.group, f.index)
        /\ \A s \in segs : s.packet_id \in Members(f.group) => s.fec_id = f.group.fec_id
    BY DEF SenderInv, GroupsMade
  <2>3. ASSUME NEW s \in A PROVE s.packet_id \notin Members(f.group)
    <3>1. s.packet_id \in Sent + 1 .. Sent + total
      BY DEF FrameSent
    <3>2. QED
      BY <3>1, <2>1, <2>2, <1>0 DEF Members
  <2>4. QED
    BY <2>1, <2>2, <2>3, <1>0
<1>2. ASSUME NEW f \in made
      PROVE  /\ f.group.base_id >= 1 /\ f.group.count >= 1 /\ f.group.base_id + f.group.count <= Sent' + 1
             /\ f.xor = Line(f.group, f.index)
             /\ \A s \in segs' : s.packet_id \in Members(f.group) => s.fec_id = f.group.fec_id
  <2>1. GrownGroup(g, Sent + 1, total, now)
    BY DEF FrameSent
  <2>2. /\ f.group.fec_id = g.fec_id /\ f.group.base_id = g.base_id /\ f.group.count = Len(g.segs)
        /\ f.xor = Line(f.group, f.index)
    BY <1>2 DEF FrameSent, Closes, MadeOf
  <2>3. g.base_id \in Nat /\ Len(g.segs) \in Nat
    <3>1. g.segs \in Seq(Nat) /\ g.base_id \in Nat
      BY <2>1 DEF GrownGroup, OpenFlex
    <3>2. QED
      BY <3>1, LenProperties
  <2>4. g.base_id >= 1 /\ Len(g.segs) > 0 /\ g.base_id + Len(g.segs) = (Sent + 1) + total
    BY <2>1 DEF GrownGroup
  <2>5. ASSUME NEW s \in segs', s.packet_id \in Members(f.group) PROVE s.fec_id = f.group.fec_id
    <3>1. s.packet_id >= g.base_id
      BY <2>5, <2>2, <2>3 DEF Members
    <3>2. CASE s \in segs
      BY <3>1, <3>2, <2>1, <2>2 DEF GrownGroup
    <3>3. CASE s \in A
      BY <3>3, <2>1, <2>2 DEF FrameSent, GrownGroup
    <3>4. QED
      BY <3>2, <3>3, <1>0
  <2>6. QED
    BY <2>2, <2>3, <2>4, <2>5, <1>0
<1>3. QED
  BY <1>0, <1>1, <1>2 DEF GroupsMade

(* Ids that have come round do not go back.                                 *)
LEMMA StaysWrapped ==
  ASSUME segs \subseteq segs', Unwrapped'
  PROVE  Unwrapped
BY DEF Unwrapped

LEMMA FrameKeepsOwnIds ==
  ASSUME SenderInv, NEW g, NEW A, NEW total, NEW now, NEW made, FrameSent(g, A, total, now, made), Unwrapped'
  PROVE  OwnIds'
<1>0. /\ Sent \in Nat /\ total \in Nat /\ total > 0 /\ Sent' = Sent + total
      /\ segs' = segs \cup A /\ fecs' = fecs \cup made
      /\ fecs \subseteq Fec /\ MaxFecId \in Nat /\ MaxFecId > 1 /\ flex.fec_id \in 1 .. MaxFecId
  BY FecAssumption DEF SenderInv, SenderTyped, Numbered, FrameSent, OpenFlex
<1>1. OwnIds
  BY <1>0, StaysWrapped DEF SenderInv
<1>2. PICK last \in A : TRUE
  <2>1. Sent + total \in 1 .. Sent + total
    BY <1>0
  <2>2. PICK s \in segs' : s.packet_id = Sent + total
    BY <2>1 DEF FrameSent, NumberedIn
  <2>3. s \notin segs
    <3>1. ~(Sent + total \in 1 .. Sent)
      BY <1>0
    <3>2. QED
      BY <2>2, <3>1 DEF SenderInv, Numbered, NumberedIn
  <2>4. QED
    BY <2>2, <2>3, <1>0
<1>3. last \in segs' /\ last.fec_id = flex.fec_id
  BY <1>0, <1>2 DEF FrameSent
<1>4. ~ComingRound
  <2>1. SUFFICES ASSUME ComingRound PROVE FALSE
    OBVIOUS
  <2>2. PICK s \in segs : s.fec_id = MaxFecId
    BY <2>1 DEF ComingRound
  <2>3. s.packet_id \in 1 .. Sent /\ last.packet_id \in Sent + 1 .. Sent + total
    BY <1>2 DEF SenderInv, Numbered, NumberedIn, FrameSent
  <2>4. s.packet_id <= last.packet_id
    BY <2>3, <1>0
  <2>5. s.fec_id <= last.fec_id
    BY <2>4, <1>0, <1>3 DEF Unwrapped
  <2>6. QED
    BY <2>1, <2>2, <2>5, <1>0, <1>3 DEF ComingRound
<1>5. (\A s \in segs : s.fec_id <= flex.fec_id) /\ (\A f \in fecs : f.group.fec_id < flex.fec_id)
  BY <1>1, <1>4 DEF OwnIds
<1>6. \A s \in segs' : s.fec_id <= flex.fec_id
  <2>1. \A s \in A : s.fec_id <= flex.fec_id
    BY <1>0 DEF FrameSent
  <2>2. QED
    BY <2>1, <1>0, <1>5
<1>7. ASSUME NEW f \in made
      PROVE  /\ f.group.fec_id = flex.fec_id
             /\ \A s \in segs' : s.packet_id < f.group.base_id + f.group.count
  <2>1. GrownGroup(g, Sent + 1, total, now)
    BY DEF FrameSent
  <2>2. f.group.fec_id = g.fec_id /\ f.group.base_id = g.base_id /\ f.group.count = Len(g.segs)
    BY <1>7 DEF FrameSent, Closes, MadeOf
  <2>3. f.group.base_id + f.group.count = (Sent + 1) + total
    BY <2>1, <2>2 DEF GrownGroup
  <2>4. \A s \in segs' : s.packet_id \in 1 .. Sent + total
    BY DEF FrameSent, NumberedIn
  <2>5. QED
    BY <2>1, <2>2, <2>3, <2>4, <1>0 DEF GrownGroup
<1>8. \/ ComingRound'
      \/ (\A s \in segs' : s.fec_id <= flex'.fec_id) /\ (\A f \in fecs' : f.group.fec_id < flex'.fec_id)
  <2>1. CASE made = {} /\ flex' = g
    <3>1. flex'.fec_id = flex.fec_id /\ fecs' = fecs
      BY <2>1, <1>0 DEF FrameSent, GrownGroup
    <3>2. QED
      BY <3>1, <1>5, <1>6
  <2>2. CASE Closes(g, made, now)
    <3>1. flex'.segs = <<>> /\ flex'.fec_id = NextFecId(flex.fec_id)
      BY <2>2, NewGroup DEF SenderInv
    <3>2. CASE flex.fec_id = MaxFecId
      BY <3>1, <3>2, <1>3 DEF NextFecId, ComingRound
    <3>3. CASE flex.fec_id # MaxFecId
      <4>1. flex'.fec_id = flex.fec_id + 1
        BY <3>1, <3>3 DEF NextFecId
      <4>2. \A s \in segs' : s.fec_id \in Nat
        BY FrameKeepsTypes DEF SenderTyped, FecSegment
      <4>3. \A f \in fecs' : f.group.fec_id \in Nat
        BY FrameKeepsTypes DEF SenderTyped, Fec, Group
      <4>4. \A s \in segs' : s.fec_id <= flex'.fec_id
        BY <4>1, <4>2, <1>6, <1>0
      <4>5. \A f \in fecs' : f.group.fec_id < flex'.fec_id
        BY <4>1, <4>3, <1>5, <1>7, <1>0
      <4>6. QED
        BY <4>4, <4>5
    <3>4. QED
      BY <3>2, <3>3
  <2>3. QED
    BY <2>1, <2>2 DEF FrameSent
<1>9. \A f, h \in fecs' : f.group.fec_id = h.group.fec_id => f.group = h.group
  <2>1. \A f, h \in made : f.group = h.group
    BY DEF FrameSent, Closes, MadeOf
  <2>2. \A f \in fecs, h \in made : f.group.fec_id # h.group.fec_id
    <3>1. \A f \in fecs : f.group.fec_id \in Nat
      BY <1>0 DEF Fec, Group
    <3>2. QED
      BY <3>1, <1>5, <1>7, <1>0
  <2>3. QED
    BY <2>1, <2>2, <1>0, <1>1 DEF OwnIds
<1>10. ASSUME NEW f \in fecs', NEW s \in segs', s.fec_id = f.group.fec_id
       PROVE  s.packet_id < f.group.base_id + f.group.count
  <2>1. CASE f \in made
    BY <2>1, <1>7
  <2>2. CASE f \in fecs /\ s \in segs
    BY <2>2, <1>1, <1>10 DEF OwnIds
  <2>3. CASE f \in fecs /\ s \in A
    <3>1. s.fec_id = flex.fec_id /\ f.group.fec_id < flex.fec_id
      BY <2>3, <1>5 DEF FrameSent
    <3>2. QED
      BY <3>1, <1>10, <1>0
  <2>4. QED
    BY <2>1, <2>2, <2>3, <1>0
<1>11. QED
  BY <1>8, <1>9, <1>10 DEF OwnIds

LEMMA SenderKeeps ==
  ASSUME SenderInv, sim_sender_fec
  PROVE  SenderInv'
<1>1. PICK g, A, total, now, made : FrameSent(g, A, total, now, made)
  BY FrameIsSent
<1>2. SenderTyped' /\ Dated' /\ OpenGroup' /\ GroupsMade'
  BY <1>1, FrameKeepsTypes, FrameKeepsDates, FrameKeepsOpenGroup, FrameKeepsGroupsMade
<1>3. Numbered'
  <2>1. Sent' \in Nat
    BY <1>1 DEF FrameSent, SenderInv, Numbered
  <2>2. NumberedIn(segs', Sent')
    BY <1>1 DEF FrameSent
  <2>3. QED
    BY <2>1, <2>2 DEF Numbered, NumberedIn
<1>4. Unwrapped' => OwnIds'
  BY <1>1, FrameKeepsOwnIds
<1>5. QED
  BY <1>2, <1>3, <1>4 DEF SenderInv

-----------------------------------------------------------------------------
(* A FEC packet leaves within the time a group is held beyond its segments' *)
(* first: what keeps a group younger than its segments.                     *)
SentInTime == \A f \in fecs, s \in segs :
  s.packet_id >= f.group.base_id => f.send_ts <= s.timestamp + EVICT_FEC_DELAY

LEMMA FrameKeepsInTime ==
  ASSUME SenderInv, SentInTime, sim_sender_fec,
         \A delay \in FecDelays : delay + RegroupDelay <= EVICT_FEC_DELAY
  PROVE  SentInTime'
<1>1. PICK g, A, total, now, made : FrameSent(g, A, total, now, made)
  BY FrameIsSent
<1>0. /\ Sent \in Nat /\ clock \in Nat /\ now \in Nat /\ clock <= now /\ segs' = segs \cup A /\ fecs' = fecs \cup made
      /\ segs \subseteq FecSegment /\ fecs \subseteq Fec /\ EVICT_FEC_DELAY \in Nat /\ RegroupDelay \in Nat
      /\ FecDelays \subseteq Nat
  BY <1>1, FecAssumption DEF SenderInv, SenderTyped, Numbered, FrameSent
<1>2. ASSUME NEW f \in fecs, NEW s \in A PROVE f.send_ts <= s.timestamp + EVICT_FEC_DELAY
  <2>1. /\ f.group.base_id \in Nat /\ f.group.count \in Nat /\ f.send_ts \in Nat
        /\ f.group.base_id >= 1 /\ f.group.count >= 1 /\ f.group.base_id + f.group.count <= Sent + 1
    BY <1>0 DEF Fec, Group, SenderInv, GroupsMade
  <2>2. f.group.base_id \in 1 .. Sent
    BY <2>1, <1>0
  <2>3. PICK t \in segs : t.packet_id = f.group.base_id
    BY <2>2 DEF SenderInv, Numbered, NumberedIn
  <2>4. f.send_ts <= t.timestamp + EVICT_FEC_DELAY
    BY <2>1, <2>3 DEF SentInTime
  <2>5. t.timestamp \in Nat /\ t.timestamp <= clock
    BY <1>0 DEF SenderInv, Dated, FecSegment
  <2>6. s.timestamp = now
    BY <1>1 DEF FrameSent
  <2>7. QED
    BY <2>1, <2>4, <2>5, <2>6, <1>0
<1>3. ASSUME NEW f \in made, NEW s \in segs', s.packet_id >= f.group.base_id
      PROVE  f.send_ts <= s.timestamp + EVICT_FEC_DELAY
  <2>1. GrownGroup(g, Sent + 1, total, now)
    BY <1>1 DEF FrameSent
  <2>2. PICK delay \in FecDelays : MadeOf(g, made, now + delay)
    BY <1>1, <1>3 DEF FrameSent, Closes
  <2>3. f.group.base_id = g.base_id /\ f.send_ts = now + delay
    BY <2>2 DEF MadeOf
  <2>4. g.fec_ts \in Nat /\ g.fec_ts <= now /\ now <= g.fec_ts + RegroupDelay
    BY <2>1 DEF GrownGroup, OpenFlex
  <2>5. s.timestamp \in Nat /\ g.fec_ts <= s.timestamp
    <3>1. CASE s \in segs
      <4>1. g.fec_ts <= s.timestamp
        BY <3>1, <1>3, <2>1, <2>3 DEF GrownGroup
      <4>2. QED
        BY <3>1, <4>1, <1>0 DEF FecSegment
    <3>2. CASE s \in A
      BY <3>2, <1>0, <1>1, <2>4 DEF FrameSent
    <3>3. QED
      BY <3>1, <3>2, <1>0
  <2>6. delay \in Nat /\ delay + RegroupDelay <= EVICT_FEC_DELAY
    BY <1>0
  <2>7. QED
    BY <2>3, <2>4, <2>5, <2>6, <1>0
<1>4. QED
  BY <1>0, <1>2, <1>3 DEF SentInTime

-----------------------------------------------------------------------------
(* The receiver's types.                                                    *)

Recovery == [ids : SUBSET Nat, fec_id : 1 .. MaxFecId]

RecState == [max_ts : Nat, segs_cache : SUBSET FecSegment, flexes : SUBSET FlexRecv, recover_packets : SUBSET Recovery]

ReceiverTyped == heard \subseteq fecs /\ rec \in RecState /\ put \subseteq Nat /\ passed \in Nat

LEMMA RecoveredTyped ==
  ASSUME NEW x \in FlexRecv, NEW index
  PROVE  Recovered(x, index) \subseteq Recovery
<1> DEFINE line == Line(x.group, index)
           held == line \cap x.segs
<1>1. ASSUME NEW fec \in x.fecs PROVE [ids |-> Xor(fec.xor, held), fec_id |-> fec.group.fec_id] \in Recovery
  <2>1. fec.xor \subseteq Nat /\ x.segs \subseteq Nat /\ fec.group.fec_id \in 1 .. MaxFecId
    BY DEF FlexRecv, Fec, Group
  <2>2. Xor(fec.xor, held) \subseteq Nat
    BY <2>1 DEF Xor
  <2>3. QED
    <3> HIDE DEF held
    <3> QED BY <2>1, <2>2 DEF Recovery
<1>2. \/ Recovered(x, index) = {}
      \/ Recovered(x, index) = {[ids |-> Xor(fec.xor, held), fec_id |-> fec.group.fec_id]
                                : fec \in {f \in x.fecs : f.index = index}}
  BY Zenon DEF Recovered
<1>3. QED
  <2> HIDE DEF held
  <2> QED BY <1>1, <1>2

LEMMA AlongLinesTyped ==
  ASSUME NEW x \in FlexRecv, NEW p
  PROVE  AlongLines(x, p) \subseteq Recovery
BY RecoveredTyped DEF AlongLines

(* What both handlers of a group leave of it, and what they recover.        *)
LEMMA OnSegmentTyped ==
  ASSUME NEW x \in FlexRecv, NEW p \in Nat
  PROVE  LET after == flex_fec_receiver_on_segment(x, p)
         IN  /\ after.flex \in FlexRecv /\ after.out \subseteq Recovery
             /\ after.flex.group = x.group /\ after.flex.fec_ts = x.fec_ts /\ after.flex.fecs = x.fecs
             /\ \/ after.flex = x /\ after.out = {}
                \/ /\ p >= x.group.base_id /\ after.flex.segs = x.segs \cup {p}
                   /\ after.out = AlongLines(after.flex, p)
<1> DEFINE new == [x EXCEPT !.segs = x.segs \cup {p}]
           after == flex_fec_receiver_on_segment(x, p)
<1>1. new \in FlexRecv /\ new.group = x.group /\ new.fec_ts = x.fec_ts /\ new.fecs = x.fecs /\ new.segs = x.segs \cup {p}
  BY DEF FlexRecv
<1>2. CASE p < x.group.base_id \/ p \in x.segs
  <2>1. after = [flex |-> x, out |-> {}]
    BY Zenon, <1>2 DEF flex_fec_receiver_on_segment
  <2>2. QED
    BY <2>1
<1>3. CASE ~(p < x.group.base_id \/ p \in x.segs)
  <2>1. after = [flex |-> new, out |-> AlongLines(new, p)]
    BY Zenon, <1>3 DEF flex_fec_receiver_on_segment
  <2>2. p >= x.group.base_id
    <3>1. x.group.base_id \in Nat
      BY DEF FlexRecv, Group
    <3>2. QED
      BY <3>1, <1>3
  <2>3. after.flex = new /\ after.out = AlongLines(new, p)
    BY <2>1
  <2>4. QED
    <3> HIDE DEF new, after
    <3>1. AlongLines(new, p) \subseteq Recovery
      BY <1>1, AlongLinesTyped
    <3>2. after.flex \in FlexRecv /\ after.out \subseteq Recovery
      BY <2>3, <1>1, <3>1
    <3>3. QED
      BY <1>1, <2>2, <2>3, <3>2 DEF after
<1>4. QED
  BY <1>2, <1>3

LEMMA OnFecTyped ==
  ASSUME NEW x \in FlexRecv, NEW fec \in Fec
  PROVE  LET after == flex_fec_receiver_on_fec(x, fec)
         IN  /\ after.flex \in FlexRecv /\ after.out \subseteq Recovery
             /\ after.flex.group = x.group /\ after.flex.fec_ts = x.fec_ts /\ after.flex.segs = x.segs
             /\ \/ after.flex = x /\ after.out = {}
                \/ after.flex.fecs = x.fecs \cup {fec} /\ after.out = Recovered(after.flex, fec.index)
<1> DEFINE new == [x EXCEPT !.fecs = x.fecs \cup {fec}]
           after == flex_fec_receiver_on_fec(x, fec)
<1>1. new \in FlexRecv /\ new.group = x.group /\ new.fec_ts = x.fec_ts /\ new.segs = x.segs /\ new.fecs = x.fecs \cup {fec}
  BY DEF FlexRecv
<1>2. CASE \E f \in x.fecs : f.index = fec.index
  <2>1. after = [flex |-> x, out |-> {}]
    BY Zenon, <1>2 DEF flex_fec_receiver_on_fec
  <2>2. QED
    BY <2>1
<1>3. CASE ~(\E f \in x.fecs : f.index = fec.index)
  <2>1. after = [flex |-> new, out |-> Recovered(new, fec.index)]
    BY Zenon, <1>3 DEF flex_fec_receiver_on_fec
  <2>2. after.flex = new /\ after.out = Recovered(new, fec.index)
    BY <2>1
  <2>3. QED
    <3> HIDE DEF new, after
    <3>1. Recovered(new, fec.index) \subseteq Recovery
      BY <1>1, RecoveredTyped
    <3>2. after.flex \in FlexRecv /\ after.out \subseteq Recovery
      BY <2>2, <1>1, <3>1
    <3>3. QED
      BY <1>1, <2>2, <3>2 DEF after
<1>4. QED
  BY <1>2, <1>3

-----------------------------------------------------------------------------
(* The receiver while the ids have not come round: it holds segments sent   *)
(* and groups made, each with what is its own, and recovers what was lost.  *)

GroupHeld(x) ==
  /\ \E f \in fecs : f.group = x.group /\ f.send_ts = x.fec_ts
  /\ \A f \in x.fecs : f \in fecs /\ f.group = x.group
  /\ x.segs \subseteq Members(x.group)

LostOnly(out) == \A q \in out : \E s \in segs : q.ids = {s.packet_id} /\ q.fec_id = s.fec_id

OnePerId(f) == \A x, y \in f.flexes : x.group.fec_id = y.group.fec_id => x = y

Sound(f) ==
  /\ f.segs_cache \subseteq segs
  /\ \A x \in f.flexes : GroupHeld(x)
  /\ OnePerId(f)
  /\ LostOnly(f.recover_packets)

(* No group points to a segment that is no longer in the cache.             *)
Live(f) == \A x \in f.flexes : x.segs \subseteq {s.packet_id : s \in f.segs_cache}

(* The receiver recovers of a line what the sender left of it: the sender's *)
(* exclusive or is of the same line, so that all but the one missing cancel *)
(* out; and the one missing is a segment of the group.                      *)
LEMMA RecoveredIsLost ==
  ASSUME SenderInv, NEW x \in FlexRecv, GroupHeld(x), NEW index
  PROVE  LostOnly(Recovered(x, index))
<1> DEFINE line == Line(x.group, index)
           held == line \cap x.segs
<1>1. SUFFICES ASSUME NEW q \in Recovered(x, index)
               PROVE  \E s \in segs : q.ids = {s.packet_id} /\ q.fec_id = s.fec_id
  BY DEF LostOnly
<1>2. \/ Recovered(x, index) = {}
      \/ /\ Cardinality(line \ held) = 1
         /\ Recovered(x, index) = {[ids |-> Xor(fec.xor, held), fec_id |-> fec.group.fec_id]
                                   : fec \in {f \in x.fecs : f.index = index}}
  BY Zenon DEF Recovered
<1>3. /\ Cardinality(line \ held) = 1
      /\ \E fec \in {f \in x.fecs : f.index = index} : q = [ids |-> Xor(fec.xor, held), fec_id |-> fec.group.fec_id]
  <2> HIDE DEF held, line
  <2> QED BY <1>1, <1>2
<1>4. PICK fec \in {f \in x.fecs : f.index = index} : q = [ids |-> Xor(fec.xor, held), fec_id |-> fec.group.fec_id]
  BY <1>3
<1>5. fec \in fecs /\ fec.group = x.group /\ fec.index = index
  BY <1>4 DEF GroupHeld
<1>6. fec \in Fec /\ fec.group \in Group /\ index \in [column : BOOLEAN, at : Nat]
  BY <1>5 DEF SenderInv, SenderTyped, Fec
<1>7. fec.xor = line
  BY <1>5 DEF SenderInv, GroupsMade
<1>8. line \subseteq Members(x.group) /\ IsFiniteSet(line)
  <2> HIDE DEF line
  <2> QED BY <1>5, <1>6, LineInGroup DEF line
<1>9. PICK m : line \ held = {m}
  <2>1. IsFiniteSet(line \ held)
    <3>1. line \ held \in SUBSET line
      OBVIOUS
    <3>2. QED
      <4> HIDE DEF line, held
      <4> QED BY <1>8, <3>1, FS_Subset
  <2>2. QED
    <3> HIDE DEF line, held
    <3> QED BY <2>1, <1>3, FS_Singleton
<1>10. Xor(fec.xor, held) = {m}
  <2>1. held \subseteq line
    OBVIOUS
  <2>2. QED
    <3> HIDE DEF line, held
    <3> QED BY <2>1, <1>7, <1>9 DEF Xor
<1>11. PICK s \in segs : s.packet_id = m /\ s.fec_id = x.group.fec_id
  <2>1. m \in Members(x.group)
    <3> HIDE DEF line, held
    <3> QED BY <1>8, <1>9
  <2>2. /\ x.group.base_id \in Nat /\ x.group.count \in Nat /\ Sent \in Nat
        /\ x.group.base_id >= 1 /\ x.group.base_id + x.group.count <= Sent + 1
    BY <1>5, <1>6 DEF Group, SenderInv, GroupsMade, Numbered
  <2>3. m \in 1 .. Sent
    BY <2>1, <2>2 DEF Members
  <2>4. PICK s \in segs : s.packet_id = m
    BY <2>3 DEF SenderInv, Numbered, NumberedIn
  <2>5. QED
    BY <2>1, <2>4, <1>5 DEF SenderInv, GroupsMade
<1>12. q.ids = {m} /\ q.fec_id = x.group.fec_id
  <2> HIDE DEF held
  <2> QED BY <1>4, <1>5, <1>10
<1>13. QED
  BY <1>11, <1>12

(* A segment of a group's id that is not before the group is of the group.  *)
LEMMA SegmentOfGroup ==
  ASSUME SenderInv, OwnIds, NEW x, GroupHeld(x), NEW s \in segs,
         s.fec_id = x.group.fec_id, s.packet_id >= x.group.base_id
  PROVE  s.packet_id \in Members(x.group)
<1>1. PICK f \in fecs : f.group = x.group
  BY DEF GroupHeld
<1>2. x.group.base_id \in Nat /\ x.group.count \in Nat /\ s.packet_id \in Nat
  BY <1>1 DEF SenderInv, SenderTyped, Fec, Group, FecSegment
<1>3. s.packet_id < x.group.base_id + x.group.count
  BY <1>1 DEF OwnIds
<1>4. QED
  BY <1>2, <1>3 DEF Members

(* The ids of the segments tell the groups apart.                           *)
LEMMA MembersApart ==
  ASSUME SenderInv, NEW x, NEW y, GroupHeld(x), GroupHeld(y), x.group.fec_id # y.group.fec_id
  PROVE  Members(x.group) \cap Members(y.group) = {}
<1>1. SUFFICES ASSUME NEW p \in Members(x.group), p \in Members(y.group) PROVE FALSE
  OBVIOUS
<1>2. PICK f \in fecs, h \in fecs : f.group = x.group /\ h.group = y.group
  BY DEF GroupHeld
<1>3. /\ x.group.base_id \in Nat /\ x.group.count \in Nat /\ Sent \in Nat
      /\ x.group.base_id >= 1 /\ x.group.base_id + x.group.count <= Sent + 1
  BY <1>2 DEF SenderInv, SenderTyped, Numbered, GroupsMade, Fec, Group
<1>4. p \in 1 .. Sent
  BY <1>3, <1>1 DEF Members
<1>5. PICK s \in segs : s.packet_id = p
  BY <1>4 DEF SenderInv, Numbered, NumberedIn
<1>6. s.fec_id = x.group.fec_id /\ s.fec_id = y.group.fec_id
  BY <1>1, <1>2, <1>5 DEF SenderInv, GroupsMade
<1>7. QED
  BY <1>6

-----------------------------------------------------------------------------
(* A FEC packet put: the group x of its id, held already or new, takes it.  *)

FecPut(f, fec, x, after, r) ==
  /\ x \in FlexRecv
  /\ after = flex_fec_receiver_on_fec(x, fec)
  /\ \/ x \in f.flexes /\ x.group.fec_id = fec.group.fec_id
     \/ /\ x.group = fec.group /\ x.fec_ts = fec.send_ts /\ x.fecs = {}
        /\ x.segs = {s.packet_id : s \in f.segs_cache} \cap Members(fec.group)
  /\ r.max_ts = f.max_ts /\ r.segs_cache = f.segs_cache
  /\ r.flexes = {y \in f.flexes : y.group.fec_id # fec.group.fec_id} \cup {after.flex}
  /\ r.recover_packets = f.recover_packets \cup after.out
  /\ r \in RecState

LEMMA FecIsPut ==
  ASSUME NEW f \in RecState, NEW fec \in Fec
  PROVE  \/ sim_fec_put_fec_packet(f, fec) = f
         \/ \E x, after : FecPut(f, fec, x, after, sim_fec_put_fec_packet(f, fec))
<1> DEFINE known == FlexOf(f, fec.group.fec_id)
           empty == flex_fec_receiver_active(fec.group, fec.send_ts)
           fresh == sim_fec_add_segment_to_flex(f, empty)
           x     == IF known = {} THEN fresh ELSE CHOOSE y \in known : TRUE
           after == flex_fec_receiver_on_fec(x, fec)
           r     == sim_fec_put_fec_packet(f, fec)
<1>1. r = IF TooLate(f, fec) THEN f
          ELSE AddRecover([f EXCEPT !.flexes = (f.flexes \ known) \cup {after.flex}], after.out)
  BY Zenon DEF sim_fec_put_fec_packet
<1>2. /\ fresh \in FlexRecv /\ fresh.group = fec.group /\ fresh.fec_ts = fec.send_ts /\ fresh.fecs = {}
      /\ fresh.segs = {s.packet_id : s \in f.segs_cache} \cap Members(fec.group)
  <2>1. empty = [group |-> fec.group, fec_ts |-> fec.send_ts, segs |-> {}, fecs |-> {}]
    BY DEF flex_fec_receiver_active
  <2>2. empty.group = fec.group
    BY <2>1
  <2> DEFINE ids == {s.packet_id : s \in f.segs_cache} \cap Members(fec.group)
  <2>3. fresh = [empty EXCEPT !.segs = ids]
    <3> HIDE DEF empty
    <3> QED BY <2>2 DEF sim_fec_add_segment_to_flex, Members
  <2>4. fresh = [group |-> fec.group, fec_ts |-> fec.send_ts, segs |-> ids, fecs |-> {}]
    <3> HIDE DEF ids, empty, fresh
    <3> QED BY <2>1, <2>3
  <2>5. ids \subseteq Nat
    <3>1. \A s \in f.segs_cache : s.packet_id \in Nat
      BY DEF RecState, FecSegment
    <3>2. QED
      BY <3>1
  <2>6. fec.group \in Group /\ fec.send_ts \in Nat
    BY DEF Fec
  <2>7. QED
    <3> HIDE DEF ids, empty, fresh
    <3>1. fresh \in FlexRecv
      BY <2>4, <2>5, <2>6 DEF FlexRecv
    <3>2. QED
      BY <2>4, <3>1 DEF ids
<1>3. known = {y \in f.flexes : y.group.fec_id = fec.group.fec_id}
  BY DEF FlexOf
<1>4. /\ x \in FlexRecv
      /\ (x \in f.flexes /\ x.group.fec_id = fec.group.fec_id) \/ x = fresh
  <2> HIDE DEF known, fresh
  <2>1. CASE known = {}
    BY <2>1, <1>2
  <2>2. CASE known # {}
    <3>1. x \in known
      BY <2>2
    <3>2. QED
      <4> HIDE DEF x
      <4> QED BY <3>1, <1>3 DEF RecState
  <2>3. QED
    BY <2>1, <2>2
<1>5. CASE TooLate(f, fec)
  BY <1>1, <1>5
<1>6. CASE ~TooLate(f, fec)
  <2> DEFINE g == [f EXCEPT !.flexes = (f.flexes \ known) \cup {after.flex}]
  <2>1. r = [g EXCEPT !.recover_packets = g.recover_packets \cup after.out]
    <3> HIDE DEF known, after
    <3> QED BY <1>1, <1>6 DEF AddRecover
  <2>2. /\ g.max_ts = f.max_ts /\ g.segs_cache = f.segs_cache /\ g.recover_packets = f.recover_packets
        /\ g.flexes = (f.flexes \ known) \cup {after.flex}
        /\ DOMAIN g = {"max_ts", "segs_cache", "flexes", "recover_packets"}
    <3> HIDE DEF known, after
    <3> QED BY DEF RecState
  <2>3. /\ r.max_ts = f.max_ts /\ r.segs_cache = f.segs_cache /\ r.recover_packets = f.recover_packets \cup after.out
        /\ r.flexes = (f.flexes \ known) \cup {after.flex}
    <3> HIDE DEF known, after, g, r
    <3> QED BY <2>1, <2>2
  <2>4. f.flexes \ known = {y \in f.flexes : y.group.fec_id # fec.group.fec_id}
    <3> HIDE DEF known
    <3> QED BY <1>3
  <2>5. FecPut(f, fec, x, after, r)
    <3> HIDE DEF known, x, fresh, r
    <3>1. \/ x \in f.flexes /\ x.group.fec_id = fec.group.fec_id
          \/ /\ x.group = fec.group /\ x.fec_ts = fec.send_ts /\ x.fecs = {}
             /\ x.segs = {s.packet_id : s \in f.segs_cache} \cap Members(fec.group)
      BY <1>2, <1>4
    <3>2. r.flexes = {y \in f.flexes : y.group.fec_id # fec.group.fec_id} \cup {after.flex}
      <4> HIDE DEF after
      <4> QED BY <2>3, <2>4
    <3>3. after = flex_fec_receiver_on_fec(x, fec)
      OBVIOUS
    <3>4. after.flex \in FlexRecv /\ after.out \subseteq Recovery
      BY <1>4, OnFecTyped
    <3>5. r \in RecState
      <4> HIDE DEF after
      <4>1. (f.flexes \ known) \cup {after.flex} \subseteq FlexRecv
        BY <3>4 DEF RecState
      <4>2. g \in RecState
        <5> DEFINE new == (f.flexes \ known) \cup {after.flex}
        <5> HIDE DEF new
        <5> QED BY <4>1 DEF new, RecState
      <4>3. g.recover_packets \cup after.out \subseteq Recovery
        <5> HIDE DEF g
        <5> QED BY <4>2, <3>4 DEF RecState
      <4>4. QED
        <5> HIDE DEF g
        <5> QED BY <2>1, <4>2, <4>3 DEF RecState
    <3>6. QED
      <4> HIDE DEF after, g
      <4> QED BY Zenon, <1>4, <2>3, <3>1, <3>2, <3>3, <3>5 DEF FecPut
  <2>6. QED
    <3> HIDE DEF known, x, fresh, r, after
    <3> QED BY Zenon, <2>5 DEF r
<1>7. QED
  BY <1>5, <1>6

LEMMA PutFecTyped ==
  ASSUME NEW f \in RecState, NEW fec \in Fec
  PROVE  sim_fec_put_fec_packet(f, fec) \in RecState
BY FecIsPut DEF FecPut

LEMMA PutFecSound ==
  ASSUME SenderInv, OwnIds, NEW f \in RecState, Sound(f), NEW fec \in fecs
  PROVE  Sound(sim_fec_put_fec_packet(f, fec))
<1> DEFINE r == sim_fec_put_fec_packet(f, fec)
<1>1. CASE r = f
  BY <1>1
<1>2. ASSUME NEW x, NEW after, FecPut(f, fec, x, after, r) PROVE Sound(r)
  <2> HIDE DEF r
  <2>0. fec \in Fec
    BY DEF SenderInv, SenderTyped
  <2>1. x \in FlexRecv /\ after = flex_fec_receiver_on_fec(x, fec)
    BY <1>2 DEF FecPut
  <2>2. GroupHeld(x) /\ x.group = fec.group
    <3>1. CASE x \in f.flexes /\ x.group.fec_id = fec.group.fec_id
      <4>1. GroupHeld(x)
        BY <3>1 DEF Sound
      <4>2. PICK h \in fecs : h.group = x.group
        BY <4>1 DEF GroupHeld
      <4>3. QED
        BY <3>1, <4>1, <4>2 DEF OwnIds
    <3>2. CASE /\ x.group = fec.group /\ x.fec_ts = fec.send_ts /\ x.fecs = {}
               /\ x.segs = {s.packet_id : s \in f.segs_cache} \cap Members(fec.group)
      BY <3>2 DEF GroupHeld
    <3>3. QED
      BY <1>2, <3>1, <3>2 DEF FecPut
  <2>3. /\ after.flex \in FlexRecv
        /\ after.flex.group = x.group /\ after.flex.fec_ts = x.fec_ts /\ after.flex.segs = x.segs
        /\ \/ after.flex = x /\ after.out = {}
           \/ after.flex.fecs = x.fecs \cup {fec} /\ after.out = Recovered(after.flex, fec.index)
    BY <2>0, <2>1, OnFecTyped
  <2>4. GroupHeld(after.flex)
    BY <2>2, <2>3 DEF GroupHeld
  <2>5. LostOnly(after.out)
    <3>1. CASE after.out = {}
      BY <3>1 DEF LostOnly
    <3>2. CASE after.out = Recovered(after.flex, fec.index)
      BY <3>2, <2>3, <2>4, RecoveredIsLost
    <3>3. QED
      BY <2>3, <3>1, <3>2
  <2>6. r.flexes = {y \in f.flexes : y.group.fec_id # fec.group.fec_id} \cup {after.flex}
    BY <1>2 DEF FecPut
  <2>7. OnePerId(r)
    BY <2>2, <2>3, <2>6 DEF Sound, OnePerId
  <2>8. \A y \in r.flexes : GroupHeld(y)
    BY <2>4, <2>6 DEF Sound
  <2>9. r.segs_cache \subseteq segs /\ LostOnly(r.recover_packets)
    BY <1>2, <2>5 DEF FecPut, Sound, LostOnly
  <2>10. QED
    BY <2>7, <2>8, <2>9 DEF Sound
<1>3. QED
  <2>1. fec \in Fec
    BY DEF SenderInv, SenderTyped
  <2>2. r = f \/ \E x, after : FecPut(f, fec, x, after, r)
    BY <2>1, FecIsPut
  <2> HIDE DEF r
  <2>3. Sound(r)
    BY <2>2, <1>1, <1>2
  <2>4. QED
    BY <2>3 DEF r

LEMMA PutFecLive ==
  ASSUME NEW f \in RecState, Live(f), NEW fec \in Fec
  PROVE  Live(sim_fec_put_fec_packet(f, fec))
<1> DEFINE r == sim_fec_put_fec_packet(f, fec)
<1>1. ASSUME NEW x, NEW after, FecPut(f, fec, x, after, r) PROVE Live(r)
  <2> HIDE DEF r
  <2>1. x \in FlexRecv /\ after = flex_fec_receiver_on_fec(x, fec)
    BY <1>1 DEF FecPut
  <2>2. after.flex.segs = x.segs
    BY <2>1, OnFecTyped
  <2>3. x.segs \subseteq {s.packet_id : s \in f.segs_cache}
    BY <1>1 DEF FecPut, Live
  <2>4. r.segs_cache = f.segs_cache /\ r.flexes = {y \in f.flexes : y.group.fec_id # fec.group.fec_id} \cup {after.flex}
    BY <1>1 DEF FecPut
  <2>5. QED
    BY <2>2, <2>3, <2>4 DEF Live
<1>2. QED
  <2>1. r = f \/ \E x, after : FecPut(f, fec, x, after, r)
    BY FecIsPut
  <2> HIDE DEF r
  <2>2. Live(r)
    BY <2>1, <1>1
  <2>3. QED
    BY <2>2 DEF r

-----------------------------------------------------------------------------
(* Groups let go take the segments of theirs along, and no others'.         *)

LEMMA WithoutIs ==
  ASSUME NEW f \in RecState, NEW gone
  PROVE  LET g == WithoutFlexes(f, gone)
         IN  /\ g \in RecState
             /\ g.max_ts = f.max_ts /\ g.recover_packets = f.recover_packets
             /\ g.flexes = f.flexes \ gone
             /\ g.segs_cache = {s \in f.segs_cache : \A x \in gone : s.packet_id \notin Members(x.group)}
<1> DEFINE kept  == {s \in f.segs_cache : \A x \in gone : ~(s.packet_id \in Members(x.group))}
           rest  == f.flexes \ gone
           g     == WithoutFlexes(f, gone)
<1>1. g = [f EXCEPT !.flexes = rest, !.segs_cache = kept]
  BY DEF WithoutFlexes, Members
<1>2. kept \subseteq FecSegment /\ rest \subseteq FlexRecv
  BY DEF RecState
<1>3. /\ g \in RecState /\ g.max_ts = f.max_ts /\ g.recover_packets = f.recover_packets
      /\ g.flexes = rest /\ g.segs_cache = kept
  <2> HIDE DEF kept, rest, g
  <2> QED BY <1>1, <1>2 DEF RecState
<1>4. QED
  BY <1>3

LEMMA WithoutSound ==
  ASSUME NEW f \in RecState, Sound(f), NEW gone
  PROVE  Sound(WithoutFlexes(f, gone))
<1> DEFINE g == WithoutFlexes(f, gone)
<1>1. /\ g.recover_packets = f.recover_packets /\ g.flexes \subseteq f.flexes /\ g.segs_cache \subseteq f.segs_cache
  BY WithoutIs
<1>2. QED
  <2> HIDE DEF g
  <2>1. Sound(g)
    BY <1>1 DEF Sound, OnePerId
  <2>2. QED
    BY <2>1 DEF g

LEMMA WithoutLive ==
  ASSUME SenderInv, NEW f \in RecState, Sound(f), Live(f), NEW gone \in SUBSET f.flexes
  PROVE  Live(WithoutFlexes(f, gone))
<1> DEFINE g == WithoutFlexes(f, gone)
<1>1. /\ g.flexes = f.flexes \ gone
      /\ g.segs_cache = {s \in f.segs_cache : \A x \in gone : s.packet_id \notin Members(x.group)}
  BY WithoutIs
<1>2. ASSUME NEW y \in f.flexes \ gone, NEW p \in y.segs
      PROVE  \E s \in f.segs_cache : s.packet_id = p /\ \A x \in gone : p \notin Members(x.group)
  <2>1. PICK s \in f.segs_cache : s.packet_id = p
    BY <1>2 DEF Live
  <2>2. GroupHeld(y) /\ p \in Members(y.group)
    BY <1>2 DEF Sound, GroupHeld
  <2>3. ASSUME NEW x \in gone PROVE p \notin Members(x.group)
    <3>1. GroupHeld(x) /\ x.group.fec_id # y.group.fec_id
      BY <1>2 DEF Sound, OnePerId
    <3>2. QED
      BY <3>1, <2>2, MembersApart
  <2>4. QED
    BY <2>1, <2>3
<1>3. QED
  <2> HIDE DEF g
  <2>1. Live(g)
    BY <1>1, <1>2 DEF Live
  <2>2. QED
    BY <2>1 DEF g

-----------------------------------------------------------------------------
(* A segment put: its group, if held, takes it, and goes when it is full.   *)

SegmentAdded(f, seg, x, after, added) ==
  /\ x \in f.flexes /\ x \in FlexRecv /\ x.group.fec_id = seg.fec_id
  /\ after = flex_fec_receiver_on_segment(x, seg.packet_id)
  /\ added \in RecState
  /\ added.segs_cache = f.segs_cache \cup {seg}
  /\ added.flexes = {y \in f.flexes : y.group.fec_id # seg.fec_id} \cup {after.flex}
  /\ added.recover_packets = f.recover_packets \cup after.out

SegmentAlone(f, seg, r) ==
  /\ r \in RecState
  /\ r.segs_cache = f.segs_cache \cup {seg} /\ r.flexes = f.flexes /\ r.recover_packets = f.recover_packets

LEMMA SegmentIsPut ==
  ASSUME NEW f \in RecState, NEW seg \in FecSegment
  PROVE  LET r == sim_fec_put_segment(f, seg)
         IN  \/ r = f
             \/ SegmentAlone(f, seg, r)
             \/ \E x, after, added : /\ SegmentAdded(f, seg, x, after, added)
                                     /\ r = added \/ r = WithoutFlexes(added, {after.flex})
<1> DEFINE top   == IF seg.timestamp > f.max_ts THEN seg.timestamp ELSE f.max_ts
           cache == f.segs_cache \cup {seg}
           new   == [f EXCEPT !.segs_cache = cache, !.max_ts = top]
           known == FlexOf(f, seg.fec_id)
           x     == CHOOSE y \in known : TRUE
           after == flex_fec_receiver_on_segment(x, seg.packet_id)
           held  == (f.flexes \ known) \cup {after.flex}
           grown == [new EXCEPT !.flexes = held]
           added == AddRecover(grown, after.out)
           r     == sim_fec_put_segment(f, seg)
<1>1. r = IF \E s \in f.segs_cache : s.packet_id = seg.packet_id THEN f
          ELSE IF known = {} THEN new
          ELSE IF Full(after.flex) THEN WithoutFlexes(added, {after.flex}) ELSE added
  BY Zenon DEF sim_fec_put_segment
<1>2. top \in Nat /\ cache \subseteq FecSegment
  BY DEF RecState, FecSegment
<1>3. SegmentAlone(f, seg, new)
  <2>1. new \in RecState /\ new.segs_cache = cache /\ new.flexes = f.flexes /\ new.recover_packets = f.recover_packets
    <3> HIDE DEF top, cache
    <3> QED BY <1>2 DEF RecState
  <2>2. QED
    <3> HIDE DEF new
    <3> QED BY <2>1 DEF SegmentAlone
<1>4. ASSUME known # {} PROVE SegmentAdded(f, seg, x, after, added)
  <2>1. known = {y \in f.flexes : y.group.fec_id = seg.fec_id}
    BY DEF FlexOf
  <2>2. x \in f.flexes /\ x.group.fec_id = seg.fec_id
    <3>1. x \in known
      <4> HIDE DEF known
      <4> QED BY <1>4
    <3>2. QED
      <4> HIDE DEF x, known
      <4> QED BY <2>1, <3>1
  <2>3. x \in FlexRecv
    <3> HIDE DEF x
    <3> QED BY <2>2 DEF RecState
  <2>4. after.flex \in FlexRecv /\ after.out \subseteq Recovery
    <3>1. seg.packet_id \in Nat
      BY DEF FecSegment
    <3>2. QED
      <4> HIDE DEF x
      <4> QED BY <2>3, <3>1, OnSegmentTyped
  <2>5. held = {y \in f.flexes : y.group.fec_id # seg.fec_id} \cup {after.flex} /\ held \subseteq FlexRecv
    <3>1. held \subseteq FlexRecv
      <4> HIDE DEF after, known
      <4> QED BY <2>4 DEF RecState
    <3>2. QED
      <4> HIDE DEF after, known
      <4> QED BY <2>1, <3>1
  <2>6. new \in RecState /\ new.segs_cache = cache /\ new.recover_packets = f.recover_packets
    <3> HIDE DEF new
    <3> QED BY <1>3 DEF SegmentAlone
  <2>7. grown \in RecState /\ grown.segs_cache = cache /\ grown.flexes = held /\ grown.recover_packets = f.recover_packets
    <3> HIDE DEF new, held, cache
    <3> QED BY <2>5, <2>6 DEF RecState
  <2>8. f.recover_packets \cup after.out \subseteq Recovery
    <3> HIDE DEF after
    <3> QED BY <2>4 DEF RecState
  <2>9. /\ added \in RecState /\ added.segs_cache = cache /\ added.flexes = held
        /\ added.recover_packets = f.recover_packets \cup after.out
    <3> HIDE DEF grown, after, held, cache
    <3> QED BY <2>7, <2>8 DEF AddRecover, RecState
  <2>10. after = flex_fec_receiver_on_segment(x, seg.packet_id) /\ cache = f.segs_cache \cup {seg}
    OBVIOUS
  <2>11. QED
    <3> HIDE DEF x, after, added, held, cache
    <3> QED BY Zenon, <2>2, <2>3, <2>5, <2>9, <2>10 DEF SegmentAdded
<1>5. \/ r = f
      \/ SegmentAlone(f, seg, r)
      \/ /\ SegmentAdded(f, seg, x, after, added)
         /\ r = added \/ r = WithoutFlexes(added, {after.flex})
  <2> HIDE DEF new, known, x, after, added, r
  <2> QED BY <1>1, <1>3, <1>4
<1>6. QED
  <2> HIDE DEF x, after, added, r
  <2>1. \/ r = f
        \/ SegmentAlone(f, seg, r)
        \/ \E y, a, h : /\ SegmentAdded(f, seg, y, a, h)
                        /\ r = h \/ r = WithoutFlexes(h, {a.flex})
    BY Zenon, <1>5
  <2>2. QED
    BY Zenon, <2>1 DEF r

LEMMA PutSegmentTyped ==
  ASSUME NEW f \in RecState, NEW seg \in FecSegment
  PROVE  sim_fec_put_segment(f, seg) \in RecState
<1> DEFINE r == sim_fec_put_segment(f, seg)
<1>1. CASE r = f \/ SegmentAlone(f, seg, r)
  <2> HIDE DEF r
  <2>1. r \in RecState
    BY <1>1 DEF SegmentAlone
  <2>2. QED
    BY <2>1 DEF r
<1>2. ASSUME NEW x, NEW after, NEW added, SegmentAdded(f, seg, x, after, added),
             r = added \/ r = WithoutFlexes(added, {after.flex})
      PROVE  r \in RecState
  <2> HIDE DEF r
  <2>1. added \in RecState
    BY <1>2 DEF SegmentAdded
  <2>2. WithoutFlexes(added, {after.flex}) \in RecState
    BY <2>1, WithoutIs
  <2>3. QED
    BY <1>2, <2>1, <2>2
<1>3. QED
  <2>1. \/ r = f
        \/ SegmentAlone(f, seg, r)
        \/ \E x, after, added : /\ SegmentAdded(f, seg, x, after, added)
                                /\ r = added \/ r = WithoutFlexes(added, {after.flex})
    BY SegmentIsPut
  <2> HIDE DEF r
  <2>2. r \in RecState
    BY <2>1, <1>1, <1>2 DEF r
  <2>3. QED
    BY <2>2 DEF r

LEMMA AddedSound ==
  ASSUME SenderInv, OwnIds, NEW f \in RecState, Sound(f), NEW seg \in segs,
         NEW x, NEW after, NEW added, SegmentAdded(f, seg, x, after, added)
  PROVE  Sound(added)
<1>1. x \in FlexRecv /\ x \in f.flexes /\ x.group.fec_id = seg.fec_id /\ GroupHeld(x)
  BY DEF SegmentAdded, Sound
<1>2. seg.packet_id \in Nat
  BY DEF SenderInv, SenderTyped, FecSegment
<1>3. /\ after.flex \in FlexRecv
      /\ after.flex.group = x.group /\ after.flex.fec_ts = x.fec_ts /\ after.flex.fecs = x.fecs
      /\ \/ after.flex = x /\ after.out = {}
         \/ /\ seg.packet_id >= x.group.base_id /\ after.flex.segs = x.segs \cup {seg.packet_id}
            /\ after.out = AlongLines(after.flex, seg.packet_id)
  <2>1. after = flex_fec_receiver_on_segment(x, seg.packet_id)
    BY DEF SegmentAdded
  <2>2. QED
    BY <2>1, <1>1, <1>2, OnSegmentTyped
<1>4. GroupHeld(after.flex)
  <2>1. CASE after.flex = x
    BY <2>1, <1>1
  <2>2. CASE seg.packet_id >= x.group.base_id /\ after.flex.segs = x.segs \cup {seg.packet_id}
    <3>1. seg.packet_id \in Members(x.group)
      BY <2>2, <1>1, SegmentOfGroup
    <3>2. QED
      BY <2>2, <3>1, <1>1, <1>3 DEF GroupHeld
  <2>3. QED
    BY <1>3, <2>1, <2>2
<1>5. LostOnly(after.out)
  <2>1. CASE after.out = {}
    BY <2>1 DEF LostOnly
  <2>2. CASE after.out = AlongLines(after.flex, seg.packet_id)
    <3>1. \A index : LostOnly(Recovered(after.flex, index))
      BY <1>3, <1>4, RecoveredIsLost
    <3>2. QED
      BY <2>2, <3>1 DEF AlongLines, LostOnly
  <2>3. QED
    BY <1>3, <2>1, <2>2
<1>6. added.flexes = {y \in f.flexes : y.group.fec_id # seg.fec_id} \cup {after.flex}
  BY DEF SegmentAdded
<1>7. OnePerId(added)
  BY <1>1, <1>3, <1>6 DEF Sound, OnePerId
<1>8. \A y \in added.flexes : GroupHeld(y)
  BY <1>4, <1>6 DEF Sound
<1>9. added.segs_cache \subseteq segs /\ LostOnly(added.recover_packets)
  BY <1>5 DEF SegmentAdded, Sound, LostOnly
<1>10. QED
  BY <1>7, <1>8, <1>9 DEF Sound

LEMMA AddedLive ==
  ASSUME NEW f \in RecState, Live(f), NEW seg \in FecSegment,
         NEW x, NEW after, NEW added, SegmentAdded(f, seg, x, after, added)
  PROVE  Live(added)
<1>1. x \in FlexRecv /\ x \in f.flexes /\ seg.packet_id \in Nat
  BY DEF SegmentAdded, FecSegment
<1>2. after.flex.segs \subseteq x.segs \cup {seg.packet_id}
  <2>1. after = flex_fec_receiver_on_segment(x, seg.packet_id)
    BY DEF SegmentAdded
  <2>2. QED
    BY <2>1, <1>1, OnSegmentTyped
<1>3. added.segs_cache = f.segs_cache \cup {seg}
  BY DEF SegmentAdded
<1>4. added.flexes = {y \in f.flexes : y.group.fec_id # seg.fec_id} \cup {after.flex}
  BY DEF SegmentAdded
<1>5. QED
  BY <1>1, <1>2, <1>3, <1>4 DEF Live

LEMMA PutSegmentSound ==
  ASSUME SenderInv, OwnIds, NEW f \in RecState, Sound(f), NEW seg \in segs
  PROVE  Sound(sim_fec_put_segment(f, seg))
<1> DEFINE r == sim_fec_put_segment(f, seg)
<1>1. seg \in FecSegment
  BY DEF SenderInv, SenderTyped
<1>2. CASE r = f \/ SegmentAlone(f, seg, r)
  <2> HIDE DEF r
  <2>1. Sound(r)
    BY <1>2 DEF SegmentAlone, Sound, OnePerId
  <2>2. QED
    BY <2>1 DEF r
<1>3. ASSUME NEW x, NEW after, NEW added, SegmentAdded(f, seg, x, after, added),
             r = added \/ r = WithoutFlexes(added, {after.flex})
      PROVE  Sound(r)
  <2> HIDE DEF r
  <2>1. added \in RecState /\ Sound(added)
    BY <1>3, AddedSound DEF SegmentAdded
  <2>2. Sound(WithoutFlexes(added, {after.flex}))
    BY <2>1, WithoutSound
  <2>3. QED
    BY <1>3, <2>1, <2>2
<1>4. QED
  <2>1. \/ r = f
        \/ SegmentAlone(f, seg, r)
        \/ \E x, after, added : /\ SegmentAdded(f, seg, x, after, added)
                                /\ r = added \/ r = WithoutFlexes(added, {after.flex})
    BY <1>1, SegmentIsPut
  <2> HIDE DEF r
  <2>2. Sound(r)
    BY <2>1, <1>2, <1>3 DEF r
  <2>3. QED
    BY <2>2 DEF r

LEMMA PutSegmentLive ==
  ASSUME SenderInv, OwnIds, NEW f \in RecState, Sound(f), Live(f), NEW seg \in segs
  PROVE  Live(sim_fec_put_segment(f, seg))
<1> DEFINE r == sim_fec_put_segment(f, seg)
<1>1. seg \in FecSegment
  BY DEF SenderInv, SenderTyped
<1>2. CASE r = f \/ SegmentAlone(f, seg, r)
  <2> HIDE DEF r
  <2>1. Live(r)
    BY <1>2 DEF SegmentAlone, Live
  <2>2. QED
    BY <2>1 DEF r
<1>3. ASSUME NEW x, NEW after, NEW added, SegmentAdded(f, seg, x, after, added),
             r = added \/ r = WithoutFlexes(added, {after.flex})
      PROVE  Live(r)
  <2> HIDE DEF r
  <2>1. added \in RecState /\ Sound(added) /\ Live(added)
    BY <1>1, <1>3, AddedSound, AddedLive DEF SegmentAdded
  <2>2. {after.flex} \in SUBSET added.flexes
    BY <1>3 DEF SegmentAdded
  <2>3. Live(WithoutFlexes(added, {after.flex}))
    BY <2>1, <2>2, WithoutLive
  <2>4. QED
    BY <1>3, <2>1, <2>3
<1>4. QED
  <2>1. \/ r = f
        \/ SegmentAlone(f, seg, r)
        \/ \E x, after, added : /\ SegmentAdded(f, seg, x, after, added)
                                /\ r = added \/ r = WithoutFlexes(added, {after.flex})
    BY <1>1, SegmentIsPut
  <2> HIDE DEF r
  <2>2. Live(r)
    BY <2>1, <1>2, <1>3 DEF r
  <2>3. QED
    BY <2>2 DEF r

-----------------------------------------------------------------------------
(* Groups and segments let go by age.                                       *)

LEMMA EvictedIs ==
  ASSUME NEW f \in RecState
  PROVE  \E gone \in SUBSET f.flexes :
           LET g == WithoutFlexes(f, gone)
               e == Evicted(f)
           IN  /\ e \in RecState /\ e.flexes = g.flexes /\ e.recover_packets = g.recover_packets
               /\ e.segs_cache \subseteq g.segs_cache
               /\ \A y \in f.flexes \ gone : \E z \in f.flexes :
                     z.group.fec_id <= y.group.fec_id /\ ~(z.fec_ts + EVICT_FEC_DELAY <= f.max_ts)
               /\ \A s \in g.segs_cache : ~(s.timestamp + EVICT_FEC_DELAY * 2 < f.max_ts) => s \in e.segs_cache
<1> DEFINE over(x)  == x.fec_ts + EVICT_FEC_DELAY <= f.max_ts \/ Full(x)
           gone     == {x \in f.flexes : \A y \in f.flexes : y.group.fec_id <= x.group.fec_id => over(y)}
           g        == WithoutFlexes(f, gone)
           stale(s) == s.timestamp + EVICT_FEC_DELAY * 2 < f.max_ts
           left     == {s \in g.segs_cache : \E t \in g.segs_cache : t.packet_id <= s.packet_id /\ ~stale(t)}
           e        == Evicted(f)
<1>1. e = [g EXCEPT !.segs_cache = left]
  BY Zenon DEF Evicted
<1>2. gone \in SUBSET f.flexes
  OBVIOUS
<1>3. g \in RecState
  <2> HIDE DEF gone
  <2> QED BY WithoutIs
<1>4. e \in RecState /\ e.flexes = g.flexes /\ e.recover_packets = g.recover_packets /\ e.segs_cache = left
  <2>1. left \subseteq g.segs_cache
    OBVIOUS
  <2>2. QED
    <3> HIDE DEF g, left, e
    <3> QED BY <1>1, <1>3, <2>1 DEF RecState
<1>5. \A y \in f.flexes \ gone : \E z \in f.flexes :
        z.group.fec_id <= y.group.fec_id /\ ~(z.fec_ts + EVICT_FEC_DELAY <= f.max_ts)
  OBVIOUS
<1>6. \A s \in g.segs_cache : ~stale(s) => s \in left
  <2>1. \A s \in g.segs_cache : s.packet_id \in Nat
    <3> HIDE DEF g
    <3> QED BY <1>3 DEF RecState, FecSegment
  <2>2. QED
    <3> HIDE DEF g
    <3> QED BY <2>1
<1>7. left \subseteq g.segs_cache
  OBVIOUS
<1>8. QED
  <2> HIDE DEF gone, left, e
  <2>1. /\ e \in RecState /\ e.flexes = g.flexes /\ e.recover_packets = g.recover_packets
        /\ e.segs_cache \subseteq g.segs_cache
    BY <1>4, <1>7
  <2>2. \A s \in g.segs_cache : ~(s.timestamp + EVICT_FEC_DELAY * 2 < f.max_ts) => s \in e.segs_cache
    <3> HIDE DEF g
    <3> QED BY <1>4, <1>6
  <2>3. QED
    <3> HIDE DEF g
    <3>1. \E h \in SUBSET f.flexes :
           /\ e \in RecState /\ e.flexes = WithoutFlexes(f, h).flexes /\ e.recover_packets = WithoutFlexes(f, h).recover_packets
           /\ e.segs_cache \subseteq WithoutFlexes(f, h).segs_cache
           /\ \A y \in f.flexes \ h : \E z \in f.flexes :
                 z.group.fec_id <= y.group.fec_id /\ ~(z.fec_ts + EVICT_FEC_DELAY <= f.max_ts)
           /\ \A s \in WithoutFlexes(f, h).segs_cache :
                 ~(s.timestamp + EVICT_FEC_DELAY * 2 < f.max_ts) => s \in e.segs_cache
      BY Zenon, <1>2, <1>5, <2>1, <2>2 DEF g
    <3>2. QED
      BY Zenon, <3>1 DEF e

LEMMA EvictedSound ==
  ASSUME NEW f \in RecState, Sound(f)
  PROVE  Evicted(f) \in RecState /\ Sound(Evicted(f))
<1> DEFINE e == Evicted(f)
<1>1. PICK gone \in SUBSET f.flexes :
        /\ e \in RecState /\ e.flexes = WithoutFlexes(f, gone).flexes
        /\ e.recover_packets = WithoutFlexes(f, gone).recover_packets
        /\ e.segs_cache \subseteq WithoutFlexes(f, gone).segs_cache
  <2> HIDE DEF e
  <2> QED BY EvictedIs DEF e
<1>2. Sound(WithoutFlexes(f, gone))
  BY WithoutSound
<1>3. e \in RecState /\ Sound(e)
  <2> HIDE DEF e
  <2> QED BY <1>1, <1>2 DEF Sound, OnePerId
<1>4. QED
  BY <1>3

(* A group that stays has, at or before it, one young enough; a segment of  *)
(* the group was not sent before that one's first, and so is not stale: as  *)
(* long as the ids are in the order of the segments.                        *)
LEMMA EvictedLive ==
  ASSUME SenderInv, Unwrapped, SentInTime, NEW f \in RecState, Sound(f), Live(f)
  PROVE  Live(Evicted(f))
<1> DEFINE e == Evicted(f)
<1>1. PICK gone \in SUBSET f.flexes :
        /\ e.flexes = WithoutFlexes(f, gone).flexes
        /\ \A y \in f.flexes \ gone : \E z \in f.flexes :
              z.group.fec_id <= y.group.fec_id /\ ~(z.fec_ts + EVICT_FEC_DELAY <= f.max_ts)
        /\ \A s \in WithoutFlexes(f, gone).segs_cache :
              ~(s.timestamp + EVICT_FEC_DELAY * 2 < f.max_ts) => s \in e.segs_cache
  <2> HIDE DEF e
  <2> QED BY EvictedIs DEF e
<1>2. Live(WithoutFlexes(f, gone)) /\ Sound(WithoutFlexes(f, gone))
  BY WithoutLive, WithoutSound
<1>3. WithoutFlexes(f, gone).flexes = f.flexes \ gone
  BY WithoutIs
<1>4. ASSUME NEW y \in f.flexes \ gone, NEW p \in y.segs
      PROVE  \E s \in e.segs_cache : s.packet_id = p
  <2>1. PICK s \in WithoutFlexes(f, gone).segs_cache : s.packet_id = p
    BY <1>2, <1>3, <1>4 DEF Live
  <2>2. s \in segs
    BY <1>2, <2>1 DEF Sound
  <2>3. PICK z \in f.flexes : z.group.fec_id <= y.group.fec_id /\ ~(z.fec_ts + EVICT_FEC_DELAY <= f.max_ts)
    BY <1>1, <1>4
  <2>4. GroupHeld(y) /\ GroupHeld(z)
    BY <1>4, <2>3 DEF Sound
  <2>5. PICK g \in fecs : g.group = y.group
    BY <2>4 DEF GroupHeld
  <2>6. PICK h \in fecs : h.group = z.group /\ h.send_ts = z.fec_ts
    BY <2>4 DEF GroupHeld
  <2>7. /\ s.packet_id \in Nat /\ s.fec_id \in Nat /\ s.timestamp \in Nat
        /\ y.group.fec_id \in Nat /\ z.group.fec_id \in Nat
        /\ z.group.base_id \in Nat /\ z.group.count \in Nat /\ z.fec_ts \in Nat
        /\ f.max_ts \in Nat /\ EVICT_FEC_DELAY \in Nat /\ Sent \in Nat
    <3>1. g \in Fec /\ h \in Fec /\ s \in FecSegment
      BY <2>2, <2>5, <2>6 DEF SenderInv, SenderTyped
    <3>2. f.max_ts \in Nat /\ EVICT_FEC_DELAY \in Nat /\ Sent \in Nat
      BY FecAssumption DEF RecState, SenderInv, Numbered
    <3>3. s.packet_id \in Nat /\ s.fec_id \in 1 .. MaxFecId /\ s.timestamp \in Nat
      BY <3>1 DEF FecSegment
    <3>4. g.group \in Group /\ h.group \in Group /\ h.send_ts \in Nat
      BY <3>1 DEF Fec
    <3>5. QED
      BY <2>5, <2>6, <3>2, <3>3, <3>4 DEF Group
  <2>8. s.fec_id = y.group.fec_id
    <3>1. p \in Members(y.group)
      BY <1>4, <2>4 DEF GroupHeld
    <3>2. QED
      BY <2>1, <2>2, <2>5, <3>1 DEF SenderInv, GroupsMade
  <2>9. s.packet_id >= z.group.base_id
    <3>1. CASE z.group.fec_id = y.group.fec_id
      <4>1. z = y
        BY <3>1, <2>3, <1>4 DEF Sound, OnePerId
      <4>2. p \in Members(z.group)
        BY <4>1, <1>4, <2>4 DEF GroupHeld
      <4>3. QED
        BY <4>2, <2>1, <2>7 DEF Members
    <3>2. CASE z.group.fec_id < y.group.fec_id
      <4>1. z.group.base_id >= 1 /\ z.group.count >= 1 /\ z.group.base_id + z.group.count <= Sent + 1
        BY <2>6 DEF SenderInv, GroupsMade
      <4>2. z.group.base_id \in 1 .. Sent /\ z.group.base_id \in Members(z.group)
        BY <4>1, <2>7 DEF Members
      <4>3. PICK t \in segs : t.packet_id = z.group.base_id
        BY <4>2 DEF SenderInv, Numbered, NumberedIn
      <4>4. t.fec_id = z.group.fec_id
        BY <4>2, <4>3, <2>6 DEF SenderInv, GroupsMade
      <4>5. ~(s.packet_id <= t.packet_id)
        <5>1. s.packet_id <= t.packet_id => s.fec_id <= t.fec_id
          BY <2>2, <4>3 DEF Unwrapped
        <5>2. QED
          BY <5>1, <2>7, <2>8, <4>4, <3>2
      <4>6. QED
        BY <4>3, <4>5, <2>7
    <3>3. QED
      BY <3>1, <3>2, <2>3, <2>7
  <2>10. z.fec_ts <= s.timestamp + EVICT_FEC_DELAY
    BY <2>2, <2>6, <2>9 DEF SentInTime
  <2>11. ~(s.timestamp + EVICT_FEC_DELAY * 2 < f.max_ts)
    BY <2>3, <2>7, <2>10
  <2>12. QED
    BY <2>1, <2>11, <1>1
<1>5. QED
  <2> HIDE DEF e
  <2>1. Live(e)
    BY <1>1, <1>3, <1>4 DEF Live
  <2>2. QED
    BY <2>1 DEF e

-----------------------------------------------------------------------------
(* A round of recovery.                                                     *)

LEMMA SegmentOfKnown ==
  ASSUME SenderInv, NEW r \in Recovery, Known(r)
  PROVE  /\ SegmentOf(r) \in FecSegment
         /\ LostOnly({r}) => SegmentOf(r) \in segs
<1> DEFINE t == CHOOSE s \in segs : {s.packet_id} = r.ids
<1>1. t \in segs /\ {t.packet_id} = r.ids
  BY DEF Known
<1>2. SegmentOf(r) = [t EXCEPT !.fec_id = r.fec_id]
  BY DEF SegmentOf
<1>3. t \in FecSegment /\ r.fec_id \in 1 .. MaxFecId
  <2> HIDE DEF t
  <2> QED BY <1>1 DEF SenderInv, SenderTyped, Recovery
<1>4. SegmentOf(r) \in FecSegment
  <2> HIDE DEF t
  <2> QED BY <1>2, <1>3 DEF FecSegment
<1>5. ASSUME LostOnly({r}) PROVE SegmentOf(r) \in segs
  <2>1. PICK s \in segs : r.ids = {s.packet_id} /\ r.fec_id = s.fec_id
    BY <1>5 DEF LostOnly
  <2>2. t.packet_id = s.packet_id
    <3> HIDE DEF t
    <3> QED BY <1>1, <2>1
  <2>3. t = s
    <3> HIDE DEF t
    <3> QED BY <1>1, <2>1, <2>2 DEF SenderInv, Numbered, NumberedIn
  <2>4. [t EXCEPT !.fec_id = t.fec_id] = t
    <3> HIDE DEF t
    <3> QED BY <1>3 DEF FecSegment
  <2>5. QED
    <3> HIDE DEF t
    <3> QED BY <1>1, <1>2, <2>1, <2>3, <2>4
<1>6. QED
  BY <1>4, <1>5

RecoverOf(r, rest, seg) ==
  /\ r \in rec.recover_packets /\ Known(r) /\ seg = SegmentOf(r)
  /\ rest \in RecState /\ rest.segs_cache = rec.segs_cache /\ rest.flexes = rec.flexes
  /\ rest.recover_packets = rec.recover_packets \ {r}
  /\ \/ put' = put \cup {seg.packet_id} /\ rec' = sim_fec_put_segment(rest, seg)
     \/ put' = put /\ rec' = rest
  /\ UNCHANGED <<clock, flex, segs, fecs, passed, heard>>

LEMMA RecoverIs ==
  ASSUME SenderInv, ReceiverTyped, Recover
  PROVE  \E r, rest, seg : RecoverOf(r, rest, seg)
<1> DEFINE waiting == rec.recover_packets
           r    == CHOOSE x \in waiting : \A y \in waiting : SegmentOf(x).packet_id <= SegmentOf(y).packet_id
           seg  == SegmentOf(r)
           rest == [rec EXCEPT !.recover_packets = waiting \ {r}]
<1>1. waiting # {} /\ waiting \subseteq Recovery /\ \A x \in waiting : Known(x)
  BY DEF Recover, Idle, ReceiverTyped, RecState
<1>2. r \in waiting
  <2> DEFINE ids == {SegmentOf(x).packet_id : x \in waiting}
  <2>1. ids \subseteq Nat
    <3>1. \A x \in waiting : SegmentOf(x).packet_id \in Nat
      BY <1>1, SegmentOfKnown DEF FecSegment
    <3>2. QED
      BY <3>1
  <2>2. ids # {}
    BY <1>1
  <2>3. PICK p \in ids : \A q \in ids : p <= q
    <3> HIDE DEF ids
    <3> QED BY <2>1, <2>2, LeastOfNat
  <2>4. \E x \in waiting : \A y \in waiting : SegmentOf(x).packet_id <= SegmentOf(y).packet_id
    BY <2>3
  <2>5. QED
    <3> HIDE DEF waiting
    <3> QED BY <2>4
<1>3. /\ rest \in RecState /\ rest.segs_cache = rec.segs_cache /\ rest.flexes = rec.flexes
      /\ rest.recover_packets = waiting \ {r}
  <2> DEFINE left == waiting \ {r}
  <2>1. left \subseteq Recovery
    <3> HIDE DEF r
    <3> QED BY <1>1
  <2>2. QED
    <3> HIDE DEF left
    <3>1. rest = [rec EXCEPT !.recover_packets = left]
      BY DEF left
    <3> HIDE DEF rest, waiting
    <3>2. QED
      BY <2>1, <3>1 DEF ReceiverTyped, RecState, left
<1>4. IF Accepts(seg)
        THEN put' = put \cup {seg.packet_id} /\ rec' = sim_fec_put_segment(rest, seg)
        ELSE rec' = rest /\ UNCHANGED put
  BY Zenon DEF Recover
<1>5. /\ seg = SegmentOf(r)
      /\ UNCHANGED <<clock, flex, segs, fecs, passed, heard>>
  BY DEF Recover
<1>6. RecoverOf(r, rest, seg)
  <2>1. Known(r)
    <3> HIDE DEF r
    <3> QED BY <1>1, <1>2
  <2> HIDE DEF r, rest, seg
  <2>2. QED
    BY <1>2, <1>3, <1>4, <1>5, <2>1 DEF RecoverOf
<1>7. QED
  <2> HIDE DEF r, rest, seg
  <2> QED BY <1>6

-----------------------------------------------------------------------------
(* Every step of the receiver leaves the sender alone.                      *)
LEMMA ReceiverLeavesSender ==
  ASSUME SenderInv,
         receive_segment \/ receive_fec \/ Recover \/ sim_fec_evict \/ Pass \/ UNCHANGED fecVars
  PROVE  SenderInv' /\ UNCHANGED <<clock, flex, segs, fecs>>
<1>1. UNCHANGED <<clock, flex, segs, fecs>>
  BY DEF receive_segment, receive_fec, Recover, sim_fec_evict, Pass, fecVars
<1>2. Sent' = Sent /\ (Unwrapped' <=> Unwrapped)
  BY <1>1 DEF Sent, Unwrapped
<1>3. SenderTyped' /\ Numbered' /\ Dated' /\ OpenGroup' /\ GroupsMade'
  BY <1>1, <1>2 DEF SenderInv, SenderTyped, Numbered, NumberedIn, Dated, OpenGroup, GroupsMade
<1>4. Unwrapped' => OwnIds'
  BY <1>1, <1>2 DEF SenderInv, OwnIds, ComingRound
<1>5. QED
  BY <1>1, <1>3, <1>4 DEF SenderInv

LEMMA SenderLeavesReceiver ==
  ASSUME SenderInv, sim_sender_fec
  PROVE  segs \subseteq segs' /\ fecs \subseteq fecs' /\ UNCHANGED <<rec, put, passed, heard>>
<1>1. PICK g, A, total, now, made : FrameSent(g, A, total, now, made)
  BY FrameIsSent
<1>2. QED
  BY <1>1 DEF FrameSent

LEMMA SenderStep ==
  ASSUME SenderInv, [FecNext]_fecVars
  PROVE  SenderInv' /\ segs \subseteq segs' /\ fecs \subseteq fecs'
<1>1. CASE sim_sender_fec
  BY <1>1, SenderKeeps, SenderLeavesReceiver
<1>2. CASE receive_segment \/ receive_fec \/ Recover \/ sim_fec_evict \/ Pass \/ UNCHANGED fecVars
  BY <1>2, ReceiverLeavesSender
<1>3. QED
  BY <1>1, <1>2 DEF FecNext

(* The receiver's types, whatever is recovered.                             *)
LEMMA ReceiverTypedStep ==
  ASSUME SenderInv, ReceiverTyped, [FecNext]_fecVars
  PROVE  ReceiverTyped'
<1>0. segs \subseteq FecSegment /\ fecs \subseteq Fec /\ \A s \in segs : s.packet_id \in Nat
  BY DEF SenderInv, SenderTyped, FecSegment
<1>1. CASE sim_sender_fec
  BY <1>1, SenderLeavesReceiver DEF ReceiverTyped
<1>2. CASE receive_segment
  <2>1. PICK seg \in segs : put' = put \cup {seg.packet_id} /\ rec' = sim_fec_put_segment(rec, seg)
    BY <1>2 DEF receive_segment
  <2>2. rec' \in RecState
    BY <2>1, <1>0, PutSegmentTyped DEF ReceiverTyped
  <2>3. QED
    BY <1>2, <2>1, <2>2, <1>0 DEF receive_segment, ReceiverTyped
<1>3. CASE receive_fec
  <2>1. PICK fec \in fecs : /\ rec' = sim_fec_put_fec_packet(rec, fec)
                            /\ heard' = IF TooLate(rec, fec) THEN heard ELSE heard \cup {fec}
    BY <1>3 DEF receive_fec
  <2>2. rec' \in RecState
    BY <2>1, <1>0, PutFecTyped DEF ReceiverTyped
  <2>3. QED
    BY <1>3, <2>1, <2>2 DEF receive_fec, ReceiverTyped
<1>4. CASE Recover
  <2>1. PICK r, rest, seg : RecoverOf(r, rest, seg)
    BY <1>4, RecoverIs
  <2>2. r \in Recovery /\ rest \in RecState /\ seg = SegmentOf(r) /\ Known(r)
    BY <2>1 DEF RecoverOf, ReceiverTyped, RecState
  <2>3. seg \in FecSegment
    BY <2>2, SegmentOfKnown
  <2>4. rec' \in RecState
    BY <2>1, <2>2, <2>3, PutSegmentTyped DEF RecoverOf
  <2>5. seg.packet_id \in Nat
    BY <2>3 DEF FecSegment
  <2>6. QED
    BY <2>1, <2>4, <2>5 DEF RecoverOf, ReceiverTyped
<1>5. CASE sim_fec_evict
  <2>1. Evicted(rec) \in RecState
    BY EvictedIs DEF ReceiverTyped
  <2>2. QED
    BY <1>5, <2>1 DEF sim_fec_evict, ReceiverTyped
<1>6. CASE Pass
  <2>1. passed' \in passed + 1 .. LastFrame
    BY <1>6 DEF Pass
  <2>2. LastFrame \in Nat
    BY LastFrameNat DEF SenderInv
  <2>3. passed' \in Nat
    BY <2>1, <2>2 DEF ReceiverTyped
  <2>4. QED
    BY <1>6, <2>3 DEF Pass, ReceiverTyped
<1>7. CASE UNCHANGED fecVars
  BY <1>7 DEF fecVars, ReceiverTyped
<1>8. QED
  BY <1>1, <1>2, <1>3, <1>4, <1>5, <1>6, <1>7 DEF FecNext

(* What the receiver is left with is still sound when more has been sent.   *)
LEMMA StaysSound ==
  ASSUME NEW f, Sound(f), rec' = f, segs \subseteq segs', fecs \subseteq fecs'
  PROVE  Sound(rec)'
<1>1. rec'.segs_cache \subseteq segs'
  BY DEF Sound
<1>2. \A x \in rec'.flexes : GroupHeld(x)'
  BY DEF Sound, GroupHeld, Members
<1>3. OnePerId(rec)'
  BY DEF Sound, OnePerId
<1>4. LostOnly(rec.recover_packets)'
  BY DEF Sound, LostOnly
<1>5. QED
  BY <1>1, <1>2, <1>3, <1>4 DEF Sound

LEMMA SoundStep ==
  ASSUME SenderInv, ReceiverTyped, Unwrapped, Sound(rec), [FecNext]_fecVars
  PROVE  Sound(rec)'
<1>0. OwnIds /\ rec \in RecState /\ segs \subseteq segs' /\ fecs \subseteq fecs'
  BY SenderStep DEF SenderInv, ReceiverTyped
<1>1. CASE UNCHANGED rec
  BY <1>0, <1>1, StaysSound
<1>2. CASE receive_segment
  <2>1. PICK seg \in segs : rec' = sim_fec_put_segment(rec, seg)
    BY <1>2 DEF receive_segment
  <2>2. Sound(sim_fec_put_segment(rec, seg))
    BY <1>0, PutSegmentSound
  <2>3. QED
    BY <1>0, <2>1, <2>2, StaysSound
<1>3. CASE receive_fec
  <2>1. PICK fec \in fecs : rec' = sim_fec_put_fec_packet(rec, fec)
    BY <1>3 DEF receive_fec
  <2>2. Sound(sim_fec_put_fec_packet(rec, fec))
    BY <1>0, PutFecSound
  <2>3. QED
    BY <1>0, <2>1, <2>2, StaysSound
<1>4. CASE Recover
  <2>1. PICK r, rest, seg : RecoverOf(r, rest, seg)
    BY <1>4, RecoverIs
  <2>2. rest \in RecState /\ Sound(rest)
    BY <2>1 DEF RecoverOf, Sound, OnePerId, LostOnly
  <2>3. seg \in segs
    <3>1. r \in Recovery /\ Known(r) /\ seg = SegmentOf(r)
      BY <2>1 DEF RecoverOf, ReceiverTyped, RecState
    <3>2. LostOnly({r})
      BY <2>1 DEF RecoverOf, Sound, LostOnly
    <3>3. QED
      BY <3>1, <3>2, SegmentOfKnown
  <2>4. Sound(sim_fec_put_segment(rest, seg))
    BY <1>0, <2>2, <2>3, PutSegmentSound
  <2>5. rec' = rest \/ rec' = sim_fec_put_segment(rest, seg)
    BY <2>1 DEF RecoverOf
  <2>6. QED
    BY <1>0, <2>2, <2>4, <2>5, StaysSound
<1>5. CASE sim_fec_evict
  <2>1. rec' = Evicted(rec)
    BY <1>5 DEF sim_fec_evict
  <2>2. QED
    BY <1>0, <2>1, EvictedSound, StaysSound
<1>6. UNCHANGED rec \/ receive_segment \/ receive_fec \/ Recover \/ sim_fec_evict
  BY DEF FecNext, sim_sender_fec, Pass, fecVars
<1>7. QED
  BY <1>1, <1>2, <1>3, <1>4, <1>5, <1>6

LEMMA StaysLive ==
  ASSUME NEW f, Live(f), rec' = f
  PROVE  Live(rec)'
BY DEF Live

LEMMA LiveStep ==
  ASSUME SenderInv, ReceiverTyped, Unwrapped, Sound(rec), SentInTime, Live(rec), [FecNext]_fecVars
  PROVE  Live(rec)'
<1>0. OwnIds /\ rec \in RecState
  BY DEF SenderInv, ReceiverTyped
<1>1. CASE UNCHANGED rec
  BY <1>1, StaysLive
<1>2. CASE receive_segment
  <2>1. PICK seg \in segs : rec' = sim_fec_put_segment(rec, seg)
    BY <1>2 DEF receive_segment
  <2>2. Live(sim_fec_put_segment(rec, seg))
    BY <1>0, PutSegmentLive
  <2>3. QED
    BY <2>1, <2>2, StaysLive
<1>3. CASE receive_fec
  <2>1. PICK fec \in fecs : rec' = sim_fec_put_fec_packet(rec, fec)
    BY <1>3 DEF receive_fec
  <2>2. Live(sim_fec_put_fec_packet(rec, fec))
    BY <1>0, PutFecLive DEF SenderInv, SenderTyped
  <2>3. QED
    BY <2>1, <2>2, StaysLive
<1>4. CASE Recover
  <2>1. PICK r, rest, seg : RecoverOf(r, rest, seg)
    BY <1>4, RecoverIs
  <2>2. rest \in RecState /\ Sound(rest) /\ Live(rest)
    BY <2>1 DEF RecoverOf, Sound, OnePerId, LostOnly, Live
  <2>3. seg \in segs
    <3>1. r \in Recovery /\ Known(r) /\ seg = SegmentOf(r)
      BY <2>1 DEF RecoverOf, ReceiverTyped, RecState
    <3>2. LostOnly({r})
      BY <2>1 DEF RecoverOf, Sound, LostOnly
    <3>3. QED
      BY <3>1, <3>2, SegmentOfKnown
  <2>4. Live(sim_fec_put_segment(rest, seg))
    BY <1>0, <2>2, <2>3, PutSegmentLive
  <2>5. rec' = rest \/ rec' = sim_fec_put_segment(rest, seg)
    BY <2>1 DEF RecoverOf
  <2>6. QED
    BY <2>2, <2>4, <2>5, StaysLive
<1>5. CASE sim_fec_evict
  <2>1. rec' = Evicted(rec)
    BY <1>5 DEF sim_fec_evict
  <2>2. QED
    BY <1>0, <2>1, EvictedLive, StaysLive
<1>6. UNCHANGED rec \/ receive_segment \/ receive_fec \/ Recover \/ sim_fec_evict
  BY DEF FecNext, sim_sender_fec, Pass, fecVars
<1>7. QED
  BY <1>1, <1>2, <1>3, <1>4, <1>5, <1>6

-----------------------------------------------------------------------------
(* The invariant: of the receiver, only as long as the ids have not come    *)
(* round.                                                                   *)
FecInv == SenderInv /\ ReceiverTyped /\ (Unwrapped => Sound(rec))

LEMMA FecInvInit == FecInit => FecInv
<1> SUFFICES ASSUME FecInit PROVE FecInv
  OBVIOUS
<1>1. /\ clock = 0 /\ segs = {} /\ fecs = {} /\ put = {} /\ passed = 0 /\ heard = {}
      /\ flex = [fec_id |-> 1, base_id |-> 0, segs |-> <<>>, fec_ts |-> 0]
      /\ rec = [max_ts |-> 0, segs_cache |-> {}, flexes |-> {}, recover_packets |-> {}]
  BY DEF FecInit, flex_fec_sender_create, sim_fec_create
<1>2. SenderTyped
  <2>1. 1 \in 1 .. MaxFecId /\ 0 \in 0 .. MaxTime
    BY FecAssumption
  <2>2. <<>> \in Seq(Nat)
    OBVIOUS
  <2>3. QED
    BY <1>1, <2>1, <2>2 DEF SenderTyped, OpenFlex
<1>3. Numbered
  <2>1. Sent = 0
    BY <1>1, FS_EmptySet DEF Sent
  <2>2. 1 .. 0 = {}
    OBVIOUS
  <2>3. QED
    BY <1>1, <2>1, <2>2 DEF Numbered, NumberedIn
<1>4. Dated /\ OpenGroup /\ GroupsMade /\ OwnIds
  BY <1>1 DEF Dated, OpenGroup, GroupsMade, OwnIds, ComingRound
<1>5. ReceiverTyped
  BY <1>1 DEF ReceiverTyped, RecState
<1>6. Sound(rec)
  BY <1>1 DEF Sound, OnePerId, LostOnly
<1>7. QED
  BY <1>2, <1>3, <1>4, <1>5, <1>6 DEF FecInv, SenderInv

LEMMA FecInvStep == FecInv /\ [FecNext]_fecVars => FecInv'
<1> SUFFICES ASSUME FecInv, [FecNext]_fecVars PROVE FecInv'
  OBVIOUS
<1>1. SenderInv' /\ ReceiverTyped' /\ segs \subseteq segs'
  BY SenderStep, ReceiverTypedStep DEF FecInv
<1>2. ASSUME Unwrapped' PROVE Sound(rec)'
  <2>1. Unwrapped
    BY <1>1, <1>2, StaysWrapped
  <2>2. QED
    BY <2>1, SoundStep DEF FecInv
<1>3. QED
  BY <1>1, <1>2 DEF FecInv

LEMMA FecInvariant == FecSpec => []FecInv
BY FecInvInit, FecInvStep, PTL DEF FecSpec

(* Whatever is sent, lost, late or repeated, and even after the ids have    *)
(* come round, the sender, the network and the receiver of forward error    *)
(* correction keep to their types.                                          *)
THEOREM FecTypes == FecSpec => []FecTypeOK
<1>1. FecInv => FecTypeOK
  BY DEF FecInv, SenderInv, SenderTyped, ReceiverTyped, FecTypeOK, OpenFlex, RecState, Recovery
<1> QED BY <1>1, FecInvariant, PTL

(* Until the ids of the groups come round, what is recovered is a segment   *)
(* the sender sent, under its own group's id (flex_recover_row,             *)
(* flex_recover_col): however its frames were grouped, whatever loss the    *)
(* groups were shaped for, and whatever was lost, late or repeated.         *)
THEOREM RecoversTheLost == FecSpec => []RecoveredGenuine
<1>1. FecInv => RecoveredGenuine
  BY DEF FecInv, Sound, LostOnly, RecoveredGenuine, RecoversLost
<1> QED BY <1>1, FecInvariant, PTL

(* The FEC packets of a group leave before its segments are of the age at   *)
(* which groups are let go.                                                 *)
TimelyFec == \A delay \in FecDelays : delay + RegroupDelay <= EVICT_FEC_DELAY

LEMMA LiveInit == FecInit => SentInTime /\ Live(rec)
BY DEF FecInit, sim_fec_create, SentInTime, Live

LEMMA LiveInvStep ==
  ASSUME TimelyFec
  PROVE  FecInv /\ SentInTime /\ (Unwrapped => Live(rec)) /\ [FecNext]_fecVars
         => SentInTime' /\ (Unwrapped => Live(rec))'
<1> SUFFICES ASSUME FecInv, SentInTime, Unwrapped => Live(rec), [FecNext]_fecVars
             PROVE  SentInTime' /\ (Unwrapped' => Live(rec)')
  OBVIOUS
<1>1. SentInTime'
  <2>1. CASE sim_sender_fec
    BY <2>1, FrameKeepsInTime DEF FecInv, TimelyFec
  <2>2. CASE UNCHANGED <<segs, fecs>>
    BY <2>2 DEF SentInTime
  <2>3. QED
    BY <2>1, <2>2 DEF FecNext, receive_segment, receive_fec, Recover, sim_fec_evict, Pass, fecVars
<1>2. ASSUME Unwrapped' PROVE Live(rec)'
  <2>1. segs \subseteq segs'
    BY SenderStep DEF FecInv
  <2>2. Unwrapped
    BY <1>2, <2>1, StaysWrapped
  <2>3. QED
    BY <2>2, LiveStep DEF FecInv
<1>3. QED
  BY <1>1, <1>2

(* Until the ids come round, sim_fec_evict lets no segment go that a group  *)
(* still points to: provided FEC packets do not wait in the pacer for       *)
(* longer than what EVICT_FEC_DELAY leaves of a group's time to fill.       *)
THEOREM NoDanglingSegment == ASSUME TimelyFec PROVE FecSpec => []FlexLive
<1>1. FecInit => SentInTime /\ (Unwrapped => Live(rec))
  BY LiveInit
<1>2. FecInv /\ (SentInTime /\ (Unwrapped => Live(rec))) /\ [FecNext]_fecVars
      => (SentInTime /\ (Unwrapped => Live(rec)))'
  BY LiveInvStep
<1>3. (Unwrapped => Live(rec)) => FlexLive
  BY DEF Live, FlexLive
<1> QED BY <1>1, <1>2, <1>3, FecInvariant, PTL DEF FecSpec
=============================================================================
