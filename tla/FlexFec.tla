------------------------------ MODULE FlexFec ------------------------------
(***************************************************************************)
(* Forward error correction, ReCapABR/sim_transport/fec: the sender lays   *)
(* the segments of a group out in a matrix and makes one FEC packet of     *)
(* each row and, for larger groups, of each column; the receiver recovers  *)
(* the only segment missing of a line from the line's FEC packet.          *)
(*                                                                         *)
(* The exclusive or of segments is the set of their packet ids: that of    *)
(* two such sets is the symmetric difference, and a set of one id is that  *)
(* segment, header and data.  Any larger set is no segment at all.         *)
(***************************************************************************)
EXTENDS Integers, FiniteSets, Sequences

CeilDiv(a, b) == (a + b - 1) \div b
Smaller(a, b) == IF a <= b THEN a ELSE b
Larger(a, b)  == IF a >= b THEN a ELSE b

FEC_LOSS_THROLD == 10
MATRIX_SIZE     == 6    \* segments from which a group is a matrix, and is closed at once

(* (int)sqrt(n), plus one when the root is more than 0.1 above it.          *)
RootColumns(n) ==
  LET c == CHOOSE k \in 0 .. n : k * k <= n /\ n < (k + 1) * (k + 1)
  IN  IF 100 * n > (10 * c + 1) * (10 * c + 1) THEN c + 1 ELSE c

(* flex_fec_sender_num_packets: the shape of a group of n > 0 segments, and *)
(* whether its columns are protected too.                                   *)
flex_fec_sender_num_packets(n, protect_fraction) ==
  LET colum == Smaller(20, Larger(3, RootColumns(n)))
      row   == CeilDiv(n, colum)
      lines == (n * protect_fraction + 128) \div 256
      col   == IF lines = 0 THEN n ELSE CeilDiv(n, lines)
  IN  IF protect_fraction >= FEC_LOSS_THROLD /\ n >= MATRIX_SIZE
        THEN [row |-> row, col |-> CeilDiv(n, row), matrix |-> TRUE]
      ELSE IF protect_fraction = 0
        THEN [row |-> 0, col |-> 0, matrix |-> FALSE]
        ELSE [row |-> IF lines = 0 THEN 1 ELSE CeilDiv(n, col), col |-> col, matrix |-> FALSE]

(* The index of a FEC packet names its line; the places on the line, of the *)
(* count places of the group.                                               *)
RowIndex(r) == [column |-> FALSE, at |-> r]
ColIndex(c) == [column |-> TRUE, at |-> c]

Cells(g, index) ==
  LET all == IF index.column
               THEN {i * g.col + index.at : i \in 0 .. g.row - 1}
               ELSE {index.at * g.col + i : i \in 0 .. g.col - 1}
  IN  {k \in all : k < g.count}

(* The lines of a group that get a FEC packet: flex_fec_generate makes none *)
(* of a single segment.                                                     *)
ProtectedLines(g, matrix) ==
  {index \in {RowIndex(r) : r \in 0 .. g.row - 1}
             \cup (IF matrix /\ g.row > 1 THEN {ColIndex(c) : c \in 0 .. g.col - 1} ELSE {})
   : Cardinality(Cells(g, index)) > 1}

(* flex_fec_sender_update on the segments of a group: the FEC packets it    *)
(* makes.                                                                   *)
flex_fec_sender_update(flex, protect_fraction, send_ts) ==
  LET count == Len(flex.segs)
      shape == flex_fec_sender_num_packets(count, protect_fraction)
      g     == [fec_id |-> flex.fec_id, base_id |-> flex.base_id, count |-> count,
                col |-> shape.col, row |-> shape.row]
  IN  IF shape.col <= 1 THEN {}
      ELSE {[group |-> g, index |-> index, xor |-> {flex.segs[k + 1] : k \in Cells(g, index)}, send_ts |-> send_ts]
            : index \in ProtectedLines(g, shape.matrix)}

-----------------------------------------------------------------------------
(* The receiver's side of a group: the segments and FEC packets it has.     *)
flex_fec_receiver_active(g, fec_ts) == [group |-> g, fec_ts |-> fec_ts, segs |-> {}, fecs |-> {}]

(* flex_fec_receiver_full returns 0.                                        *)
Full(flex) == Cardinality(flex.segs) >= flex.group.count

Xor(a, b) == (a \ b) \cup (b \ a)

(* The packets the receiver takes a line to be of.                          *)
Line(g, index) == {g.base_id + k : k \in Cells(g, index)}

(* flex_recover_row and flex_recover_col: what is recovered, if anything.   *)
Recovered(flex, index) ==
  LET line == Line(flex.group, index)
      held == line \cap flex.segs
  IN  IF Full(flex) \/ held = {} \/ Cardinality(line \ held) # 1 THEN {}
      ELSE {[ids |-> Xor(fec.xor, held), fec_id |-> fec.group.fec_id]
            : fec \in {f \in flex.fecs : f.index = index}}

(* Along the row and the column of a segment; a row is 8 bits wide.         *)
AlongLines(flex, p) ==
  LET at == p - flex.group.base_id
  IN  Recovered(flex, RowIndex((at \div flex.group.col) % 256)) \cup Recovered(flex, ColIndex(at % flex.group.col))

(* flex_fec_receiver_on_segment: the group after it and what it recovers.   *)
flex_fec_receiver_on_segment(flex, p) ==
  LET new == [flex EXCEPT !.segs = flex.segs \cup {p}]
  IN  IF p < flex.group.base_id \/ p \in flex.segs
        THEN [flex |-> flex, out |-> {}]
        ELSE [flex |-> new, out |-> AlongLines(new, p)]

flex_fec_receiver_on_fec(flex, fec) ==
  LET new == [flex EXCEPT !.fecs = flex.fecs \cup {fec}]
  IN  IF \E f \in flex.fecs : f.index = fec.index
        THEN [flex |-> flex, out |-> {}]
        ELSE [flex |-> new, out |-> Recovered(new, fec.index)]
=============================================================================
