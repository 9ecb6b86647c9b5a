--------------------------- MODULE SenderHistory ---------------------------
(***************************************************************************)
(* What the congestion controllers know of the packets sent                *)
(* (estimator/sender_history.c), and the counter that makes 64 bit numbers *)
(* of 16 bit ones (common/cf_unwrapper.c).                                 *)
(*                                                                         *)
(* A packet's stamp is left out: packets are added in the order of their   *)
(* stamps, so what a later packet makes too old is a prefix of the list.   *)
(***************************************************************************)
EXTENDS Integers, FiniteSets, FiniteSetsExt

CONSTANT SeqRange   \* numbers on the wire: 65536

ASSUME SeqRangeAssumption == SeqRange \in Nat \ {0} /\ SeqRange % 2 = 0

(* The later of two keys.                                                   *)
LaterKey(a, b) == IF a >= b THEN a ELSE b

-----------------------------------------------------------------------------
(* Of two numbers half the range apart, the greater one is newer.           *)
wrap16_is_newer(val, prev_val) ==
  IF val - prev_val = SeqRange \div 2 THEN val > prev_val
  ELSE val # prev_val /\ (val - prev_val) % SeqRange < SeqRange \div 2

(* Mutant: a wrap is not seen.                                              *)
wrap16_update_Flat(last_value, val) == last_value + val - (last_value % SeqRange)

(* wrap16_update, whose result wrap_uint16 keeps as its last value.         *)
wrap16_update(last_value, val) ==
  LET delta == val - (last_value % SeqRange)
  IN  IF wrap16_is_newer(val, last_value % SeqRange)
        THEN last_value + (IF delta < 0 THEN delta + SeqRange ELSE delta)
        ELSE last_value + (IF delta > 0 /\ last_value + delta - SeqRange >= 0 THEN delta - SeqRange ELSE delta)

-----------------------------------------------------------------------------
sender_history_create == [last_value |-> 0, last_ack_seq_num |-> 0, l |-> {}, outstanding_bytes |-> 0]

Bytes(packets) == MapThenSumSet(LAMBDA p : p.size, packets)

(* Packets that are counted as under way.                                   *)
Unacked(hist) == {p \in hist.l : p.key > hist.last_ack_seq_num}

(* Mutant: what is too old is forgotten with its bytes still counted.       *)
Without_KeepsBytes(hist, old) ==
  [hist EXCEPT !.l = hist.l \ old,
               !.last_ack_seq_num = LaterKey(hist.last_ack_seq_num, Max({p.key : p \in old} \cup {0}))]

(* The loop of sender_history_add over packets that are too old.            *)
Without(hist, old) ==
  [hist EXCEPT !.l = hist.l \ old,
               !.outstanding_bytes = hist.outstanding_bytes - Bytes(old \cap Unacked(hist)),
               !.last_ack_seq_num = LaterKey(hist.last_ack_seq_num, Max({p.key : p \in old} \cup {0}))]

(* sender_history_add of a packet that makes these too old.                 *)
sender_history_add(hist, sequence_number, size, old) ==
  LET h   == Without(hist, old)
      key == wrap16_update(h.last_value, sequence_number)
  IN  [h EXCEPT !.last_value = key,
                !.l = h.l \cup {[key |-> key, size |-> size]},
                !.outstanding_bytes = h.outstanding_bytes + size,
                !.last_ack_seq_num = IF h.last_ack_seq_num = 0 THEN LaterKey(0, sequence_number - 1)
                                     ELSE h.last_ack_seq_num]

(* Mutant: what was acknowledged is subtracted again.                       *)
AckedUpTo_Twice(hist, key) ==
  [hist EXCEPT !.last_value = key,
               !.outstanding_bytes = hist.outstanding_bytes - Bytes({p \in hist.l : p.key <= key}),
               !.last_ack_seq_num = LaterKey(key, hist.last_ack_seq_num)]

(* sender_history_get of all numbers up to this key, none of them removed:  *)
(* an acknowledgement is one of everything below it.                        *)
AckedUpTo(hist, key) ==
  [hist EXCEPT !.last_value = key,
               !.outstanding_bytes = hist.outstanding_bytes - Bytes({p \in Unacked(hist) : p.key <= key}),
               !.last_ack_seq_num = LaterKey(key, hist.last_ack_seq_num)]
=============================================================================
