-------------------------- MODULE BandwidthSampler --------------------------
(***************************************************************************)
(* The ring of points in which BBR remembers what it had sent and what had *)
(* been acknowledged when a packet was sent (bbr/bbr_bandwidth_sample.c).  *)
(* Of a point, this module keeps the packet it was made for, its size and  *)
(* whether it is to be ignored; rates and times are left out, and so are   *)
(* the growth of the ring and count, which nothing reads.                  *)
(***************************************************************************)
EXTENDS Integers

CONSTANT RingSize   \* kDefaultPoints

ASSUME RingSizeAssumption == RingSize \in Nat \ {0}

Point == [number : Nat, size : Nat, ignore : BOOLEAN]

sampler_create == [start_pos |-> -1, index |-> -1, total_data_acked |-> 0,
                   points |-> [i \in 0 .. RingSize - 1 |-> [number |-> 0, size |-> 0, ignore |-> TRUE]]]

PointOf(sampler, number) == sampler.points[number % RingSize]

Tracked(sampler, number) == sampler.start_pos <= number /\ number <= sampler.index

sampler_on_packet_sent(sampler, number, size) ==
  IF number <= sampler.start_pos THEN sampler
  ELSE [sampler EXCEPT !.start_pos = IF sampler.start_pos = -1 THEN number ELSE sampler.start_pos,
                       !.index = number,
                       !.points[number % RingSize] = [number |-> number, size |-> size, ignore |-> FALSE]]

(* Mutant: the window moves and the point stays good.                       *)
sampler_remove_point_Unmarked(sampler, number) ==
  IF ~Tracked(sampler, number) THEN sampler
  ELSE [sampler EXCEPT !.start_pos = IF number = sampler.start_pos /\ sampler.index > number THEN number + 1
                                     ELSE sampler.start_pos]

(* sampler_remove_point, which is also sampler_on_packet_lost.              *)
sampler_remove_point(sampler, number) ==
  IF ~Tracked(sampler, number) THEN sampler
  ELSE [sampler EXCEPT !.points[number % RingSize].ignore = TRUE,
                       !.start_pos = IF number = sampler.start_pos /\ sampler.index > number THEN number + 1
                                     ELSE sampler.start_pos]

sampler_on_packet_acked(sampler, number) ==
  IF ~Tracked(sampler, number) \/ PointOf(sampler, number).ignore THEN sampler
  ELSE sampler_remove_point([sampler EXCEPT !.total_data_acked =
                               sampler.total_data_acked + PointOf(sampler, number).size], number)

(* sampler_remove_old: every point below is removed, up to the last one.    *)
sampler_remove_old(sampler, least_unacked) ==
  LET last == IF least_unacked <= sampler.index THEN least_unacked ELSE sampler.index
      gone == {i \in 0 .. RingSize - 1 : \E n \in sampler.start_pos .. last - 1 : n % RingSize = i}
  IN  IF last <= sampler.start_pos THEN sampler
      ELSE [sampler EXCEPT !.start_pos = last,
                           !.points = [i \in 0 .. RingSize - 1 |->
                             IF i \in gone THEN [sampler.points[i] EXCEPT !.ignore = TRUE] ELSE sampler.points[i]]]
=============================================================================
