--------------------------- MODULE WindowedFilter ---------------------------
(***************************************************************************)
(* The filter of the greatest sample within a window that the BBR          *)
(* controller keeps of bandwidths and of bursts of acknowledgements, by    *)
(* round trips (bbr/windowed_filter.c, with max_val_func): the best        *)
(* estimate and two later ones that take its place when it is too old.     *)
(* Round trips go by without a sample while the application limits the     *)
(* rate.                                                                   *)
(***************************************************************************)
EXTENDS Integers

CONSTANTS
  filter_wnd_size,   \* kBandwidthWindowSize: kGainCycleLength + 2 round trips
  BwSamples,         \* samples fed
  RoundGaps,         \* round trips between two of them
  MaxRounds          \* bound: round trips

ASSUME FilterAssumption ==
  /\ filter_wnd_size \in Nat /\ MaxRounds \in Nat
  /\ BwSamples \subseteq Nat /\ RoundGaps \subseteq Nat

VARIABLES
  estimates,    \* best, second and third, each a sample and its time
  round_trip,   \* history: the time of the last sample
  marked        \* history: any one of the samples fed, or the initial one

filterVars == <<estimates, round_trip, marked>>

Sample(s, ts) == [sample |-> s, ts |-> ts]

wnd_filter_reset(s) == [i \in 0 .. 2 |-> s]

FilterInit ==
  /\ estimates = wnd_filter_reset(Sample(0, 0))
  /\ round_trip = 0
  /\ marked = Sample(0, 0)

TooOld(e, s) == s.ts - e.ts > filter_wnd_size

(* A sample that is not the best takes the place of those it is as good as. *)
Replaced(e, s) ==
  IF s.sample >= e[1].sample THEN [e EXCEPT ![1] = s, ![2] = s]
  ELSE IF s.sample >= e[2].sample THEN [e EXCEPT ![2] = s] ELSE e

(* Mutant: the estimate that moves up is not looked at again.               *)
Shifted_Once(e, s) == [i \in 0 .. 2 |-> IF i = 2 THEN s ELSE e[i + 1]]

(* The best is too old: the others move up, and once more if the new best   *)
(* is too old as well.                                                      *)
Shifted(e, s) ==
  LET up == [i \in 0 .. 2 |-> IF i = 2 THEN s ELSE e[i + 1]]
  IN  IF TooOld(up[0], s) THEN [up EXCEPT ![0] = up[1], ![1] = s] ELSE up

(* Estimates as good as the one before them are kept apart in time.         *)
Spread(e, s) ==
  IF e[0].sample = e[1].sample /\ s.ts - e[1].ts > filter_wnd_size \div 4
    THEN [e EXCEPT ![1] = s, ![2] = s]
  ELSE IF e[1].sample = e[2].sample /\ s.ts - e[2].ts > filter_wnd_size \div 2
    THEN [e EXCEPT ![2] = s]
  ELSE e

Updated(e, s) ==
  IF e[0].sample = 0 \/ s.sample >= e[0].sample \/ TooOld(e[2], s) THEN wnd_filter_reset(s)
  ELSE IF TooOld(Replaced(e, s)[0], s) THEN Shifted(Replaced(e, s), s)
  ELSE Spread(Replaced(e, s), s)

wnd_filter_update(s) ==
  /\ s.ts <= MaxRounds
  /\ estimates' = Updated(estimates, s)
  /\ round_trip' = s.ts
  /\ marked' \in {marked, s}

FilterNext == \E sample \in BwSamples, gap \in RoundGaps : wnd_filter_update(Sample(sample, round_trip + gap))

FilterSpec == FilterInit /\ [][FilterNext]_filterVars

-----------------------------------------------------------------------------
(* Whenever a sample is fed, the best estimate is one from within the       *)
(* window, however long none came before it (windowed_filter.c:61, 82).     *)
BestFresh == ~TooOld(estimates[0], [ts |-> round_trip])

(* No sample fed since the best estimate is greater than it, though only    *)
(* two others are kept: nor any fed since the second than the second, nor   *)
(* since the third than the third.                                          *)
NoneGreaterSince == \A i \in 0 .. 2 : marked.ts > estimates[i].ts => marked.sample <= estimates[i].sample

(* The bandwidth the controller paces by is one measured within the window, *)
(* and the greatest measured since then.                                    *)
FilterSound == BestFresh /\ NoneGreaterSince
=============================================================================
