------------------------------ MODULE AbrRule ------------------------------
(***************************************************************************)
(* The rule by which the sending program chooses the bitrate of each frame *)
(* (sim_test/sim_sender/confidence.cpp, try_send_video): from a table of   *)
(* how confident a model answers at each tier of bitrates, a row for so    *)
(* many frames, and from what congestion control allows.                   *)
(*                                                                         *)
(* Confidences and the threshold are whole numbers on any scale, and       *)
(* comparisons of interpolated ones are multiplied out; the code has       *)
(* doubles.                                                                *)
(***************************************************************************)
EXTENDS Integers, Sequences, FiniteSetsExt

CONSTANTS
  tiers_kbps,       \* <<200, 400, 610, 910, 1710, 3150>>
  threshold,        \* 0.8
  frames_per_row,   \* 150
  first_bitrate,    \* 4000 kbps, last_bitrate before the first frame
  Confidences,      \* what the table holds
  Rows,             \* numbers of rows it may have
  CcBitrates,       \* what congestion control suggests, kbps
  MaxIndex          \* bound: frames sent

ASSUME AbrAssumption ==
  /\ tiers_kbps \in Seq(Nat) /\ Len(tiers_kbps) > 0
  /\ \A i, j \in 1 .. Len(tiers_kbps) : i < j => tiers_kbps[i] < tiers_kbps[j]
  /\ {threshold, first_bitrate, MaxIndex} \subseteq Nat /\ frames_per_row \in Nat \ {0}
  /\ Confidences \subseteq Nat /\ Rows \subseteq Nat /\ CcBitrates \subseteq Nat

VARIABLES
  rows,          \* the table; empty when it could not be loaded
  index,         \* the number of the next frame
  last_bitrate,  \* kbps
  cc,            \* history: what congestion control suggested for the last frame
  calm           \* history: frames sent since the suggestion or the row changed

abrVars == <<rows, index, last_bitrate, cc, calm>>

Tiers    == 1 .. Len(tiers_kbps)
TopTier  == tiers_kbps[Len(tiers_kbps)]

AbrInit ==
  /\ \E n \in Rows : rows \in [1 .. n -> [Tiers -> Confidences]]
  /\ index = 0
  /\ last_bitrate = first_bitrate
  /\ cc = first_bitrate
  /\ calm = 0

-----------------------------------------------------------------------------
computeRowIndex(frame_id) == Min({frame_id \div frames_per_row + 1, Len(rows)})

(* interpolateConfidence(bitrate, ...) >= threshold                         *)
Enough(bitrate, confs) ==
  IF bitrate <= tiers_kbps[1] THEN confs[1] >= threshold
  ELSE IF bitrate >= TopTier THEN confs[Len(tiers_kbps)] >= threshold
  ELSE \E lo \in Tiers \ {Len(tiers_kbps)} :
         /\ tiers_kbps[lo] <= bitrate /\ bitrate < tiers_kbps[lo + 1]
         /\ (bitrate - tiers_kbps[lo]) * (confs[lo + 1] - confs[lo])
               >= (threshold - confs[lo]) * (tiers_kbps[lo + 1] - tiers_kbps[lo])

(* Mutant: a tier is above itself.                                          *)
nextTierAbove_Same(bitrate) ==
  IF bitrate >= TopTier THEN TopTier ELSE Min({tiers_kbps[i] : i \in {i \in Tiers : tiers_kbps[i] >= bitrate}})

nextTierAbove(bitrate) ==
  IF bitrate >= TopTier THEN TopTier ELSE Min({tiers_kbps[i] : i \in {i \in Tiers : tiers_kbps[i] > bitrate}})

Sufficient(confs) == {i \in Tiers : confs[i] >= threshold}

(* The least bitrate that is confident enough, between the first sufficient *)
(* tier and the one below, rounded up: ceil(x + 1e-9) is one more than a    *)
(* whole x.                                                                 *)
Raised(confs) ==
  LET A == Min(Sufficient(confs))
  IN  IF A = 1 THEN tiers_kbps[1] + 1
      ELSE tiers_kbps[A - 1] + ((threshold - confs[A - 1]) * (tiers_kbps[A] - tiers_kbps[A - 1])) \div (confs[A] - confs[A - 1]) + 1

AdjustBitrate(frame_id, current, suggested) ==
  IF rows = <<>> \/ current > suggested THEN Min({current, suggested})
  ELSE LET confs == rows[computeRowIndex(frame_id)]
       IN  IF Enough(current, confs) THEN current
           ELSE IF Sufficient(confs) # {} THEN Min({suggested, Raised(confs)})
           ELSE IF current < TopTier THEN Min({suggested, nextTierAbove(current)})
           ELSE Min({suggested, current})

(* try_send_video                                                           *)
try_send_video(suggested) ==
  /\ index < MaxIndex
  /\ last_bitrate' = Min({suggested, AdjustBitrate(index, last_bitrate, suggested)})
  /\ index' = index + 1
  /\ cc' = suggested
  /\ calm' = IF suggested = cc /\ (rows = <<>> \/ index = 0 \/ computeRowIndex(index) = computeRowIndex(index - 1))
             THEN calm + 1 ELSE 1
  /\ UNCHANGED rows

AbrNext == \E suggested \in CcBitrates : try_send_video(suggested)

AbrSpec == AbrInit /\ [][AbrNext]_abrVars

-----------------------------------------------------------------------------
Confs == rows[computeRowIndex(index - 1)]

(* A bitrate found by rounding up may be one above the least sufficient one.*)
EnoughOrOneAbove(bitrate) == Enough(bitrate, Confs) \/ Enough(bitrate - 1, Confs)

(* The rule settles: when neither the suggestion nor the row changes for    *)
(* as many frames as there are tiers, and one more, the bitrate is          *)
(* sufficient, or all that congestion control allows, or no tier suffices   *)
(* and it is the highest.  Confidence need not grow with the bitrate.       *)
BitrateSettles ==
  calm > Len(tiers_kbps) /\ rows # <<>> =>
    \/ EnoughOrOneAbove(last_bitrate)
    \/ last_bitrate = cc
    \/ Sufficient(Confs) = {} /\ last_bitrate >= TopTier

(* What README.md:45 says of AdjustBitrate, that it finds a minimal bitrate  *)
(* sufficient to answer: once it has settled, the bitrate is no more than a *)
(* sufficient tier, rounded up.                                             *)
MinimalBitrate ==
  calm > Len(tiers_kbps) /\ rows # <<>> => \A i \in Sufficient(Confs) : last_bitrate <= tiers_kbps[i] + 1
=============================================================================
