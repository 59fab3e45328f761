------------------------------ MODULE AbrManager ------------------------------
(***************************************************************************)
(* iptv::abr::AbrManager: the choice of a variant stream from the          *)
(* throughput measured on the last segment.                                *)
(*                                                                         *)
(* A variant is its bandwidth, a list of variants a sequence in the order  *)
(* of the master playlist, and bandwidths and throughputs are integers of  *)
(* one unit (the code divides by 10^6 and computes in double).  The        *)
(* smoothed throughput is rounded up, so that it is 0 only where the       *)
(* code's is: before a positive measurement.  Indices start at 0, as in    *)
(* the code.                                                               *)
(***************************************************************************)
EXTENDS Integers, Sequences, FiniteSetsExt

CONSTANT Alpha    \* alpha_, in tenths

ASSUME AlphaAssumption == Alpha \in 1 .. 9

VARIABLES
    smoothed_throughput_,
    consecutive_upgrades_,
    current_variant_index_

abrVars == <<smoothed_throughput_, consecutive_upgrades_, current_variant_index_>>

AbrTypeOK ==
    /\ smoothed_throughput_ \in Nat
    /\ consecutive_upgrades_ \in 0 .. 2
    /\ current_variant_index_ \in Nat

AbrInit ==
    /\ smoothed_throughput_ = 0
    /\ consecutive_upgrades_ = 0
    /\ current_variant_index_ = 0

\* The variant fits in 80% of the throughput s.
Fits(bandwidth, s) == bandwidth * 10 <= s * 8

\* updateSmoothedThroughput: the moving average, rounded up.
Ewma(measured, s) == (Alpha * measured + (10 - Alpha) * s + 9) \div 10

\* The indices the loop of calculateIdealVariantIndex accepts before its break.
FittingPrefix(variants, s) ==
    {i \in 0 .. Len(variants) - 1 : \A j \in 0 .. i : Fits(variants[j + 1], s)}

\* Deviation: one past the last variant that fits.
IdealIndex_OffByOne(variants, s) ==
    IF FittingPrefix(variants, s) = {} THEN 0 ELSE Max(FittingPrefix(variants, s)) + 1

\* calculateIdealVariantIndex
IdealIndex(variants, s) ==
    IF FittingPrefix(variants, s) = {} THEN 0 ELSE Max(FittingPrefix(variants, s))

\* Deviation: the count is not reset when the index moves.
ApplyHysteresis_KeepCount(ideal) ==
    IF ideal > current_variant_index_ /\ consecutive_upgrades_ < 2
    THEN /\ consecutive_upgrades_' = consecutive_upgrades_ + 1
         /\ UNCHANGED current_variant_index_
    ELSE current_variant_index_' = ideal /\ UNCHANGED consecutive_upgrades_

\* Deviation: the comparison with 3 is strict.
ApplyHysteresis_Four(ideal) ==
    IF ideal > current_variant_index_ /\ consecutive_upgrades_ < 3
    THEN /\ consecutive_upgrades_' = consecutive_upgrades_ + 1
         /\ UNCHANGED current_variant_index_
    ELSE current_variant_index_' = ideal /\ consecutive_upgrades_' = 0

\* Deviation: favorable measurements are not counted.
ApplyHysteresis_NoCount(ideal) ==
    IF ideal > current_variant_index_ /\ consecutive_upgrades_ < 2
    THEN UNCHANGED <<current_variant_index_, consecutive_upgrades_>>
    ELSE current_variant_index_' = ideal /\ consecutive_upgrades_' = 0

\* applyHysteresis: the index follows the ideal one at once, except that it goes up
\* only on the third favorable measurement in a row.
ApplyHysteresis(ideal) ==
    IF ideal > current_variant_index_ /\ consecutive_upgrades_ < 2
    THEN /\ consecutive_upgrades_' = consecutive_upgrades_ + 1
         /\ UNCHANGED current_variant_index_
    ELSE current_variant_index_' = ideal /\ consecutive_upgrades_' = 0

\* initializeFirstSegment
InitializeFirstSegment(variants, measured) ==
    /\ smoothed_throughput_' = measured
    /\ current_variant_index_' = IdealIndex(variants, measured)
    /\ UNCHANGED consecutive_upgrades_

\* Deviation: the throughput is smoothed after the choice.
SelectVariant_SmoothLast(variants, measured) ==
    /\ variants # <<>>
    /\ IF smoothed_throughput_ = 0
       THEN InitializeFirstSegment(variants, measured)
       ELSE /\ smoothed_throughput_' = Ewma(measured, smoothed_throughput_)
            /\ ApplyHysteresis(IdealIndex(variants, smoothed_throughput_))

\* selectVariant, for a list that is not empty (it throws on an empty one).
SelectVariant(variants, measured) ==
    /\ variants # <<>>
    /\ IF smoothed_throughput_ = 0
       THEN InitializeFirstSegment(variants, measured)
       ELSE /\ smoothed_throughput_' = Ewma(measured, smoothed_throughput_)
            /\ ApplyHysteresis(IdealIndex(variants, smoothed_throughput_'))
===============================================================================
