-------------------------- MODULE AbrSession_proofs --------------------------
(***************************************************************************)
(* Theorems about AbrSession for every smoothing factor, every set of      *)
(* lists (sorted or not) and every set of measurements.                    *)
(***************************************************************************)
EXTENDS AbrSession, WellFoundedInduction, TLAPS

USE AlphaAssumption, ListsAssumption, MeasurementsAssumption

-----------------------------------------------------------------------------
\* selectVariant, wherever its calls come from.

\* A nonempty set of natural numbers below a bound has its greatest element.
LEMMA GreatestExists ==
    ASSUME NEW S, NEW n \in Nat, S \subseteq 0 .. n, S # {}
    PROVE  Max(S) \in S /\ \A x \in S : x <= Max(S)
<1> DEFINE U == {k \in Nat : \A x \in S : x <= k}
<1>1. U \in SUBSET Nat /\ n \in U
  OBVIOUS
<1>2. PICK k \in U : \A u \in U : k <= u
  <2> DEFINE R == OpToRel(<, Nat)
  <2>1. \E k \in U : \A u \in U : <<u, k>> \notin R
    BY <1>1, NatLessThanWellFounded, WFMin
  <2>2. \A u, k \in Nat : <<u, k>> \notin R => k <= u
    BY DEF OpToRel
  <2> QED
    BY <2>1, <2>2
<1>3. k \in S
  <2>1. SUFFICES ASSUME k \notin S PROVE FALSE
    OBVIOUS
  <2>2. \A x \in S : x \in Nat /\ x < k
    BY <1>2, <2>1
  <2>3. k - 1 \in Nat
    <3>1. PICK x \in S : x \in Nat /\ x < k
      BY <2>2
    <3> QED
      BY <3>1
  <2>4. \A y \in S : y <= k - 1
    BY <2>2, <2>3
  <2>5. k <= k - 1
    BY <1>2, <2>3, <2>4
  <2> QED
    BY <2>3, <2>5
<1>4. \A x \in S : k >= x
  BY <1>2
<1>5. Max(S) \in S /\ \A x \in S : Max(S) >= x
  BY <1>3, <1>4 DEF Max
<1> QED
  BY <1>5

\* What calculateIdealVariantIndex returns, for any nonempty list and any throughput: an
\* index of the list whose variant and all before it fit, or 0.
LEMMA IdealIndexCorrect ==
    ASSUME NEW list \in Seq(Nat), list # <<>>, NEW s \in Nat
    PROVE  /\ IdealIndex(list, s) \in 0 .. Len(list) - 1
           /\ \/ IdealIndex(list, s) = 0
              \/ \A j \in 0 .. IdealIndex(list, s) : Fits(list[j + 1], s)
<1> DEFINE P == FittingPrefix(list, s)
<1>1. Len(list) - 1 \in Nat /\ P \subseteq 0 .. Len(list) - 1
  BY DEF FittingPrefix
<1>2. CASE P = {}
  BY <1>1, <1>2 DEF IdealIndex
<1>3. CASE P # {}
  <2>1. IdealIndex(list, s) = Max(P) /\ Max(P) \in P
    BY <1>1, <1>3, GreatestExists DEF IdealIndex
  <2> QED
    BY <1>1, <2>1 DEF FittingPrefix
<1> QED
  BY <1>2, <1>3

\* The moving average is a natural number, and positive once it is.
LEMMA EwmaCorrect ==
    ASSUME NEW m \in Nat, NEW s \in Nat
    PROVE  Ewma(m, s) \in Nat /\ (s # 0 => Ewma(m, s) # 0)
<1>1. Alpha * m \in Nat /\ (10 - Alpha) \in Nat /\ (10 - Alpha) * s \in Nat
  OBVIOUS
<1>2. s # 0 => (10 - Alpha) * s >= 1
  OBVIOUS
<1> QED
  BY <1>1, <1>2 DEF Ewma

\* Where the hysteresis leaves the index and the count, from any of their values.
LEMMA HysteresisCorrect ==
    ASSUME NEW ideal \in Nat, consecutive_upgrades_ \in 0 .. 2,
           current_variant_index_ \in Nat, ApplyHysteresis(ideal)
    PROVE  /\ consecutive_upgrades_' \in 0 .. 2
           /\ current_variant_index_' \in 0 .. ideal
           /\ \/ /\ current_variant_index_' = current_variant_index_
                 /\ consecutive_upgrades_' <= consecutive_upgrades_ + 1
              \/ consecutive_upgrades_' = 0
           /\ current_variant_index_' > current_variant_index_ => consecutive_upgrades_ = 2
  BY DEF ApplyHysteresis

\* What one call of selectVariant guarantees, whatever the state the calls before it, on
\* other lists, left: the index is one of the list, affordable, and an upgrade comes
\* with two favorable measurements behind it.
LEMMA SelectCorrect ==
    ASSUME AbrTypeOK, NEW list \in Seq(Nat), NEW m \in Nat, SelectVariant(list, m),
           smoothed_throughput_ = 0 => consecutive_upgrades_ = 0
    PROVE  /\ AbrTypeOK'
           /\ current_variant_index_' < Len(list)
           /\ \/ current_variant_index_' = 0
              \/ \A i \in 0 .. current_variant_index_' : Fits(list[i + 1], smoothed_throughput_')
           /\ \/ /\ current_variant_index_' = current_variant_index_
                 /\ consecutive_upgrades_' <= consecutive_upgrades_ + 1
              \/ consecutive_upgrades_' = 0
           /\ current_variant_index_' > current_variant_index_ /\ smoothed_throughput_ # 0
                => consecutive_upgrades_ = 2
           /\ smoothed_throughput_' = 0 => consecutive_upgrades_' = 0
<1>1. list # <<>> /\ Len(list) \in Nat
  BY DEF SelectVariant
<1>2. CASE smoothed_throughput_ = 0
  <2>1. /\ smoothed_throughput_' = m
        /\ current_variant_index_' = IdealIndex(list, m)
        /\ consecutive_upgrades_' = 0
    BY <1>2 DEF SelectVariant, InitializeFirstSegment
  <2>2. /\ IdealIndex(list, m) \in 0 .. Len(list) - 1
        /\ IdealIndex(list, m) = 0 \/ \A j \in 0 .. IdealIndex(list, m) : Fits(list[j + 1], m)
    BY <1>1, IdealIndexCorrect
  <2>3. AbrTypeOK' /\ current_variant_index_' < Len(list)
    BY <1>1, <2>1, <2>2 DEF AbrTypeOK
  <2>4. \/ current_variant_index_' = 0
        \/ \A i \in 0 .. current_variant_index_' : Fits(list[i + 1], smoothed_throughput_')
    BY <2>1, <2>2
  <2> QED
    BY <1>2, <2>1, <2>3, <2>4
<1>3. CASE smoothed_throughput_ # 0
  <2> DEFINE s == Ewma(m, smoothed_throughput_)
             ideal == IdealIndex(list, s)
  <2>1. s \in Nat /\ s # 0 /\ smoothed_throughput_' = s /\ ApplyHysteresis(ideal)
    BY <1>3, EwmaCorrect DEF SelectVariant, AbrTypeOK
  <2>2. /\ ideal \in 0 .. Len(list) - 1
        /\ ideal = 0 \/ \A j \in 0 .. ideal : Fits(list[j + 1], s)
    BY <1>1, <2>1, IdealIndexCorrect
  <2>3. /\ consecutive_upgrades_' \in 0 .. 2
        /\ current_variant_index_' \in 0 .. ideal
        /\ \/ /\ current_variant_index_' = current_variant_index_
              /\ consecutive_upgrades_' <= consecutive_upgrades_ + 1
           \/ consecutive_upgrades_' = 0
        /\ current_variant_index_' > current_variant_index_ => consecutive_upgrades_ = 2
    BY <2>1, <2>2, HysteresisCorrect DEF AbrTypeOK
  <2> HIDE DEF s, ideal
  <2>4. \/ current_variant_index_' = 0
        \/ \A i \in 0 .. current_variant_index_' : Fits(list[i + 1], s)
    BY <2>2, <2>3
  <2>5. AbrTypeOK' /\ current_variant_index_' < Len(list)
    BY <1>1, <2>1, <2>2, <2>3 DEF AbrTypeOK
  <2> QED
    BY <1>3, <2>1, <2>3, <2>4, <2>5
<1> QED
  BY <1>2, <1>3

-----------------------------------------------------------------------------
\* The inductive invariant.  The list of the last call bounds the index because the
\* index never exceeds the ideal one of that call, and every variant up to the ideal one
\* fits; calm is at least the count of favorable measurements, which is what makes an
\* upgrade wait.
IInv ==
    /\ TypeOK
    /\ IndexInRange
    /\ Affordable
    /\ consecutive_upgrades_ <= calm
    /\ smoothed_throughput_ = 0 => consecutive_upgrades_ = 0
    /\ variants = <<>> => current_variant_index_ = 0

\* A call keeps the invariant and respects the hysteresis.
LEMMA CallStep ==
    ASSUME IInv, NEW list \in Lists, NEW m \in Measurements, Call(list, m)
    PROVE  /\ IInv'
           /\ current_variant_index_' > current_variant_index_ /\ smoothed_throughput_ # 0
                => calm = 2
<1>1. list \in Seq(Nat) /\ list # <<>> /\ m \in Nat
  OBVIOUS
<1>2. /\ AbrTypeOK /\ calm \in 0 .. 2 /\ consecutive_upgrades_ <= calm
      /\ SelectVariant(list, m) /\ variants' = list /\ measured' = m
  BY DEF Call, IInv, TypeOK
<1>3. /\ AbrTypeOK'
      /\ current_variant_index_' < Len(list)
      /\ \/ current_variant_index_' = 0
         \/ \A i \in 0 .. current_variant_index_' : Fits(list[i + 1], smoothed_throughput_')
      /\ \/ /\ current_variant_index_' = current_variant_index_
            /\ consecutive_upgrades_' <= consecutive_upgrades_ + 1
         \/ consecutive_upgrades_' = 0
      /\ current_variant_index_' > current_variant_index_ /\ smoothed_throughput_ # 0
           => consecutive_upgrades_ = 2
      /\ smoothed_throughput_' = 0 => consecutive_upgrades_' = 0
  BY <1>1, <1>2, SelectCorrect DEF IInv
<1>4. TypeOK' /\ consecutive_upgrades_' <= calm'
  BY <1>2, <1>3 DEF Call, IInv, TypeOK, AbrTypeOK
<1>5. IndexInRange' /\ Affordable'
  BY <1>2, <1>3 DEF IndexInRange, Affordable
<1>6. current_variant_index_' > current_variant_index_ /\ smoothed_throughput_ # 0 => calm = 2
  BY <1>2, <1>3
<1> QED
  BY <1>1, <1>2, <1>3, <1>4, <1>5, <1>6 DEF IInv

\* The invariant is inductive, and its steps respect the hysteresis.
LEMMA NextIInv ==
    IInv /\ [Next]_vars =>
        /\ IInv'
        /\ [current_variant_index_' > current_variant_index_ /\ smoothed_throughput_ # 0
              => calm = 2]_vars
<1> SUFFICES ASSUME IInv, [Next]_vars
             PROVE  /\ IInv'
                    /\ \/ current_variant_index_' > current_variant_index_ /\ smoothed_throughput_ # 0
                             => calm = 2
                       \/ UNCHANGED vars
  OBVIOUS
<1>1. CASE \E list \in Lists, m \in Measurements : Call(list, m)
  BY <1>1, CallStep
<1>2. CASE Settle
  BY <1>2 DEF Settle, abrVars, IInv, TypeOK, AbrTypeOK, IndexInRange, Affordable
<1>3. CASE UNCHANGED vars
  BY <1>3 DEF vars, IInv, TypeOK, AbrTypeOK, IndexInRange, Affordable
<1> QED
  BY <1>1, <1>2, <1>3 DEF Next

\* The initial state satisfies the invariant.
LEMMA InitIInv == Init => IInv
<1> SUFFICES ASSUME Init PROVE IInv
  OBVIOUS
<1>1. AbrTypeOK /\ calm \in 0 .. 2 /\ consecutive_upgrades_ <= calm
  BY DEF Init, AbrInit, AbrTypeOK
<1>3. variants \in Lists \cup {<<>>} /\ measured \in Measurements \cup {0} /\ steady \in BOOLEAN
  BY Zenon DEF Init
<1>2. IndexInRange /\ Affordable
  BY DEF Init, AbrInit, IndexInRange, Affordable
<1> QED
  BY <1>1, <1>2, <1>3 DEF Init, AbrInit, IInv, TypeOK

LEMMA Invariance == Spec => []IInv
  BY InitIInv, NextIInv, PTL DEF Spec

-----------------------------------------------------------------------------
\* The fields of AbrManager keep their types and the count of favorable measurements
\* stays below 3.
THEOREM TypeCorrect == Spec => []TypeOK
  BY Invariance, PTL DEF IInv

\* selectVariant never indexes past the list it is given, although the index may stem
\* from another list.
THEOREM IndexAlwaysInRange == Spec => []IndexInRange
  BY Invariance, PTL DEF IInv

\* The selected variant fits in 80% of the smoothed throughput or is the first.
THEOREM AlwaysAffordable == Spec => []Affordable
  BY Invariance, PTL DEF IInv

\* The hysteresis: an upgrade comes only after two calls that left the index alone.
THEOREM NeverAccordion == Spec => NoAccordion
  BY Invariance, NextIInv, PTL DEF Spec, NoAccordion

-----------------------------------------------------------------------------
\* What Converges rests on besides fairness.

\* t is between s and m, and beyond s where s is below m.
Nearer(s, m, t) ==
    /\ s < m => s < t /\ t <= m
    /\ m <= s => m <= t /\ t <= s

\* The moving average lies between the measurement and the average before it.
LEMMA EwmaNearer ==
    ASSUME NEW m \in Nat, NEW s \in Nat
    PROVE  Nearer(s, m, Ewma(m, s))
<1> DEFINE sum == Alpha * m + (10 - Alpha) * s
<1>1. Alpha \in 1 .. 9
  BY AlphaAssumption
<1>2. sum \in Nat /\ (s < m => 10 * s < sum /\ sum <= 10 * m)
      /\ (m <= s => 10 * m <= sum /\ sum <= 10 * s)
  <2>1. CASE Alpha \in 1 .. 3
    BY <2>1
  <2>2. CASE Alpha \in 4 .. 6
    BY <2>2
  <2>3. CASE Alpha \in 7 .. 9
    BY <2>3
  <2> QED
    BY <1>1, <2>1, <2>2, <2>3
<1> HIDE DEF sum
<1> QED
  BY <1>2 DEF Ewma, Nearer, sum

\* Each measurement after the first moves the throughput towards itself and never past
\* itself: a steady network is approached from one side, without oscillation.
THEOREM ThroughputApproaches ==
    Spec => [][\A list \in Lists, m \in Measurements :
                  Call(list, m) /\ smoothed_throughput_ # 0 =>
                      Nearer(smoothed_throughput_, m, smoothed_throughput_')]_vars
<1>1. ASSUME IInv, NEW list \in Lists, NEW m \in Measurements, Call(list, m),
             smoothed_throughput_ # 0
      PROVE  Nearer(smoothed_throughput_, m, smoothed_throughput_')
  <2>1. m \in Nat /\ smoothed_throughput_ \in Nat
    BY <1>1, MeasurementsAssumption DEF IInv, TypeOK, AbrTypeOK
  <2>2. smoothed_throughput_' = Ewma(m, smoothed_throughput_)
    BY <1>1 DEF Call, SelectVariant
  <2> QED
    BY <2>1, <2>2, EwmaNearer
<1>2. IInv /\ [Next]_vars =>
          [\A list \in Lists, m \in Measurements :
              Call(list, m) /\ smoothed_throughput_ # 0 =>
                  Nearer(smoothed_throughput_, m, smoothed_throughput_')]_vars
  BY <1>1
<1> QED
  BY <1>2, Invariance, PTL DEF Spec

\* The throughput and the choice that a steady network comes to.
Settled ==
    steady /\ smoothed_throughput_ = measured
           /\ current_variant_index_ = IdealIndex(variants, measured)

\* They are final: no later call gives them up, whatever the count of favorable measurements
\* was when they were reached.
THEOREM SettledForGood == Spec => [][Settled => Settled']_vars
<1>1. ASSUME IInv, Settled, NEW list \in Lists, NEW m \in Measurements, Call(list, m)
      PROVE  Settled'
  <2>1. /\ steady' /\ variants' = variants /\ measured' = measured
        /\ list = variants /\ m = measured /\ SelectVariant(list, m)
    BY <1>1 DEF Call, Settled
  <2>2. measured \in Nat /\ current_variant_index_ \in Nat
    BY <1>1, <2>1, MeasurementsAssumption DEF IInv, TypeOK, AbrTypeOK
  <2>3. CASE smoothed_throughput_ = 0
    BY <1>1, <2>1, <2>3 DEF SelectVariant, InitializeFirstSegment, Settled
  <2>4. CASE smoothed_throughput_ # 0
    <3>1. smoothed_throughput_' = Ewma(measured, measured)
      BY <1>1, <2>1, <2>4 DEF SelectVariant, Settled
    <3>2. smoothed_throughput_' = measured
      BY <2>2, <3>1, EwmaNearer, EwmaCorrect DEF Nearer
    <3>3. ApplyHysteresis(current_variant_index_)
      BY <1>1, <2>1, <2>4, <3>2 DEF SelectVariant, Settled
    <3>4. current_variant_index_' = current_variant_index_
      BY <2>2, <3>3 DEF ApplyHysteresis
    <3> QED
      BY <1>1, <2>1, <3>2, <3>4 DEF Settled
  <2> QED
    BY <2>3, <2>4
<1>2. IInv /\ [Next]_vars => [Settled => Settled']_vars
  <2>1. Settled /\ Settle => Settled'
    BY DEF Settle, Settled
  <2> QED
    BY <1>1, <2>1 DEF Next
<1> QED
  BY <1>2, Invariance, PTL DEF Spec
=============================================================================
