------------------------------ MODULE AbrSession ------------------------------
(***************************************************************************)
(* One AbrManager and its callers.  The object lives as long as the player *)
(* while each start() brings another master playlist, so any call may pass *)
(* another list than the call before; after Settle the list and the        *)
(* throughput of the network no longer change.                             *)
(***************************************************************************)
EXTENDS AbrManager

CONSTANTS
    Lists,          \* lists of variants the calls pass
    Measurements    \* throughputs the network component reports

ASSUME ListsAssumption == Lists \subseteq Seq(Nat) \ {<<>>}
ASSUME MeasurementsAssumption == Measurements \subseteq Nat

VARIABLES
    variants,       \* ghost: the list of the last call, <<>> before the first
    measured,       \* ghost: the measurement of the last call
    calm,           \* ghost: calls since the index last moved, up to 2
    steady          \* list and throughput stay what they are

vars == <<smoothed_throughput_, consecutive_upgrades_, current_variant_index_,
          variants, measured, calm, steady>>

\* Type of the state: in particular the count of favorable measurements never gets to 3.
TypeOK ==
    /\ AbrTypeOK
    /\ variants \in Lists \cup {<<>>}
    /\ measured \in Measurements \cup {0}
    /\ calm \in 0 .. 2
    /\ steady \in BOOLEAN

Init ==
    /\ AbrInit
    /\ variants = <<>>
    /\ measured = 0
    /\ calm = 0
    /\ steady = FALSE

Call(list, m) ==
    /\ steady => list = variants /\ m = measured
    /\ SelectVariant(list, m)
    /\ variants' = list
    /\ measured' = m
    /\ calm' = IF current_variant_index_' # current_variant_index_ THEN 0
               ELSE IF calm = 2 THEN 2 ELSE calm + 1
    /\ UNCHANGED steady

Settle ==
    /\ variants # <<>>
    /\ ~steady
    /\ steady' = TRUE
    /\ UNCHANGED <<abrVars, variants, measured, calm>>

Next ==
    \/ \E list \in Lists, m \in Measurements : Call(list, m)
    \/ Settle

Spec == Init /\ [][Next]_vars

\* The caller goes on calling: the download loop does so after every segment.
FairSpec == Spec /\ WF_vars(\E list \in Lists, m \in Measurements : Call(list, m))

-----------------------------------------------------------------------------
\* variants[current_variant_index_] exists in the list the call was given, although
\* the index was computed on other, longer lists: selectVariant does not check it.
IndexInRange == variants # <<>> => current_variant_index_ < Len(variants)

\* The selected variant, and every one before it in the list, fits in 80% of the
\* smoothed throughput, unless it is the first: the hysteresis never holds the player
\* on a variant that the network does not carry.
Affordable ==
    \/ current_variant_index_ = 0
    \/ \A i \in 0 .. current_variant_index_ :
          Fits(variants[i + 1], smoothed_throughput_)

\* No accordion effect: once a throughput is known, the index goes up only when it has
\* stayed where it was for the two calls before.
NoAccordion ==
    [][current_variant_index_' > current_variant_index_ /\ smoothed_throughput_ # 0
        => calm = 2]_vars

\* On a steady network the choice settles, for good, on the variant that the measured
\* throughput itself calls for.
Converges ==
    steady ~> [](current_variant_index_ = IdealIndex(variants, measured))
=============================================================================
