---------------------------- MODULE MC_AbrSession ----------------------------
(***************************************************************************)
(* Instance of AbrSession for TLC.  The unit is 100 kbit/s: measurements   *)
(* are far enough from the 80% thresholds of the bandwidths that rounding  *)
(* the moving average up does not decide on which side it ends.            *)
(***************************************************************************)
EXTENDS AbrSession

\* A ladder, a shorter one, one with a single variant and one with two variants of the
\* same bandwidth; the parser hands out sorted lists only.
MCLists == {<<5, 20, 60>>, <<20, 60>>, <<5>>, <<20, 20, 60>>}

\* No measurement (an instantaneous transfer), a slow, a fair and a fast network.
MCMeasurements == {0, 10, 50, 100}
=============================================================================
