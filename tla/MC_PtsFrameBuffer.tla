-------------------------- MODULE MC_PtsFrameBuffer --------------------------
(***************************************************************************)
(* Instance of PtsFrameBuffer for TLC: frames in decoding order, with      *)
(* reordered and equal times, around the wrap of the timestamps at 16, and *)
(* behind a jump that spreads three frames over more than half a period.   *)
(***************************************************************************)
EXTENDS PtsFrameBuffer

MCTimes == <<13, 15, 14, 16, 16, 21, 26, 25>>
=============================================================================
