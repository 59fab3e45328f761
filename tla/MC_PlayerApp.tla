---------------------------- MODULE MC_PlayerApp -----------------------------
(***************************************************************************)
(* Instance of PlayerApp for TLC: a segment with both kinds of frames, one *)
(* with nothing in it, and segments on which each of the calls throws.     *)
(***************************************************************************)
EXTENDS PlayerApp

Segment(video, audio, throws) == [video |-> video, audio |-> audio, throws |-> throws]

MCSegments == {Segment(2, 1, "none"), Segment(0, 0, "none"), Segment(1, 1, "demux"),
               Segment(1, 1, "video"), Segment(1, 1, "audio")}
=============================================================================
