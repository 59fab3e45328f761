---------------------------- MODULE MediaDecoders ----------------------------
(***************************************************************************)
(* A client that drives one of the demuxer, the video decoder and the      *)
(* audio decoder with any calls of its interface in any order, and that    *)
(* catches what they throw.                                                *)
(***************************************************************************)
EXTENDS FFmpegDecoder, FFmpegAudioDecoder, TsDemuxer

VARIABLE driven    \* the object of this behavior

vars == <<decoderVars, videoVars, audioVars, demuxerVars, driven>>

\* Type of the state: in particular the local vector is empty between two operations.
TypeOK ==
    /\ DecoderTypeOK /\ VideoTypeOK /\ AudioTypeOK /\ DemuxerTypeOK
    /\ driven \in {"video", "audio", "demuxer"}

Init ==
    /\ DecoderInit /\ VideoInit /\ AudioInit /\ DemuxerInit
    /\ driven \in {"video", "audio", "demuxer"}
    /\ driven = "audio" => codec_context
    /\ driven # "demuxer" => input = CHOOSE segment \in Inputs : TRUE

Next ==
    /\ \/ driven = "video" /\ VideoNext /\ UNCHANGED <<audioVars, demuxerVars>>
       \/ driven = "audio" /\ AudioNext /\ UNCHANGED <<videoVars, demuxerVars>>
       \/ driven = "demuxer" /\ DemuxerNext /\ UNCHANGED <<decoderVars, videoVars, audioVars>>
    /\ UNCHANGED driven

Spec == Init /\ [][Next]_vars

-----------------------------------------------------------------------------
\* Frames come in output order and none twice, over all operations and whatever failed between
\* them, and the synthesized times of video go up strictly, also when the codec reports no
\* rate: the render path sorts by them.
FramesOrdered ==
    \A i, j \in DOMAIN returned : i < j =>
        /\ 0 \notin {returned[i].picture, returned[j].picture}
              => returned[i].picture < returned[j].picture
        /\ driven = "video" => returned[i].pts < returned[j].pts

\* Whether an operation asks the codec for its pictures, or may still: for video the flush that
\* signalled the end of the stream is the last one that does, and a second flush returns at once.
StillAsked == driven = "video" => ~end_of_stream \/ call # "none"

\* The last picture that left the codec was a damaged one.
BehindDamage == LET last == Len(taken) - Len(held) IN last > 0 /\ Damaged(last)

\* What a damaged picture costs.  Unless an operation has thrown, every good picture that the
\* codec took has been returned, or is collected, or is in a codec that is still asked for it,
\* as after a decode that a damaged picture cut short.  The only good pictures that are lost are
\* those behind a damaged one that a flush met: it returns there, with end_of_stream set, and
\* does not drain what the codec was holding, as the header says it does.
LostOnlyBehindDamage ==
    harm # "thrown" =>
        \A picture \in DOMAIN taken : taken[picture].kind = "good" =>
            \/ (\E i \in DOMAIN held : held[i] = picture) /\ (StillAsked \/ BehindDamage)
            \/ \E i \in DOMAIN frames : frames[i].picture = picture
            \/ \E i \in DOMAIN returned : returned[i].picture = picture
===============================================================================
