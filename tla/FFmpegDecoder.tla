---------------------------- MODULE FFmpegDecoder ----------------------------
(***************************************************************************)
(* iptv::decoder::FFmpegDecoder: video.  With an empty codec hint the       *)
(* codec is opened at the first packet, if its format can be told; frame    *)
(* times are synthesized, in milliseconds, from the rate the codec reports. *)
(***************************************************************************)
EXTENDS Decoder

CONSTANT Durations     \* of a frame, in ms; 0 where the codec reports no rate

ASSUME DurationsAssumption == Durations \subseteq Nat

VARIABLES
    codec_context,     \* whether a codec has been opened
    next_pts_ms,
    end_of_stream

videoVars == <<codec_context, next_pts_ms, end_of_stream>>

VideoTypeOK ==
    /\ codec_context \in BOOLEAN
    /\ next_pts_ms \in Nat
    /\ end_of_stream \in BOOLEAN

\* The constructor, with a hint or without.
VideoInit ==
    /\ codec_context \in BOOLEAN
    /\ next_pts_ms = 0
    /\ end_of_stream = FALSE

-----------------------------------------------------------------------------
\* decode and decodePacket up to the packet being sent.

\* Nothing reaches the codec: no bytes, a packet after the end, a packet that is too large or
\* whose format cannot be told.
DecodeRejected(packet) ==
    /\ Callable
    /\ \/ packet.size = "empty" /\ Return(<<>>) /\ UNCHANGED harm
       \/ packet.size # "empty" /\ end_of_stream /\ Throw("logic_error")
       \/ packet.size = "oversized" /\ ~end_of_stream /\ Throw("DecoderException")
       \/ packet.size = "usual" /\ ~end_of_stream /\ ~codec_context /\ Throw("DecoderException")
    /\ UNCHANGED <<held, draining, pimpl_, taken, harm, videoVars>>

\* The packet is sent: taken, dropped because it is corrupt, or refused.
Decode(packet) ==
    /\ Callable
    /\ packet.size = "usual" /\ ~end_of_stream
    /\ Len(taken) + Len(packet.pictures) <= MaxPictures
    /\ codec_context' = TRUE
    /\ \E status \in {"OK", "INVALIDDATA", "error", "EAGAIN", "EOF"} :
          /\ SendPacket(packet.pictures, IF packet.pts = NotGiven THEN NoPts ELSE packet.pts, status)
          /\ \/ /\ status = "OK" /\ call' = "decode"
                /\ UNCHANGED <<frames, result, returned>>
             \/ status = "INVALIDDATA" /\ Return(<<>>)
             \/ status \notin {"OK", "INVALIDDATA"} /\ Throw("DecoderException")
    /\ UNCHANGED <<pimpl_, harm, next_pts_ms, end_of_stream>>

\* flush and drainRemainingFrames.  Without a codec a null context is handed to libavcodec.
Flush ==
    /\ Callable
    /\ \/ /\ end_of_stream
          /\ Return(<<>>)
          /\ UNCHANGED <<held, draining, taken, harm, end_of_stream>>
       \/ /\ ~end_of_stream /\ codec_context
          /\ end_of_stream' = TRUE
          /\ \/ /\ SendEnd("OK") \/ SendEnd("EOF")
                /\ call' = "flush"
                /\ UNCHANGED <<frames, result, returned, harm>>
             \/ /\ SendEnd("error")
                /\ Throw("DecoderException")
                /\ harm' = "thrown"
       \/ /\ ~end_of_stream /\ ~codec_context
          /\ result' = "undefined"
          /\ UNCHANGED <<held, draining, taken, harm, end_of_stream, call, frames, returned>>
    /\ UNCHANGED <<pimpl_, codec_context, next_pts_ms>>

\* getCodecInfo reads the context it may not have.
GetCodecInfo ==
    /\ Callable
    /\ ~codec_context
    /\ result' = "undefined"
    /\ UNCHANGED <<held, draining, pimpl_, call, frames, taken, returned, harm, videoVars>>

-----------------------------------------------------------------------------
\* releaseReadyFrames

\* Deviation: a frame without a duration does not advance the clock.
Step_Zero(duration) == duration

Step(duration) == IF duration > 1 THEN duration ELSE 1

\* A frame is packed with the next time and the loop goes on.
ReleaseFrame(picture, duration) ==
    /\ call \in {"decode", "flush"}
    /\ Receive(picture)
    /\ taken[picture].kind = "good"
    /\ frames' = Append(frames, [picture |-> picture, pts |-> next_pts_ms])
    /\ next_pts_ms' = next_pts_ms + Step(duration)
    /\ UNCHANGED <<pimpl_, call, result, returned, harm, codec_context, end_of_stream>>

\* extractDecodedFrame throws, before the time is advanced.
RefuseFrame(picture) ==
    /\ call \in {"decode", "flush"}
    /\ Receive(picture)
    /\ Unpresentable(picture)
    /\ Throw("DecoderException")
    /\ harm' = "thrown"
    /\ UNCHANGED <<pimpl_, videoVars>>

\* Deviation: the frames collected before the damaged picture are dropped.
StopAtDamaged_Throw(picture) ==
    /\ call \in {"decode", "flush"}
    /\ Receive(picture)
    /\ Damaged(picture)
    /\ Throw("DecoderException")
    /\ harm' = IF harm = "none" THEN "damaged" ELSE harm
    /\ UNCHANGED <<pimpl_, videoVars>>

\* A damaged picture ends the loop, whatever the codec may still have.
StopAtDamaged(picture) ==
    /\ call \in {"decode", "flush"}
    /\ Receive(picture)
    /\ Damaged(picture)
    /\ Return(<<>>)
    /\ harm' = IF harm = "none" THEN "damaged" ELSE harm
    /\ UNCHANGED <<pimpl_, videoVars>>

\* Deviation: at most one frame is taken for a packet.
NoFrameLeft_One ==
    /\ call \in {"decode", "flush"}
    /\ ~Ready \/ frames # <<>>
    /\ Return(<<>>)
    /\ UNCHANGED <<held, draining, pimpl_, taken, harm, videoVars>>

\* EAGAIN or EOF: the codec has nothing to hand out.
NoFrameLeft ==
    /\ call \in {"decode", "flush"}
    /\ ~Ready
    /\ Return(<<>>)
    /\ UNCHANGED <<held, draining, pimpl_, taken, harm, videoVars>>

\* avcodec_receive_frame fails in another way.
ReceiveFails ==
    /\ call \in {"decode", "flush"}
    /\ Throw("DecoderException")
    /\ harm' = "thrown"
    /\ UNCHANGED <<held, draining, pimpl_, taken, videoVars>>

VideoNext ==
    \/ \E packet \in Packets : DecodeRejected(packet) \/ Decode(packet)
    \/ Flush
    \/ GetCodecInfo
    \/ \E picture \in DOMAIN taken :
          \/ \E duration \in Durations : ReleaseFrame(picture, duration)
          \/ RefuseFrame(picture)
          \/ StopAtDamaged(picture)
    \/ NoFrameLeft
    \/ ReceiveFails
    \/ (MovedFrom \/ Move) /\ UNCHANGED videoVars
===============================================================================
