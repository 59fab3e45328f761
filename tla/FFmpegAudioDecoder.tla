------------------------- MODULE FFmpegAudioDecoder --------------------------
(***************************************************************************)
(* iptv::decoder::FFmpegAudioDecoder: the codec is opened by the            *)
(* constructor, the resampler at the first frame.  The packet object lives  *)
(* as long as the decoder and keeps the time it was given last.             *)
(***************************************************************************)
EXTENDS Decoder

VARIABLES
    packet_pts,    \* impl.packet->pts
    swr_ctx        \* the resampler: "none", "empty" or "holding" samples

audioVars == <<packet_pts, swr_ctx>>

AudioTypeOK ==
    /\ packet_pts \in Nat \cup {NoPts}
    /\ swr_ctx \in {"none", "empty", "holding"}

AudioInit == packet_pts = NoPts /\ swr_ctx = "none"

\* decode up to the packet being sent.  A packet without bytes is the end of the stream to
\* libavcodec, or an error if it has an address, and what libavcodec says to a packet after the
\* end is not looked at.
AudioDecode(packet) ==
    /\ Callable
    /\ Len(taken) + Len(packet.pictures) <= MaxPictures
    /\ packet_pts' = IF packet.pts = NotGiven THEN packet_pts ELSE packet.pts
    /\ \E status \in {"OK", "INVALIDDATA", "error", "EAGAIN", "EOF"} :
          /\ \/ packet.size = "empty" /\ SendEnd(status)
             \/ /\ packet.size = "empty" => status \in {"error", "EOF"}
                /\ SendPacket(packet.pictures, packet_pts', status)
          /\ \/ /\ status \in {"OK", "EOF"}
                /\ call' = "decode"
                /\ UNCHANGED <<frames, result, returned>>
             \/ status \notin {"OK", "EOF"} /\ Throw("DecoderException")
    /\ harm' = IF call' = "none" /\ draining' # draining THEN "thrown" ELSE harm
    /\ UNCHANGED <<pimpl_, swr_ctx>>

AudioFlush ==
    /\ Callable
    /\ \E status \in {"OK", "error", "EOF"} : SendEnd(status)
    /\ call' = "flush"
    /\ UNCHANGED <<pimpl_, frames, result, returned, harm, audioVars>>

-----------------------------------------------------------------------------
\* drainFrames

\* A frame: the resampler is set up if there is none, which may fail, and converts it, which
\* may fail as well.  The frame carries the time that the codec got with the packet.
DrainFrame(picture) ==
    /\ call \in {"decode", "flush"}
    /\ Receive(picture)
    /\ \/ /\ taken[picture].kind = "good"
          /\ swr_ctx' \in {"empty", "holding"}
          /\ frames' = Append(frames, [picture |-> picture, pts |-> taken[picture].pts])
          /\ UNCHANGED <<call, result, returned, harm>>
       \/ /\ Unpresentable(picture) /\ swr_ctx' \in {"empty", "holding"}
          /\ Throw("DecoderException") /\ harm' = "thrown"
       \/ /\ ~Damaged(picture) /\ swr_ctx = "none" /\ UNCHANGED swr_ctx
          /\ Throw("DecoderException") /\ harm' = "thrown"
    /\ UNCHANGED <<pimpl_, packet_pts>>

\* avcodec_receive_frame reports a damaged block, or fails in another way.
DrainFails ==
    /\ call \in {"decode", "flush"}
    /\ \/ \E picture \in DOMAIN taken : Receive(picture) /\ Damaged(picture)
       \/ UNCHANGED <<held, draining, taken>>
    /\ Throw("DecoderException")
    /\ harm' = "thrown"
    /\ UNCHANGED <<pimpl_, audioVars>>

\* The codec has nothing left.  flush adds what the resampler may still hold.
Drained ==
    /\ call \in {"decode", "flush"}
    /\ ~Ready
    /\ \/ /\ call = "flush" /\ swr_ctx = "holding"
          /\ Return(<<[picture |-> 0, pts |-> NoPts]>>)
          /\ swr_ctx' = "empty"
       \/ /\ call = "decode" \/ swr_ctx # "holding"
          /\ Return(<<>>)
          /\ UNCHANGED swr_ctx
    /\ UNCHANGED <<held, draining, pimpl_, taken, harm, packet_pts>>

AudioNext ==
    \/ \E packet \in Packets : AudioDecode(packet)
    \/ AudioFlush
    \/ \E picture \in DOMAIN taken : DrainFrame(picture)
    \/ DrainFails
    \/ Drained
    \/ (MovedFrom \/ Move) /\ UNCHANGED audioVars
===============================================================================
