------------------------------- MODULE Decoder -------------------------------
(***************************************************************************)
(* What FFmpegDecoder and FFmpegAudioDecoder have in common: the operations *)
(* of IVideoDecoder and IAudioDecoder, which collect frames in a local      *)
(* vector and return or throw, and the codec context of libavcodec that     *)
(* they drive with avcodec_send_packet and avcodec_receive_frame.           *)
(*                                                                          *)
(* The codec is external.  It takes the pictures (or blocks of samples) of  *)
(* a packet, holds back up to Delay of them to put them in output order,    *)
(* and has a status for what it refuses.  A picture is known by its place   *)
(* in taken, which is in output order.                                      *)
(***************************************************************************)
EXTENDS Integers, Sequences

CONSTANTS
    Packets,       \* packets a client may hand over: contents and pts
    Delay,         \* pictures the codec holds back until it has seen more
    MaxPictures,   \* bound: pictures handed to the codec
    NoPts          \* AV_NOPTS_VALUE

\* A damaged picture is refused when it is decoded.  One that is not presentable is decoded
\* and refused by the decoder: a pixel format that is not YUV420P, samples that do not convert.
Kinds == {"good", "damaged", "unpresentable"}

\* The default argument of decode: the caller gives no time, not even AV_NOPTS_VALUE.
NotGiven == -1

ASSUME PacketsAssumption ==
    \A packet \in Packets :
        /\ packet.pictures \in Seq(Kinds)
        /\ packet.pts \in Nat \cup {NoPts, NotGiven}
        /\ packet.size \in {"empty", "usual", "oversized"}
        /\ packet.size = "empty" => packet.pictures = <<>>
ASSUME DecoderAssumption == Delay \in Nat /\ MaxPictures \in Nat /\ NoPts \notin Nat

VARIABLES
    held,          \* the codec: pictures it has not handed out
    draining,      \* the codec: the end of the stream has been signalled
    pimpl_,        \* whether the object owns an implementation, or was moved from
    call,          \* "none", or the operation that is receiving frames
    frames,        \* the local vector of that operation
    result,        \* how the last operation ended
    taken,         \* ghost: the pictures the codec took, with their times
    returned,      \* ghost: the frames the client has got
    harm           \* ghost: whether an operation has stopped before the codec was empty, at
                   \* a damaged picture or with an exception ("none", "damaged", "thrown")

decoderVars == <<held, draining, pimpl_, call, frames, result, taken, returned, harm>>

Results == {"frames", "DecoderException", "logic_error", "undefined"}

\* What the codec is given and what a client gets; samples that the resampler had kept are
\* of no picture, which is 0.
Picture == [kind : Kinds, pts : Nat \cup {NoPts}]
DecodedFrame == [picture : Nat, pts : Nat \cup {NoPts}]

DecoderInit ==
    /\ held = <<>> /\ draining = FALSE
    /\ pimpl_ = TRUE
    /\ call = "none" /\ frames = <<>> /\ result = "frames"
    /\ taken = <<>> /\ returned = <<>> /\ harm = "none"

-----------------------------------------------------------------------------
\* libavcodec

\* There is a frame to hand out.
Ready == held # <<>> /\ (draining \/ Len(held) > Delay)

\* avcodec_send_packet with the pictures of a packet, at the times given.
SendPacket(pictures, pts, status) ==
    \/ /\ status = "OK" /\ ~draining
       /\ taken' = taken \o [i \in DOMAIN pictures |-> [kind |-> pictures[i], pts |-> pts]]
       /\ held' = held \o [i \in DOMAIN pictures |-> Len(taken) + i]
       /\ UNCHANGED draining
    \/ status \in {"INVALIDDATA", "error"} /\ ~draining /\ UNCHANGED <<held, draining, taken>>
    \/ status = "EAGAIN" /\ ~draining /\ Ready /\ UNCHANGED <<held, draining, taken>>
    \/ status = "EOF" /\ draining /\ UNCHANGED <<held, draining, taken>>

\* avcodec_send_packet with no data: the end of the stream.  It is taken also where what the
\* codec does at once about it fails.
SendEnd(status) ==
    /\ IF draining THEN status = "EOF" ELSE status \in {"OK", "error"}
    /\ draining' = TRUE
    /\ UNCHANGED <<held, taken>>

\* avcodec_receive_frame when it has a frame, or a picture it cannot decode.
Receive(picture) ==
    /\ Ready
    /\ picture = Head(held)
    /\ held' = Tail(held)
    /\ UNCHANGED <<draining, taken>>

Damaged(picture) == taken[picture].kind = "damaged"
Unpresentable(picture) == taken[picture].kind = "unpresentable"

-----------------------------------------------------------------------------
\* The end of an operation

\* The frames collected so far, and those of more, are returned.
Return(more) ==
    /\ call' = "none" /\ result' = "frames"
    /\ returned' = returned \o frames \o more
    /\ frames' = <<>>

\* Deviation: the frames stay for the next operation.
Throw_KeepFrames(exception) ==
    /\ call' = "none" /\ result' = exception
    /\ UNCHANGED <<frames, returned>>

\* An exception: the vector goes out of scope.
Throw(exception) ==
    /\ call' = "none" /\ result' = exception
    /\ frames' = <<>>
    /\ UNCHANGED returned

\* requireImpl on a moved-from object.
MovedFrom ==
    /\ call = "none" /\ ~pimpl_
    /\ Throw("logic_error")
    /\ UNCHANGED <<held, draining, pimpl_, taken, harm>>

\* Move construction or assignment away from the object, and back to it.
Move ==
    /\ call = "none" /\ result # "undefined"
    /\ pimpl_' = ~pimpl_
    /\ UNCHANGED <<held, draining, call, frames, result, taken, returned, harm>>

\* An operation may begin.
Callable == call = "none" /\ pimpl_ /\ result # "undefined"

-----------------------------------------------------------------------------
DecoderTypeOK ==
    /\ held \in Seq(Nat) /\ \A i \in DOMAIN held : held[i] \in 1 .. Len(taken)
    /\ draining \in BOOLEAN /\ pimpl_ \in BOOLEAN
    /\ harm \in {"none", "damaged", "thrown"}
    /\ call \in {"none", "decode", "flush"}
    /\ frames \in Seq(DecodedFrame)
    /\ \A i \in DOMAIN frames : frames[i].picture \in 1 .. Len(taken)
    /\ call = "none" => frames = <<>>
    /\ result \in Results
    /\ taken \in Seq(Picture) /\ Len(taken) <= MaxPictures
    /\ returned \in Seq(DecodedFrame)
    /\ \A i \in DOMAIN returned : returned[i].picture \in 0 .. Len(taken)

\* Nothing is left behind in the codec and nothing is dropped on the way: as long as no picture
\* was unusable, every operation that ends has handed over every frame the codec had ready, so
\* that the codec takes the next packet, and after the end of the stream nothing is missing.
\* Packets that were refused do not change that.
NothingLost ==
    call = "none" /\ harm = "none" =>
        /\ ~Ready
        /\ {returned[i].picture : i \in DOMAIN returned} \ {0} = 1 .. Len(taken) - Len(held)
===============================================================================
