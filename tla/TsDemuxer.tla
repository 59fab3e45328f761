------------------------------- MODULE TsDemuxer -------------------------------
(***************************************************************************)
(* iptv::demux::TsDemuxer::demux(): the packets of an MPEG-TS segment in   *)
(* memory, read by libavformat through an AVIO context.                    *)
(*                                                                         *)
(* The objects of libavformat and libavcodec are allocated one after the   *)
(* other and owned by unique_ptrs; each allocation and each call into      *)
(* libavformat may fail, and the destructors then run in reverse order.    *)
(* live has the objects of the call that exist on the heap, owned the      *)
(* unique_ptrs that are not null, in the order of their construction.  Two *)
(* kinds of objects have no owner: the buffer of the AVIO context, and the *)
(* PID filters that the MPEG-TS demuxer of libavformat makes for itself    *)
(* when the input is opened.                                               *)
(***************************************************************************)
EXTENDS Integers, Sequences

CONSTANTS
    Inputs,        \* segments: their streams, and their packets [stream, time]
    TimeBase,      \* units per second of the times in a segment
    NoTime         \* AV_NOPTS_VALUE

\* The fields of a packet that are modelled.
DemuxedPacket == [stream : Nat, time : Nat \cup {NoTime}]

ASSUME InputsAssumption ==
    \A segment \in Inputs :
        /\ segment.streams \in Seq({"video", "audio", "other"})
        /\ segment.packets \in Seq(DemuxedPacket)

\* Microseconds in a second.
Micro == 1000000

\* No unit is shorter than a microsecond: those of MPEG-TS are 1/90000 s.
ASSUME TimeBaseAssumption == TimeBase \in 1 .. Micro /\ NoTime \notin Nat

VARIABLES
    at,                   \* where demux() is, "idle" outside
    input,                \* ts_data, seen as libavformat sees it
    live, owned,
    video_stream_index,   \* the out-parameters, counted from 1; -1 is none
    audio_stream_index,
    packets,
    outcome               \* how the call ends: "packets" or "exception", once it is decided

demuxerVars == <<at, input, live, owned, video_stream_index, audio_stream_index, packets, outcome>>
outVars == <<input, video_stream_index, audio_stream_index>>

Objects == {"buffer", "avio", "format", "filters", "packet"}

\* What no unique_ptr owns.
Unowned == {"buffer", "filters"}

\* In the order of the code; "leave" is the end of the scope.
Statements == {"buffer", "avio", "format", "open", "info", "streams", "packet", "read", "leave"}

DemuxerTypeOK ==
    /\ at \in Statements \cup {"idle"}
    /\ input \in Inputs
    /\ live \subseteq Objects
    /\ owned \in Seq(Objects)
    /\ {video_stream_index, audio_stream_index} \subseteq {-1} \cup DOMAIN input.streams
    /\ packets \in Seq(DemuxedPacket)
    /\ outcome \in {"none", "packets", "exception"}

DemuxerInit ==
    /\ at = "idle"
    /\ input \in Inputs
    /\ live = {} /\ owned = <<>>
    /\ video_stream_index = -1 /\ audio_stream_index = -1
    /\ packets = <<>>
    /\ outcome = "none"

\* Deviation: the out-parameters keep what the segment before left there.
Demux_KeepIndices(segment) ==
    /\ at = "idle"
    /\ at' = "buffer"
    /\ input' = segment
    /\ live' = {} /\ packets' = <<>> /\ outcome' = "none"
    /\ UNCHANGED <<owned, video_stream_index, audio_stream_index>>

\* The call, with both out-parameters.
Demux(segment) ==
    /\ at = "idle"
    /\ at' = "buffer"
    /\ input' = segment
    /\ live' = {} /\ packets' = <<>> /\ outcome' = "none"
    /\ video_stream_index' = -1 /\ audio_stream_index' = -1
    /\ UNCHANGED owned

\* A statement succeeds and the next one follows, or an exception leaves the scope.
Goes(from, to) == at = from /\ at' = to /\ UNCHANGED <<outVars, outcome>>
Throws(from) == at = from /\ at' = "leave" /\ outcome' = "exception" /\ UNCHANGED <<outVars, packets>>

\* A unique_ptr takes a new object.
Acquire(object) == live' = live \cup {object} /\ owned' = Append(owned, object)

AllocBuffer ==
    \/ Goes("buffer", "avio") /\ live' = {"buffer"} /\ UNCHANGED <<owned, packets>>
    \/ Throws("buffer") /\ UNCHANGED <<live, owned>>

\* The buffer is freed by hand if there is no context to take it.
AllocAvio ==
    \/ Goes("avio", "format") /\ Acquire("avio") /\ UNCHANGED packets
    \/ Throws("avio") /\ live' = live \ {"buffer"} /\ UNCHANGED owned

AllocFormat ==
    \/ Goes("format", "open") /\ Acquire("format") /\ UNCHANGED packets
    \/ Throws("format") /\ UNCHANGED <<live, owned>>

\* Deviation: the unique_ptr keeps the pointer over the call.
OpenInput_KeepPointer ==
    \/ Goes("open", "info") /\ live' = live \cup {"filters"} /\ UNCHANGED <<owned, packets>>
    \/ Throws("open") /\ live' = live \ {"format"} /\ UNCHANGED owned

\* avformat_open_input makes the filters, or frees the context it was given when it fails, and
\* nulls the pointer that the unique_ptr takes back, the one that was constructed last.
OpenInput ==
    \/ Goes("open", "info") /\ live' = live \cup {"filters"} /\ UNCHANGED <<owned, packets>>
    \/ /\ Throws("open")
       /\ live' = live \ {"format"}
       /\ owned' = SubSeq(owned, 1, Len(owned) - 1)

FindStreamInfo ==
    \/ Goes("info", "streams") /\ UNCHANGED <<live, owned, packets>>
    \/ Throws("info") /\ UNCHANGED <<live, owned>>

\* The last stream of a kind, or -1.
LastOf(streams, kind) ==
    LET found == {i \in DOMAIN streams : streams[i] = kind}
    IN  IF found = {} THEN -1 ELSE CHOOSE i \in found : \A j \in found : j <= i

\* The loop over the streams; a stream that is not there leaves its index alone.
FindStreams ==
    /\ at = "streams" /\ at' = "packet"
    /\ LET video == LastOf(input.streams, "video")
           audio == LastOf(input.streams, "audio")
       IN  /\ video_stream_index' = IF video = -1 THEN video_stream_index ELSE video
           /\ audio_stream_index' = IF audio = -1 THEN audio_stream_index ELSE audio
    /\ UNCHANGED <<input, live, owned, packets, outcome>>

AllocPacket ==
    \/ Goes("packet", "read") /\ Acquire("packet") /\ UNCHANGED packets
    \/ Throws("packet") /\ UNCHANGED <<live, owned>>

\* av_rescale_q to microseconds: to the nearest.
Microseconds(time) == (2 * Micro * time + TimeBase) \div (2 * TimeBase)

\* Deviation: a time that is missing is converted like the others.
Converted_Always(time) == IF time = NoTime THEN 0 ELSE Microseconds(time)

\* A missing time stays missing.
Converted(time) == IF time = NoTime THEN NoTime ELSE Microseconds(time)

\* av_read_frame brings the next packet, possibly of a stream that was not there before.
ReadFrame ==
    /\ Goes("read", "read")
    /\ Len(packets) < Len(input.packets)
    /\ LET packet == input.packets[Len(packets) + 1] IN
          packets' = Append(packets, [packet EXCEPT !.time = Converted(@)])
    /\ UNCHANGED <<live, owned>>

\* It brings none: the end of the segment, or damage that ends it early.  Return.
ReadEnds ==
    /\ at = "read" /\ at' = "leave"
    /\ outcome' = "packets"
    /\ UNCHANGED <<outVars, live, owned, packets>>

\* The destructor of the unique_ptr that was declared last.  avio_context_free leaves the
\* buffer that the context was given; avformat_free_context leaves the filters of an input that
\* was opened, for it does not close the demuxer as avformat_close_input does.
Release ==
    /\ at = "leave" /\ owned # <<>>
    /\ live' = live \ {owned[Len(owned)]}
    /\ owned' = SubSeq(owned, 1, Len(owned) - 1)
    /\ UNCHANGED <<at, outVars, packets, outcome>>

Leave ==
    /\ at = "leave" /\ owned = <<>>
    /\ at' = "idle"
    /\ packets' = IF outcome = "packets" THEN packets ELSE <<>>
    /\ UNCHANGED <<outVars, live, owned, outcome>>

DemuxerNext ==
    \/ \E segment \in Inputs : Demux(segment)
    \/ AllocBuffer \/ AllocAvio \/ AllocFormat \/ OpenInput \/ FindStreamInfo \/ FindStreams
    \/ AllocPacket \/ ReadFrame \/ ReadEnds
    \/ Release \/ Leave

-----------------------------------------------------------------------------
\* On each of the ways out what a unique_ptr owns is released, once, and after whatever refers
\* to it: no unique_ptr owns what libavformat has freed, the format context goes before its AVIO
\* context, and neither outlives the buffer.  What nobody owns leaks: the buffer and the filters
\* with every call that returns packets, at most these with one that throws.
ReleasesWhatItOwns ==
    /\ \A i \in DOMAIN owned : owned[i] \in live
    /\ "format" \in live => "avio" \in live
    /\ {"avio", "filters"} \cap live # {} => "buffer" \in live
    /\ at = "idle" => live \subseteq Unowned
    /\ at = "idle" /\ outcome = "packets" => live = Unowned

\* What the caller finds in the out-parameters is of this segment, never of one before, also
\* when the call ended early: both streams when packets are returned, none or the right one
\* when an exception was thrown.
IndicesOfThisCall ==
    /\ video_stream_index \in {-1, LastOf(input.streams, "video")}
    /\ audio_stream_index \in {-1, LastOf(input.streams, "audio")}
    /\ outcome = "packets" =>
          /\ video_stream_index = LastOf(input.streams, "video")
          /\ audio_stream_index = LastOf(input.streams, "audio")

\* The packets are those of the segment, in order and from its beginning, and converting the
\* times of a segment neither invents one nor makes two of them equal or exchanges them.
PacketsAsRead ==
    /\ Len(packets) <= Len(input.packets)
    /\ \A i \in DOMAIN packets :
          /\ packets[i].stream = input.packets[i].stream
          /\ packets[i].time = NoTime <=> input.packets[i].time = NoTime
          /\ \A j \in DOMAIN packets :
                NoTime \notin {input.packets[i].time, input.packets[j].time} =>
                   (packets[i].time < packets[j].time
                       <=> input.packets[i].time < input.packets[j].time)

\* What demux() gives its caller, indices and packets, is of the segment of this call.
ReturnsThisSegment == IndicesOfThisCall /\ PacketsAsRead
=============================================================================
