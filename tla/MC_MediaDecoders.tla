-------------------------- MODULE MC_MediaDecoders ---------------------------
(***************************************************************************)
(* Instance of MediaDecoders for TLC: a codec that holds two pictures      *)
(* back, so that a flush finds a damaged one with a good one behind it;    *)
(* packets of every kind, with a time, with AV_NOPTS_VALUE and with none;  *)
(* segments with both streams, one of them twice, one of them, or none.    *)
(***************************************************************************)
EXTENDS MediaDecoders

Packet(size, pictures, pts) == [size |-> size, pictures |-> pictures, pts |-> pts]

MCPackets ==
    {Packet("empty", <<>>, NoPts), Packet("oversized", <<>>, NoPts),
     Packet("usual", <<>>, NotGiven), Packet("usual", <<"good">>, 1),
     Packet("usual", <<"good", "good">>, 2), Packet("usual", <<"good", "damaged">>, 3),
     Packet("usual", <<"unpresentable">>, NoPts)}

Read(stream, time) == [stream |-> stream, time |-> time]

\* Times are in 1/90000 s: neighbours lie 11 microseconds apart.  The third segment brings a
\* packet of a stream that shows up late.
MCInputs ==
    {[streams |-> <<"video", "audio">>,
      packets |-> <<Read(1, 3), Read(2, 1), Read(1, 2), Read(2, NoTime)>>],
     [streams |-> <<"audio", "video", "other", "video">>, packets |-> <<Read(2, 7), Read(4, 7)>>],
     [streams |-> <<"audio">>, packets |-> <<Read(1, 1), Read(2, 0)>>],
     [streams |-> <<>>, packets |-> <<>>]}
=============================================================================
