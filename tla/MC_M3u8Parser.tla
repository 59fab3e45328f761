---------------------------- MODULE MC_M3u8Parser ----------------------------
(***************************************************************************)
(* Instance of M3u8Parser for TLC.  Five lines hold two variants or two    *)
(* segments with all their tags, in any order and with any of them         *)
(* missing or repeated; 7 is the last number, so the second segment wraps. *)
(***************************************************************************)
EXTENDS M3u8Parser

Line(tag, value) == [tag |-> tag, value |-> value]
Pair(key, value) == [key |-> key, value |-> value]

MCLines ==
    {Line("EXTINF", 4), Line("EXTINF", 6), Line("EXTINF", Malformed),
     Line("MEDIA-SEQUENCE", 7), Line("MEDIA-SEQUENCE", Malformed),
     Line("TARGETDURATION", 6), Line("ENDLIST", 0),
     Line("DISCONTINUITY", 0), Line("DISCONTINUITY-SEQUENCE", 3), Line("OTHER", 0),
     Line("STREAM-INF", <<Pair("BANDWIDTH", 5), Pair("CODECS", 1)>>),
     Line("STREAM-INF", <<Pair("BANDWIDTH", Malformed), Pair("RESOLUTION", 2),
                          Pair("BANDWIDTH", 3)>>),
     Line("URI", "a"), Line("URI", "b")}
=============================================================================
