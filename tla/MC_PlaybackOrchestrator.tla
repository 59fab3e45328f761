----------------------- MODULE MC_PlaybackOrchestrator -----------------------
(***************************************************************************)
(* Instances of PlaybackOrchestrator for TLC.  Throughput 2 carries the    *)
(* low variant only, 20 both; five sequence numbers are enough for a jump  *)
(* on the first measurement, an upgrade after three and a downgrade.       *)
(***************************************************************************)
EXTENDS PlaybackOrchestrator

Variant(uri, bandwidth) == [uri |-> uri, bandwidth |-> bandwidth]
Master(text, variants) == [type |-> "Master", url |-> text, variants |-> variants]

\* A channel with two variants, in a directory below its own and on the same host with a slash
\* in its query; a channel at a mere host; a media playlist.
MCStream ==
    [two   |-> Master(<<"https:", "", "tv", "live", "master.m3u8?id=1">>,
                      <<Variant(<<"low", "list.m3u8">>, 1),
                        Variant(<<"", "hd", "list.m3u8?acl=", "live">>, 6)>>),
     host  |-> Master(<<"http:", "", "tv">>, <<Variant(<<"list.m3u8">>, 6)>>),
     media |-> [type |-> "Media", url |-> <<"http:", "", "tv", "list.m3u8">>, variants |-> <<>>]]

MCQueries == {"master.m3u8?id=1", "list.m3u8?acl="}
MCColons == {"http:", "https:", "ftp:"}
MCSchemed == {"http:", "https:", "ftp:"}
MCShort == {""}

\* Segments next to their playlist, elsewhere on the host, on another host by a scheme that the
\* resolver does not know, by one it knows, and by the scheme of the playlist.
MCSegmentUri ==
    [n \in 0 .. 7 |->
        CASE n = 0 -> <<"part", "0.ts">>
          [] n = 1 -> <<"", "cdn", "1.ts">>
          [] n = 2 -> <<"ftp:", "", "cdn", "2.ts">>
          [] n = 3 -> <<"https:", "", "cdn", "3.ts">>
          [] n = 4 -> <<"", "", "cdn", "4.ts">>
          [] OTHER -> <<"next.ts">>]

\* A live window that has nothing yet, that fills, that moves on and leaves a gap, that numbers
\* its segments anew half-way (a late MEDIA-SEQUENCE tag), and the closed list.
MCPlaylists == {[segments |-> <<>>, endlist |-> FALSE],
                [segments |-> <<0, 1>>, endlist |-> FALSE],
                [segments |-> <<1, 2>>, endlist |-> FALSE],
                [segments |-> <<3, 1, 4>>, endlist |-> FALSE],
                [segments |-> <<0, 1, 2, 3>>, endlist |-> TRUE]}

\* Video on demand: every load of the playlist brings the whole of it.
MCVod == {[segments |-> <<0, 1, 2>>, endlist |-> TRUE]}

MCThroughputs == {2, 20}
=============================================================================
