------------------------- MODULE PlaybackOrchestrator -------------------------
(***************************************************************************)
(* iptv::player::PlaybackOrchestrator: start() and stop() called by the    *)
(* owner, the download thread they spawn and join, the AbrManager and the  *)
(* segment queue that the download thread shares with the demuxer thread.  *)
(*                                                                         *)
(* The download thread is cut where another thread can see or change       *)
(* something: at each look at its stop token, each transfer, the push and  *)
(* the ABR evaluation, which may empty the queue.  The queue is the fifo   *)
(* that ConcurrentQueue is proved to implement.  The network may answer    *)
(* any playlist of MediaPlaylists at each reload, fail at any transfer     *)
(* (MayFail) and complete a segment although a stop was requested while it *)
(* was in flight.                                                          *)
(***************************************************************************)
EXTENDS AbrManager

CONSTANTS
    Urls,             \* what start() may be called with
    Stream,           \* the text of each url, and the playlist behind it: type, variants
    MediaPlaylists,   \* media playlists a variant may have: sequence numbers, end
    SegmentUri,       \* the uri by which a media playlist names the segment of a number
    Queries, Colons, Short, Schemed,   \* pieces of texts: see UrlResolver
    Throughputs,      \* throughputs that segment transfers measure
    MayFail,          \* whether transfers may fail
    SeqMod,           \* 2^64: sequence numbers are uint64_t
    MaxStarts,        \* bound: calls of start() in a behaviour
    None


VARIABLES
    segment_queue_,           \* segments [session, uri, seq, address], oldest first: where
                              \* they were named and where they were fetched from
    wpc,                      \* where the download thread is
    stop_,                    \* stop_requested() of its token
    url,                      \* master_url, with master_playlist behind it
    ctx,                      \* the rest of PlaybackContext
    playlist,                 \* variant_playlist
    cursor,                   \* the segment of playlist the loop is at
    call,                     \* start(url) or stop() in progress, or None
    hand,                     \* what the demuxer thread has popped: <<>> or <<segment>>
    session                   \* ghost: calls of start() so far

loopVars == <<url, ctx, playlist, cursor>>
apiVars == <<stop_, call, session>>
vars == <<segment_queue_, abrVars, wpc, loopVars, apiVars, hand>>

Url == INSTANCE UrlResolver

SeqNumbers == 0 .. SeqMod - 1

\* Urls and references that are not empty, in pieces.
Texts == {text \in Seq(STRING) : Len(text) > 1 \/ (Len(text) = 1 /\ text[1] # Url!Nothing)}

\* Deviation: segments are looked for next to the master playlist.
SegmentAddress_OfMaster(u, uri, seq) == Url!ResolveUrl(Stream[u].url, SegmentUri[seq])

\* The address that a segment of the media playlist at uri is fetched from.
SegmentAddress(u, uri, seq) == Url!ResolveUrl(uri, SegmentUri[seq])

VariantStreams == [uri : Texts, bandwidth : Nat]

ASSUME PiecesAssumption ==
    {"http:", "https:"} \subseteq Schemed \cap Colons /\ Url!Nothing \notin Schemed
ASSUME StreamAssumption ==
    \A u \in Urls : /\ Stream[u].type \in {"Master", "Media"}
                    /\ Stream[u].url \in Texts
                    /\ Stream[u].variants \in Seq(VariantStreams)
ASSUME PlaylistsAssumption ==
    /\ MediaPlaylists \subseteq [segments : Seq(SeqNumbers), endlist : BOOLEAN]
    /\ SegmentUri \in [SeqNumbers -> Texts]
ASSUME NumbersAssumption ==
    Throughputs \subseteq Nat /\ SeqMod \in Nat \ {0} /\ MaxStarts \in Nat
ASSUME NamesAssumption ==
    None \notin Urls \cup {"stop"} /\ None \notin MediaPlaylists /\ "stop" \notin Urls

Contexts == [uri : Texts \cup {<<>>}, next : SeqNumbers, throughput : Throughputs \cup {0}]

Segments == [session : 1 .. MaxStarts, uri : Texts, seq : SeqNumbers, address : Texts]

\* Inside processVariantLoop.
InLoop == {"loop", "playlist", "segments", "transfer", "abr"}

\* No thread to join; fetching the master playlist; testing the loop condition; fetching
\* the variant's playlist; at a segment of it; transferring it; choosing the variant;
\* returned from downloadLoop.
WorkerPlaces == {"none", "master", "done"} \cup InLoop

\* Types of the state: in particular the loop over the segments stays in the playlist.
TypeOK ==
    /\ segment_queue_ \in Seq(Segments)
    /\ AbrTypeOK
    /\ wpc \in WorkerPlaces
    /\ stop_ \in BOOLEAN
    /\ url \in Urls \cup {None}
    /\ ctx \in Contexts
    /\ playlist \in MediaPlaylists \cup {None}
    /\ wpc \in {"segments", "transfer", "abr"} =>
          playlist # None /\ cursor \in 1 .. Len(playlist.segments) + 1
    /\ call \in Urls \cup {"stop", None}
    /\ hand \in Seq(Segments) /\ Len(hand) <= 1
    /\ session \in 0 .. MaxStarts

NoContext == [uri |-> <<>>, next |-> 0, throughput |-> 0]

Init ==
    /\ segment_queue_ = <<>>
    /\ AbrInit
    /\ wpc = "none"
    /\ stop_ = FALSE
    /\ url = None /\ ctx = NoContext
    /\ playlist = None /\ cursor = 1
    /\ call = None
    /\ hand = <<>>
    /\ session = 0

-----------------------------------------------------------------------------
\* The owner's thread

\* Deviation: the queue is left as it is.
ClearQueue_Forgotten == UNCHANGED segment_queue_

\* segment_queue_.clear()
ClearQueue == segment_queue_' = <<>>

\* start(url), stop() or the destructor is called: stop() asks a thread it can join to
\* stop, and joins it.
Call(what) ==
    /\ call = None
    /\ what # "stop" => session < MaxStarts
    /\ call' = what
    /\ stop_' = (wpc # "none")
    /\ UNCHANGED <<segment_queue_, abrVars, wpc, loopVars, session, hand>>

\* The join returns; stop() clears the queue and start() spawns the next thread, with a
\* token of its own.
Return ==
    /\ call # None
    /\ wpc \in {"none", "done"}
    /\ ClearQueue
    /\ call' = None
    /\ stop_' = FALSE
    /\ ctx' = NoContext
    /\ IF call = "stop"
       THEN wpc' = "none" /\ UNCHANGED <<url, session>>
       ELSE wpc' = "master" /\ url' = call /\ session' = session + 1
    /\ UNCHANGED <<abrVars, playlist, cursor, hand>>

-----------------------------------------------------------------------------
\* The download thread

Bandwidths(u) == [i \in DOMAIN Stream[u].variants |-> Stream[u].variants[i].bandwidth]

\* The uri of the variant that selectVariant returns for an index, resolved.
VariantUri(index) == Url!ResolveUrl(Stream[url].url, Stream[url].variants[index + 1].uri)

\* downloadLoop up to processVariantLoop: the master playlist, and the first variant from
\* a selectVariant() that is given the throughput 0.  No look at the token.
FetchMaster ==
    /\ wpc = "master"
    /\ \/ /\ MayFail \/ Stream[url].type # "Master" \/ Stream[url].variants = <<>>
          /\ wpc' = "done"
          /\ UNCHANGED <<abrVars, ctx>>
       \/ /\ Stream[url].type = "Master"
          /\ SelectVariant(Bandwidths(url), 0)
          /\ ctx' = [NoContext EXCEPT !.uri = VariantUri(current_variant_index_')]
          /\ wpc' = "loop"
    /\ UNCHANGED <<segment_queue_, url, playlist, cursor, apiVars, hand>>

\* Deviation: the loop runs whatever its token says.
LoopTest_NoStop ==
    /\ wpc = "loop" /\ wpc' = "playlist"
    /\ UNCHANGED <<segment_queue_, abrVars, loopVars, apiVars, hand>>

\* while (!stop_token.stop_requested())
LoopTest ==
    /\ wpc = "loop"
    /\ wpc' = IF stop_ THEN "done" ELSE "playlist"
    /\ UNCHANGED <<segment_queue_, abrVars, loopVars, apiVars, hand>>

\* Deviation: the position in the playlist is kept over the reload.
Downloaded_KeepCursor(p) == playlist' = p /\ UNCHANGED cursor

\* downloadSegments() begins at the first segment of the playlist it is given.
Downloaded(p) == playlist' = p /\ cursor' = 1

\* downloadPlaylist(ctx.current_variant_uri), which no token cancels.
FetchPlaylist ==
    /\ wpc = "playlist"
    /\ \/ \E p \in MediaPlaylists : Downloaded(p) /\ wpc' = "segments"
       \/ MayFail /\ wpc' = "done" /\ UNCHANGED <<playlist, cursor>>
    /\ UNCHANGED <<segment_queue_, abrVars, url, ctx, apiVars, hand>>

\* downloadSegments() returned to the loop.
Continue(should_continue) ==
    wpc' = IF ~should_continue \/ playlist.endlist THEN "done" ELSE "loop"

\* Deviation: the last segment fed is downloaded again.
AlreadyFed_OffByOne(seq) == seq + 1 < ctx.next

\* The test that skips what an earlier load of the playlist already had.
AlreadyFed(seq) == seq < ctx.next

\* The head of the loop over the segments.
SegmentTest ==
    /\ wpc = "segments"
    /\ \/ /\ cursor > Len(playlist.segments)
          /\ Continue(TRUE)
          /\ UNCHANGED cursor
       \/ /\ cursor <= Len(playlist.segments)
          /\ stop_
          /\ Continue(FALSE)
          /\ UNCHANGED cursor
       \/ /\ cursor <= Len(playlist.segments)
          /\ ~stop_
          /\ IF AlreadyFed(playlist.segments[cursor])
             THEN cursor' = cursor + 1 /\ UNCHANGED wpc
             ELSE wpc' = "transfer" /\ UNCHANGED cursor
    /\ UNCHANGED <<segment_queue_, abrVars, url, ctx, playlist, apiVars, hand>>

\* downloadSegment() fails, or is aborted by the stop.
TransferFails ==
    /\ wpc = "transfer"
    /\ MayFail \/ stop_
    /\ Continue(FALSE)
    /\ UNCHANGED <<segment_queue_, abrVars, loopVars, apiVars, hand>>

\* It succeeds, also when a stop came too late to abort it: the segment is pushed.
TransferSucceeds ==
    /\ wpc = "transfer"
    /\ LET seq == playlist.segments[cursor] IN
          /\ \E t \in Throughputs :
                ctx' = [ctx EXCEPT !.throughput = t, !.next = (seq + 1) % SeqMod]
          /\ segment_queue_' = Append(segment_queue_,
                [session |-> session, uri |-> ctx.uri, seq |-> seq,
                 address |-> SegmentAddress(url, ctx.uri, seq)])
    /\ wpc' = "abr"
    /\ UNCHANGED <<abrVars, url, playlist, cursor, apiVars, hand>>

\* Deviation: the segments of the outgoing variant stay in the queue.
SwitchTo_NoClear(uri) == ctx' = [ctx EXCEPT !.uri = uri] /\ UNCHANGED segment_queue_

\* Deviation: the context goes on with the outgoing variant.
SwitchTo_KeepUri(uri) == ClearQueue /\ UNCHANGED ctx

SwitchTo(uri) == ClearQueue /\ ctx' = [ctx EXCEPT !.uri = uri]

\* evaluateAbrSwitch() and what downloadSegments() does with its result.
EvaluateAbrSwitch ==
    /\ wpc = "abr"
    /\ SelectVariant(Bandwidths(url), ctx.throughput)
    /\ LET next_uri == VariantUri(current_variant_index_') IN
          IF next_uri # ctx.uri
          THEN SwitchTo(next_uri) /\ Continue(TRUE) /\ UNCHANGED cursor
          ELSE /\ cursor' = cursor + 1 /\ wpc' = "segments"
               /\ UNCHANGED <<segment_queue_, ctx>>
    /\ UNCHANGED <<url, playlist, apiVars, hand>>

Worker ==
    \/ FetchMaster \/ LoopTest \/ FetchPlaylist \/ SegmentTest
    \/ TransferFails \/ TransferSucceeds \/ EvaluateAbrSwitch

-----------------------------------------------------------------------------
\* The demuxer thread

\* queue.pop(token) returns a segment.
Pop ==
    /\ hand = <<>>
    /\ segment_queue_ # <<>>
    /\ hand' = <<segment_queue_[1]>>
    /\ segment_queue_' = Tail(segment_queue_)
    /\ UNCHANGED <<abrVars, wpc, loopVars, apiVars>>

\* The segment is demuxed and handed to the decoders.
Decode ==
    /\ hand # <<>>
    /\ hand' = <<>>
    /\ UNCHANGED <<segment_queue_, abrVars, wpc, loopVars, apiVars>>

Next ==
    \/ \E what \in Urls \cup {"stop"} : Call(what)
    \/ Return
    \/ Worker
    \/ Pop \/ Decode

Spec == Init /\ [][Next]_vars

\* The download thread is scheduled and its transfers end: HttpClient bounds each by
\* timeouts and the number of its retries.  A call that can return does.  Nothing is
\* assumed of the owner's calls and of the demuxer thread.
FairSpec == Spec /\ WF_vars(Worker) /\ WF_vars(Return)

-----------------------------------------------------------------------------
\* What waits in the queue was downloaded by the session that runs, from the variant it
\* is on: neither a restart nor a switch leaves segments of another variant behind.
QueueOfCurrentVariant ==
    \A i \in DOMAIN segment_queue_ :
        segment_queue_[i].session = session /\ segment_queue_[i].uri = ctx.uri

\* The uri the loop downloads from is the variant the AbrManager holds to be current, in
\* the master playlist of this session: the two are kept apart and only compared.
UriIsSelected == wpc \in InLoop => ctx.uri = VariantUri(current_variant_index_)

\* Queue, context and AbrManager change together, through switches, stops and restarts.
VariantsAgree == QueueOfCurrentVariant /\ UriIsSelected

\* In a playlist at an absolute url, the address is the one that the uri designates exactly when
\* the uri is a url of http or https, or a path on the same host, or relative to the playlist and
\* that one's url has a path and no slash in its query.  The code is wrong on a url of another
\* scheme, on "//host/path" and on the other relative uris.
Right(base, uri, address) ==
    Url!IsUrl(base) =>
       (address = Url!Designated(base, uri)
          <=> \/ Url!IsAbsolute(uri)
              \/ Url!IsAbsolutePath(uri)
              \/ Url!IsPathRelative(uri) /\ Url!IsPlain(base))

\* Every media playlist and every segment in the queue was fetched from the address that the
\* texts of the playlists designate, but for the cases that Right excludes, in which it never
\* was: through switches, reloads and restarts.
FetchedAsWritten ==
    /\ wpc \in InLoop =>
          Right(Stream[url].url, Stream[url].variants[current_variant_index_ + 1].uri, ctx.uri)
    /\ \A i \in DOMAIN segment_queue_ :
          Right(ctx.uri, SegmentUri[segment_queue_[i].seq], segment_queue_[i].address)

\* Once stop() has returned the queue is and stays empty, however the request met the
\* transfer, the push or the switch that was going on.
StopEmpties == wpc = "none" /\ call = None => segment_queue_ = <<>>

\* The demuxer gets sequence numbers in increasing order, reloads of a live playlist and
\* switches included, and restarts begin afresh.
Feed == INSTANCE SegmentFeed WITH
    Numbers <- SeqNumbers,
    feed <- [i \in DOMAIN segment_queue_ |-> segment_queue_[i].seq],
    next <- ctx.next
ImplementsFeed == Feed!FeedSpec

\* stop() and start() return: the download thread always gets to a look at its token,
\* also on a live stream whose playlists bring nothing new.
CallReturns == call # None ~> call = None

-----------------------------------------------------------------------------
\* What the repository says and this code does not do.

\* "Broke loop intentionally to switch variant" and "true if the loop should continue":
\* without failures and without a stop the session ends at the end of a playlist.
PlaysToEnd ==
    wpc = "done" /\ ~stop_ /\ playlist # None => cursor > Len(playlist.segments)
===============================================================================
