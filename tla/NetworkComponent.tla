--------------------------- MODULE NetworkComponent ---------------------------
(***************************************************************************)
(* iptv::network::NetworkComponent: the playlist and segment downloads     *)
(* that the orchestrator makes, on the HttpClient, and the promise of      *)
(* Downloads that they implement.  Parsing a playlist is an outcome of its *)
(* own, a bundle or a parse error.                                         *)
(***************************************************************************)
EXTENDS HttpClient

CONSTANTS
    PlaylistTimeout, \* 10 s, the default of downloadPlaylist
    SegmentTimeout   \* 30 s, of downloadSegment

ASSUME TimeoutsAssumption == PlaylistTimeout \in Nat \ {0} /\ SegmentTimeout \in Nat \ {0}

VARIABLES
    kind,            \* the request in progress: "playlist" or "segment"
    result           \* the result of the last request, with what the bundle holds

vars == <<clientVars, kind, result>>

\* Type of the state, results included.
TypeOK ==
    /\ ClientTypeOK
    /\ kind \in {"playlist", "segment"}
    /\ result.type \in {"none", "bundle", "http_error", "parse_error", "cancelled"}

NoResult == [type |-> "none"]

Init ==
    /\ ClientInit
    /\ kind = "playlist"
    /\ result = NoResult

\* downloadPlaylist(url): it has no token to give to the client.
DownloadPlaylist ==
    /\ Download(PlaylistTimeout, FALSE)
    /\ kind' = "playlist" /\ result' = NoResult

\* downloadSegment(url, token)
DownloadSegment ==
    /\ Download(SegmentTimeout, TRUE)
    /\ kind' = "segment" /\ result' = NoResult

\* extractBody moves the body, and getMetrics copies the metrics, into the bundle; the
\* length announced for that body goes with it as a ghost.
Bundle == [type |-> "bundle", raw_buffer |-> response.body, metrics |-> response.metrics,
           announced |-> announced]

\* Deviation: the status is not looked at.
FinishPlaylist_Unvalidated ==
    kind = "playlist" /\ result' \in {Bundle, [type |-> "parse_error"]}

\* The rest of downloadPlaylist, with the response of the client.
FinishPlaylist ==
    /\ kind = "playlist"
    /\ IF IsSuccess THEN result' \in {Bundle, [type |-> "parse_error"]}
       ELSE result' = [type |-> "http_error"]

\* The rest of downloadSegment.
FinishSegment ==
    /\ kind = "segment"
    /\ result' = IF IsSuccess THEN Bundle
                 ELSE [type |-> IF StopRequested THEN "cancelled" ELSE "http_error"]

\* The client returned; the next request begins with a fresh token.
Finish ==
    /\ hpc = "returned"
    /\ FinishPlaylist \/ FinishSegment
    /\ hpc' = "idle" /\ stop' = FALSE /\ late' = 0 /\ elapsed' = 0
    /\ attempt' = 0 /\ current_delay' = 0 /\ res' = "OK" /\ aborted_by_user' = FALSE
    /\ announced' = NoLength /\ read_length' = NoLength /\ response' = NewResponse
    /\ UNCHANGED <<callVars, kind>>

Next ==
    \/ DownloadPlaylist \/ DownloadSegment \/ Finish
    \/ (ClientStep \/ RequestStop \/ SetRetryPolicy \/ SetNetworkConfig) /\ UNCHANGED <<kind, result>>

Spec == Init /\ [][Next]_vars

\* curl ends a transfer (its handle has a timeout and a low-speed limit), the sleeping
\* thread wakes up, the calling thread goes on.
Progress == CallbackAborts \/ TransferEnds \/ Decide \/ Backoff
FairSpec == Spec /\ WF_vars(Progress /\ UNCHANGED <<kind, result>>) /\ WF_vars(Finish)

-----------------------------------------------------------------------------
\* A bundle holds a body of one attempt only, whatever the attempts before left behind, and
\* all of it where the server said how long it is ("the caller cannot mistake a partial body
\* for a served one", src/src/network/internal/http_client_impl.hpp:56).
BundleIsWhole ==
    result.type = "bundle" =>
        /\ \A i, j \in DOMAIN result.raw_buffer : result.raw_buffer[i] = result.raw_buffer[j]
        /\ result.announced # NoLength => Len(result.raw_buffer) = result.announced

\* NetworkMetrics::throughputMbps, in chunks per unit of time.
Throughput(metrics) ==
    IF metrics.total_duration <= 0 \/ metrics.bytes_downloaded = 0 THEN 0
    ELSE metrics.bytes_downloaded \div metrics.total_duration

\* The throughput that the AbrManager gets is that of the transfer that brought the segment:
\* no less than its bytes over the timeout of one attempt, however many failed before it and
\* however long the client slept between them.
ThroughputOfTransfer ==
    result.type = "bundle" =>
        LET bytes == Len(result.raw_buffer) IN
        /\ result.metrics.bytes_downloaded = bytes
        /\ result.metrics.total_duration > 0 => Throughput(result.metrics) >= bytes \div timeout

\* A bundle is what one transfer brought: its body, and the measurement of that transfer.
BundleOfOneTransfer == BundleIsWhole /\ ThroughputOfTransfer

\* "Knowing the exact size, we invoke .reserve() before receiving the payload, guaranteeing
\* zero dynamic reallocations" (docs/network.md): a body never moves while it grows when its
\* length came in a header line that the client reads, after redirects and retries too.  Where
\* curl knows the length by another spelling of the header nothing is guaranteed.
NoReallocation ==
    [][read_length # NoLength /\ Len(response'.body) > Len(response.body) =>
          response'.capacity = response.capacity]_vars

\* After a stop request the download of a segment begins at most one more transfer, the one
\* after a sleep that the request did not interrupt, and that one brings nothing.
StopHonoured ==
    cancellable => late <= 1 /\ (late = 1 => response.body = <<>>)

\* However often the server fails, a call ends within the timeouts of its attempts and the
\* sleeps between them.
CallBounded ==
    elapsed <= (policy_.max_retries + 1) * timeout
                 + policy_.max_retries * Max({policy_.initial_delay, policy_.max_delay})

\* What the orchestrator is promised: one answer to each request, of a kind that fits what
\* was asked and whether it was stopped, and never a body cut short of its length.  Every
\* request comes to its answer, however the attempts, delays and timeouts of the client fall.
Promised ==
    INSTANCE Downloads WITH
        request <- IF hpc = "idle" THEN "none" ELSE kind,
        stopped <- stop,
        answer <- IF result.type = "bundle" /\ result.announced \notin {NoLength, Len(result.raw_buffer)}
                  THEN "cut" ELSE result.type
ImplementsDownloads == Promised!FairSpec
=============================================================================
