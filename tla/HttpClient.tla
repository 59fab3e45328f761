------------------------------ MODULE HttpClient ------------------------------
(***************************************************************************)
(* iptv::network::HttpClient over libcurl: download() with its timeout,    *)
(* its retries with backoff and its cancellation by stop token, called     *)
(* again and again on one curl handle by the thread that owns the client.  *)
(*                                                                         *)
(* A body has up to BodySize chunks.  Each chunk of it is recorded as the  *)
(* number of the attempt that brought it, so that what a response is made  *)
(* of can be told.  A server may announce the length of a body; without a  *)
(* length the body ends where the connection does.  The server, the        *)
(* network and the owner of the stop source are the environment: they may  *)
(* do anything at any time.                                                *)
(***************************************************************************)
EXTENDS Integers, Sequences, FiniteSetsExt

CONSTANTS
    BodySize,        \* chunks in the longest body
    Policies,        \* retry policies [max_retries, initial_delay, max_delay, strategy]
    Configs,         \* network configurations [connect_timeout, follow_redirects]
    StallTime        \* CURLOPT_LOW_SPEED_TIME of setNetworkConfig, 3 s

ASSUME BodyAssumption == BodySize \in Nat \ {0}
ASSUME PolicyAssumption ==
    Policies \subseteq [max_retries : Nat, initial_delay : Nat, max_delay : Nat,
                        strategy : {"None", "Fixed", "Exponential"}]
ASSUME ConfigAssumption ==
    /\ Configs \subseteq [connect_timeout : Nat \ {0}, follow_redirects : BOOLEAN]
    /\ StallTime \in Nat \ {0}

VARIABLES
    policy_,
    options,         \* of the curl handle, kept between calls; a time of 0 is no limit
    handle_timeout,  \* CURLOPT_TIMEOUT_MS of the handle, kept too
    hpc,             \* where download() is
    timeout,         \* its argument
    cancellable,     \* the caller passed the token of its stop source
    stop,            \* stop_requested() of that source
    attempt,
    current_delay,
    res,             \* the CURLcode of the last transfer
    aborted_by_user, \* of the TransferContext
    announced,       \* the length the last header block announced, or NoLength
    read_length,     \* the length that headerCallback read in it, or NoLength
    response,        \* status, body, its capacity, metrics
    elapsed,         \* ghost: time since the call
    late             \* ghost: transfers begun since the stop request

callVars == <<policy_, options, handle_timeout, timeout, cancellable>>
clientVars == <<callVars, hpc, stop, attempt, current_delay, res, aborted_by_user, announced,
                read_length, response, elapsed, late>>

Codes == {"OK", "OPERATION_TIMEDOUT", "COULDNT_CONNECT", "WRITE_ERROR",
          "ABORTED_BY_CALLBACK", "RECV_ERROR"}

\* One status of each class the code tells apart; 0 is HttpStatusCode::Unknown.
Statuses == {200, 302, 404, 429, 500}

NoLength == -1

\* NetworkMetrics, and HttpResponse with it.
Metrics == [total_duration : Nat, bytes_downloaded : 0 .. BodySize]
Responses == [status : Statuses \cup {0}, body : Seq(Nat), capacity : 0 .. BodySize, metrics : Metrics]

NoMetrics == [total_duration |-> 0, bytes_downloaded |-> 0]

\* HttpResponse response(Unknown) of a call.
NewResponse == [status |-> 0, body |-> <<>>, capacity |-> 0, metrics |-> NoMetrics]

ClientTypeOK ==
    /\ policy_ \in Policies
    /\ options \in [connect_timeout : Nat, stall_time : {0, StallTime},
                    follow_redirects : BOOLEAN]
    /\ handle_timeout \in Nat /\ timeout \in Nat
    /\ hpc \in {"idle", "transfer", "decide", "sleep", "returned"}
    /\ cancellable \in BOOLEAN /\ stop \in BOOLEAN /\ aborted_by_user \in BOOLEAN
    /\ attempt \in 0 .. policy_.max_retries
    /\ current_delay \in Nat
    /\ res \in Codes
    /\ announced \in {NoLength} \cup 0 .. BodySize /\ read_length \in {NoLength, announced}
    /\ response \in Responses /\ Len(response.body) <= response.capacity
    /\ elapsed \in Nat /\ late \in Nat

ClientInit ==
    /\ policy_ \in Policies
    /\ options = [connect_timeout |-> 0, stall_time |-> 0, follow_redirects |-> FALSE]
    /\ handle_timeout = 0 /\ timeout = 0
    /\ hpc = "idle"
    /\ cancellable = FALSE /\ stop = FALSE /\ aborted_by_user = FALSE
    /\ attempt = 0 /\ current_delay = 0
    /\ res = "OK"
    /\ announced = NoLength /\ read_length = NoLength
    /\ response = NewResponse
    /\ elapsed = 0 /\ late = 0

\* stop_token.stop_requested(), as the client sees it: a default token never stops.
StopRequested == cancellable /\ stop

IsSuccess == response.status = 200

\* response.clear() keeps the memory of the body.
Cleared == [response EXCEPT !.status = 0, !.body = <<>>, !.metrics = NoMetrics]

\* Deviation: the timeout of the first call is kept.
PrepareHandle_Once(t) == handle_timeout' = IF handle_timeout = 0 THEN t ELSE handle_timeout

\* prepareHandle: a timeout that is not positive leaves the handle as it is.
PrepareHandle(t) == handle_timeout' = IF t > 0 THEN t ELSE handle_timeout

\* Deviation: the response of the attempt before is not cleared.
BeginTransfer_NoClear ==
    /\ hpc' = "transfer" /\ announced' = NoLength /\ read_length' = NoLength
    /\ UNCHANGED response
    /\ late' = IF stop THEN late + 1 ELSE late

\* response.clear() and the start of a transfer.
BeginTransfer ==
    /\ hpc' = "transfer" /\ announced' = NoLength /\ read_length' = NoLength
    /\ response' = Cleared
    /\ late' = IF stop THEN late + 1 ELSE late

\* setRetryPolicy, between downloads.
SetRetryPolicy ==
    /\ hpc = "idle"
    /\ policy_' \in Policies
    /\ UNCHANGED <<options, handle_timeout, timeout, cancellable, hpc, stop, attempt,
                   current_delay, res, aborted_by_user, announced, read_length,
                   response, elapsed, late>>

\* setNetworkConfig: options of the handle.  The timeout of the configuration is not used.
SetNetworkConfig ==
    /\ hpc = "idle"
    /\ \E config \in Configs :
          options' = [connect_timeout |-> config.connect_timeout, stall_time |-> StallTime,
                      follow_redirects |-> config.follow_redirects]
    /\ UNCHANGED <<policy_, handle_timeout, timeout, cancellable, hpc, stop, attempt,
                   current_delay, res, aborted_by_user, announced, read_length,
                   response, elapsed, late>>

\* download(url, timeout, token) up to the first transfer.
Download(t, token) ==
    /\ hpc = "idle"
    /\ PrepareHandle(t)
    /\ timeout' = t /\ cancellable' = token
    /\ aborted_by_user' = FALSE
    /\ attempt' = 0
    /\ current_delay' = policy_.initial_delay
    /\ BeginTransfer
    /\ elapsed' = 0
    /\ UNCHANGED <<policy_, options, stop, res>>

\* Deviation: only the first length is reserved.
ReserveBody_First(n) == IF response.capacity = 0 THEN n ELSE response.capacity

\* reserveBody
ReserveBody(n) == Max({response.capacity, n})

\* headerCallback: the header block of a response, with its length or without one.  Curl knows
\* every spelling of the header; the client reads a line that begins with "Content-Length:" or
\* "content-length:" and has a number behind it, and reserves memory for that one only.  A
\* redirect that curl follows has a block of its own before that of the answer.
Headers(n) ==
    /\ hpc = "transfer"
    /\ response.body = <<>>
    /\ announced = NoLength \/ options.follow_redirects
    /\ announced' = n
    /\ read_length' \in {NoLength, n}
    /\ response' =
          [response EXCEPT !.capacity = IF read_length' = NoLength THEN @ ELSE ReserveBody(n)]
    /\ UNCHANGED <<callVars, hpc, stop, attempt, current_delay, res, aborted_by_user, elapsed, late>>

\* writeBodyChunk and appendToBody: the body grows, unless the token has fired, into memory
\* that grows to fit when it must; curl stops at the length announced.
BodyChunk ==
    /\ hpc = "transfer"
    /\ ~StopRequested
    /\ Len(response.body) < IF announced = NoLength THEN BodySize ELSE announced
    /\ response' = [response EXCEPT !.body = Append(@, attempt),
                                    !.capacity = Max({@, Len(response.body) + 1})]
    /\ UNCHANGED <<callVars, hpc, stop, attempt, current_delay, res, aborted_by_user, announced,
                   read_length, elapsed, late>>

\* Deviation: the status is recorded whatever curl returned.
StatusOf_Always(code, status) == status

\* collectStatusCode: a transfer that did not complete has no status.
StatusOf(code, status) == IF code = "OK" THEN status ELSE 0

\* Deviation: the clock was started at the call and not at the attempt.
CollectTiming_OfCall(d) == [total_duration |-> elapsed + d, bytes_downloaded |-> Len(response.body)]

\* collectTiming, whatever curl returned.
CollectTiming(d) == [total_duration |-> d, bytes_downloaded |-> Len(response.body)]

\* curl_easy_perform returns code after d, at most the timeout of the handle.
Perform(code, status, d) ==
    /\ hpc = "transfer"
    /\ res' = code
    /\ response' = [response EXCEPT !.status = StatusOf(code, status),
                                    !.metrics = CollectTiming(d)]
    /\ elapsed' = elapsed + d
    /\ hpc' = "decide"
    /\ UNCHANGED <<callVars, stop, attempt, current_delay, announced, read_length, late>>

\* A callback sees the token fired and makes curl give up.
CallbackAborts ==
    /\ StopRequested
    /\ \E code \in {"WRITE_ERROR", "ABORTED_BY_CALLBACK"}, status \in Statuses,
          d \in 0 .. handle_timeout :
          Perform(code, status, d)
    /\ aborted_by_user' = TRUE

\* When curl reports OPERATION_TIMEDOUT: at the timeout of the handle, at that of the
\* connection phase, or once the transfer was too slow for StallTime.
TimedOutAt ==
    {handle_timeout}
      \cup {d \in {options.connect_timeout} \ {0} : response.body = <<>>}
      \cup {d \in 0 .. handle_timeout : options.stall_time \in 1 .. d}

\* The transfer ends: complete, with the status of the server; not connected, with nothing
\* received; broken off or timed out anywhere.  A redirect is an answer when not followed.
TransferEnds ==
    /\ \E code \in {"OK", "OPERATION_TIMEDOUT", "COULDNT_CONNECT", "RECV_ERROR"},
          status \in Statuses, d \in 0 .. handle_timeout :
          /\ code = "OK" => /\ announced # NoLength => Len(response.body) = announced
                            /\ options.follow_redirects => status # 302
          /\ code = "COULDNT_CONNECT" => response.body = <<>>
          /\ code = "OPERATION_TIMEDOUT" => d \in TimedOutAt
          /\ Perform(code, status, d)
    /\ UNCHANGED aborted_by_user

\* isTransientError
Transient == res \in {"OPERATION_TIMEDOUT", "COULDNT_CONNECT"} \/ response.status \in {429, 500}

Aborted == res = "ABORTED_BY_CALLBACK" \/ aborted_by_user \/ StopRequested

\* Deviation: a cancelled transfer is retried like a failed one.
ShouldStopRetrying_NotAborted == ~Transient \/ attempt = policy_.max_retries

\* Deviation: the last attempt is not counted.
ShouldStopRetrying_OneMore == Aborted \/ ~Transient \/ attempt = policy_.max_retries + 1

\* shouldStopRetrying
ShouldStopRetrying == Aborted \/ ~Transient \/ attempt = policy_.max_retries

\* The end of an iteration of the retry loop: return the response or back off.
Decide ==
    /\ hpc = "decide"
    /\ hpc' = IF (res = "OK" /\ IsSuccess) \/ ShouldStopRetrying THEN "returned" ELSE "sleep"
    /\ UNCHANGED <<callVars, stop, attempt, current_delay, res, aborted_by_user, announced,
                   read_length, response, elapsed, late>>

\* Deviation: the doubled delay is not capped.
NextDelay_NoCap == IF policy_.strategy = "Exponential" THEN current_delay * 2 ELSE current_delay

\* The delay of the attempt after the next one.
NextDelay ==
    IF policy_.strategy = "Exponential" THEN Min({current_delay * 2, policy_.max_delay})
    ELSE current_delay

\* Deviation: an attempt that was refused at once is not counted.
Backoff_NoCount ==
    /\ hpc = "sleep"
    /\ \E d \in 0 .. (IF policy_.strategy = "None" THEN 0 ELSE current_delay) :
          elapsed' = elapsed + d
    /\ current_delay' = NextDelay
    /\ attempt' = IF res = "COULDNT_CONNECT" THEN attempt ELSE attempt + 1
    /\ BeginTransfer
    /\ UNCHANGED <<callVars, stop, res, aborted_by_user>>

\* applyBackoffDelay, a sleep that no token interrupts, and the next iteration.
Backoff ==
    /\ hpc = "sleep"
    /\ \E d \in 0 .. (IF policy_.strategy = "None" THEN 0 ELSE current_delay) :
          elapsed' = elapsed + d
    /\ current_delay' = NextDelay
    /\ attempt' = attempt + 1
    /\ BeginTransfer
    /\ UNCHANGED <<callVars, stop, res, aborted_by_user>>

\* The owner of the stop source requests the stop.
RequestStop ==
    /\ ~stop
    /\ stop' = TRUE
    /\ UNCHANGED <<callVars, hpc, attempt, current_delay, res, aborted_by_user, announced,
                   read_length, response, elapsed, late>>

ClientStep ==
    (\E n \in {NoLength} \cup 0 .. BodySize : Headers(n)) \/ BodyChunk \/ CallbackAborts \/ TransferEnds \/ Decide \/ Backoff
=============================================================================
