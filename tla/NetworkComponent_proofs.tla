------------------------ MODULE NetworkComponent_proofs ------------------------
(***************************************************************************)
(* Proofs about the downloads, for every retry policy, configuration,      *)
(* timeout and length of a body: what a bundle holds and measures, how     *)
(* long a call takes, what a stop request leaves possible, that a body     *)
(* whose length the client read is never moved, and the safety half of the *)
(* refinement of Downloads.                                                *)
(***************************************************************************)
EXTENDS NetworkComponent, TLAPS

-----------------------------------------------------------------------------
\* Arithmetic

LEMMA MaxOfTwo ==
    ASSUME NEW a \in Int, NEW b \in Int
    PROVE  Max({a, b}) \in {a, b} /\ Max({a, b}) >= a /\ Max({a, b}) >= b
<1>1. \E x \in {a, b} : \A y \in {a, b} : x >= y
  <2>1. CASE a >= b
    BY <2>1
  <2>2. CASE b >= a
    BY <2>2
  <2> QED
    BY <2>1, <2>2
<1> QED
  BY <1>1 DEF Max

LEMMA MinOfTwo ==
    ASSUME NEW a \in Int, NEW b \in Int
    PROVE  Min({a, b}) \in {a, b} /\ Min({a, b}) <= a /\ Min({a, b}) <= b
<1>1. \E x \in {a, b} : \A y \in {a, b} : x <= y
  <2>1. CASE a <= b
    BY <2>1
  <2>2. CASE b <= a
    BY <2>2
  <2> QED
    BY <2>1, <2>2
<1> QED
  BY <1>1 DEF Min

LEMMA TimesMonotone ==
    ASSUME NEW a \in Nat, NEW b \in Nat, NEW t \in Nat, a <= b
    PROVE  a * t \in Nat /\ a * t <= b * t
<1>1. PICK c \in Nat : b = a + c
  <2>1. b - a \in Nat /\ b = a + (b - a)
    OBVIOUS
  <2> QED
    BY <2>1
<1>2. c * t \in Nat /\ a * t \in Nat
  OBVIOUS
<1>3. b * t = a * t + c * t
  BY <1>1
<1> QED
  BY <1>2, <1>3

\* Time of n transfers and m sleeps, when one transfer lasts at most t and one sleep d.
Spent(n, m, t, d) == n * t + m * d

LEMMA SpentMonotone ==
    ASSUME NEW n \in Nat, NEW m \in Nat, NEW t \in Nat, NEW d \in Nat,
           NEW n2 \in Nat, NEW m2 \in Nat, n <= n2, m <= m2
    PROVE  Spent(n, m, t, d) \in Nat /\ Spent(n, m, t, d) <= Spent(n2, m2, t, d)
  BY TimesMonotone DEF Spent

LEMMA SpentBounded ==
    ASSUME NEW n \in Nat, NEW most \in Nat, n <= most, NEW t \in Nat, NEW d \in Nat
    PROVE  /\ Spent(most + 1, most, t, d) \in Nat
           /\ Spent(n, n, t, d) \in Nat /\ Spent(n, n, t, d) <= Spent(most + 1, most, t, d)
           /\ Spent(n + 1, n, t, d) \in Nat /\ Spent(n + 1, n, t, d) <= Spent(most + 1, most, t, d)
<1>1. n + 1 \in Nat /\ most + 1 \in Nat /\ n <= most + 1 /\ n + 1 <= most + 1
  OBVIOUS
<1>2. Spent(most + 1, most, t, d) \in Nat
  <2>1. (most + 1) * t \in Nat /\ most * d \in Nat
    BY <1>1
  <2> QED
    BY <2>1 DEF Spent
<1>3. Spent(n, n, t, d) \in Nat /\ Spent(n, n, t, d) <= Spent(most + 1, most, t, d)
  BY <1>1, SpentMonotone
<1>4. Spent(n + 1, n, t, d) \in Nat /\ Spent(n + 1, n, t, d) <= Spent(most + 1, most, t, d)
  BY <1>1, SpentMonotone
<1> QED
  BY <1>2, <1>3, <1>4

LEMMA SpentTransfer ==
    ASSUME NEW n \in Nat, NEW m \in Nat, NEW t \in Nat, NEW d \in Nat, NEW e \in Nat,
           e <= Spent(n, m, t, d), NEW now \in 0 .. t
    PROVE  e + now <= Spent(n + 1, m, t, d)
<1>1. (n + 1) * t = n * t + t
  OBVIOUS
<1> QED
  BY <1>1 DEF Spent

LEMMA SpentSleep ==
    ASSUME NEW n \in Nat, NEW m \in Nat, NEW t \in Nat, NEW d \in Nat, NEW e \in Nat,
           e <= Spent(n, m, t, d), NEW now \in 0 .. d
    PROVE  e + now <= Spent(n, m + 1, t, d)
<1>1. (m + 1) * d = m * d + d
  OBVIOUS
<1> QED
  BY <1>1 DEF Spent

\* The same bytes in less time give no smaller throughput.
LEMMA QuotientAntitone ==
    ASSUME NEW n \in Nat, NEW d \in Nat, NEW t \in Nat, 0 < d, d <= t
    PROVE  n \div d >= n \div t
<1> DEFINE p == n \div d  q == n \div t
<1>1. p \in Nat /\ n < (p + 1) * d
  OBVIOUS
<1>2. q \in Nat /\ q * t <= n
  OBVIOUS
<1> HIDE DEF p, q
<1>3. ASSUME p + 1 <= q PROVE FALSE
  <2>1. (p + 1) * d <= q * d
    BY <1>1, <1>2, <1>3, TimesMonotone
  <2>2. d * q <= t * q
    BY <1>2, TimesMonotone
  <2>3. q * d <= q * t
    BY <1>2, <2>2
  <2> QED
    BY <1>1, <1>2, <2>1, <2>3
<1>4. p >= q
  BY <1>1, <1>2, <1>3
<1> QED
  BY <1>4 DEF p, q

-----------------------------------------------------------------------------
\* The inductive invariant

\* Between two calls nothing is left of the last one but the handle and the result.
Fresh ==
    hpc = "idle" => attempt = 0 /\ late = 0 /\ elapsed = 0 /\ response.body = <<>>

LongestDelay == Max({policy_.initial_delay, policy_.max_delay})

\* During a call the handle has the timeout of this call, and only that of a segment has a token.
Called ==
    hpc # "idle" => /\ handle_timeout = timeout
                    /\ current_delay <= LongestDelay
                    /\ kind = "segment" => cancellable

\* There is an attempt left when the client sleeps.
AttemptsLeft == hpc = "sleep" => attempt < policy_.max_retries

\* The time spent so far: that of the attempts and of the sleeps between them.
TimeSpent ==
    /\ hpc = "transfer" => elapsed <= Spent(attempt, attempt, timeout, LongestDelay)
    /\ hpc \in {"decide", "sleep", "returned"} =>
          elapsed <= Spent(attempt + 1, attempt, timeout, LongestDelay)

\* The body is of the attempt that runs and within the length announced, for which there is
\* memory when the client read it.
BodyOfAttempt ==
    /\ \A i \in DOMAIN response.body : response.body[i] = attempt
    /\ announced # NoLength => Len(response.body) <= announced
    /\ read_length # NoLength => announced <= response.capacity

\* A success is a transfer that completed, with its measurement.
SuccessIsComplete ==
    /\ hpc = "transfer" => response.status = 0
    /\ response.status = 200 =>
          /\ announced \in {NoLength, Len(response.body)}
          /\ response.metrics.bytes_downloaded = Len(response.body)
          /\ response.metrics.total_duration <= timeout

\* Transfers begun since a stop request, and a client that sleeps has begun none.
Late ==
    /\ ~stop => late = 0
    /\ cancellable /\ hpc = "sleep" => late = 0
    /\ StopHonoured

\* What a bundle was made of, until the next request.
Bundled ==
    result.type = "bundle" =>
        /\ hpc = "idle"
        /\ result.raw_buffer \in Seq(Nat)
        /\ \A i, j \in DOMAIN result.raw_buffer : result.raw_buffer[i] = result.raw_buffer[j]
        /\ result.announced \in {NoLength, Len(result.raw_buffer)}
        /\ result.metrics \in Metrics
        /\ result.metrics.bytes_downloaded = Len(result.raw_buffer)
        /\ result.metrics.total_duration <= timeout

IInv ==
    /\ TypeOK
    /\ Fresh /\ Called /\ AttemptsLeft /\ TimeSpent
    /\ BodyOfAttempt /\ SuccessIsComplete /\ Late /\ Bundled

-----------------------------------------------------------------------------
\* One lemma per action

LEMMA PolicyCorrect ==
    ASSUME policy_ \in Policies
    PROVE  /\ policy_.max_retries \in Nat /\ policy_.initial_delay \in Nat
           /\ policy_.max_delay \in Nat /\ LongestDelay \in Nat
           /\ policy_.initial_delay <= LongestDelay /\ policy_.max_delay <= LongestDelay
<1>1. /\ policy_.max_retries \in Nat /\ policy_.initial_delay \in Nat
      /\ policy_.max_delay \in Nat
  BY PolicyAssumption
<1>2. policy_.initial_delay \in Int /\ policy_.max_delay \in Int
  BY <1>1
<1>3. /\ LongestDelay \in {policy_.initial_delay, policy_.max_delay}
      /\ policy_.initial_delay <= LongestDelay /\ policy_.max_delay <= LongestDelay
  BY <1>2, MaxOfTwo DEF LongestDelay
<1> QED
  BY <1>1, <1>3

\* The response of the call before is cleared with its type, and keeps its memory.
LEMMA ClearedCorrect ==
    ASSUME response \in Responses
    PROVE  /\ Cleared \in Responses
           /\ Cleared.status = 0 /\ Cleared.body = <<>>
           /\ Cleared.capacity = response.capacity
<1>1. NoMetrics \in Metrics
  BY BodyAssumption DEF Metrics, NoMetrics
<1>2. <<>> \in Seq(Nat)
  OBVIOUS
<1> QED
  BY <1>1, <1>2 DEF Cleared, Responses

\* The lengths in a response are numbers.
LEMMA LengthsCorrect ==
    ASSUME NEW r \in Responses
    PROVE  Len(r.body) \in Nat /\ r.capacity \in Nat /\ r.capacity <= BodySize
  BY BodyAssumption DEF Responses

LEMMA InitIInv == Init => IInv
<1> SUFFICES ASSUME Init PROVE IInv
  OBVIOUS
<1>1. policy_.max_retries \in Nat
  BY PolicyCorrect DEF Init, ClientInit
<1>2. /\ NewResponse \in Responses /\ NewResponse.capacity = 0 /\ NewResponse.body = <<>>
      /\ NewResponse.status = 0
  BY BodyAssumption DEF Responses, Metrics, NewResponse, NoMetrics
<1>3. TypeOK
  <2>1. cancellable \in BOOLEAN /\ stop \in BOOLEAN /\ aborted_by_user \in BOOLEAN
    BY DEF Init, ClientInit
  <2>2. ClientTypeOK
    BY <1>1, <1>2, <2>1 DEF Init, ClientInit, ClientTypeOK, Codes
  <2> QED
    BY <2>2 DEF TypeOK, Init, NoResult
<1>4. Fresh /\ Called /\ AttemptsLeft /\ TimeSpent /\ BodyOfAttempt
  BY <1>2 DEF Init, ClientInit, Fresh, Called, AttemptsLeft, TimeSpent, BodyOfAttempt
<1>5. SuccessIsComplete /\ Late /\ Bundled
  BY <1>2 DEF Init, ClientInit, SuccessIsComplete, Late, StopHonoured, Bundled, NoResult
<1> QED
  BY <1>3, <1>4, <1>5 DEF IInv

\* A request: the client was idle, so that nothing of the last call is counted.
LEMMA DownloadStep ==
    ASSUME IInv, NEW t \in Nat \ {0}, NEW token \in BOOLEAN, Download(t, token),
           kind' \in {"playlist", "segment"}, kind' = "segment" => token, result' = NoResult
    PROVE  IInv'
<1>1. /\ ClientTypeOK /\ hpc = "idle" /\ attempt = 0 /\ late = 0 /\ elapsed = 0
      /\ response \in Responses /\ policy_ \in Policies
  BY DEF IInv, TypeOK, ClientTypeOK, Download, Fresh
<1>2. /\ hpc' = "transfer" /\ announced' = NoLength /\ read_length' = NoLength
      /\ response' = Cleared
      /\ late' = (IF stop THEN late + 1 ELSE late) /\ handle_timeout' = t /\ timeout' = t
      /\ cancellable' = token /\ aborted_by_user' = FALSE /\ attempt' = 0 /\ elapsed' = 0
      /\ current_delay' = policy_.initial_delay
      /\ UNCHANGED <<policy_, options, stop, res>>
  BY DEF Download, BeginTransfer, PrepareHandle
<1>3. /\ policy_.max_retries \in Nat /\ policy_.initial_delay \in Nat /\ LongestDelay \in Nat
      /\ policy_.initial_delay <= LongestDelay
  BY <1>1, PolicyCorrect
<1>4. /\ response' \in Responses /\ response'.status = 0 /\ response'.body = <<>>
      /\ response'.capacity \in Nat
  BY <1>1, <1>2, ClearedCorrect, LengthsCorrect
<1>5. TypeOK'
  <2>1. cancellable' \in BOOLEAN /\ stop' \in BOOLEAN /\ aborted_by_user' \in BOOLEAN
    BY <1>1, <1>2 DEF ClientTypeOK
  <2>2. ClientTypeOK'
    BY <1>1, <1>2, <1>3, <1>4, <2>1 DEF ClientTypeOK
  <2> QED
    BY <2>2 DEF TypeOK, NoResult
<1>6. LongestDelay' = LongestDelay
  BY <1>2 DEF LongestDelay
<1>7. Fresh' /\ Called' /\ AttemptsLeft'
  BY <1>2, <1>3, <1>6 DEF Fresh, Called, AttemptsLeft
<1>8. TimeSpent'
  <2>1. Spent(0, 0, t, LongestDelay) \in Nat
    BY <1>3, SpentMonotone
  <2> QED
    BY <1>2, <1>6, <2>1 DEF TimeSpent
<1>9. BodyOfAttempt' /\ SuccessIsComplete'
  BY <1>2, <1>4 DEF BodyOfAttempt, SuccessIsComplete, NoLength
<1>10. Late' /\ Bundled'
  BY <1>1, <1>2, <1>4 DEF IInv, Late, StopHonoured, Bundled, NoResult
<1> QED
  BY <1>5, <1>7, <1>8, <1>9, <1>10 DEF IInv

\* setRetryPolicy and setNetworkConfig come between two calls.
LEMMA SettingStep ==
    ASSUME IInv, SetRetryPolicy \/ SetNetworkConfig, UNCHANGED <<kind, result>>
    PROVE  IInv'
<1>1. ClientTypeOK /\ hpc = "idle" /\ attempt = 0 /\ policy_' \in Policies
  BY DEF IInv, TypeOK, ClientTypeOK, SetRetryPolicy, SetNetworkConfig, Fresh
<1>2. UNCHANGED <<handle_timeout, timeout, cancellable, hpc, stop, attempt, current_delay, res,
                  aborted_by_user, announced, read_length, response, elapsed, late, kind, result>>
  BY DEF SetRetryPolicy, SetNetworkConfig
<1>3. options' \in [connect_timeout : Nat, stall_time : {0, StallTime}, follow_redirects : BOOLEAN]
  <2>1. CASE SetRetryPolicy
    BY <1>1, <2>1 DEF SetRetryPolicy, ClientTypeOK
  <2>2. CASE SetNetworkConfig
    <3>1. PICK config \in Configs :
             options' = [connect_timeout |-> config.connect_timeout, stall_time |-> StallTime,
                         follow_redirects |-> config.follow_redirects]
      BY <2>2 DEF SetNetworkConfig
    <3>2. config.connect_timeout \in Nat /\ config.follow_redirects \in BOOLEAN
      BY <3>1, ConfigAssumption
    <3> QED
      BY <3>1, <3>2
  <2> QED
    BY <2>1, <2>2
<1>4. TypeOK'
  <2>1. policy_'.max_retries \in Nat
    BY <1>1, PolicyAssumption
  <2>2. cancellable' \in BOOLEAN /\ stop' \in BOOLEAN /\ aborted_by_user' \in BOOLEAN
    BY <1>1, <1>2 DEF ClientTypeOK
  <2>3. ClientTypeOK'
    BY <1>1, <1>2, <1>3, <2>1, <2>2 DEF ClientTypeOK
  <2> QED
    BY <1>2, <2>3 DEF IInv, TypeOK
<1>5. Fresh' /\ Called' /\ AttemptsLeft' /\ TimeSpent'
  BY <1>1, <1>2 DEF IInv, Fresh, Called, AttemptsLeft, TimeSpent
<1>6. BodyOfAttempt' /\ SuccessIsComplete'
  BY <1>2 DEF IInv, BodyOfAttempt, SuccessIsComplete
<1>7. Late' /\ Bundled'
  BY <1>2 DEF IInv, Late, StopHonoured, Bundled
<1> QED
  BY <1>4, <1>5, <1>6, <1>7 DEF IInv

LEMMA RequestStopStep ==
    ASSUME IInv, RequestStop, UNCHANGED <<kind, result>>
    PROVE  IInv'
<1>1. /\ stop' = TRUE
      /\ UNCHANGED <<policy_, options, handle_timeout, timeout, cancellable, hpc, attempt, current_delay,
                     res, aborted_by_user, announced, read_length, response, elapsed, late, kind, result>>
  BY DEF RequestStop, callVars
<1>2. TypeOK'
  <2>1. ClientTypeOK /\ cancellable' \in BOOLEAN /\ stop' \in BOOLEAN /\ aborted_by_user' \in BOOLEAN
    BY <1>1 DEF IInv, TypeOK, ClientTypeOK
  <2>2. ClientTypeOK'
    BY <1>1, <2>1 DEF ClientTypeOK
  <2> QED
    BY <1>1, <2>2 DEF IInv, TypeOK
<1>3. LongestDelay' = LongestDelay
  BY <1>1 DEF LongestDelay
<1>4. Fresh' /\ Called' /\ AttemptsLeft' /\ TimeSpent'
  BY <1>1, <1>3 DEF IInv, Fresh, Called, AttemptsLeft, TimeSpent
<1>5. BodyOfAttempt' /\ SuccessIsComplete'
  BY <1>1 DEF IInv, BodyOfAttempt, SuccessIsComplete
<1>6. Late' /\ Bundled'
  BY <1>1 DEF IInv, Late, StopHonoured, Bundled
<1> QED
  BY <1>2, <1>4, <1>5, <1>6 DEF IInv

\* The length that the client read in a header block fits into the memory reserved for it.
LEMMA HeadersStep ==
    ASSUME IInv, NEW n \in {NoLength} \cup 0 .. BodySize, Headers(n), UNCHANGED <<kind, result>>
    PROVE  IInv'
<1>1. /\ TypeOK /\ ClientTypeOK /\ response \in Responses
      /\ Len(response.body) \in Nat /\ response.capacity \in Nat /\ response.capacity <= BodySize
  BY LengthsCorrect DEF IInv, TypeOK, ClientTypeOK
<1>2. /\ hpc = "transfer" /\ response.body = <<>> /\ announced' = n
      /\ read_length' \in {NoLength, n}
      /\ UNCHANGED <<policy_, options, handle_timeout, timeout, cancellable, hpc, stop, attempt,
                     current_delay, res, aborted_by_user, elapsed, late, kind, result>>
  BY DEF Headers, callVars
<1>3. PICK c \in 0 .. BodySize :
         response' = [response EXCEPT !.capacity = c] /\ (read_length' # NoLength => n <= c)
  <2>1. CASE read_length' = NoLength
    <3>1. response' = [response EXCEPT !.capacity = response.capacity]
      BY <2>1 DEF Headers
    <3> QED
      BY <1>1, <2>1, <3>1
  <2>2. CASE read_length' # NoLength
    <3>1. n \in 0 .. BodySize /\ n \in Int /\ response.capacity \in Int
      BY <1>1, <1>2, <2>2
    <3>2. response' = [response EXCEPT !.capacity = ReserveBody(n)]
      BY <2>2 DEF Headers
    <3>3. ReserveBody(n) \in {response.capacity, n} /\ ReserveBody(n) >= n
      BY <3>1, MaxOfTwo DEF ReserveBody
    <3>4. ReserveBody(n) \in 0 .. BodySize /\ n <= ReserveBody(n)
      BY <1>1, <3>1, <3>3
    <3> QED
      BY <3>2, <3>4
  <2> QED
    BY <2>1, <2>2
<1>4. /\ response' \in Responses /\ response'.body = <<>> /\ response'.capacity = c
      /\ response'.status = response.status
  BY <1>1, <1>2, <1>3 DEF Responses
<1>5. TypeOK'
  <2>1. cancellable' \in BOOLEAN /\ stop' \in BOOLEAN /\ aborted_by_user' \in BOOLEAN
    BY <1>1, <1>2 DEF ClientTypeOK
  <2>2. ClientTypeOK'
    BY <1>1, <1>2, <1>4, <2>1 DEF ClientTypeOK
  <2> QED
    BY <1>1, <1>2, <2>2 DEF TypeOK
<1>6. LongestDelay' = LongestDelay
  BY <1>2 DEF LongestDelay
<1>7. Fresh' /\ Called' /\ AttemptsLeft' /\ TimeSpent'
  BY <1>2, <1>6 DEF IInv, Fresh, Called, AttemptsLeft, TimeSpent
<1>8. BodyOfAttempt' /\ SuccessIsComplete'
  BY <1>2, <1>3, <1>4 DEF IInv, BodyOfAttempt, SuccessIsComplete, NoLength
<1>9. Late' /\ Bundled'
  BY <1>2, <1>4 DEF IInv, Late, StopHonoured, Bundled
<1> QED
  BY <1>5, <1>7, <1>8, <1>9 DEF IInv

\* A chunk is of the attempt that runs; within a length the client read it needs no more memory.
LEMMA BodyChunkStep ==
    ASSUME IInv, BodyChunk, UNCHANGED <<kind, result>>
    PROVE  /\ IInv'
           /\ read_length # NoLength => response'.capacity = response.capacity
<1>1. /\ TypeOK /\ ClientTypeOK /\ response \in Responses /\ response.body \in Seq(Nat) /\ attempt \in Nat
      /\ Len(response.body) \in Nat /\ response.capacity \in Nat /\ response.capacity <= BodySize
  BY LengthsCorrect, PolicyCorrect DEF IInv, TypeOK, ClientTypeOK, Responses
<1>2. /\ hpc = "transfer" /\ ~StopRequested
      /\ UNCHANGED <<policy_, options, handle_timeout, timeout, cancellable, hpc, stop, attempt,
                     current_delay, res, aborted_by_user, announced, read_length, elapsed, late, kind, result>>
  BY DEF BodyChunk, callVars
<1> DEFINE body == Append(response.body, attempt)
           capacity == Max({response.capacity, Len(response.body) + 1})
<1>3. response' = [response EXCEPT !.body = body, !.capacity = capacity]
  BY DEF BodyChunk
<1>4. /\ Len(response.body) + 1 <= BodySize
      /\ announced # NoLength => Len(response.body) + 1 <= announced
  <2>1. Len(response.body) < IF announced = NoLength THEN BodySize ELSE announced
    BY DEF BodyChunk
  <2>2. announced \in {NoLength} \cup 0 .. BodySize
    BY <1>1 DEF ClientTypeOK
  <2> QED
    BY <1>1, <2>1, <2>2, BodyAssumption
<1>5. /\ capacity \in {response.capacity, Len(response.body) + 1}
      /\ capacity >= response.capacity /\ capacity >= Len(response.body) + 1
  <2>1. response.capacity \in Int /\ Len(response.body) + 1 \in Int
    BY <1>1
  <2> QED
    BY <2>1, MaxOfTwo
<1>6. /\ body \in Seq(Nat) /\ Len(body) = Len(response.body) + 1
      /\ \A i \in DOMAIN body :
            body[i] = attempt \/ (i \in DOMAIN response.body /\ body[i] = response.body[i])
  BY <1>1
<1> HIDE DEF body, capacity
<1>7. capacity \in 0 .. BodySize
  BY <1>1, <1>4, <1>5
<1>8. /\ response' \in Responses /\ response'.body = body /\ response'.capacity = capacity
      /\ response'.status = response.status
  BY <1>1, <1>3, <1>6, <1>7 DEF Responses
<1>9. read_length # NoLength => capacity = response.capacity
  <2>1. read_length # NoLength =>
           announced <= response.capacity /\ announced \in Nat /\ announced # NoLength
    BY <1>1 DEF IInv, BodyOfAttempt, ClientTypeOK
  <2> QED
    BY <1>1, <1>4, <1>5, <2>1
<1>10. TypeOK'
  <2>1. cancellable' \in BOOLEAN /\ stop' \in BOOLEAN /\ aborted_by_user' \in BOOLEAN
    BY <1>1, <1>2 DEF ClientTypeOK
  <2>2. ClientTypeOK'
    BY <1>1, <1>2, <1>5, <1>6, <1>8, <2>1 DEF ClientTypeOK
  <2> QED
    BY <1>1, <1>2, <2>2 DEF TypeOK
<1>11. LongestDelay' = LongestDelay
  BY <1>2 DEF LongestDelay
<1>12. Fresh' /\ Called' /\ AttemptsLeft' /\ TimeSpent'
  BY <1>2, <1>11 DEF IInv, Fresh, Called, AttemptsLeft, TimeSpent
<1>13. BodyOfAttempt'
  BY <1>2, <1>4, <1>6, <1>8, <1>9 DEF IInv, BodyOfAttempt
<1>14. SuccessIsComplete'
  BY <1>2, <1>8 DEF IInv, SuccessIsComplete
<1>15. Late'
  BY <1>2 DEF IInv, Late, StopHonoured, StopRequested
<1>16. Bundled'
  BY <1>2 DEF IInv, Bundled
<1> QED
  BY <1>8, <1>9, <1>10, <1>12, <1>13, <1>14, <1>15, <1>16 DEF IInv

\* The end of a transfer, by itself or by a callback: it took no longer than its timeout, and
\* has a status only if it completed.
LEMMA PerformStep ==
    ASSUME IInv, NEW code \in Codes, NEW status \in Statuses, NEW d \in 0 .. handle_timeout,
           Perform(code, status, d), UNCHANGED <<kind, result>>, aborted_by_user' \in BOOLEAN,
           code = "OK" => (announced # NoLength => Len(response.body) = announced)
    PROVE  IInv'
<1>1. /\ TypeOK /\ ClientTypeOK /\ response \in Responses /\ handle_timeout = timeout
      /\ handle_timeout \in Nat /\ d \in Nat /\ attempt \in Nat /\ LongestDelay \in Nat /\ elapsed \in Nat
      /\ Len(response.body) \in Nat /\ Len(response.body) <= BodySize
      /\ elapsed <= Spent(attempt, attempt, timeout, LongestDelay)
  <2>1. /\ TypeOK /\ ClientTypeOK /\ response \in Responses /\ policy_ \in Policies
        /\ Len(response.body) <= response.capacity /\ hpc = "transfer"
    BY DEF IInv, TypeOK, ClientTypeOK, Perform
  <2>2. handle_timeout = timeout /\ elapsed <= Spent(attempt, attempt, timeout, LongestDelay)
    BY <2>1 DEF IInv, Called, TimeSpent
  <2>3. attempt \in Nat /\ LongestDelay \in Nat
    BY <2>1, PolicyCorrect DEF ClientTypeOK
  <2>4. handle_timeout \in Nat /\ elapsed \in Nat
    BY <2>1 DEF ClientTypeOK
  <2>5. Len(response.body) \in Nat /\ Len(response.body) <= BodySize
    BY <2>1, LengthsCorrect, BodyAssumption
  <2> QED
    BY <2>1, <2>2, <2>3, <2>4, <2>5
<1>2. /\ hpc = "transfer" /\ hpc' = "decide" /\ res' = code /\ elapsed' = elapsed + d
      /\ UNCHANGED <<policy_, options, handle_timeout, timeout, cancellable, stop, attempt, current_delay,
                     announced, read_length, late, kind, result>>
  BY DEF Perform, callVars
<1> DEFINE metrics == [total_duration |-> d, bytes_downloaded |-> Len(response.body)]
           outcome == IF code = "OK" THEN status ELSE 0
<1>3. response' = [response EXCEPT !.status = outcome, !.metrics = metrics]
  BY DEF Perform, StatusOf, CollectTiming
<1>4. /\ metrics \in Metrics /\ metrics.total_duration = d
      /\ metrics.bytes_downloaded = Len(response.body)
  BY <1>1, BodyAssumption DEF Metrics
<1>5. outcome \in Statuses \cup {0} /\ (outcome = 200 => code = "OK")
  OBVIOUS
<1> HIDE DEF metrics, outcome
<1>6. /\ response' \in Responses /\ response'.body = response.body /\ response'.status = outcome
      /\ response'.capacity = response.capacity /\ response'.metrics = metrics
  BY <1>1, <1>3, <1>4, <1>5 DEF Responses
<1>7. TypeOK'
  <2>1. cancellable' \in BOOLEAN /\ stop' \in BOOLEAN
    BY <1>1, <1>2 DEF ClientTypeOK
  <2>2. ClientTypeOK'
    BY <1>1, <1>2, <1>6, <2>1 DEF ClientTypeOK
  <2> QED
    BY <1>1, <1>2, <2>2 DEF TypeOK
<1>8. LongestDelay' = LongestDelay
  BY <1>2 DEF LongestDelay
<1>9. Fresh' /\ Called' /\ AttemptsLeft'
  BY <1>2, <1>8 DEF IInv, Fresh, Called, AttemptsLeft
<1>10. TimeSpent'
  <2>1. elapsed + d <= Spent(attempt + 1, attempt, timeout, LongestDelay)
    BY <1>1, SpentTransfer
  <2> QED
    BY <1>2, <1>8, <2>1 DEF TimeSpent
<1>11. BodyOfAttempt'
  BY <1>2, <1>6 DEF IInv, BodyOfAttempt
<1>12. SuccessIsComplete'
  BY <1>1, <1>2, <1>4, <1>5, <1>6 DEF SuccessIsComplete
<1>13. Late' /\ Bundled'
  BY <1>2, <1>6 DEF IInv, Late, StopHonoured, Bundled
<1> QED
  BY <1>7, <1>9, <1>10, <1>11, <1>12, <1>13 DEF IInv

LEMMA TransferStep ==
    ASSUME IInv, CallbackAborts \/ TransferEnds, UNCHANGED <<kind, result>>
    PROVE  IInv'
<1>1. CASE CallbackAborts
  <2>1. PICK code \in {"WRITE_ERROR", "ABORTED_BY_CALLBACK"}, status \in Statuses,
             d \in 0 .. handle_timeout : Perform(code, status, d)
    BY <1>1 DEF CallbackAborts
  <2>2. aborted_by_user' \in BOOLEAN /\ code \in Codes /\ code # "OK"
    BY <1>1 DEF CallbackAborts, Codes
  <2> QED
    BY <2>1, <2>2, PerformStep
<1>2. CASE TransferEnds
  <2>1. PICK code \in {"OK", "OPERATION_TIMEDOUT", "COULDNT_CONNECT", "RECV_ERROR"},
             status \in Statuses, d \in 0 .. handle_timeout :
          /\ Perform(code, status, d)
          /\ code = "OK" => (announced # NoLength => Len(response.body) = announced)
    BY <1>2 DEF TransferEnds
  <2>2. aborted_by_user' \in BOOLEAN /\ code \in Codes
    BY <1>2 DEF TransferEnds, Codes, IInv, TypeOK, ClientTypeOK
  <2> QED
    BY <2>1, <2>2, PerformStep
<1> QED
  BY <1>1, <1>2

\* The client goes to sleep only with an attempt left and without a stop request.
LEMMA DecideStep ==
    ASSUME IInv, Decide, UNCHANGED <<kind, result>>
    PROVE  IInv'
<1>1. /\ hpc = "decide" /\ hpc' \in {"returned", "sleep"}
      /\ hpc' = "sleep" => ~StopRequested /\ attempt # policy_.max_retries
      /\ UNCHANGED <<policy_, options, handle_timeout, timeout, cancellable, stop, attempt, current_delay,
                     res, aborted_by_user, announced, read_length, response, elapsed, late, kind, result>>
  BY DEF Decide, ShouldStopRetrying, Aborted, callVars
<1>2. TypeOK'
  <2>1. ClientTypeOK /\ cancellable' \in BOOLEAN /\ stop' \in BOOLEAN /\ aborted_by_user' \in BOOLEAN
    BY <1>1 DEF IInv, TypeOK, ClientTypeOK
  <2>2. ClientTypeOK'
    BY <1>1, <2>1 DEF ClientTypeOK
  <2> QED
    BY <1>1, <2>2 DEF IInv, TypeOK
<1>3. LongestDelay' = LongestDelay
  BY <1>1 DEF LongestDelay
<1>4. AttemptsLeft'
  <2>1. attempt \in 0 .. policy_.max_retries /\ policy_.max_retries \in Nat
    BY PolicyCorrect DEF IInv, TypeOK, ClientTypeOK
  <2> QED
    BY <1>1, <2>1 DEF AttemptsLeft
<1>5. Fresh' /\ Called' /\ TimeSpent'
  BY <1>1, <1>3 DEF IInv, Fresh, Called, TimeSpent
<1>6. BodyOfAttempt' /\ SuccessIsComplete'
  BY <1>1 DEF IInv, BodyOfAttempt, SuccessIsComplete
<1>7. Late' /\ Bundled'
  BY <1>1 DEF IInv, Late, StopHonoured, StopRequested, Bundled
<1> QED
  BY <1>2, <1>4, <1>5, <1>6, <1>7 DEF IInv

\* The next attempt begins with an empty response, after a sleep no longer than the longest.
LEMMA BackoffStep ==
    ASSUME IInv, Backoff, UNCHANGED <<kind, result>>
    PROVE  IInv'
<1>1. /\ TypeOK /\ ClientTypeOK /\ hpc = "sleep" /\ policy_ \in Policies /\ response \in Responses
      /\ attempt \in Nat /\ attempt < policy_.max_retries /\ policy_.max_retries \in Nat
      /\ current_delay \in Nat /\ timeout \in Nat /\ elapsed \in Nat
  <2>1. TypeOK /\ ClientTypeOK /\ hpc = "sleep" /\ policy_ \in Policies
    BY DEF IInv, TypeOK, ClientTypeOK, Backoff
  <2>2. response \in Responses /\ attempt \in 0 .. policy_.max_retries
    BY <2>1 DEF ClientTypeOK
  <2>3. current_delay \in Nat /\ timeout \in Nat /\ elapsed \in Nat
    BY <2>1 DEF ClientTypeOK
  <2>4. attempt < policy_.max_retries
    BY <2>1 DEF IInv, AttemptsLeft
  <2> QED
    BY <2>1, <2>2, <2>3, <2>4, PolicyCorrect
<1>2. /\ hpc' = "transfer" /\ announced' = NoLength /\ read_length' = NoLength
      /\ response' = Cleared
      /\ late' = (IF stop THEN late + 1 ELSE late) /\ attempt' = attempt + 1 /\ current_delay' = NextDelay
      /\ UNCHANGED <<policy_, options, handle_timeout, timeout, cancellable, stop, res, aborted_by_user,
                     kind, result>>
  BY DEF Backoff, BeginTransfer, callVars
<1>3. PICK d \in 0 .. (IF policy_.strategy = "None" THEN 0 ELSE current_delay) : elapsed' = elapsed + d
  BY DEF Backoff
<1>4. /\ LongestDelay \in Nat /\ policy_.max_delay \in Nat /\ policy_.max_delay <= LongestDelay
      /\ current_delay <= LongestDelay
  BY <1>1, PolicyCorrect DEF IInv, Called
<1>5. NextDelay \in Nat /\ NextDelay <= LongestDelay
  <2>1. CASE policy_.strategy = "Exponential"
    <3>1. current_delay * 2 \in Nat /\ current_delay * 2 \in Int /\ policy_.max_delay \in Int
      BY <1>1, <1>4
    <3>2. /\ Min({current_delay * 2, policy_.max_delay}) \in {current_delay * 2, policy_.max_delay}
          /\ Min({current_delay * 2, policy_.max_delay}) <= policy_.max_delay
      BY <3>1, MinOfTwo
    <3>3. NextDelay = Min({current_delay * 2, policy_.max_delay})
      BY <2>1 DEF NextDelay
    <3> QED
      BY <1>4, <3>1, <3>2, <3>3
  <2>2. CASE policy_.strategy # "Exponential"
    BY <1>1, <1>4, <2>2 DEF NextDelay
  <2> QED
    BY <2>1, <2>2
<1>6. /\ response' \in Responses /\ response'.status = 0 /\ response'.body = <<>>
      /\ response'.capacity \in Nat
  BY <1>1, <1>2, ClearedCorrect, LengthsCorrect
<1>7. d \in 0 .. LongestDelay
  BY <1>1, <1>3, <1>4
<1>8. TypeOK'
  <2>1. cancellable' \in BOOLEAN /\ stop' \in BOOLEAN /\ aborted_by_user' \in BOOLEAN
    BY <1>1, <1>2 DEF ClientTypeOK
  <2>2. ClientTypeOK'
    BY <1>1, <1>2, <1>3, <1>4, <1>5, <1>6, <1>7, <2>1 DEF ClientTypeOK
  <2> QED
    BY <1>1, <1>2, <2>2 DEF TypeOK
<1>9. LongestDelay' = LongestDelay
  BY <1>2 DEF LongestDelay
<1>10. Fresh' /\ Called' /\ AttemptsLeft'
  BY <1>1, <1>2, <1>5, <1>9 DEF IInv, Fresh, Called, AttemptsLeft
<1>11. TimeSpent'
  <2>1. elapsed <= Spent(attempt + 1, attempt, timeout, LongestDelay)
    BY <1>1 DEF IInv, TimeSpent
  <2>2. attempt + 1 \in Nat
    BY <1>1
  <2>3. elapsed + d <= Spent(attempt + 1, attempt + 1, timeout, LongestDelay)
    BY <1>1, <1>4, <1>7, <2>1, <2>2, SpentSleep
  <2> QED
    BY <1>2, <1>3, <1>9, <2>3 DEF TimeSpent
<1>12. BodyOfAttempt' /\ SuccessIsComplete'
  BY <1>2, <1>6 DEF BodyOfAttempt, SuccessIsComplete, NoLength
<1>13. Late'
  BY <1>1, <1>2, <1>6 DEF IInv, Late, StopHonoured, ClientTypeOK
<1>14. Bundled'
  BY <1>1, <1>2 DEF IInv, Bundled
<1> QED
  BY <1>8, <1>10, <1>11, <1>12, <1>13, <1>14 DEF IInv

\* What a request comes to, and the bundle that a success is turned into.
LEMMA FinishStep ==
    ASSUME IInv, Finish
    PROVE  /\ IInv'
           /\ result'.type \in IF kind = "playlist" THEN {"bundle", "http_error", "parse_error"}
                               ELSE {"bundle", IF stop THEN "cancelled" ELSE "http_error"}
<1>1. /\ TypeOK /\ ClientTypeOK /\ hpc = "returned" /\ response \in Responses /\ policy_ \in Policies
      /\ policy_.max_retries \in Nat
  BY PolicyCorrect DEF IInv, TypeOK, ClientTypeOK, Finish
<1>2. /\ hpc' = "idle" /\ stop' = FALSE /\ late' = 0 /\ elapsed' = 0 /\ attempt' = 0
      /\ current_delay' = 0 /\ res' = "OK" /\ aborted_by_user' = FALSE /\ announced' = NoLength
      /\ read_length' = NoLength
      /\ response' = NewResponse
      /\ UNCHANGED <<policy_, options, handle_timeout, timeout, cancellable, kind>>
  BY DEF Finish, callVars
<1>3. kind = "segment" => cancellable
  BY <1>1 DEF IInv, Called
<1>4. /\ result'.type \in {"bundle", "http_error", "parse_error", "cancelled"}
      /\ result'.type \in IF kind = "playlist" THEN {"bundle", "http_error", "parse_error"}
                          ELSE {"bundle", IF stop THEN "cancelled" ELSE "http_error"}
      /\ result'.type = "bundle" => IsSuccess /\ result' = Bundle
  <2>1. CASE FinishPlaylist
    BY <2>1 DEF FinishPlaylist, Bundle
  <2>2. CASE FinishSegment
    <3>1. CASE IsSuccess
      BY <2>2, <3>1 DEF FinishSegment, Bundle
    <3>2. CASE ~IsSuccess
      <4>1. StopRequested = stop
        BY <1>1, <1>3, <2>2 DEF FinishSegment, StopRequested, ClientTypeOK
      <4> QED
        BY <2>2, <3>2, <4>1 DEF FinishSegment
    <3> QED
      BY <3>1, <3>2
  <2> QED
    BY <2>1, <2>2 DEF Finish
<1>5. /\ NewResponse \in Responses /\ NewResponse.capacity = 0 /\ NewResponse.body = <<>>
      /\ NewResponse.status = 0
  BY BodyAssumption DEF Responses, Metrics, NewResponse, NoMetrics
<1>6. TypeOK'
  <2>1. cancellable' \in BOOLEAN /\ stop' \in BOOLEAN /\ aborted_by_user' \in BOOLEAN
    BY <1>1, <1>2 DEF ClientTypeOK
  <2>2. ClientTypeOK'
    BY <1>1, <1>2, <1>5, <2>1 DEF ClientTypeOK, Codes
  <2> QED
    BY <1>1, <1>2, <1>4, <2>2 DEF TypeOK
<1>7. Fresh' /\ Called' /\ AttemptsLeft' /\ TimeSpent'
  BY <1>2, <1>5 DEF Fresh, Called, AttemptsLeft, TimeSpent
<1>8. BodyOfAttempt' /\ SuccessIsComplete'
  BY <1>2, <1>5 DEF BodyOfAttempt, SuccessIsComplete
<1>9. Late'
  BY <1>2 DEF Late, StopHonoured
<1>10. Bundled'
  <2>1. SUFFICES ASSUME result'.type = "bundle" PROVE Bundled'
    BY DEF Bundled
  <2>2. /\ result'.raw_buffer = response.body /\ result'.metrics = response.metrics
        /\ result'.announced = announced
    BY <1>4, <2>1 DEF Bundle
  <2>3. response.body \in Seq(Nat) /\ response.metrics \in Metrics
    BY <1>1 DEF Responses
  <2>4. \A i, j \in DOMAIN response.body : response.body[i] = response.body[j]
    BY DEF IInv, BodyOfAttempt
  <2>5. /\ announced \in {NoLength, Len(response.body)}
        /\ response.metrics.bytes_downloaded = Len(response.body)
        /\ response.metrics.total_duration <= timeout
    BY <1>4, <2>1 DEF IInv, SuccessIsComplete, IsSuccess
  <2> QED
    BY <1>2, <2>2, <2>3, <2>4, <2>5 DEF Bundled
<1> QED
  BY <1>4, <1>6, <1>7, <1>8, <1>9, <1>10 DEF IInv

LEMMA NextIInv == IInv /\ [Next]_vars => IInv'
<1> SUFFICES ASSUME IInv, [Next]_vars PROVE IInv'
  OBVIOUS
<1>1. CASE DownloadPlaylist
  BY <1>1, DownloadStep, TimeoutsAssumption DEF DownloadPlaylist
<1>2. CASE DownloadSegment
  BY <1>2, DownloadStep, TimeoutsAssumption DEF DownloadSegment
<1>3. CASE Finish
  BY <1>3, FinishStep
<1>4. CASE ClientStep /\ UNCHANGED <<kind, result>>
  BY <1>4, HeadersStep, BodyChunkStep, TransferStep, DecideStep, BackoffStep DEF ClientStep
<1>5. CASE (RequestStop \/ SetRetryPolicy \/ SetNetworkConfig) /\ UNCHANGED <<kind, result>>
  BY <1>5, RequestStopStep, SettingStep
<1>6. CASE UNCHANGED vars
  BY <1>6 DEF vars, clientVars, callVars, IInv, TypeOK, ClientTypeOK, Fresh, Called, AttemptsLeft, TimeSpent,
              LongestDelay, BodyOfAttempt, SuccessIsComplete, Late, StopHonoured, Bundled
<1> QED
  BY <1>1, <1>2, <1>3, <1>4, <1>5, <1>6 DEF Next

LEMMA Invariance == Spec => []IInv
  BY InitIInv, NextIInv, PTL DEF Spec

-----------------------------------------------------------------------------
\* The fields of the client keep their types, however calls, retries and settings follow.
THEOREM TypeCorrect == Spec => []TypeOK
  BY Invariance, PTL DEF IInv

\* A bundle is the body of one attempt, complete where its length was announced, with the
\* measurement of the transfer that brought it: whatever attempts failed before.
THEOREM BundlesAreOfOneTransfer == Spec => []BundleOfOneTransfer
<1>1. ASSUME IInv PROVE BundleOfOneTransfer
  <2>1. BundleIsWhole
    BY <1>1 DEF IInv, Bundled, BundleIsWhole
  <2>2. ThroughputOfTransfer
    <3> DEFINE bytes == Len(result.raw_buffer)
    <3>1. SUFFICES ASSUME result.type = "bundle"
                   PROVE  /\ result.metrics.bytes_downloaded = bytes
                          /\ result.metrics.total_duration > 0 =>
                                Throughput(result.metrics) >= bytes \div timeout
      BY DEF ThroughputOfTransfer
    <3>2. /\ result.metrics.bytes_downloaded = bytes /\ bytes \in Nat
          /\ result.metrics.total_duration \in Nat /\ result.metrics.total_duration <= timeout
          /\ timeout \in Nat
      BY <1>1, <3>1 DEF IInv, Bundled, TypeOK, ClientTypeOK, Metrics
    <3> HIDE DEF bytes
    <3>3. ASSUME result.metrics.total_duration > 0
          PROVE  Throughput(result.metrics) >= bytes \div timeout
      <4>1. bytes \div result.metrics.total_duration >= bytes \div timeout
        BY <3>2, <3>3, QuotientAntitone
      <4>2. CASE bytes = 0
        <5>1. Throughput(result.metrics) = 0
          BY <3>2, <4>2 DEF Throughput
        <5>2. bytes \div timeout = 0
          BY <3>2, <3>3, <4>2
        <5> QED
          BY <5>1, <5>2
      <4>3. CASE bytes # 0
        <5>1. Throughput(result.metrics) = bytes \div result.metrics.total_duration
          BY <3>2, <3>3, <4>3 DEF Throughput
        <5> QED
          BY <4>1, <5>1
      <4> QED
        BY <4>2, <4>3
    <3> QED
      BY <3>2, <3>3
  <2> QED
    BY <2>1, <2>2 DEF BundleOfOneTransfer
<1> QED
  BY <1>1, Invariance, PTL

\* After a stop request a segment's download begins one transfer at most, which brings nothing.
THEOREM StopIsHonoured == Spec => []StopHonoured
<1>1. IInv => StopHonoured
  BY DEF IInv, Late
<1> QED
  BY <1>1, Invariance, PTL

\* A call ends within the timeouts of its attempts and the sleeps between them.
THEOREM CallsAreBounded == Spec => []CallBounded
<1>1. ASSUME IInv PROVE CallBounded
  <2>1. /\ policy_ \in Policies /\ attempt \in 0 .. policy_.max_retries /\ timeout \in Nat
        /\ hpc \in {"idle", "transfer", "decide", "sleep", "returned"} /\ elapsed \in Nat
    BY <1>1 DEF IInv, TypeOK, ClientTypeOK
  <2>2. policy_.max_retries \in Nat /\ LongestDelay \in Nat /\ attempt \in Nat /\ attempt <= policy_.max_retries
    BY <2>1, PolicyCorrect
  <2> DEFINE limit == Spent(policy_.max_retries + 1, policy_.max_retries, timeout, LongestDelay)
  <2>3. /\ limit \in Nat
        /\ Spent(attempt, attempt, timeout, LongestDelay) \in Nat
        /\ Spent(attempt, attempt, timeout, LongestDelay) <= limit
        /\ Spent(attempt + 1, attempt, timeout, LongestDelay) \in Nat
        /\ Spent(attempt + 1, attempt, timeout, LongestDelay) <= limit
    BY <2>1, <2>2, SpentBounded
  <2> HIDE DEF limit
  <2>4. elapsed <= limit
    BY <1>1, <2>1, <2>3 DEF IInv, Fresh, TimeSpent
  <2> QED
    BY <2>4 DEF CallBounded, limit, Spent, LongestDelay
<1> QED
  BY <1>1, Invariance, PTL

\* A body whose length the client read in the headers is never moved while it grows.
THEOREM NeverReallocates == Spec => NoReallocation
<1> DEFINE A == read_length # NoLength /\ Len(response'.body) > Len(response.body) =>
                    response'.capacity = response.capacity
<1>1. ASSUME IInv, [Next]_vars PROVE A
  <2>1. CASE BodyChunk /\ UNCHANGED <<kind, result>>
    BY <1>1, <2>1, BodyChunkStep
  <2>2. ASSUME \/ response'.body = response.body \/ response'.body = <<>>
        PROVE  A
    <3>1. Len(response.body) \in Nat
      BY <1>1, LengthsCorrect DEF IInv, TypeOK, ClientTypeOK
    <3> QED
      BY <2>2, <3>1
  <2>3. response \in Responses
    BY <1>1 DEF IInv, TypeOK, ClientTypeOK
  <2>4. CASE \/ DownloadPlaylist \/ DownloadSegment \/ Backoff \/ Finish
    <3>1. response' \in {Cleared, NewResponse}
      BY <2>4 DEF DownloadPlaylist, DownloadSegment, Download, Backoff, BeginTransfer, Finish
    <3>2. response'.body = <<>>
      BY <2>3, <3>1, ClearedCorrect DEF NewResponse
    <3> QED
      BY <2>2, <3>2
  <2>5. CASE CallbackAborts \/ TransferEnds
    <3>1. PICK code \in Codes, status \in Statuses, d \in Nat \cup 0 .. handle_timeout : Perform(code, status, d)
      BY <2>5 DEF CallbackAborts, TransferEnds, Codes
    <3>2. response'.body = response.body
      BY <2>3, <3>1 DEF Perform, Responses
    <3> QED
      BY <2>2, <3>2
  <2>6. CASE \E n \in {NoLength} \cup 0 .. BodySize : Headers(n)
    <3>1. response'.body = response.body
      BY <2>3, <2>6 DEF Headers, Responses
    <3> QED
      BY <2>2, <3>1
  <2>7. CASE Decide \/ RequestStop \/ SetRetryPolicy \/ SetNetworkConfig \/ UNCHANGED vars
    <3>1. response' = response
      BY <2>7 DEF Decide, RequestStop, SetRetryPolicy, SetNetworkConfig, vars, clientVars
    <3> QED
      BY <2>2, <3>1
  <2> QED
    BY <1>1, <2>1, <2>4, <2>5, <2>6, <2>7 DEF Next, ClientStep
<1> QED
  BY <1>1, Invariance, PTL DEF Spec, NoReallocation

-----------------------------------------------------------------------------
\* The refinement of Downloads

LEMMA InitPromised == Init => Promised!Init
  BY DEF Init, ClientInit, NoResult, Promised!Init

LEMMA NextPromised == IInv /\ [Next]_vars => [Promised!Next]_(Promised!vars)
<1> SUFFICES ASSUME IInv, [Next]_vars PROVE [Promised!Next]_(Promised!vars)
  OBVIOUS
<1>1. CASE DownloadPlaylist \/ DownloadSegment
  <2>1. hpc = "idle" /\ hpc' = "transfer" /\ stop' = stop /\ result'.type = "none" /\ kind' \in {"playlist", "segment"}
    BY <1>1 DEF DownloadPlaylist, DownloadSegment, Download, BeginTransfer, NoResult
  <2>2. Promised!Request(kind')
    BY <2>1 DEF Promised!Request
  <2> QED
    BY <2>1, <2>2 DEF Promised!Next
<1>2. CASE Finish
  <2>1. /\ hpc = "returned" /\ hpc' = "idle" /\ stop' = FALSE /\ kind \in {"playlist", "segment"}
    BY <1>2 DEF Finish, IInv, TypeOK
  <2>2. result'.type \in IF kind = "playlist" THEN {"bundle", "http_error", "parse_error"}
                         ELSE {"bundle", IF stop THEN "cancelled" ELSE "http_error"}
    BY <1>2, FinishStep
  <2>3. result'.type = "bundle" => result'.announced \in {NoLength, Len(result'.raw_buffer)}
    BY <1>2, FinishStep DEF IInv, Bundled
  <2>4. Promised!Answer
    BY <2>1, <2>2, <2>3 DEF Promised!Answer, Promised!Answers
  <2> QED
    BY <2>4 DEF Promised!Next
<1>3. CASE RequestStop /\ UNCHANGED <<kind, result>>
  <2>1. Promised!Stop
    BY <1>3 DEF RequestStop, Promised!Stop
  <2> QED
    BY <2>1 DEF Promised!Next
<1>4. CASE (ClientStep \/ SetRetryPolicy \/ SetNetworkConfig) /\ UNCHANGED <<kind, result>>
  <2>1. (hpc' = "idle" <=> hpc = "idle") /\ stop' = stop
    BY <1>4 DEF ClientStep, Headers, BodyChunk, CallbackAborts, TransferEnds, Perform, Decide, Backoff,
                BeginTransfer, SetRetryPolicy, SetNetworkConfig
  <2> QED
    BY <1>4, <2>1 DEF Promised!vars
<1>5. CASE UNCHANGED vars
  BY <1>5 DEF vars, clientVars, Promised!vars
<1> QED
  BY <1>1, <1>2, <1>3, <1>4, <1>5 DEF Next

\* Every request comes to at most one answer, of a kind that fits what was asked and whether it
\* was stopped, and no body is cut short: the component is a Downloads, whatever the attempts of
\* its client do.  (That an answer comes at all is the liveness half of ImplementsDownloads.)
THEOREM PromiseKept == Spec => Promised!Spec
<1>1. Spec => [][Promised!Next]_(Promised!vars)
  BY NextPromised, Invariance, PTL DEF Spec
<1> QED
  BY <1>1, InitPromised, PTL DEF Spec, Promised!Spec
=============================================================================
