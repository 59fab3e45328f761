# A verification project for VSMN-Player

VSMN-Player is an IPTV player core in C++20: a background thread downloads HLS
playlists and MPEG-TS segments over libcurl, an adaptive-bitrate manager picks
the variant, a queue carries the segments to a thread that demuxes and decodes
them with FFmpeg. This directory holds TLA+ models of it, their TLC
configurations and theorems checked by TLAPS. Paths below are relative to the
repository root as laid out under `src/`.

## 1. The system

| Component | State | Operations | Interacts with |
|---|---|---|---|
| `ConcurrentQueue<T>` (`include/iptv/concurrency`) | a `std::queue`, one mutex, one `condition_variable_any` | `push`, `pop(stop_token)`, `try_pop`, `clear`, `size`, `empty` | download thread (push, clear), owner (clear), demuxer thread (pop) |
| `AbrManager` (`src/abr`) | smoothed throughput, upgrade count, current index | `selectVariant` | called by the download thread with the variants of the master playlist |
| `PlaybackOrchestrator` (`src/player`) | the queue, an AbrManager, a NetworkComponent, one `jthread`; per session a `PlaybackContext` | `start`, `stop`, and `downloadLoop` on the thread | NetworkComponent (calls), queue (shared), owner (stop token, join) |
| `NetworkComponent` (`src/network`) | an HTTP client | `downloadPlaylist`, `downloadSegment` | HttpClient, M3U8 parser |
| `HttpClient` (`src/network`) | a curl handle with its options, a retry policy | `download`, `setRetryPolicy`, `setNetworkConfig` | libcurl through callbacks, stop token of the caller |
| M3U8 parser (`src/manifest`) | builders for the segment and the variant being read | `M3u8Parser::parse` | NetworkComponent |
| URL resolver (`src/player/internal`) | none | `resolveUrl` | PlaybackOrchestrator |
| `TsDemuxer` (`src/demux`) | none between calls | `demux` | libavformat, consumer thread of `main` |
| `FFmpegDecoder`, `FFmpegAudioDecoder` (`src/decoder`) | codec context, packet, frame, scaler or resampler, next pts | `decode`, `flush`, `getCodecInfo` | libavcodec, consumer thread of `main` |
| `PtsFrameBuffer` (`src/renderer`) | a heap, a sequence counter, an abort flag, one mutex, two condition variables | `push`, `pop`, `abort` | meant for decoder and renderer threads; not used elsewhere yet |
| Command line player (`src/main.cpp`) | stop flag, counters, all of the above | `main`, signal handler, consumer thread | everything |

What is hard to get right, and to test, in each (`PROJECT.json` has the list with lines):

* queue: the stop token fires between the test and the park of a consumer, or
  after its wakeup; a notification goes to a consumer that is being cancelled;
  the queue is emptied between a wakeup and the return of `pop`;
* AbrManager: one object over many sessions, whose lists of variants differ; the
  hysteresis over long mixed sequences of measurements;
* orchestrator: `stop()` against transfer, push and switch; a switch against
  what waits in the queue; reloads of a live playlist; what a second session
  inherits; two hops of relative addresses, against a playlist that a switch
  may have changed;
* HTTP: attempts, timeouts and sleeps adding up; a stop during any of them; a
  body that broke off; options that stay on the handle; lengths announced by
  redirects; which transfer the throughput is measured on;
* demuxer: six calls that may fail, each with other objects to release; indices
  of streams handed out through pointers; packets without a time;
* frame buffer: two condition variables and notifications after the unlock;
  timestamps that wrap, or jump, under a heap that needs a transitive comparator;
* parser: tags missing, repeated or in another order than usual, while two
  builders are open; tags that share a prefix; numbers that cannot be read;
* decoders: input that is refused, damaged or not presentable in the middle of
  a stream, exceptions that leave frames in the codec, any order of calls;
* player application: the order of destruction against two threads, a counter
  that is not reset with every pass, a shutdown that meets a parked consumer.

## 2. The modules

| Module | Models | Kind |
|---|---|---|
| `BlockingFifo` | what the queue promises: no mutex, no wakeups | abstract specification |
| `ConcurrentQueue` | the queue, its mutex, waits, stop callbacks, spurious wakeups | component |
| `ConcurrentQueue_proofs` | theorems about it | proofs |
| `AbrManager` | the three state variables and `selectVariant` | library of a component |
| `AbrSession` | an AbrManager under arbitrary callers | component |
| `AbrSession_proofs` | theorems about it | proofs |
| `SegmentFeed` | what the demuxer thread may rely on | abstract specification |
| `UrlResolver` | `resolveUrl`, and the reference for what a uri designates | library of a component |
| `PlaybackOrchestrator` | `start`, `stop`, the download thread, the queue, the consumer; contains an `AbrManager`, resolves with `UrlResolver` | composition |
| `PlaybackOrchestrator_proofs` | theorems about it | proofs |
| `HttpClient` | `download` with retries, timeouts, callbacks, redirects, cancellation, metrics | component |
| `Downloads` | what the network promises the download thread | abstract specification |
| `NetworkComponent` | the two downloads on top of the client; extends `HttpClient` | composition |
| `NetworkComponent_proofs` | theorems about both | proofs |
| `PresentationBuffer` | what the frame buffer promises | abstract specification |
| `PtsFrameBuffer` | the heap, the mutex, the two condition variables | component |
| `PtsFrameBuffer_proofs` | theorems about it | proofs |
| `M3u8Parser` | one pass over the lines of a playlist | component |
| `M3u8Parser_proofs` | theorems about it | proofs |
| `Decoder` | what the two decoders share: libavcodec as they see it, the end of an operation | library of two components |
| `FFmpegDecoder`, `FFmpegAudioDecoder` | `decode`, `flush` and their loops; extend `Decoder` | components |
| `TsDemuxer` | `demux` with the objects of libavformat it owns | component |
| `MediaDecoders` | one decoder, or the demuxer, under an arbitrary client | composition |
| `MediaDecoders_proofs` | theorems about the demuxer and the decoders | proofs |
| `PlayerApp` | `main`, the signal, the consumer thread, the life of the objects | composition |
| `PlayerApp_proofs` | theorems about it | proofs |
| `MC_*` | the constants of the instances | model checking |

Definitions called `X_Something` next to a definition `X` are deviations: what
`X` would be with a plausible mistake. They take part in no specification; they
show, at least one for each property or part of one, that it depends on the code
being right.

### ConcurrentQueue

Every method holds the mutex from its first statement to its return, so `push`,
`try_pop` and `clear` are one step. `pop` gives the mutex up inside
`cv_.wait` and is cut there: `PopEnter` (lock, test, park), `Resume` (wake up,
lock, test again), `PopReturn` (line 61 to the end; the consumer is in
`holding` and owns the mutex). `request_stop()` takes no lock of the queue, so
`RequestStop` (the flag) and `RunCallbacks` (the `notify_all` that
`condition_variable_any` registers on the token) happen anywhere, also between
the test of the wait and line 61. Items are numbers in the order they are
pushed; `pushed` and `left` are history variables. `size` and `empty` only
read. The park is atomic with the test: the standard requires it of
`condition_variable_any`.

### AbrManager, AbrSession

Bandwidths and throughputs are integers of one unit; the code divides by 10^6
and computes in `double`. The moving average is rounded up, so that it is zero
exactly where the code's is, which matters because zero stands for "not
initialised" at line 15. Instances keep their measurements away from the 80%
thresholds, where a rounding would decide. `FittingPrefix` and `IdealIndex` are
the loop with its `break`; the theorems hold on unsorted lists too, the run has
the sorted lists that the parser makes. `AbrSession` lets
every call pass another list of variants, because the object lives as long as
the player and each `start()` brings another master playlist; `Settle` freezes
the network for the liveness property.

### PlaybackOrchestrator

`Call` is the entry of `start(url)`, `stop()` or the destructor, up to the join;
`Return` is the rest. The download thread is cut at every point where another
thread can see or change something: the loop condition (line 87), each playlist
transfer, the head of the loop over segments (lines 111-118), the segment
transfer with the push (120-130), and `evaluateAbrSwitch` with what follows from
it (132-156 and 97). The queue is a sequence: `ConcurrentQueue` is what
justifies that. `Pop` and `Decode` are the demuxer thread. A stop reaches a
transfer only as "it may now fail"; it may also come too late and the segment is
pushed. Sequence numbers wrap at `SeqMod` as `uint64_t` does at 2^64.

A url is the sequence of its pieces between slashes: the resolver looks for
slashes and for `://`. `UrlResolver` has its four functions. `HostPiece` is the
`find` of line 21, which takes the first `://` of any scheme wherever it stands,
and which without one begins at the third character, `npos + 3`. Beside them
stands a reference of its own, `Designated`: what a uri means in a playlist at
an absolute url, by the generic syntax. It shares no helper with the resolver
that says where a host or a directory ends: the host is the third piece, and
the directory is that of the path, which ends before the query and is `/` for a
mere host. The orchestrator resolves twice, variants against the master
(`VariantUri`) and segments against the variant (`SegmentAddress`), and
`FetchedAsWritten` states for both, in both directions, when the address is the
designated one (`Right`): for a url of `http` or `https`, for a path on the same
host, and for a path-relative uri if the url of the playlist has a path and no
slash in its query. It never is for a url of another scheme (or of one in
capitals), for `//host/path`, and for the other path-relative uris. The property
says nothing where the playlist is not at an absolute url, as when `start` is
given a text without a scheme, and a reference that is only a query or a
fragment is not among the uris. The `AbrManager` is part of the state of the
orchestrator and outlives its sessions.

### HttpClient, NetworkComponent

`Download`, `Decide` and `Backoff` are the loop of `HttpClient::download`;
`BodyChunk` and `CallbackAborts` are libcurl's calls into the client,
`TransferEnds` its return. A chunk of a body is the number of the attempt that
brought it. A status is one of each class the code tells apart, and a curl code
likewise: a name that does not resolve behaves as a refused connection.
`elapsed` and `late` are history variables: time since the call, and transfers
begun after the stop. `CURLOPT_TIMEOUT_MS` is state of the handle, as in the
code. Leaving the token out, as `downloadPlaylist` does, is `cancellable =
FALSE`. `Finish` is the rest of the two functions of NetworkComponent, and
forgets what was local to the call.

`Headers` is the header callback at the end of a header block: a redirect that
is followed has a block of its own, so the length announced last counts.
`announced` is what curl goes by; `read_length` is what the client made of it,
because it reads only a line that begins with `Content-Length:` or
`content-length:` and has a number behind it (lines 57 and 46 of
`transfer_callbacks.cpp`), and reserves memory for that one alone, the greatest
so far (`capacity`). `NoReallocation` is about `read_length`: with any other
spelling the body does move while it grows. A body without a length
ends where the connection does, complete or not: curl cannot tell, so
`BundleIsWhole` asks for the whole body only where a length was announced.
`SetNetworkConfig` sets the options that change what a transfer does: the limit
of the connection phase, the low-speed limit, following redirects; the two
limits are why a timeout may come before that of the handle (`TimedOutAt`).
Moving the client hands its `Impl` over with all of this; nothing uses the
moved-from client. `Downloads` forgets attempts and time: a request comes to one
answer, of a kind that fits what was asked and whether it was stopped.

### PtsFrameBuffer

What `push` and `pop` do from the return of the wait to the unlock is one step;
parking, waking and the `notify_one` after the unlock (line 21, line 42) are
steps of their own. The heap is a set with the comparator as its order: `Front`
is what `pop_heap` may bring to the back, any frame at all if the comparator
does not order the contents, and from then on until the heap is empty, because
such a heap may be in disorder (`disturbed`). `PresentationBuffer` promises an
order only for frames that lie together, less than `Span` apart. A timestamp is the presentation time modulo
`Period`; `WrapThreshold` is half of it, as in the header.

### M3u8Parser

A line is its tag and its value; a value that `std::from_chars` refuses is
`Malformed`, and what the code does with it (refuse, ignore) is modelled for
each tag. `DispatchTag` has the order of the table of prefixes in it: only
`DISCONTINUITY` is a prefix of a tag in use that the table does not know.
`segment_builder`, `variant_builder` and `playlist` are the objects of
`parseLines`; `lines` is a history variable, from which `AsWritten` reads the
playlist a second time, as its text suggests: what stands between two uris
describes the second. The operators of that reading take a text, so that the
proofs can compare a text with one that is a line longer. `Sorted` has every
sorted permutation, because `std::sort` is not stable. A duration is a number
that is only handed on.

### Decoder, FFmpegDecoder, FFmpegAudioDecoder, MediaDecoders

The codec is a queue of pictures in output order that holds back up to `Delay`
of them; a picture is its place in `taken`, good, damaged (refused when it comes
out) or unpresentable (refused by `extractDecodedFrame` or the resampler). A
packet may hold none or several. `Decode` (or `DecodeRejected`) and `Flush` go
up to the packet being sent; each turn of the loop over
`avcodec_receive_frame` is a step. No other thread is involved; the cut is there
because every turn may end the operation, by a return or by an exception that
drops the local vector `frames`. Calling into a null codec context, which
`flush` and `getCodecInfo` do on a decoder without a hint before its first
packet, ends the behaviour with `result = "undefined"`. `taken`, `returned` and
`harm` are history variables. A damaged picture ends the loop: after a `decode`
the codec still has what is behind it and the next operation asks for it, after
a `flush` nothing does, because `end_of_stream` is set before the loop begins.
`LostOnlyBehindDamage` says that this is the only way to lose a good picture
without an exception: `StillAsked` is whether an operation will still ask the
codec, `BehindDamage` that the picture that left it last was damaged. The order
of output of the codec (reordering) and
the contents of a frame are left out, and failed allocations.

### TsDemuxer

Each statement of `demux` that acquires an object or may fail is a step; a
failure leaves the scope and the destructors run one by one (`Release`). `live`
has the objects on the heap and `owned` the `unique_ptr`s that are not null, in
the order of construction, so that a double free, a release in the wrong order
or a leak is visible. Two kinds of objects have no owner (`Unowned`): the 32 KiB
buffer of the AVIO context, and the PID filters that the MPEG-TS demuxer of
libavformat makes when it opens the input and that only `avformat_close_input`
would free. `ReleasesWhatItOwns` says that the rest is released in order, and
that these two are left by every call that returns packets: see the
observations. Payloads are left out; a packet is its
stream and its time, in the units of the segment and then in microseconds.
`PlayerApp` has of `demux` only how it ends. In `MediaDecoders` the demuxer and
the decoders do not meet: `main` calls them one after the other and they share
no state.

### PlayerApp

`main` is cut at every statement that another thread can notice, and its
destructors are steps, in the order in which the language runs them: the
consumer thread (request, then join), the decoders, the demuxer, the
orchestrator, the moved-from client. The download thread is the part of
`PlaybackOrchestrator` that matters here: it pushes and it ends. A segment is
the number of frames in it and the function that throws on it; an exception
that leaves a thread ends the process. `decoded`, `unreported`, `counted` and
`recounted` are history variables: `recounted` grows with each pass by the
frames of the interval that an earlier pass had added to the total already. That
one second has gone by is a choice of `Count`. `CountsAsPrinted` says what the
printed numbers are, not that they are right: the total is the number of frames
decoded plus `recounted`. `main` prints it once more (line 170) before it joins
the consumer, which may be adding to it; this data race is not in the model, as
nothing depends on the value read, so the line may in addition be one or more
passes behind.

## 3. The runs

| Run | Module, configuration | Shows |
|---|---|---|
| `queue_shared` | `MC_ConcurrentQueue`, `ConcurrentQueue_shared.cfg` | with one stop source for all consumers: `FifoExact` (nothing lost, repeated, reordered; a cancelled `pop` leaves its item), `FrontDefined`, `NoMissedWakeup`, `StopUnblocks`, `ImplementsFifo` with its service guarantee |
| `queue_missed` | `ConcurrentQueue_missed.cfg` | *violation*: with a token per consumer a notification dies with the consumer that is stopped |
| `abr` | `MC_AbrSession`, `AbrSession.cfg` | `IndexInRange`, `Affordable`, `NoAccordion`, `Converges` |
| `orchestrator` | `MC_PlaybackOrchestrator`, `Orchestrator.cfg` | `VariantsAgree` (`QueueOfCurrentVariant` and `UriIsSelected`), `StopEmpties`, `FetchedAsWritten`, `ImplementsFeed`, `CallReturns` |
| `orchestrator_vod` | `Orchestrator_vod.cfg` | *violation*: a switch ends a video on demand |
| `network` | `MC_NetworkComponent`, `Network.cfg` | `BundleOfOneTransfer` (`BundleIsWhole` and `ThroughputOfTransfer`), `StopHonoured`, `CallBounded`, `NoReallocation`, `ImplementsDownloads` with its promise that every request is answered |
| `frame_buffer` | `MC_PtsFrameBuffer`, `PtsFrameBuffer.cfg` | `NoMissedWakeup`, `AbortUnblocks`, `ImplementsBuffer` |
| `manifest` | `MC_M3u8Parser`, `M3u8Parser.cfg` | `AsWritten`, `RefusedExactly`, `AsPlayerExpects` (the numbers and the order on which orchestrator and AbrManager rely) |
| `manifest_jumps` | `M3u8Parser_jumps.cfg` | *violation*: `#EXT-X-DISCONTINUITY-SEQUENCE` marks a segment as a jump |
| `decoders` | `MC_MediaDecoders`, `MediaDecoders.cfg` | `NothingLost`, `FramesOrdered`, `LostOnlyBehindDamage`; `ReleasesWhatItOwns`, `ReturnsThisSegment` (`IndicesOfThisCall` and `PacketsAsRead`) |
| `player` | `MC_PlayerApp`, `PlayerApp.cfg` | `AliveWhenUsed`, `CountsAsPrinted`, `ShutdownCompletes` |
| `player_curl` | `PlayerApp_curl.cfg` | *violation*: curl is shut down while an `HttpClient` exists |

The four violations are disagreements between the code and what its comments or
documents say; `PROJECT.json` quotes both sides. `orchestrator_vod` is a defect:
line 97 of `playback_orchestrator.cpp` leaves the loop although
`downloadSegments` asked to go on. The counterexample is short: master playlist,
three segments, the first one measured fast enough for the other variant, and
the session is over. `manifest_jumps` is one as well: the tag with the longer
name belongs to the head of live playlists. `player_curl` is an order
of two statements that the header excludes: `shutdown()` is the last one of
`main`, and the destructors run after it.

Other observations made while modelling, without a run of their own:

* a second session goes on from the throughput and the index of the first, so it
  need not begin on the first variant as the comment at lines 38-39 says;
* a segment that was popped before a switch is decoded after it, which the
  comment at lines 142-143 excludes (the queue itself is emptied,
  `QueueOfCurrentVariant`), and the segments dropped by a switch are not fetched
  again from the new variant;
* `downloadPlaylist` passes no stop token, so a stop waits for the playlist
  transfer and all its retries (`CallBounded` bounds them);
* the `timeout` of a download holds for each attempt, not for the request, and
  the first delay of an exponential policy is not compared with `max_delay`;
* a url of a media playlist ends the session silently although `start` is
  documented to take one; a live playlist is reloaded at once, without waiting;
* `total_decoded_frames`, which lines 150 and 170 of `main.cpp` print as
  "Decoded" and "Total decoded frames", is not that number: a pass that does not
  report leaves its frames in the interval, and line 135 adds them again in the
  next one. With three passes of ten frames within a second the total is 60.
  `CountsAsPrinted` states the excess. Line 170 reads it while the consumer may
  write it, a data race;
* `kMaxQueueSize` is not used;
* `flush` of the video decoder stops at a damaged picture, with `end_of_stream`
  set, and the good pictures behind it never come out, although
  `ffmpeg_decoder.hpp` (lines 61-63) says that it drains what the codec held and
  the comment in the loop (line 140 of the source) counts on later packets.
  `LostOnlyBehindDamage` allows for exactly this;
* an exception of a decoder, or of the demuxer, ends the player; after an
  exception in the middle of a packet the codec keeps frames, and may refuse the
  next packet, which is an exception again;
* an audio packet without bytes ends the stream for libavcodec, and what it says
  to later packets is not looked at; the video decoder throws `logic_error`
  after its end instead;
* `demux` leaks on every call that got as far as the AVIO context: its buffer of
  32 KiB, which `avio_context_free` does not free, and, once the input is open,
  what the MPEG-TS demuxer holds, because the deleter calls
  `avformat_free_context` where libavformat asks for `avformat_close_input`. The
  README of the repository (line 53) says that leaks are blocked.
  `ReleasesWhatItOwns` states both leaks;
* the resolver takes a slash in a query for one of the path, a mere host for a
  file, `//host/path` for a path, and a url of any scheme but `http://` and
  `https://`, in small letters, for a relative one; a root-relative uri goes to
  the host of the base whatever the scheme of the base is; playlists reached
  through a redirect are resolved against the url that was asked for;
* memory is reserved for `Content-Length:` and `content-length:` only, though
  header names are the same in any case, so a server that writes another
  spelling gets a body that moves while it grows, which `docs/network.md` means
  to avoid;
* the demuxer converts times to microseconds, while the wrap of the frame
  buffer's comparator is that of the 33-bit clock of MPEG-TS: the two are not
  in one unit, and whoever connects them has to convert;
* the queue has no limit although `docs/playback_orchestrator.md` speaks of a
  high watermark;
* `NetworkConfig::timeout` is not used by `setNetworkConfig`, although `main`
  sets it to keep transfers from stalling; the `timeout` of `download` and the
  low-speed limit do.

### Bounds

* Queue: three consumers (a notification can go to the right one, to a wrong one
  and leave a third asleep), three items. The theorems lift both bounds.
* ABR: four lists (a ladder, a shorter one, a single variant, equal bandwidths),
  four measurements including 0. Values of the average are bounded by the
  measurements, so the state space is finite without a further bound.
* Orchestrator: two sessions, three urls (two variants in another directory; one
  variant, named by a mere host; a media playlist), a variant with a slash in its
  query, uris of each form, playlists that are empty, grow, leave a gap, are
  renumbered half way (3, 1, 4) or end, two throughputs. The segments are next to
  the playlist, at a path of its host, at urls of a scheme that the resolver
  knows and of one that it does not, and at a `//host/path`. With five sequence numbers a session can jump up on the first
  measurement, come down at once and go up again after three favorable
  segments. `SeqMod` 8 keeps the numbers of the instance below the wrap.
* Parser: five lines after the header hold two variants or two segments with
  their tags, or one and an error; sequence numbers from 7 with `SeqMod` 8 cross
  the wrap. The parser stops at the end or at an error, so these two runs do not
  look for deadlocks.
* Network: bodies of two chunks (so that a body can break off in the middle),
  lengths announced of none to two or not at all, repeatedly when redirects are
  followed, one policy of each strategy with up to two retries, delays up to 2
  and timeouts of 1 and 2 units, limits for connecting and stalls of 1.
* Decoders: a codec that holds two pictures back, packets with up to two
  pictures of every kind, four pictures in all: a damaged picture can stand
  before, between and behind good ones, and a `flush` can meet it with a good
  one behind it. For the
  demuxer four segments: with two streams of a kind, with one kind only, with
  none, and with packets that have no time or times next to each other.
* Player: three segments out of five, so that a segment can decode, throw or
  be pushed during the shutdown. Both runs can stop: the player exits, and an
  undefined result has no continuation; deadlocks are therefore not looked for.
  In the first, `ShutdownCompletes` says that nothing else stops it.
* Frame buffer: two producers, two consumers, three places, eight frames with
  reordered and equal times around a wrap at 16, and a jump after which the
  comparator goes in a circle.

### Fairness

* Queue and frame buffer: weak fairness of the steps of a thread that has been
  notified or is inside the critical section (the operating system schedules
  it and the mutex becomes free), and of `request_stop()` running to its end.
  None for callers.
* ABR: the caller goes on calling, which the download loop does after every
  segment.
* Orchestrator: weak fairness of the download thread and of a call that can
  return. That transfers end is justified by `ImplementsDownloads`. None for the
  demuxer thread or the owner.
* Network: curl ends a transfer (the handle has a timeout and a low-speed
  limit), a sleep ends, the calling thread goes on.
* Player: `main` and the consumer thread run on, and the download thread ends
  once its stop is requested, which `CallReturns` and `ImplementsDownloads` justify. None
  for the signal or the network.

## 4. The proofs

TLAPS checks the following for every value of the constants, from the
assumptions named in the modules (the `ASSUME`s, all about the type of the
constants, except where a paragraph says more). Each module proves one inductive
invariant `IInv`, with a lemma per action, and derives its theorems from it.

**`ConcurrentQueue_proofs`**: `TypeCorrect`, `NothingLost` (`FifoExact`),
`FrontNeverUndefined` (`FrontDefined`) and `ImplementsFifoSafety` (the safety
part of the refinement), for any number of consumers, tokens and items.
`FrontDefined` is not inductive: that an item is still there when a consumer
reaches `front()` rests on the mutex, so the invariant is strengthened with
`Exclusive` (at most one consumer past its wait) and every step of another
thread is shown to need `MutexFree`. `SharedSourceNoMissedWakeup` proves the
run `queue_shared` in general: if all consumers share a stop source and are
finitely many, an item is never left to a sleeping consumer. The argument
counts: a push adds one item and wakes one consumer; a consumer leaves the
awake ones only with an item, or with the queue empty, or because of the stop
that concerns all. Without the shared source it is false (`queue_missed`).
`StopNeverMissed` and `StopLeadsOut` are what `StopUnblocks` rests on besides
fairness, with any tokens: a stopped consumer that sleeps has the callbacks of its
stop ahead of it, and it never goes back to sleep.

**`AbrSession_proofs`**: `TypeCorrect`, `IndexAlwaysInRange`, `AlwaysAffordable`, `NeverAccordion`, for every list,
measurement and alpha. The inductive invariant ties the count of favorable
measurements to the calls since the index last moved, which is what
`NoAccordion` speaks of; the lemmas about `IdealIndex` rest on the existence of
a greatest element of a bounded set of naturals, proved from the
well-foundedness of the natural numbers. `ThroughputApproaches` and
`SettledForGood` are the two ends of `Converges`: every call moves the throughput
towards the measurement and never past it, and the choice that the measurement
calls for is final once it is reached. That it is reached depends on the rounding:
an integer average that is rounded up may stop a few units above the measurement,
where that of the code goes on towards it, so `Converges` is checked on the
instance, whose measurements are too far from the thresholds for that to matter.

**`PlaybackOrchestrator_proofs`**: `TypeCorrect`, `VariantsAlwaysAgree`,
`StopAlwaysEmpties`, `AlwaysFetchedAsWritten`, for every set of urls, every
playlist behind them and any number of sessions.
* `VariantsAgree` compares the context with the index of the AbrManager, and is
  inductive only together with `VariantExists`: the index a session ends with may
  be out of range for the next master playlist, and it is the clamp of
  `selectVariant` in the first step of the session that mends it, before anyone
  looks.
* What it needs of `selectVariant` is that the index is in range, which it proves
  itself, in the same way as `AbrSession_proofs`.
* `StopEmpties` needs `QueueBegins` (no session begins with a segment) and
  `SessionOfThread`.
* `FetchedAsWritten` needs `Addresses`, that every address was made by the
  resolver from the texts of the two playlists, and lemmas that compare the four
  functions of the resolver with `Designated` for any pieces: `OriginCorrect`
  that the text up to the slash that line 21 finds is scheme and host of an
  absolute url, `DirectoryCorrect` when the last slash ends the directory, and
  one for each form of a uri, also for those that go wrong. They need that texts
  are not empty (`StreamAssumption`, `PlaylistsAssumption`), which the parser
  sees to, and that `http:` and `https:` are schemes and the empty piece is none
  (`PiecesAssumption`).
* `FeedGrows` proves the refinement of `SegmentFeed` under the hypothesis
  `NumbersBelowWrap`: no playlist names segment 2^64 - 1. With that number
  `next` wraps to 0 and the numbers do begin again; a stream that names it is
  within its rights and nothing but its length prevents it.
* `AlwaysAskedToStop` and `StopLeadsOut` are what `CallReturns` rests on besides
  fairness: the thread that a call waits for has its request, and `StepsLeft`
  falls with each of its steps from then on, from 4 at most, on any stream.

**`NetworkComponent_proofs`**: `TypeCorrect`, `BundlesAreOfOneTransfer`,
`StopIsHonoured`, `CallsAreBounded`, `NeverReallocates`, and `PromiseKept`, that
every step of the client is a step of `Downloads` or none, for every policy,
timeout, configuration and body.
* A bundle is of one transfer because the response begins anew with each attempt,
  so that every chunk in it is of the attempt that runs (`BodyOfAttempt`); a
  success is one whose length and time were its own (`SuccessIsComplete`), and
  `Bundled` carries this past the end of the call, when nothing else is left of
  it (`Fresh`).
* `CallBounded` is about whole calls. `TimeSpent` is the sum at each point inside
  one: the timeouts of the attempts made and the longest sleeps between them,
  which is what bounds the exponential delay although it doubles.
* `StopHonoured` needs `Late`: a client that sleeps has begun no transfer since
  the stop, or it would have left the loop.

**`PtsFrameBuffer_proofs`**: `TypeCorrect` (with the capacity),
`WakeupsNeverMissed` and `ImplementsBufferSafety`, for any finite sets of
threads, any capacity, period and presentation times.
* `WakeupsNeverMissed` counts: for each side, what it waits for is at most its
  threads that are awake plus threads of the other side past an unlock. One lemma
  (`OthersAttended`) is what a step of one side does to the count of the other,
  one (`OwnAttended`) what it does to its own; every action is an instance of the
  two. `Holding` bounds the numbers given to frames by the calls.
* `ComparatorCorrect`: for two frames less than half a period apart the
  comparator of the heap is the order of presentation, whether they lie on the
  same side of a wrap or not; so on frames that lie together it is transitive and
  total (`TogetherCorrect`), the heap is not disturbed, and what `pop_heap`
  brings to the back is what `Serve` of `PresentationBuffer` promises.
* `AbortNeverMissed` is what `AbortUnblocks` rests on besides fairness: from
  `abort()` on nobody is parked.

**`MediaDecoders_proofs`**: for any segments, any packets and any delay of the
codec.
* Decoders: `TypeCorrect`, `FramesAlwaysOrdered`, `LosesOnlyBehindDamage`,
  `NothingEverLost`. All but the first speak of what was returned; the frames of an
  operation are first collected in its local vector, so the invariant is about
  `Collected`, both together. `HeldIsTheRest` says that the codec holds the last
  pictures it took, `Kept` that the others are collected unless something was
  damaged or thrown, `Settled` that nothing is ready between two operations,
  `FlushedOut` that after the last flush the codec is empty, or the picture that
  came out last was damaged, or something was thrown, and `ClockAhead` that `next_pts_ms` is beyond every time given, without which a
  packet without a time could repeat one.
* Demuxer: `AlwaysReleasesWhatItOwns`, `AlwaysReturnsThisSegment`. `Ownership`
  gives the `unique_ptr`s and the objects that live at each statement, `Leftover`
  what has no owner; `Found` and `Read`
  tie what the call has found out to its segment. That the conversion of times
  keeps their order needs `TimeBaseAssumption`, a unit not shorter than the
  microsecond: the one of MPEG-TS is 1/90000 s.

**`PlayerApp_proofs`**: `TypeCorrect`, `AlwaysAliveWhenUsed`,
`CountsAlwaysAsPrinted`, for any segments. `Lifetimes` says how far `main` is when
which objects exist and which threads run; `AliveWhenUsed` follows. `Counted` is
`CountsAsPrinted` at every point of a pass of the consumer: what the pass has
decoded is in the interval and not yet in the total, and what the interval had
before is in both. `AlwaysAskedBeforeJoin` and
`PassIsTheLast` are what `ShutdownCompletes` rests on besides fairness: the join
comes after the request, and `StepsLeft` falls with each step of the consumer from
then on.

**`M3u8Parser_proofs`**: `TypeCorrect`, `AlwaysAsWritten`,
`AlwaysRefusedExactly`, `AlwaysAsPlayerExpects`, for any set of lines, texts of
any length and any `SeqMod`.
* All three compare what the pass keeps in three objects with a second reading of
  the whole text, so the invariant says for every prefix of a text what the
  objects hold. `Pending` are the lines since the last uri; the two builders hold
  what these say (`SegmentPending`, `VariantPending`). The segment
  builder is open exactly if an EXTINF is pending only while `NoneHasBoth`: a uri
  with both tags goes to the variant and leaves the segment builder open.
* `Numbered` and `Written` are `AsWritten` of the prefix, as long as the prefix is
  `WellNumbered` and `WellDescribed`; a prefix of such a text is one too
  (`WellDescribedKept`).
* The lemmas about texts say what one more line changes in each operator of the
  second reading: a tag changes neither `SegmentLines` nor `VariantLines`, a uri
  adds itself to exactly one of them. That spares the induction over the text.
* That sorting loses no variant and invents none is `SortedCorrect`: a permutation
  keeps how often a variant occurs, because it maps the places of a variant one to
  one onto its places before.

Only model-checked, and why:

* every liveness property (`StopUnblocks`, `Converges`, `CallReturns`,
  `AbortUnblocks`, `ShutdownCompletes`) and the fairness part of the refinements
  (`ImplementsFifo`, `ImplementsDownloads`, `ImplementsBuffer`, whose safety
  parts are the theorems above): TLAPS does not reason about fairness and
  `ENABLED`. The theorems that say what these rest on besides fairness hold for
  every value of the constants; that the steps are taken is TLC's part;
* the four violations, which are counterexamples.

## 5. Not modelled

The contents of media and network messages, TLS, the options of curl that do not
change how a transfer ends, sizes of buffers, and allocation failures outside
`demux`. `decoded_frame.hpp` and `codec_info.hpp` only hold data. Libraries
(libcurl, FFmpeg, the C++ runtime) appear as what their callers may observe.
Tests, fuzzers, benchmarks, build files and containers have no model; tests and
comments were read as statements of intent. The queue's missing limit is a
hazard without a property: nothing in the code bounds it.

## 6. Plan

Every part of the program that runs has a model, and every safety property and
every action property that a run checks is a theorem. What is left to TLC is what
rests on fairness. What could be added when the code grows:

* a limit of the queue, if the high watermark of the documents is implemented:
  `push` would wait, and `stop()` would meet a download thread that is parked;
* the renderer, when it connects the decoders with `PtsFrameBuffer`: a composition
  of the two, with the conversion of the units of time in between.
