------------------------------ MODULE PlayerApp ------------------------------
(***************************************************************************)
(* The command line player: main(), the signal, the consumer thread, and   *)
(* the download thread of the orchestrator as far as they meet it.         *)
(*                                                                         *)
(* main() takes its statements in order: start, wait for the signal, stop, *)
(* print, shut curl down, and destroy its objects from the last to the     *)
(* first.  An exception that leaves a thread ends the process.  A segment  *)
(* is the number of frames in it and the function that throws on it.       *)
(***************************************************************************)
EXTENDS Integers, Sequences

CONSTANTS
    Segments,       \* segments the download thread may push
    MaxSegments     \* bound: segments pushed

ASSUME SegmentsAssumption ==
    Segments \subseteq [video : Nat, audio : Nat, throws : {"none", "demux", "video", "audio"}]
ASSUME MaxSegmentsAssumption == MaxSegments \in Nat

VARIABLES
    main,                    \* where main() is
    consumer,                \* where the consumer thread is
    worker,                  \* the download thread: "none", "running" or "ended"
    g_stop_flag,
    consumer_stop,           \* the stop token of the consumer
    queue,
    segment,                 \* the one the consumer works on
    alive,                   \* the objects of main() that exist
    curl,                    \* whether libcurl is initialised
    frames_last_interval,
    total_decoded_frames,
    pushed,                  \* ghost: segments pushed
    decoded, unreported,     \* ghosts: frames decoded in all, and since the last report
    counted, recounted       \* ghosts: those of unreported that are in the total already, and
                             \* how often a pass has added a frame that was

metrics == <<frames_last_interval, total_decoded_frames, decoded, unreported, counted, recounted>>
feedVars == <<worker, queue, pushed>>
mainVars == <<consumer_stop, alive, curl>>
vars == <<main, consumer, segment, g_stop_flag, mainVars, feedVars, metrics>>

Objects == {"client", "orchestrator", "demuxer", "video_decoder", "audio_decoder"}

MainStates == {"begin", "create", "wait", "stop", "clear", "shutdown", "leave", "join",
               "destroy", "exited", "terminated"}
ConsumerStates == {"none", "test", "pop", "demux", "video", "audio", "count", "ended"}
NoSegment == [video |-> 0, audio |-> 0, throws |-> "none"]

\* Type of the state: in particular nothing is left of a segment between two passes.
TypeOK ==
    /\ main \in MainStates /\ consumer \in ConsumerStates
    /\ worker \in {"none", "running", "ended"}
    /\ g_stop_flag \in BOOLEAN /\ consumer_stop \in BOOLEAN /\ curl \in BOOLEAN
    /\ queue \in Seq(Segments) /\ Len(queue) <= pushed /\ pushed \in 0 .. MaxSegments
    /\ segment \in Segments \cup {NoSegment}
    /\ consumer \in {"none", "test", "pop", "ended"} => segment = NoSegment
    /\ alive \subseteq Objects
    /\ frames_last_interval \in Nat /\ total_decoded_frames \in Nat
    /\ decoded \in Nat /\ unreported \in Nat /\ counted \in Nat /\ recounted \in Nat

Init ==
    /\ main = "begin" /\ consumer = "none" /\ worker = "none"
    /\ g_stop_flag = FALSE /\ consumer_stop = FALSE
    /\ queue = <<>> /\ segment = NoSegment
    /\ alive = {} /\ curl = FALSE
    /\ frames_last_interval = 0 /\ total_decoded_frames = 0
    /\ pushed = 0 /\ decoded = 0 /\ unreported = 0 /\ counted = 0 /\ recounted = 0

Running == main \notin {"exited", "terminated"}

\* An exception leaves main() or a thread: std::terminate.
Terminate ==
    /\ main' = "terminated"
    /\ UNCHANGED <<consumer, segment, g_stop_flag, mainVars, feedVars, metrics>>

-----------------------------------------------------------------------------
\* main()

\* No url: the usage and the end.
Usage ==
    /\ main = "begin" /\ main' = "exited"
    /\ UNCHANGED <<consumer, segment, g_stop_flag, mainVars, feedVars, metrics>>

\* initialize() and the client may throw; then the orchestrator, which starts its thread.
Start ==
    /\ main = "begin"
    /\ \/ /\ main' = "create"
          /\ curl' = TRUE
          /\ alive' = {"client", "orchestrator"}
          /\ worker' = "running"
          /\ UNCHANGED <<consumer, segment, g_stop_flag, consumer_stop, queue, pushed, metrics>>
       \/ Terminate

\* Demuxer and decoders, of which the last throws if the codec is not there; the consumer.
Create ==
    /\ main = "create"
    /\ \/ /\ main' = "wait"
          /\ alive' = Objects
          /\ consumer' = "test"
          /\ UNCHANGED <<segment, g_stop_flag, consumer_stop, curl, feedVars, metrics>>
       \/ Terminate

\* A statement of main() that changes nothing but what is said next to it.
Advance(from, to) ==
    /\ main = from /\ main' = to
    /\ UNCHANGED <<consumer, segment, g_stop_flag, worker, pushed, metrics>>

Wait == g_stop_flag /\ Advance("wait", "stop") /\ UNCHANGED <<mainVars, queue>>

\* orchestrator.stop(): the download thread is joined, then the queue is cleared.
StopJoined == worker = "ended" /\ Advance("stop", "clear") /\ UNCHANGED <<mainVars, queue>>

StopCleared == Advance("clear", "shutdown") /\ queue' = <<>> /\ UNCHANGED mainVars

Shutdown ==
    Advance("shutdown", "leave") /\ curl' = FALSE /\ UNCHANGED <<consumer_stop, alive, queue>>

\* The destructor of the consumer thread, which was declared last: the request, then the join.
StopConsumer ==
    Advance("leave", "join") /\ consumer_stop' = TRUE /\ UNCHANGED <<alive, curl, queue>>

\* Deviation: the thread is left to itself, as a detached one would be.
JoinConsumer_Detached == Advance("join", "destroy") /\ UNCHANGED <<mainVars, queue>>

JoinConsumer ==
    consumer = "ended" /\ Advance("join", "destroy") /\ UNCHANGED <<mainVars, queue>>

\* The other objects, from the last declared to the first.
Declared == <<"client", "orchestrator", "demuxer", "video_decoder", "audio_decoder">>

Destroy ==
    /\ \/ /\ Advance("destroy", "destroy")
          /\ \E i \in DOMAIN Declared :
                /\ Declared[i] \in alive
                /\ \A j \in i + 1 .. Len(Declared) : Declared[j] \notin alive
                /\ alive' = alive \ {Declared[i]}
       \/ alive = {} /\ Advance("destroy", "exited") /\ UNCHANGED alive
    /\ UNCHANGED <<consumer_stop, curl, queue>>

MainStep ==
    \/ Usage \/ Start \/ Create \/ Wait \/ StopJoined \/ StopCleared \/ Shutdown
    \/ StopConsumer \/ JoinConsumer \/ Destroy

-----------------------------------------------------------------------------
\* The signal and the download thread

SignalHandler ==
    /\ Running
    /\ g_stop_flag' = TRUE
    /\ UNCHANGED <<main, consumer, segment, mainVars, feedVars, metrics>>

\* A segment arrives, possibly after a stop that came too late for its transfer.
Push(s) ==
    /\ Running /\ worker = "running" /\ pushed < MaxSegments
    /\ queue' = Append(queue, s)
    /\ pushed' = pushed + 1
    /\ UNCHANGED <<main, consumer, segment, g_stop_flag, worker, mainVars, metrics>>

\* The stream is over or has failed, or the thread has seen the stop.
WorkerEnds ==
    /\ Running /\ worker = "running"
    /\ worker' = "ended"
    /\ UNCHANGED <<main, consumer, segment, g_stop_flag, queue, pushed, mainVars, metrics>>

-----------------------------------------------------------------------------
\* The consumer thread

\* The loop condition.
Test ==
    /\ Running /\ consumer = "test"
    /\ consumer' = IF g_stop_flag \/ consumer_stop THEN "ended" ELSE "pop"
    /\ UNCHANGED <<main, segment, g_stop_flag, mainVars, feedVars, metrics>>

\* Deviation: the token is not handed to pop().
Pop_NoToken ==
    /\ Running /\ consumer = "pop" /\ queue # <<>>
    /\ segment' = Head(queue) /\ queue' = Tail(queue)
    /\ consumer' = "demux"
    /\ UNCHANGED <<main, g_stop_flag, worker, pushed, mainVars, metrics>>

\* pop(stop_token): a segment, or nothing once the stop is requested.
Pop ==
    /\ Running /\ consumer = "pop"
    /\ \/ /\ ~consumer_stop /\ queue # <<>>
          /\ segment' = Head(queue) /\ queue' = Tail(queue)
          /\ consumer' = "demux"
       \/ /\ consumer_stop
          /\ consumer' = "ended"
          /\ UNCHANGED <<segment, queue>>
    /\ UNCHANGED <<main, g_stop_flag, worker, pushed, mainVars, metrics>>

Demux ==
    /\ Running /\ consumer = "demux"
    /\ \/ /\ segment.throws # "demux"
          /\ consumer' = "video"
          /\ UNCHANGED <<main, segment, g_stop_flag, mainVars, feedVars, metrics>>
       \/ segment.throws = "demux" /\ Terminate

\* The loop over the packets of a stream, or the exception that ends it.
Decode(here, next, frames) ==
    /\ Running /\ consumer = here
    /\ \/ /\ segment.throws # here
          /\ consumer' = next
          /\ frames_last_interval' = frames_last_interval + frames
          /\ decoded' = decoded + frames
          /\ unreported' = unreported + frames
          /\ UNCHANGED <<main, segment, g_stop_flag, total_decoded_frames, counted, recounted>>
          /\ UNCHANGED <<mainVars, feedVars>>
       \/ segment.throws = here /\ Terminate

\* The frames of the interval that an earlier pass has added are added again.  After a second
\* or more there is a report, which begins a new interval; without one they stay for the next.
Counts(report) ==
    /\ recounted' = recounted + counted
    /\ unreported' = IF report THEN 0 ELSE unreported
    /\ counted' = unreported'

\* Deviation: the interval begins anew before the report.
Count_ResetFirst ==
    /\ Running /\ consumer = "count"
    /\ consumer' = "test"
    /\ segment' = NoSegment
    /\ frames_last_interval' = 0
    /\ \E report \in BOOLEAN : Counts(report)
    /\ total_decoded_frames' = total_decoded_frames + frames_last_interval'
    /\ UNCHANGED <<main, g_stop_flag, decoded, mainVars, feedVars>>

\* Deviation: the segment stays until the next one.
Count_KeepSegment ==
    /\ Running /\ consumer = "count"
    /\ consumer' = "test"
    /\ total_decoded_frames' = total_decoded_frames + frames_last_interval
    /\ \E report \in BOOLEAN :
          /\ Counts(report)
          /\ frames_last_interval' = IF report THEN 0 ELSE frames_last_interval
    /\ UNCHANGED <<main, segment, g_stop_flag, decoded, mainVars, feedVars>>

\* The total, which takes the whole interval, and the report.
Count ==
    /\ Running /\ consumer = "count"
    /\ consumer' = "test"
    /\ segment' = NoSegment
    /\ total_decoded_frames' = total_decoded_frames + frames_last_interval
    /\ \E report \in BOOLEAN :
          /\ Counts(report)
          /\ frames_last_interval' = IF report THEN 0 ELSE frames_last_interval
    /\ UNCHANGED <<main, g_stop_flag, decoded, mainVars, feedVars>>

ConsumerStep ==
    \/ Test \/ Pop \/ Demux
    \/ Decode("video", "audio", segment.video)
    \/ Decode("audio", "count", segment.audio)
    \/ Count

-----------------------------------------------------------------------------
Next ==
    \/ MainStep
    \/ SignalHandler
    \/ \E s \in Segments : Push(s)
    \/ WorkerEnds
    \/ ConsumerStep

Spec == Init /\ [][Next]_vars

\* main() and the consumer run on; the download thread ends once it is asked to.
FairSpec ==
    /\ Spec
    /\ WF_vars(MainStep) /\ WF_vars(ConsumerStep) /\ WF_vars(main = "stop" /\ WorkerEnds)

-----------------------------------------------------------------------------
\* No thread touches an object that has been destroyed: the consumer thread works on references
\* to locals of main(), and what keeps them valid is the order of their declarations.
AliveWhenUsed ==
    Running =>
        /\ consumer \in {"test", "pop", "count"} => "orchestrator" \in alive
        /\ consumer = "demux" => "demuxer" \in alive
        /\ consumer = "video" => "video_decoder" \in alive
        /\ consumer = "audio" => "audio_decoder" \in alive
        /\ worker = "running" => "orchestrator" \in alive

\* What the two numbers are that main() and the consumer print.  The frames of an interval, from
\* which the rate is computed, are those decoded since the last report.  What is printed as
\* "Decoded" and as "Total decoded frames" is not the number of frames decoded: it is too high
\* by every frame that a pass without a report left in the interval, once for each pass that
\* found it there.
CountsAsPrinted ==
    consumer = "test" =>
        /\ frames_last_interval = unreported
        /\ total_decoded_frames = decoded + recounted

\* After the signal the player comes to its end, whatever the consumer waits for.
ShutdownCompletes == g_stop_flag ~> ~Running

-----------------------------------------------------------------------------
\* What the repository says and this code does not do.

\* "Must be called once at application shutdown after all HttpClients are destroyed."
CurlOutlivesClients == ~curl => alive \cap {"client", "orchestrator"} = {}
===============================================================================
