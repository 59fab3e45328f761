--------------------------- MODULE PlayerApp_proofs ---------------------------
(***************************************************************************)
(* Theorems about PlayerApp, for any segments and any number of them.      *)
(***************************************************************************)
EXTENDS PlayerApp, TLAPS

\* Which objects exist and which threads run, from how far main() is: the threads start after
\* what they use and have ended before any of it is destroyed.
Lifetimes ==
    /\ main = "begin" => consumer = "none" /\ worker = "none"
    /\ main = "create" => alive = {"client", "orchestrator"} /\ consumer = "none"
    /\ main \in {"wait", "stop", "clear", "shutdown", "leave", "join"} => alive = Objects
    /\ main \in {"clear", "shutdown", "leave", "join", "destroy"} => worker = "ended"
    /\ main = "destroy" => consumer = "ended"

\* Before the first frame of a pass.
NothingDecoded == {"none", "test", "pop", "ended", "demux", "video"}

\* CountsAsPrinted at every point of a pass: what the pass has decoded is in the interval and
\* not yet in the total, and what the interval had before is in both.
Counted ==
    /\ frames_last_interval = unreported
    /\ decoded + recounted + counted = total_decoded_frames + unreported
    /\ consumer \in NothingDecoded => counted = unreported

\* Preserved by every step.
IInv == TypeOK /\ Lifetimes /\ Counted

-----------------------------------------------------------------------------
LEMMA InitIInv == Init => IInv
<1> SUFFICES ASSUME Init PROVE IInv
  OBVIOUS
<1>1. /\ g_stop_flag \in BOOLEAN /\ consumer_stop \in BOOLEAN /\ curl \in BOOLEAN
  BY DEF Init
<1>2. queue \in Seq(Segments) /\ Len(queue) <= pushed /\ pushed \in 0 .. MaxSegments
  BY MaxSegmentsAssumption DEF Init
<1>3. TypeOK
  BY <1>1, <1>2 DEF Init, TypeOK, MainStates, ConsumerStates
<1> QED
  BY <1>3 DEF Init, IInv, Lifetimes, Counted

\* The frames of a segment are counted in natural numbers, also those of no segment.
LEMMA FramesOfSegment ==
    ASSUME TypeOK PROVE segment.video \in Nat /\ segment.audio \in Nat
  BY SegmentsAssumption DEF TypeOK, NoSegment

\* An exception that leaves a thread.
LEMMA TerminateStep ==
    ASSUME IInv, Terminate PROVE IInv'
  BY DEF IInv, TypeOK, Lifetimes, Counted, Terminate, MainStates, feedVars, mainVars, metrics

\* A statement of main() that is followed by another one, whatever it does to the objects.
LEMMA MainStepIInv ==
    ASSUME IInv, MainStep PROVE IInv'
<1> USE DEF feedVars, mainVars, metrics
<1>1. CASE Usage
  BY <1>1 DEF Usage, IInv, TypeOK, Lifetimes, Counted, MainStates
<1>2. CASE Start
  <2>1. CASE Terminate
    BY <2>1, TerminateStep
  <2>2. CASE ~Terminate
    <3>1. /\ main = "begin" /\ main' = "create" /\ curl' = TRUE
          /\ alive' = {"client", "orchestrator"} /\ worker' = "running"
          /\ UNCHANGED <<consumer, segment, g_stop_flag, consumer_stop, queue, pushed, metrics>>
      BY <1>2, <2>2 DEF Start
    <3>2. TypeOK'
      BY <3>1 DEF IInv, TypeOK, MainStates, Objects
    <3> QED
      BY <3>1, <3>2 DEF IInv, Lifetimes, Counted
  <2> QED
    BY <2>1, <2>2
<1>3. CASE Create
  <2>1. CASE Terminate
    BY <2>1, TerminateStep
  <2>2. CASE ~Terminate
    <3>1. /\ main = "create" /\ main' = "wait" /\ alive' = Objects /\ consumer' = "test"
          /\ UNCHANGED <<segment, g_stop_flag, consumer_stop, curl, feedVars, metrics>>
      BY <1>3, <2>2 DEF Create
    <3>2. TypeOK'
      BY <3>1 DEF IInv, TypeOK, Lifetimes, MainStates, ConsumerStates
    <3> QED
      BY <3>1, <3>2 DEF IInv, Lifetimes, Counted, NothingDecoded
  <2> QED
    BY <2>1, <2>2
<1>4. CASE Wait
  BY <1>4 DEF Wait, Advance, IInv, TypeOK, Lifetimes, Counted, MainStates
<1>5. CASE StopJoined
  BY <1>5 DEF StopJoined, Advance, IInv, TypeOK, Lifetimes, Counted, MainStates
<1>6. CASE StopCleared
  <2>1. queue' \in Seq(Segments) /\ Len(queue') <= pushed
    BY <1>6, MaxSegmentsAssumption DEF StopCleared, Advance, IInv, TypeOK
  <2> QED
    BY <1>6, <2>1 DEF StopCleared, Advance, IInv, TypeOK, Lifetimes, Counted, MainStates
<1>7. CASE Shutdown
  BY <1>7 DEF Shutdown, Advance, IInv, TypeOK, Lifetimes, Counted, MainStates
<1>8. CASE StopConsumer
  BY <1>8 DEF StopConsumer, Advance, IInv, TypeOK, Lifetimes, Counted, MainStates
<1>9. CASE JoinConsumer
  BY <1>9 DEF JoinConsumer, Advance, IInv, TypeOK, Lifetimes, Counted, MainStates
<1>10. CASE Destroy
  BY <1>10 DEF Destroy, Advance, IInv, TypeOK, Lifetimes, Counted, MainStates
<1> QED
  BY <1>1, <1>2, <1>3, <1>4, <1>5, <1>6, <1>7, <1>8, <1>9, <1>10 DEF MainStep

\* The signal handler and the download thread.
LEMMA OutsideStep ==
    ASSUME IInv, SignalHandler \/ WorkerEnds \/ \E s \in Segments : Push(s) PROVE IInv'
<1> USE DEF feedVars, mainVars, metrics
<1>1. CASE SignalHandler
  BY <1>1 DEF SignalHandler, IInv, TypeOK, Lifetimes, Counted
<1>2. CASE WorkerEnds
  BY <1>2 DEF WorkerEnds, IInv, TypeOK, Lifetimes, Counted
<1>3. ASSUME NEW s \in Segments, Push(s) PROVE IInv'
  <2>1. queue' \in Seq(Segments) /\ Len(queue') <= pushed' /\ pushed' \in 0 .. MaxSegments
    BY <1>3, MaxSegmentsAssumption DEF Push, IInv, TypeOK
  <2> QED
    BY <1>3, <2>1 DEF Push, IInv, TypeOK, Lifetimes, Counted
<1> QED
  BY <1>1, <1>2, <1>3

\* The loop over the packets of one stream of a segment.
LEMMA DecodeStep ==
    ASSUME IInv, NEW n \in Nat, NEW here, NEW next, Decode(here, next, n),
           \/ here = "video" /\ next = "audio"
           \/ here = "audio" /\ next = "count"
    PROVE  IInv'
<1> USE DEF feedVars, mainVars, metrics
<1>1. CASE Terminate
  BY <1>1, TerminateStep
<1>2. CASE ~Terminate
  <2>1. /\ consumer = here /\ consumer' = next
        /\ frames_last_interval' = frames_last_interval + n
        /\ decoded' = decoded + n /\ unreported' = unreported + n
        /\ UNCHANGED <<main, segment, g_stop_flag, total_decoded_frames, counted, recounted>>
        /\ UNCHANGED <<mainVars, feedVars>>
    BY <1>2 DEF Decode
  <2>2. TypeOK'
    BY <2>1 DEF IInv, TypeOK, ConsumerStates
  <2>3. Lifetimes'
    BY <2>1 DEF IInv, Lifetimes
  <2>4. Counted'
    BY <2>1 DEF IInv, TypeOK, Counted, NothingDecoded
  <2> QED
    BY <2>2, <2>3, <2>4 DEF IInv
<1> QED
  BY <1>1, <1>2

\* The total, with or without a report.
LEMMA CountStep ==
    ASSUME IInv, Count PROVE IInv'
<1> USE DEF feedVars, mainVars
<1>1. /\ consumer = "count" /\ consumer' = "test" /\ segment' = NoSegment
      /\ total_decoded_frames' = total_decoded_frames + frames_last_interval
      /\ UNCHANGED <<main, g_stop_flag, decoded, mainVars, feedVars>>
  BY DEF Count
<1>2. /\ \/ frames_last_interval' = 0 /\ unreported' = 0
         \/ frames_last_interval' = frames_last_interval /\ unreported' = unreported
      /\ recounted' = recounted + counted /\ counted' = unreported'
  BY DEF Count, Counts
<1>3. recounted' \in Nat /\ counted' \in Nat /\ total_decoded_frames' \in Nat
  BY <1>1, <1>2 DEF IInv, TypeOK
<1>4. TypeOK'
  BY <1>1, <1>2, <1>3 DEF IInv, TypeOK, ConsumerStates
<1>5. Lifetimes'
  BY <1>1 DEF IInv, Lifetimes
<1>6. Counted'
  BY <1>1, <1>2, <1>3 DEF IInv, TypeOK, Counted, NothingDecoded
<1> QED
  BY <1>4, <1>5, <1>6 DEF IInv

\* The consumer thread.
LEMMA ConsumerStepIInv ==
    ASSUME IInv, ConsumerStep PROVE IInv'
<1> USE DEF feedVars, mainVars, metrics
<1>1. CASE Test
  BY <1>1 DEF Test, IInv, TypeOK, Lifetimes, Counted, ConsumerStates, NothingDecoded
<1>2. CASE Pop
  <2>1. /\ consumer = "pop" /\ Running
        /\ UNCHANGED <<main, g_stop_flag, worker, pushed, mainVars, metrics>>
    BY <1>2 DEF Pop
  <2>2. \/ queue # <<>> /\ segment' = Head(queue) /\ queue' = Tail(queue) /\ consumer' = "demux"
        \/ consumer' = "ended" /\ segment' = segment /\ queue' = queue
    BY <1>2 DEF Pop
  <2>3. segment' \in Segments \cup {NoSegment} /\ queue' \in Seq(Segments) /\ Len(queue') <= pushed
    BY <2>1, <2>2, MaxSegmentsAssumption DEF IInv, TypeOK
  <2>4. TypeOK'
    BY <2>1, <2>2, <2>3 DEF IInv, TypeOK, ConsumerStates
  <2>5. Lifetimes'
    BY <2>1, <2>2 DEF IInv, Lifetimes
  <2>6. Counted'
    BY <2>1, <2>2 DEF IInv, Counted, NothingDecoded
  <2> QED
    BY <2>4, <2>5, <2>6 DEF IInv
<1>3. CASE Demux
  <2>1. CASE Terminate
    BY <2>1, TerminateStep
  <2>2. CASE ~Terminate
    BY <1>3, <2>2
       DEF Demux, IInv, TypeOK, Lifetimes, Counted, ConsumerStates, NothingDecoded
  <2> QED
    BY <2>1, <2>2
<1>4. CASE Decode("video", "audio", segment.video) \/ Decode("audio", "count", segment.audio)
  BY <1>4, FramesOfSegment, DecodeStep DEF IInv
<1>5. CASE Count
  BY <1>5, CountStep
<1> QED
  BY <1>1, <1>2, <1>3, <1>4, <1>5 DEF ConsumerStep

LEMMA NextIInv == IInv /\ [Next]_vars => IInv'
<1> SUFFICES ASSUME IInv, [Next]_vars PROVE IInv'
  OBVIOUS
<1>1. CASE UNCHANGED vars
  BY <1>1 DEF IInv, TypeOK, Lifetimes, Counted, vars, feedVars, mainVars, metrics
<1> QED
  BY <1>1, MainStepIInv, OutsideStep, ConsumerStepIInv DEF Next

LEMMA Invariance == Spec => []IInv
  BY InitIInv, NextIInv, PTL DEF Spec

-----------------------------------------------------------------------------
\* Nothing of a segment is left between two passes of the consumer thread, and the queue never
\* holds more than was pushed.
THEOREM TypeCorrect == Spec => []TypeOK
  BY Invariance, PTL DEF IInv

\* Neither thread touches a local of main() before it is made or after it is destroyed.
THEOREM AlwaysAliveWhenUsed == Spec => []AliveWhenUsed
<1>1. IInv => AliveWhenUsed
  BY DEF IInv, TypeOK, Lifetimes, AliveWhenUsed, Running, Objects, MainStates
<1> QED
  BY <1>1, Invariance, PTL

\* However large the segments are and whenever the reports come, the interval has the frames
\* decoded since the last report, and the total those decoded and, once for each pass that added
\* them again, those it had already.
THEOREM CountsAlwaysAsPrinted == Spec => []CountsAsPrinted
<1>1. IInv => CountsAsPrinted
  BY DEF IInv, TypeOK, Counted, CountsAsPrinted, NothingDecoded
<1> QED
  BY <1>1, Invariance, PTL

-----------------------------------------------------------------------------
\* What ShutdownCompletes rests on besides fairness.

\* main() joins the consumer only after it has asked it to stop, and asks nobody before.
AskedBeforeJoin ==
    /\ main \in {"join", "destroy"} => consumer_stop
    /\ consumer_stop => main \in {"join", "destroy", "exited", "terminated"}

\* The steps that a consumer which was asked to stop still has before it.
StepsLeft(place) ==
    CASE place = "demux" -> 5
      [] place = "video" -> 4
      [] place = "audio" -> 3
      [] place = "count" -> 2
      [] place \in {"test", "pop"} -> 1
      [] OTHER -> 0

\* Every step keeps the order of the request and the join.
LEMMA NextAskedBeforeJoin == IInv /\ AskedBeforeJoin /\ [Next]_vars => AskedBeforeJoin'
<1> SUFFICES ASSUME IInv, AskedBeforeJoin, [Next]_vars PROVE AskedBeforeJoin'
  OBVIOUS
<1> USE DEF feedVars, mainVars, metrics, AskedBeforeJoin
<1>1. CASE MainStep
  BY <1>1 DEF MainStep, Usage, Start, Create, Wait, StopJoined, StopCleared, Shutdown,
              StopConsumer, JoinConsumer, Destroy, Advance, Terminate
<1>2. CASE ConsumerStep
  BY <1>2 DEF ConsumerStep, Test, Pop, Demux, Decode, Count, Terminate
<1>3. CASE SignalHandler \/ WorkerEnds \/ (\E s \in Segments : Push(s)) \/ UNCHANGED vars
  BY <1>3 DEF SignalHandler, WorkerEnds, Push, vars
<1> QED
  BY <1>1, <1>2, <1>3 DEF Next

\* The join is never reached by a main() that has not asked for the end of the thread.
THEOREM AlwaysAskedBeforeJoin == Spec => []AskedBeforeJoin
<1>1. Init => AskedBeforeJoin
  BY DEF Init, AskedBeforeJoin
<1> QED
  BY <1>1, NextAskedBeforeJoin, Invariance, PTL DEF Spec

\* And it ends within the pass it is in: after the request every step of the consumer brings
\* its end nearer, whatever it was doing and whatever is still in the queue.
THEOREM PassIsTheLast ==
    Spec => [][consumer_stop =>
                  consumer' = consumer \/ StepsLeft(consumer') < StepsLeft(consumer)]_vars
<1>1. IInv /\ AskedBeforeJoin /\ [Next]_vars =>
          [consumer_stop =>
              consumer' = consumer \/ StepsLeft(consumer') < StepsLeft(consumer)]_vars
  <2> SUFFICES ASSUME AskedBeforeJoin, Next, consumer_stop, consumer' # consumer
               PROVE  StepsLeft(consumer') < StepsLeft(consumer)
    OBVIOUS
  <2> USE DEF feedVars, mainVars, metrics
  <2>1. CASE MainStep
    BY <2>1 DEF AskedBeforeJoin, MainStep, Usage, Start, Create, Wait, StopJoined, StopCleared,
                Shutdown, StopConsumer, JoinConsumer, Destroy, Advance, Terminate
  <2>2. CASE Test \/ Pop
    <3>1. consumer \in {"test", "pop"} /\ consumer' \in {"ended", "demux"}
      BY <2>2 DEF Test, Pop
    <3>2. consumer' = "ended"
      BY <2>2 DEF Test, Pop
    <3> QED
      BY <3>1, <3>2 DEF StepsLeft
  <2>3. CASE Demux
    BY <2>3 DEF Demux, Terminate, StepsLeft
  <2>4. CASE Decode("video", "audio", segment.video)
    <3>1. consumer = "video" /\ consumer' = "audio"
      BY <2>4 DEF Decode, Terminate
    <3> QED
      BY <3>1 DEF StepsLeft
  <2>5. CASE Decode("audio", "count", segment.audio)
    <3>1. consumer = "audio" /\ consumer' = "count"
      BY <2>5 DEF Decode, Terminate
    <3> QED
      BY <3>1 DEF StepsLeft
  <2>6. CASE Count
    BY <2>6 DEF Count, StepsLeft
  <2>7. CASE SignalHandler \/ WorkerEnds \/ (\E s \in Segments : Push(s))
    BY <2>7 DEF SignalHandler, WorkerEnds, Push
  <2> QED
    BY <2>1, <2>2, <2>3, <2>4, <2>5, <2>6, <2>7 DEF Next, ConsumerStep
<1> QED
  BY <1>1, AlwaysAskedBeforeJoin, Invariance, PTL DEF Spec
=============================================================================
