-------------------------- MODULE PresentationBuffer --------------------------
(***************************************************************************)
(* What a bounded reordering buffer promises a decoder and a renderer: no  *)
(* more frames than its capacity, out in the order of presentation (of     *)
(* arrival, when two frames are for the same time), nobody kept waiting    *)
(* for what is there, and nothing in or out once it is closed.  The order  *)
(* holds while the frames in the buffer lie together; a jump of the times  *)
(* may disturb it, until the buffer has run empty.  There are no           *)
(* timestamps that wrap, no heap, no mutex.  PtsFrameBuffer implements it. *)
(***************************************************************************)
EXTENDS Naturals, FiniteSets

CONSTANTS
    Capacity,
    Moments,      \* presentation times of the frames
    Span,         \* frames less than this apart are put in order
    Givers,       \* threads that bring frames
    Takers        \* threads that take them

VARIABLES
    held,         \* frames [time, seq] in the buffer
    mixed,        \* a jump of the times has disturbed the order
    arrivals,     \* frames accepted so far
    giving,       \* threads kept waiting with a frame
    taking,       \* threads kept waiting for one
    closed

bufferVars == <<held, mixed, arrivals, giving, taking, closed>>

BufferInit ==
    held = {} /\ mixed = FALSE /\ arrivals = 0 /\ giving = {} /\ taking = {} /\ closed = FALSE

\* A thread has to wait.
WaitToGive(g) == giving' = giving \cup {g} /\ UNCHANGED <<held, mixed, arrivals, taking, closed>>
WaitToTake(t) == taking' = taking \cup {t} /\ UNCHANGED <<held, mixed, arrivals, giving, closed>>

Together(frames) == \A x, y \in frames : x.time < y.time + Span

\* What the buffer holds changes.  Only frames that do not lie together can mix it up.
Hold(frames) ==
    /\ held' = frames
    /\ mixed' \in BOOLEAN
    /\ mixed' => Cardinality(frames) > 1 /\ (mixed \/ ~Together(frames))

\* A frame is accepted from a thread, which may have waited or not.
Accept(g) ==
    /\ ~closed
    /\ Cardinality(held) < Capacity
    /\ \E m \in Moments : Hold(held \cup {[time |-> m, seq |-> arrivals]})
    /\ arrivals' = arrivals + 1
    /\ giving' = giving \ {g}
    /\ UNCHANGED <<taking, closed>>

Before(x, y) == x.time < y.time \/ (x.time = y.time /\ x.seq < y.seq)

\* A thread gets the frame that is to be presented first.
Serve(t) ==
    /\ ~closed
    /\ \E x \in held :
          /\ ~mixed /\ Together(held) => \A y \in held \ {x} : Before(x, y)
          /\ Hold(held \ {x})
    /\ taking' = taking \ {t}
    /\ UNCHANGED <<arrivals, giving, closed>>

Close == closed' = TRUE /\ giving' = {} /\ taking' = {} /\ UNCHANGED <<held, mixed, arrivals>>

BufferNext ==
    \/ \E g \in Givers : WaitToGive(g) \/ Accept(g)
    \/ \E t \in Takers : WaitToTake(t) \/ Serve(t)
    \/ Close

BufferSafety == BufferInit /\ [][BufferNext]_bufferVars

\* While threads wait and there is a frame, or room, for one of them, threads are served.
SomeoneServed ==
    /\ WF_bufferVars(taking # {} /\ \E t \in Takers : Serve(t))
    /\ WF_bufferVars(giving # {} /\ \E g \in Givers : Accept(g))

BufferSpec == BufferSafety /\ SomeoneServed
=============================================================================
