---------------------------- MODULE PtsFrameBuffer ----------------------------
(***************************************************************************)
(* iptv::renderer::PtsFrameBuffer: a bounded heap of frames under a mutex  *)
(* with two condition variables, ordered by timestamps that wrap.          *)
(*                                                                         *)
(* What push() and pop() do while they hold mutex_, from the return of the *)
(* wait to the unlock, is one step; entering the wait, the wakeup and the  *)
(* notification after the unlock are steps of their own.                   *)
(*                                                                         *)
(* A frame is the time it is to be shown at and its sequence number; its   *)
(* pts is that time modulo Period, as the 33 bits of the transport stream  *)
(* leave it.                                                               *)
(***************************************************************************)
EXTENDS Integers, Sequences, FiniteSets

CONSTANTS
    Producers,      \* threads that call push()
    Consumers,      \* threads that call pop()
    Capacity,       \* max_capacity_
    Period,         \* where timestamps wrap
    Times           \* presentation times of the frames, in the order of the calls of push()

ASSUME ThreadsAssumption ==
    Producers \cap Consumers = {} /\ IsFiniteSet(Producers) /\ IsFiniteSet(Consumers)
ASSUME SizesAssumption == Capacity \in Nat \ {0} /\ Period \in Nat \ {0}
ASSUME TimesAssumption == Times \in Seq(Nat)

VARIABLES
    queue_,         \* contents of the heap
    disturbed,      \* the heap has met frames that its comparator does not order
    next_seq_num_,
    aborted_,
    pc,             \* where each thread is in its call
    hand,           \* the time of the frame that a producer in push() holds
    sent            \* calls of push() so far

vars == <<queue_, disturbed, next_seq_num_, aborted_, pc, hand, sent>>

Threads == Producers \cup Consumers

\* Moments that frames are to be shown at.
Moments == {Times[i] : i \in DOMAIN Times}

\* Outside; blocked on its condition variable; notified; past the unlock, about to notify.
Places == {"out", "parked", "woken", "notify"}

\* Type of the state: in particular the capacity is never exceeded.
TypeOK ==
    /\ queue_ \subseteq [time : Moments, seq : Nat]
    /\ Cardinality(queue_) <= Capacity
    /\ disturbed \in BOOLEAN
    /\ next_seq_num_ \in 0 .. Len(Times)
    /\ aborted_ \in BOOLEAN
    /\ pc \in [Threads -> Places]
    /\ hand \in [Producers -> Moments \cup {0}]
    /\ sent \in 0 .. Len(Times)

Init ==
    /\ queue_ = {} /\ disturbed = FALSE
    /\ next_seq_num_ = 0
    /\ aborted_ = FALSE
    /\ pc = [t \in Threads |-> "out"]
    /\ hand = [p \in Producers |-> 0]
    /\ sent = 0

Parked(threads) == {t \in threads : pc[t] = "parked"}

WrapThreshold == Period \div 2

Pts(frame) == frame.time % Period

Distance(a, b) == IF a < b THEN b - a ELSE a - b

\* Deviation: timestamps are compared as they are.
PtsComparator_NoWrap(lhs, rhs) ==
    Pts(lhs) > Pts(rhs) \/ (Pts(lhs) = Pts(rhs) /\ lhs.seq > rhs.seq)

\* PtsComparator: lhs is to be shown after rhs.
PtsComparator(lhs, rhs) ==
    IF Distance(Pts(lhs), Pts(rhs)) > WrapThreshold
    THEN Pts(lhs) < Pts(rhs)
    ELSE Pts(lhs) > Pts(rhs) \/ (Pts(lhs) = Pts(rhs) /\ lhs.seq > rhs.seq)

\* What a heap function needs of the comparator, for the frames it meets.
Ordered(frames) ==
    \A x, y, z \in frames :
        PtsComparator(x, y) /\ PtsComparator(y, z) => PtsComparator(x, z)

\* push_heap and pop_heap arrange the heap anew.  Once it has been disturbed the arrangement
\* counts for nothing, until there is nothing left to arrange.
Rearranged(frames) ==
    /\ queue_' = frames
    /\ disturbed' = (Cardinality(frames) > 1 /\ (disturbed \/ ~Ordered(frames)))

\* The frames that pop_heap may bring to the back: the first one to be shown, or any in a
\* heap that is not one.
Front == {x \in queue_ : disturbed \/ \A y \in queue_ : ~PtsComparator(x, y)}

\* Deviation: room for one frame more.
HasRoom_OneMore == Cardinality(queue_) <= Capacity

\* The predicate that push() waits for, but for the abort.
HasRoom == Cardinality(queue_) < Capacity

\* push() with mutex_ held, at its start and after each wakeup: return false, block again,
\* or insert the frame and unlock.
PushLocked(p, time) ==
    \/ /\ aborted_
       /\ pc' = [pc EXCEPT ![p] = "out"] /\ hand' = [hand EXCEPT ![p] = 0]
       /\ UNCHANGED <<queue_, disturbed, next_seq_num_>>
    \/ /\ ~aborted_ /\ ~HasRoom
       /\ pc' = [pc EXCEPT ![p] = "parked"] /\ hand' = [hand EXCEPT ![p] = time]
       /\ UNCHANGED <<queue_, disturbed, next_seq_num_>>
    \/ /\ ~aborted_ /\ HasRoom
       /\ Rearranged(queue_ \cup {[time |-> time, seq |-> next_seq_num_]})
       /\ next_seq_num_' = next_seq_num_ + 1
       /\ pc' = [pc EXCEPT ![p] = "notify"] /\ hand' = [hand EXCEPT ![p] = 0]

\* push(frame) is called.
PushEnter(p) ==
    /\ pc[p] = "out"
    /\ sent < Len(Times)
    /\ sent' = sent + 1
    /\ PushLocked(p, Times[sent + 1])
    /\ UNCHANGED aborted_

\* A producer wakes up with mutex_ and tests again.
PushResume(p) ==
    /\ pc[p] = "woken"
    /\ PushLocked(p, hand[p])
    /\ UNCHANGED <<aborted_, sent>>

\* pop() with mutex_ held: nullopt, block again, or take the front and unlock.
PopLocked(c) ==
    \/ /\ aborted_
       /\ pc' = [pc EXCEPT ![c] = "out"]
       /\ UNCHANGED <<queue_, disturbed>>
    \/ /\ ~aborted_ /\ queue_ = {}
       /\ pc' = [pc EXCEPT ![c] = "parked"]
       /\ UNCHANGED <<queue_, disturbed>>
    \/ /\ ~aborted_
       /\ \E x \in Front : Rearranged(queue_ \ {x})
       /\ pc' = [pc EXCEPT ![c] = "notify"]

\* pop() is called.
PopEnter(c) ==
    /\ pc[c] = "out"
    /\ PopLocked(c)
    /\ UNCHANGED <<next_seq_num_, aborted_, hand, sent>>

\* A consumer wakes up with mutex_ and tests again.
PopResume(c) ==
    /\ pc[c] = "woken"
    /\ PopLocked(c)
    /\ UNCHANGED <<next_seq_num_, aborted_, hand, sent>>

\* notify_one() on the condition variable of the waiters, and return.
NotifyOne(t, waiters) ==
    /\ pc[t] = "notify"
    /\ IF Parked(waiters) = {}
       THEN pc' = [pc EXCEPT ![t] = "out"]
       ELSE \E w \in Parked(waiters) : pc' = [pc EXCEPT ![t] = "out", ![w] = "woken"]
    /\ UNCHANGED <<queue_, disturbed, next_seq_num_, aborted_, hand, sent>>

\* push() after its unlock.
PushNotify(p) == NotifyOne(p, Consumers)

\* Deviation: the consumers are notified of the room.
PopNotify_WrongOnes(c) == NotifyOne(c, Consumers)

\* pop() after its unlock.
PopNotify(c) == NotifyOne(c, Producers)

\* Deviation: only the consumers are woken.
Abort_ConsumersOnly ==
    /\ aborted_' = TRUE
    /\ pc' = [t \in Threads |-> IF t \in Parked(Consumers) THEN "woken" ELSE pc[t]]
    /\ UNCHANGED <<queue_, disturbed, next_seq_num_, hand, sent>>

\* abort()
Abort ==
    /\ aborted_' = TRUE
    /\ pc' = [t \in Threads |-> IF t \in Parked(Threads) THEN "woken" ELSE pc[t]]
    /\ UNCHANGED <<queue_, disturbed, next_seq_num_, hand, sent>>

\* A condition variable may wake up for no reason.
Spurious(t) ==
    /\ pc[t] = "parked"
    /\ pc' = [pc EXCEPT ![t] = "woken"]
    /\ UNCHANGED <<queue_, disturbed, next_seq_num_, aborted_, hand, sent>>

Next ==
    \/ \E p \in Producers : PushEnter(p) \/ PushResume(p) \/ PushNotify(p)
    \/ \E c \in Consumers : PopEnter(c) \/ PopResume(c) \/ PopNotify(c)
    \/ \E t \in Threads : Spurious(t)
    \/ Abort

Spec == Init /\ [][Next]_vars

\* A notified thread gets the mutex, a thread past its unlock notifies.  Nothing is
\* assumed of the calls.
Fairness ==
    /\ \A p \in Producers : WF_vars(PushResume(p)) /\ WF_vars(PushNotify(p))
    /\ \A c \in Consumers : WF_vars(PopResume(c)) /\ WF_vars(PopNotify(c))

FairSpec == Spec /\ Fairness

-----------------------------------------------------------------------------
\* How many of the threads are at one of the places, when each is where the function says.
About(where, threads, places) == Cardinality({t \in threads : where[t] \in places})

\* The waiters are parked only when each of n items has a thread awake or about to wake one.
Attended(waiters, others, n) ==
    ~aborted_ /\ Parked(waiters) # {} =>
        n <= About(pc, waiters, {"woken"}) + About(pc, others, {"notify"})

\* No notification is lost between the unlock and notify_one(): while a consumer is parked
\* every frame in the buffer has a consumer awake, or one about to be notified, and while a
\* producer is parked so has every free place.
NoMissedWakeup ==
    /\ Attended(Consumers, Producers, Cardinality(queue_))
    /\ Attended(Producers, Consumers, Capacity - Cardinality(queue_))

\* abort() gets every thread out of its call, whatever it was about to do.
AbortUnblocks == \A t \in Threads : (aborted_ /\ pc[t] # "out") ~> pc[t] = "out"

\* The buffer that decoder and renderer see.
Waiting(threads) ==
    IF aborted_ THEN {} ELSE {t \in threads : pc[t] \in {"parked", "woken"}}

Buffer == INSTANCE PresentationBuffer WITH
    Givers   <- Producers,
    Takers   <- Consumers,
    Span     <- WrapThreshold,
    mixed    <- disturbed,
    held     <- queue_,
    arrivals <- next_seq_num_,
    giving   <- Waiting(Producers),
    taking   <- Waiting(Consumers),
    closed   <- aborted_

\* Frames come out in the order they are to be shown, across the wrap of the timestamps and
\* the reordering of the decoder, and threads are kept waiting only for what is not there.  A
\* discontinuity of the timestamps costs no frame, and the order only while frames from both
\* sides are in the buffer, or until it has run empty if they went around the whole period.
ImplementsBuffer == Buffer!BufferSpec
=============================================================================
