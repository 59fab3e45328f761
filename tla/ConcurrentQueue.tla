--------------------------- MODULE ConcurrentQueue ---------------------------
(***************************************************************************)
(* iptv::ConcurrentQueue<T>: a std::queue guarded by one mutex and one     *)
(* std::condition_variable_any, with a blocking pop(stop_token).           *)
(*                                                                         *)
(* Every method holds mutex_ from its first statement to its return, so    *)
(* push, try_pop and clear are one step each.  pop() releases the mutex    *)
(* inside cv_.wait() and is cut where another thread can interleave:       *)
(* PopEnter (lock, enter the wait), Resume (reacquire the mutex after a    *)
(* wakeup, re-evaluate the predicate), PopReturn (the statements after the *)
(* wait).  A stop can be requested at any of these points, also while the  *)
(* consumer holds the mutex: request_stop() takes no lock of the queue.    *)
(*                                                                         *)
(* Items are the numbers 1, 2, 3... in the order they are pushed.          *)
(***************************************************************************)
EXTENDS Naturals, Sequences, FiniteSets

CONSTANTS
    Consumers,    \* threads that call pop()
    Tokens,       \* the std::stop_source objects behind their tokens
    TokenOf,      \* the token each consumer passes to pop()
    MaxItems      \* bound: pushes in a behaviour

ASSUME TokensAssumption == TokenOf \in [Consumers -> Tokens]
ASSUME MaxItemsAssumption == MaxItems \in Nat

VARIABLES
    queue_,       \* queue_
    pc,           \* where each consumer is in pop()
    stop,         \* stop_requested() of each token
    firing,       \* request_stop() set the flag, its callbacks have not run yet
    pushed,       \* ghost: the last item pushed
    left          \* ghost: the last item handed out or cleared

vars == <<queue_, pc, stop, firing, pushed, left>>

\* Outside pop(); blocked in cv_.wait(); notified, waiting for mutex_; owner of
\* mutex_ after the wait; returned nullopt for good.
Places == {"out", "parked", "woken", "holding", "gone"}

\* Type of the state: in particular what is queued is an item somebody pushed.
TypeOK ==
    /\ queue_ \in Seq(1 .. MaxItems)
    /\ pc \in [Consumers -> Places]
    /\ stop \in [Tokens -> BOOLEAN]
    /\ firing \in [Tokens -> BOOLEAN]
    /\ pushed \in 0 .. MaxItems
    /\ left \in 0 .. MaxItems

Init ==
    /\ queue_ = <<>>
    /\ pc = [c \in Consumers |-> "out"]
    /\ stop = [t \in Tokens |-> FALSE]
    /\ firing = [t \in Tokens |-> FALSE]
    /\ pushed = 0
    /\ left = 0

At(places) == {c \in Consumers : pc[c] \in places}

\* Nobody owns mutex_ between two steps, except a consumer past its wait.
MutexFree == At({"holding"}) = {}

Stopped(c) == stop[TokenOf[c]]

\* Deviation: the stop flag is not looked at before parking.
WaitTest_NoStop(c) ==
    pc' = [pc EXCEPT ![c] = IF queue_ # <<>> THEN "holding" ELSE "parked"]

\* The test of cv_.wait(lock, token, predicate), made with mutex_ held: return to
\* pop() when there is an item or the token is stopped, park otherwise.
WaitTest(c) ==
    pc' = [pc EXCEPT ![c] =
             IF queue_ # <<>> \/ Stopped(c) THEN "holding" ELSE "parked"]

\* Deviation: push() forgets the notification.
NotifyOne_None == UNCHANGED pc

\* notify_one(): one parked consumer, any of them, or nobody.
NotifyOne ==
    IF At({"parked"}) = {}
    THEN UNCHANGED pc
    ELSE \E c \in At({"parked"}) : pc' = [pc EXCEPT ![c] = "woken"]

\* Deviation: the newest item is taken.
PopBack == queue_' = SubSeq(queue_, 1, Len(queue_) - 1) /\ left' = queue_[Len(queue_)]

\* The oldest item is moved out of the queue.
PopFront == queue_' = Tail(queue_) /\ left' = queue_[1]

\* Deviation: the item is stored after it was moved from.
Push_MovedFrom ==
    /\ MutexFree /\ pushed < MaxItems /\ pushed' = pushed + 1
    /\ queue_' = Append(queue_, 0)
    /\ NotifyOne /\ UNCHANGED <<stop, firing, left>>

\* push(item)
Push ==
    /\ MutexFree
    /\ pushed < MaxItems
    /\ pushed' = pushed + 1
    /\ queue_' = Append(queue_, pushed + 1)
    /\ NotifyOne
    /\ UNCHANGED <<stop, firing, left>>

\* pop(token): lock and call cv_.wait().
PopEnter(c) ==
    /\ pc[c] = "out"
    /\ MutexFree
    /\ WaitTest(c)
    /\ UNCHANGED <<queue_, stop, firing, pushed, left>>

\* Deviation: an `if' in place of the wait's `while'.
Resume_NoRetest(c) ==
    /\ pc[c] = "woken" /\ MutexFree
    /\ pc' = [pc EXCEPT ![c] = "holding"]
    /\ UNCHANGED <<queue_, stop, firing, pushed, left>>

\* A notified consumer gets mutex_ back and tests again.
Resume(c) ==
    /\ pc[c] = "woken"
    /\ MutexFree
    /\ WaitTest(c)
    /\ UNCHANGED <<queue_, stop, firing, pushed, left>>

\* Deviation: the item is taken before the stop is looked at.
PopReturn_TakeFirst(c) ==
    /\ pc[c] = "holding"
    /\ pc' = [pc EXCEPT ![c] = IF Stopped(c) THEN "gone" ELSE "out"]
    /\ queue_ # <<>> /\ queue_' = Tail(queue_)
    /\ left' = IF Stopped(c) THEN left ELSE queue_[1]
    /\ UNCHANGED <<stop, firing, pushed>>

\* pop(token) after the wait: a stop has priority over an item.
PopReturn(c) ==
    /\ pc[c] = "holding"
    /\ IF Stopped(c)
       THEN /\ pc' = [pc EXCEPT ![c] = "gone"]
            /\ UNCHANGED <<queue_, left>>
       ELSE /\ pc' = [pc EXCEPT ![c] = "out"]
            /\ PopFront
    /\ UNCHANGED <<stop, firing, pushed>>

\* try_pop(); on an empty queue it changes nothing.
TryPop ==
    /\ MutexFree
    /\ queue_ # <<>>
    /\ PopFront
    /\ UNCHANGED <<pc, stop, firing, pushed>>

\* clear()
Clear ==
    /\ MutexFree
    /\ queue_' = <<>>
    /\ left' = pushed
    /\ UNCHANGED <<pc, stop, firing, pushed>>

\* request_stop() on the source of t, first half: the flag, without any lock.
RequestStop(t) ==
    /\ ~stop[t]
    /\ stop' = [stop EXCEPT ![t] = TRUE]
    /\ firing' = [firing EXCEPT ![t] = TRUE]
    /\ UNCHANGED <<queue_, pc, pushed, left>>

\* Second half: the callbacks that the waits in progress registered on t.  Each
\* is a notify_all() on cv_, so one of them wakes the consumers of every token;
\* a consumer past its wait has deregistered its own.
RunCallbacks(t) ==
    /\ firing[t]
    /\ firing' = [firing EXCEPT ![t] = FALSE]
    /\ IF \E c \in At({"parked", "woken"}) : TokenOf[c] = t
       THEN pc' = [c \in Consumers |-> IF pc[c] = "parked" THEN "woken" ELSE pc[c]]
       ELSE UNCHANGED pc
    /\ UNCHANGED <<queue_, stop, pushed, left>>

\* A condition variable may wake up for no reason.
Spurious(c) ==
    /\ pc[c] = "parked"
    /\ pc' = [pc EXCEPT ![c] = "woken"]
    /\ UNCHANGED <<queue_, stop, firing, pushed, left>>

ConsumerStep(c) == PopEnter(c) \/ Resume(c) \/ PopReturn(c) \/ Spurious(c)

Next ==
    \/ Push \/ TryPop \/ Clear
    \/ \E c \in Consumers : ConsumerStep(c)
    \/ \E t \in Tokens : RequestStop(t) \/ RunCallbacks(t)

Spec == Init /\ [][Next]_vars

\* A notified consumer is scheduled and gets the mutex, a consumer inside the
\* critical section leaves it, request_stop() runs to its end.  Nothing is assumed
\* of producers, of calls to pop() or of requests to stop.
Fairness ==
    /\ \A c \in Consumers : WF_vars(Resume(c)) /\ WF_vars(PopReturn(c))
    /\ \A t \in Tokens : WF_vars(RunCallbacks(t))

FairSpec == Spec /\ Fairness

-----------------------------------------------------------------------------
\* The queue holds exactly the items pushed after the last one that left, in the
\* order they were pushed: pop, try_pop and clear lose, repeat and reorder nothing,
\* and a pop that is cancelled with an item in front of it leaves the item there.
FifoExact == queue_ = [i \in 1 .. (pushed - left) |-> left + i]

\* A consumer that reaches queue_.front() has an item to take, although clear(),
\* try_pop() and the other consumers ran between its wakeup and its return.
FrontDefined == \A c \in At({"holding"}) : Stopped(c) \/ queue_ # <<>>

\* At most one consumer is past its wait and owns mutex_.
Exclusive == \A c, d \in At({"holding"}) : c = d

\* "No missed wakeups": while a consumer that nobody cancelled is parked, every item
\* in the queue has another consumer awake to take it.
NoMissedWakeup ==
    (\E c \in At({"parked"}) : ~Stopped(c))
        => Len(queue_) <= Cardinality(At({"woken", "holding"}))

\* A request to stop gets its consumer out of pop(), whether it arrives before the
\* wait, between the test and the park, while parked or after the wakeup.
StopUnblocks ==
    \A c \in Consumers :
        (Stopped(c) /\ pc[c] \in {"parked", "woken", "holding"}) ~> pc[c] = "gone"

\* The blocking queue that callers see: a consumer inside pop() waits until it has
\* its item or until a stop is requested, which is where it is cancelled.
Fifo == INSTANCE BlockingFifo WITH
    Items   <- 1 .. MaxItems,
    fifo    <- queue_,
    waiting <- {c \in At({"parked", "woken", "holding"}) : ~Stopped(c)}

\* The mutex, the condition variable and the stop callbacks together behave like
\* that queue, its service guarantee included.
ImplementsFifo == Fifo!FifoSpec
=============================================================================
