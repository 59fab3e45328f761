------------------------ MODULE ConcurrentQueue_proofs ------------------------
(***************************************************************************)
(* Theorems about ConcurrentQueue for any set of consumers, any assignment *)
(* of stop tokens and any number of items.                                 *)
(***************************************************************************)
EXTENDS ConcurrentQueue, FiniteSetTheorems, TLAPS

USE TokensAssumption, MaxItemsAssumption

\* The inductive invariant.  An item is there for the consumer that owns mutex_
\* (FrontDefined) because nobody else can own it (Exclusive); that in turn keeps
\* queue_ a sequence when its head is moved out; FifoExact needs the ghosts in order.
IInv ==
    /\ TypeOK
    /\ Exclusive
    /\ FrontDefined
    /\ left <= pushed
    /\ FifoExact

\* The initial state of the queue satisfies the inductive invariant.
LEMMA InitIInv == Init => IInv
  BY DEF Init, IInv, TypeOK, Exclusive, FrontDefined, FifoExact, At, Places, Stopped

\* What a sequence of consecutive numbers looks like after it loses its head or
\* gains a tail: the two things queue_ goes through.
LEMMA Consecutive ==
    ASSUME NEW l \in Nat, NEW p \in Nat, l <= p, NEW q, q = [i \in 1 .. (p - l) |-> l + i]
    PROVE  /\ q \in Seq(1 .. p)
           /\ Len(q) = p - l
           /\ Append(q, p + 1) = [i \in 1 .. (p + 1 - l) |-> l + i]
           /\ q # <<>> => /\ l + 1 <= p
                          /\ q[1] = l + 1
                          /\ Tail(q) = [i \in 1 .. (p - (l + 1)) |-> l + 1 + i]
           /\ q = <<>> => l = p
<1> p - l \in Nat
  OBVIOUS
<1>1. q \in Seq(1 .. p) /\ Len(q) = p - l
  OBVIOUS
<1>2. Append(q, p + 1) = [i \in 1 .. (p + 1 - l) |-> l + i]
  BY <1>1
<1>3. q # <<>> => l + 1 <= p
  BY <1>1
<1>4. q # <<>> => q[1] = l + 1
  BY <1>3
<1>5. q # <<>> => Tail(q) = [i \in 1 .. (p - (l + 1)) |-> l + 1 + i]
  BY <1>1, <1>3
<1>6. q = <<>> => l = p
  BY <1>1
<1> QED
  BY <1>1, <1>2, <1>3, <1>4, <1>5, <1>6

\* Moving the front item out keeps queue_ consecutive.
LEMMA PopFrontExact ==
    ASSUME IInv, queue_ # <<>>, PopFront, UNCHANGED pushed
    PROVE  /\ queue_' \in Seq(1 .. MaxItems)
           /\ left' \in 0 .. MaxItems
           /\ left' <= pushed'
           /\ FifoExact'
<1>1. /\ left \in Nat /\ pushed \in Nat /\ left <= pushed /\ pushed <= MaxItems
      /\ queue_ = [i \in 1 .. (pushed - left) |-> left + i]
  BY DEF IInv, TypeOK, FifoExact
<1>2. /\ left + 1 <= pushed
      /\ queue_[1] = left + 1
      /\ Tail(queue_) = [i \in 1 .. (pushed - (left + 1)) |-> left + 1 + i]
  BY <1>1, Consecutive
<1>3. left' = left + 1 /\ FifoExact'
  BY <1>2 DEF PopFront, FifoExact
<1>4. queue_' \in Seq(1 .. pushed)
  BY <1>1, <1>2, <1>3, Consecutive DEF FifoExact
<1>5. queue_' \in Seq(1 .. MaxItems)
  BY <1>1, <1>4
<1> QED
  BY <1>1, <1>2, <1>3, <1>5

\* A waiting consumer that owns mutex_ after the test is the only owner, and has an
\* item unless it was stopped.
LEMMA WaitTestOwns ==
    ASSUME IInv, NEW c \in Consumers, MutexFree, WaitTest(c), UNCHANGED <<queue_, stop>>
    PROVE  /\ pc' \in [Consumers -> Places]
           /\ Exclusive'
           /\ FrontDefined'
<1>1. pc' \in [Consumers -> Places]
  BY DEF IInv, TypeOK, WaitTest, Places
<1>2. \A d \in Consumers : pc[d] # "holding"
  BY DEF MutexFree, At
<1>3. \A d \in At({"holding"})' : d = c /\ (queue_ # <<>> \/ Stopped(c))
  BY <1>2 DEF IInv, TypeOK, WaitTest, At
<1>4. Exclusive'
  BY <1>3 DEF Exclusive
<1>5. FrontDefined'
  BY <1>3 DEF FrontDefined, Stopped
<1> QED
  BY <1>1, <1>4, <1>5

\* A step that leaves nobody newly in possession of mutex_, and either finds it free
\* or keeps the items, preserves the part of the invariant about it.
LEMMA OwnerKept ==
    ASSUME IInv,
           At({"holding"})' \subseteq At({"holding"}),
           \A t \in Tokens : stop[t] => stop'[t],
           MutexFree \/ queue_' = queue_
    PROVE  Exclusive' /\ FrontDefined'
<1>1. Exclusive'
  BY DEF IInv, Exclusive
<1>2. ASSUME NEW c \in At({"holding"})' PROVE Stopped(c)' \/ queue_' # <<>>
  <2>1. c \in At({"holding"}) /\ c \in Consumers
    BY <1>2 DEF At
  <2>2. queue_' = queue_
    BY <2>1 DEF MutexFree
  <2> QED
    BY <2>1, <2>2, TokensAssumption DEF IInv, FrontDefined, Stopped
<1> QED
  BY <1>1, <1>2 DEF FrontDefined

\* push() adds the next number.
LEMMA PushStep == IInv /\ Push => IInv'
<1> SUFFICES ASSUME IInv, Push PROVE IInv'
  OBVIOUS
<1>1. /\ left \in Nat /\ pushed \in Nat /\ left <= pushed /\ pushed < MaxItems
      /\ queue_ = [i \in 1 .. (pushed - left) |-> left + i]
      /\ pushed' = pushed + 1 /\ left' = left
  BY DEF IInv, TypeOK, FifoExact, Push
<1>2. FifoExact'
  BY <1>1, Consecutive DEF Push, FifoExact
<1>3. pc' \in [Consumers -> Places] /\ At({"holding"})' \subseteq At({"holding"})
  BY DEF IInv, TypeOK, Push, NotifyOne, Places, At
<1>4. Exclusive' /\ FrontDefined'
  BY <1>3, OwnerKept DEF Push
<1>5. queue_' \in Seq(1 .. (pushed + 1))
  BY <1>1, <1>2, Consecutive DEF FifoExact
<1>6. queue_' \in Seq(1 .. MaxItems)
  BY <1>1, <1>5
<1>7. TypeOK'
  BY <1>1, <1>3, <1>6 DEF IInv, TypeOK, Push
<1> QED
  BY <1>1, <1>2, <1>4, <1>7 DEF IInv

\* A consumer enters the wait or re-tests after a wakeup.
LEMMA WaitStep ==
    ASSUME NEW c \in Consumers PROVE IInv /\ (PopEnter(c) \/ Resume(c)) => IInv'
<1> SUFFICES ASSUME IInv, PopEnter(c) \/ Resume(c) PROVE IInv'
  OBVIOUS
<1>1. MutexFree /\ WaitTest(c) /\ UNCHANGED <<queue_, stop, firing, pushed, left>>
  BY DEF PopEnter, Resume
<1>2. pc' \in [Consumers -> Places] /\ Exclusive' /\ FrontDefined'
  BY <1>1, WaitTestOwns
<1> QED
  BY <1>1, <1>2 DEF IInv, TypeOK, FifoExact

\* pop() returns, with the front item or, stopped, with none.
LEMMA PopReturnStep == ASSUME NEW c \in Consumers PROVE IInv /\ PopReturn(c) => IInv'
<1> SUFFICES ASSUME IInv, PopReturn(c) PROVE IInv'
  OBVIOUS
<1>1. c \in At({"holding"}) /\ At({"holding"}) = {c}
  BY DEF PopReturn, At, IInv, Exclusive
<1>2. pc' \in [Consumers -> Places] /\ At({"holding"})' = {}
  BY <1>1 DEF PopReturn, IInv, TypeOK, Places, At
<1>3. Exclusive' /\ FrontDefined'
  BY <1>2 DEF Exclusive, FrontDefined
<1>4. /\ queue_' \in Seq(1 .. MaxItems) /\ left' \in 0 .. MaxItems
      /\ left' <= pushed' /\ FifoExact'
  <2>1. CASE Stopped(c)
    BY <2>1 DEF PopReturn, IInv, TypeOK, FifoExact
  <2>2. CASE ~Stopped(c)
    BY <1>1, <2>2, PopFrontExact DEF PopReturn, IInv, FrontDefined
  <2> QED
    BY <2>1, <2>2
<1> QED
  BY <1>2, <1>3, <1>4 DEF IInv, TypeOK, PopReturn

\* try_pop() on a queue with items.
LEMMA TryPopStep == IInv /\ TryPop => IInv'
<1> SUFFICES ASSUME IInv, TryPop PROVE IInv'
  OBVIOUS
<1>1. Exclusive' /\ FrontDefined'
  BY OwnerKept DEF TryPop, At
<1>2. /\ queue_' \in Seq(1 .. MaxItems) /\ left' \in 0 .. MaxItems
      /\ left' <= pushed' /\ FifoExact'
  BY PopFrontExact DEF TryPop
<1> QED
  BY <1>1, <1>2 DEF IInv, TypeOK, TryPop

\* clear() leaves nothing that was pushed.
LEMMA ClearStep == IInv /\ Clear => IInv'
<1> SUFFICES ASSUME IInv, Clear PROVE IInv'
  OBVIOUS
<1>1. Exclusive' /\ FrontDefined'
  BY OwnerKept DEF Clear, At
<1>2. pushed' = pushed /\ left' = pushed /\ pushed \in 0 .. MaxItems
  BY DEF Clear, IInv, TypeOK
<1>3. FifoExact'
  BY <1>2 DEF Clear, FifoExact
<1> QED
  BY <1>1, <1>2, <1>3 DEF IInv, TypeOK, Clear

\* A request to stop, its callbacks and a spurious wakeup move no item.
LEMMA SignalStep ==
    IInv /\ (\/ \E t \in Tokens : RequestStop(t) \/ RunCallbacks(t)
             \/ \E c \in Consumers : Spurious(c)) => IInv'
<1> SUFFICES ASSUME IInv,
                    \/ \E t \in Tokens : RequestStop(t) \/ RunCallbacks(t)
                    \/ \E c \in Consumers : Spurious(c)
             PROVE  IInv'
  OBVIOUS
<1>1. queue_' = queue_ /\ pushed' = pushed /\ left' = left
  BY DEF RequestStop, RunCallbacks, Spurious
<1>2. /\ pc' \in [Consumers -> Places]
      /\ stop' \in [Tokens -> BOOLEAN] /\ firing' \in [Tokens -> BOOLEAN]
      /\ \A t \in Tokens : stop[t] => stop'[t]
  <2>1. CASE \E t \in Tokens : RequestStop(t)
    BY <2>1 DEF RequestStop, IInv, TypeOK
  <2>2. CASE \E t \in Tokens : RunCallbacks(t)
    BY <2>2 DEF RunCallbacks, IInv, TypeOK, Places
  <2>3. CASE \E c \in Consumers : Spurious(c)
    BY <2>3 DEF Spurious, IInv, TypeOK, Places
  <2> QED
    BY <2>1, <2>2, <2>3
<1>3. At({"holding"})' \subseteq At({"holding"})
  BY DEF RequestStop, RunCallbacks, Spurious, IInv, TypeOK, At, Places
<1>4. Exclusive' /\ FrontDefined'
  BY <1>1, <1>2, <1>3, OwnerKept
<1> QED
  BY <1>1, <1>2, <1>4 DEF IInv, TypeOK, FifoExact

\* Every step of the queue, its callers and their stop tokens keeps the invariant.
LEMMA NextIInv == IInv /\ [Next]_vars => IInv'
<1> SUFFICES ASSUME IInv, [Next]_vars PROVE IInv'
  OBVIOUS
<1>1. CASE Push
  BY <1>1, PushStep
<1>2. CASE TryPop
  BY <1>2, TryPopStep
<1>3. CASE Clear
  BY <1>3, ClearStep
<1>4. CASE \E c \in Consumers : PopEnter(c) \/ Resume(c)
  BY <1>4, WaitStep
<1>5. CASE \E c \in Consumers : PopReturn(c)
  BY <1>5, PopReturnStep
<1>6. CASE \/ \E t \in Tokens : RequestStop(t) \/ RunCallbacks(t)
           \/ \E c \in Consumers : Spurious(c)
  BY <1>6, SignalStep
<1>7. CASE UNCHANGED vars
  BY <1>7 DEF vars, IInv, TypeOK, Exclusive, FrontDefined, FifoExact, At, Stopped
<1> QED
  BY <1>1, <1>2, <1>3, <1>4, <1>5, <1>6, <1>7 DEF Next, ConsumerStep

LEMMA Invariance == Spec => []IInv
  BY InitIInv, NextIInv, PTL DEF Spec

-----------------------------------------------------------------------------
\* Whatever the threads do, queue_ holds items that were pushed and every consumer is
\* somewhere in pop().
THEOREM TypeCorrect == Spec => []TypeOK
  BY Invariance, PTL DEF IInv

\* For any number of producers' items, consumers and stop tokens, push, pop, try_pop
\* and clear lose, repeat and reorder no item, cancelled pops included.
THEOREM NothingLost == Spec => []FifoExact
  BY Invariance, PTL DEF IInv

\* pop() never calls queue_.front() on an empty queue.
THEOREM FrontNeverUndefined == Spec => []FrontDefined
  BY Invariance, PTL DEF IInv

-----------------------------------------------------------------------------
\* The consumers that the abstract queue calls waiting.
Waiting == {c \in At({"parked", "woken", "holding"}) : ~Stopped(c)}

\* A step that keeps the tokens and moves no consumer into or out of pop() keeps the
\* set of waiting consumers.
LEMMA WaitingKept ==
    ASSUME UNCHANGED stop,
           \A c \in Consumers : pc'[c] # pc[c] =>
               {pc[c], pc'[c]} \subseteq {"parked", "woken", "holding"} \/ Stopped(c)
    PROVE  Waiting' = Waiting
  BY DEF Waiting, At, Stopped

\* Every step of the detailed queue is a step of the blocking fifo or a stutter.
LEMMA StepImplements == IInv /\ [Next]_vars => [Fifo!FifoNext]_(Fifo!fifoVars)
<1> SUFFICES ASSUME IInv, [Next]_vars
             PROVE  Fifo!FifoNext \/ UNCHANGED <<queue_, Waiting>>
  BY DEF Fifo!fifoVars, Waiting
<1>1. CASE Push
  <2>1. queue_' = Append(queue_, pushed + 1) /\ pushed + 1 \in 1 .. MaxItems
    BY <1>1 DEF Push, IInv, TypeOK
  <2>2. Waiting' = Waiting
    BY <1>1, WaitingKept DEF Push, NotifyOne, At, IInv, TypeOK
  <2> QED
    BY <2>1, <2>2 DEF Fifo!FifoNext, Fifo!Put, Waiting
<1>2. CASE TryPop
  <2>1. Waiting' = Waiting
    BY <1>2, WaitingKept DEF TryPop
  <2> QED
    BY <1>2, <2>1 DEF TryPop, PopFront, Fifo!FifoNext, Fifo!Poll, Waiting
<1>3. CASE Clear
  <2>1. Waiting' = Waiting
    BY <1>3, WaitingKept DEF Clear
  <2> QED
    BY <1>3, <2>1 DEF Clear, Fifo!FifoNext, Fifo!Flush, Waiting
<1>4. ASSUME NEW c \in Consumers, PopEnter(c) PROVE Fifo!FifoNext \/ UNCHANGED <<queue_, Waiting>>
  <2>1. CASE Stopped(c)
    <3>1. \A d \in Consumers : pc'[d] # pc[d] => d = c
      BY <1>4 DEF PopEnter, WaitTest, IInv, TypeOK
    <3>2. Waiting' = Waiting
      BY <1>4, <2>1, <3>1, WaitingKept DEF PopEnter
    <3> QED
      BY <1>4, <3>2 DEF PopEnter
  <2>2. CASE ~Stopped(c)
    <3>1. c \notin Waiting /\ Waiting' = Waiting \cup {c}
      BY <1>4, <2>2 DEF PopEnter, WaitTest, IInv, TypeOK, Waiting, At, Stopped
    <3> QED
      BY <1>4, <3>1 DEF PopEnter, Fifo!FifoNext, Fifo!Join, Waiting
  <2> QED
    BY <2>1, <2>2
<1>5. ASSUME NEW c \in Consumers, Resume(c) \/ Spurious(c) PROVE UNCHANGED <<queue_, Waiting>>
  <2>1. Waiting' = Waiting
    BY <1>5, WaitingKept DEF Resume, WaitTest, Spurious, IInv, TypeOK
  <2> QED
    BY <1>5, <2>1 DEF Resume, Spurious
<1>6. ASSUME NEW c \in Consumers, PopReturn(c) PROVE Fifo!FifoNext \/ UNCHANGED <<queue_, Waiting>>
  <2>1. CASE Stopped(c)
    <3>1. Waiting' = Waiting
      BY <1>6, <2>1, WaitingKept DEF PopReturn, IInv, TypeOK
    <3> QED
      BY <1>6, <2>1, <3>1 DEF PopReturn
  <2>2. CASE ~Stopped(c)
    <3>1. c \in Waiting /\ Waiting' = Waiting \ {c}
      BY <1>6, <2>2 DEF PopReturn, IInv, TypeOK, Waiting, At, Stopped
    <3>2. queue_ # <<>> /\ queue_' = Tail(queue_)
      BY <1>6, <2>2 DEF PopReturn, PopFront, IInv, FrontDefined, At
    <3> QED
      BY <3>1, <3>2 DEF Fifo!FifoNext, Fifo!Take, Waiting
  <2> QED
    BY <2>1, <2>2
<1>7. ASSUME NEW t \in Tokens, RequestStop(t) PROVE Fifo!FifoNext
  <2> DEFINE C == {c \in Consumers : TokenOf[c] = t}
  <2>1. Waiting' = Waiting \ C
    BY <1>7 DEF RequestStop, IInv, TypeOK, Waiting, At, Stopped
  <2>2. C \in SUBSET Consumers /\ queue_' = queue_
    BY <1>7 DEF RequestStop
  <2> QED
    BY <2>1, <2>2 DEF Fifo!FifoNext, Fifo!Cancel, Waiting
<1>8. ASSUME NEW t \in Tokens, RunCallbacks(t) PROVE UNCHANGED <<queue_, Waiting>>
  <2>1. Waiting' = Waiting
    BY <1>8, WaitingKept DEF RunCallbacks, IInv, TypeOK
  <2> QED
    BY <1>8, <2>1 DEF RunCallbacks
<1>9. CASE UNCHANGED vars
  BY <1>9 DEF vars, Waiting, At, Stopped
<1> QED
  BY <1>1, <1>2, <1>3, <1>4, <1>5, <1>6, <1>7, <1>8, <1>9 DEF Next, ConsumerStep

\* The queue with its mutex, wakeups and stop callbacks implements the blocking fifo of
\* BlockingFifo: what a caller of push, pop, try_pop and clear sees is that fifo.
THEOREM ImplementsFifoSafety == Spec => Fifo!FifoSafety
<1>1. Init => Fifo!FifoInit
  BY DEF Init, Fifo!FifoInit, At
<1> QED
  BY <1>1, StepImplements, Invariance, PTL DEF Spec, Fifo!FifoSafety

-----------------------------------------------------------------------------
Awake == At({"woken", "holding"})

\* The inductive form of NoMissedWakeup: every step of a queue whose consumers share one
\* stop source keeps it.  A push finds a parked consumer and wakes it; a consumer that
\* goes without the item it was woken for does so because all of them are stopped.
LEMMA NextNoMissedWakeup ==
    ASSUME IsFiniteSet(Consumers), \A c, d \in Consumers : TokenOf[c] = TokenOf[d],
           IInv, NoMissedWakeup, [Next]_vars
    PROVE  NoMissedWakeup'
<1> SUFFICES ASSUME NEW p \in At({"parked"})', ~Stopped(p)'
             PROVE  Len(queue_') <= Cardinality(Awake')
  BY DEF NoMissedWakeup, Awake
<1>1. /\ IsFiniteSet(Awake) /\ IsFiniteSet(Awake')
      /\ Cardinality(Awake) \in Nat /\ Cardinality(Awake') \in Nat
      /\ \A S : S \subseteq Awake' => Cardinality(S) <= Cardinality(Awake')
  BY FS_Subset, FS_CardinalityType DEF Awake, At
<1>2. \A c \in Consumers : ~Stopped(c)' /\ ~Stopped(c)
  BY DEF At, Stopped, vars, Next, ConsumerStep, Push, TryPop, Clear, PopEnter, Resume, PopReturn,
         Spurious, RequestStop, RunCallbacks, IInv, TypeOK
<1>3. p \in Consumers /\ pc'[p] = "parked"
  BY DEF At
<1>4. CASE UNCHANGED <<queue_, pc>>
  BY <1>2, <1>3, <1>4 DEF NoMissedWakeup, Awake, At, Stopped
<1>5. CASE Push
  <2>1. PICK c \in At({"parked"}) : pc' = [pc EXCEPT ![c] = "woken"]
    BY <1>3, <1>5 DEF Push, NotifyOne, At
  <2>2. c \notin Awake /\ Awake' = Awake \cup {c}
    BY <2>1 DEF Awake, At, IInv, TypeOK
  <2>3. Cardinality(Awake') = Cardinality(Awake) + 1
    BY <1>1, <2>2, FS_AddElement
  <2>4. Len(queue_) <= Cardinality(Awake)
    BY <1>2, <2>1 DEF NoMissedWakeup, Awake, At
  <2>5. Len(queue_') = Len(queue_) + 1 /\ Len(queue_) \in Nat
    BY <1>5 DEF Push, IInv, TypeOK
  <2> QED
    BY <1>1, <2>3, <2>4, <2>5
<1>6. CASE TryPop \/ Clear
  <2>1. Len(queue_') <= Len(queue_) /\ Len(queue_) \in Nat /\ Len(queue_') \in Nat
    BY <1>6 DEF TryPop, Clear, PopFront, IInv, TypeOK
  <2>2. Awake' = Awake /\ p \in At({"parked"})
    BY <1>3, <1>6 DEF TryPop, Clear, Awake, At
  <2> QED
    BY <1>1, <1>2, <2>1, <2>2 DEF NoMissedWakeup, Awake, At
<1>7. ASSUME NEW c \in Consumers, PopEnter(c) \/ Resume(c) PROVE Len(queue_') <= Cardinality(Awake')
  <2>1. queue_' = queue_ /\ WaitTest(c) /\ Len(queue_) \in Nat
    BY <1>7 DEF PopEnter, Resume, IInv, TypeOK
  <2>2. CASE queue_ = <<>>
    BY <1>1, <2>1, <2>2
  <2>3. CASE queue_ # <<>>
    <3>1. p \in At({"parked"}) /\ Awake \subseteq Awake'
      BY <1>3, <2>1, <2>3 DEF WaitTest, Awake, At, IInv, TypeOK
    <3>2. Cardinality(Awake) <= Cardinality(Awake')
      BY <1>1, <3>1
    <3> QED
      BY <1>1, <1>2, <2>1, <3>1, <3>2 DEF NoMissedWakeup, Awake, At
  <2> QED
    BY <2>2, <2>3
<1>8. ASSUME NEW c \in Consumers, PopReturn(c) PROVE Len(queue_') <= Cardinality(Awake')
  <2>1. c \in Awake /\ Awake' = Awake \ {c} /\ p \in At({"parked"})
    BY <1>2, <1>3, <1>8 DEF PopReturn, Awake, At, IInv, TypeOK
  <2>2. Cardinality(Awake') = Cardinality(Awake) - 1
    BY <1>1, <2>1, FS_RemoveElement
  <2>3. queue_ # <<>> /\ queue_' = Tail(queue_)
    BY <1>2, <1>8 DEF PopReturn, PopFront, IInv, FrontDefined, At
  <2>4. Len(queue_') = Len(queue_) - 1 /\ Len(queue_) \in Nat
    BY <2>3 DEF IInv, TypeOK
  <2>5. Len(queue_) <= Cardinality(Awake)
    BY <1>2, <2>1 DEF NoMissedWakeup, Awake, At
  <2> QED
    BY <1>1, <2>2, <2>4, <2>5
<1>9. ASSUME UNCHANGED queue_,
             \/ \E t \in Tokens : RunCallbacks(t)
             \/ \E c \in Consumers : Spurious(c)
      PROVE Len(queue_') <= Cardinality(Awake')
  <2>1. p \in At({"parked"}) /\ Awake \subseteq Awake'
    BY <1>3, <1>9 DEF RunCallbacks, Spurious, Awake, At, IInv, TypeOK
  <2>2. Cardinality(Awake) <= Cardinality(Awake')
    BY <1>1, <2>1
  <2>3. Len(queue_) \in Nat /\ Len(queue_) <= Cardinality(Awake)
    BY <1>2, <2>1 DEF NoMissedWakeup, Awake, At, IInv, TypeOK
  <2> QED
    BY <1>1, <1>9, <2>2, <2>3
<1> QED
  BY <1>4, <1>5, <1>6, <1>7, <1>8, <1>9
     DEF Next, ConsumerStep, vars, RequestStop, RunCallbacks, Spurious

\* When all consumers of a queue are cancelled through one stop source, no wakeup is
\* missed, for any number of consumers: the promise of the comment on pop().
THEOREM SharedSourceNoMissedWakeup ==
    ASSUME IsFiniteSet(Consumers), \A c, d \in Consumers : TokenOf[c] = TokenOf[d]
    PROVE  Spec => []NoMissedWakeup
<1>1. Init => NoMissedWakeup
  BY DEF Init, NoMissedWakeup, At
<1>2. IInv /\ NoMissedWakeup /\ [Next]_vars => NoMissedWakeup'
  BY NextNoMissedWakeup
<1> QED
  BY <1>1, <1>2, Invariance, PTL DEF Spec

-----------------------------------------------------------------------------
\* What StopUnblocks rests on besides fairness.

\* A consumer that is parked although its token was stopped has the callbacks of that stop
\* still ahead of it, and they will wake it.
StopNotMissed == \A c \in At({"parked"}) : Stopped(c) => firing[TokenOf[c]]

\* A stopped consumer only gets ahead: from its park over the wakeup to the return, for good.
Forward(c) ==
    /\ pc[c] = "parked" => pc'[c] \in {"parked", "woken"}
    /\ pc[c] = "woken" => pc'[c] \in {"woken", "holding"}
    /\ pc[c] = "holding" => pc'[c] \in {"holding", "gone"}
    /\ pc[c] = "gone" => pc'[c] = "gone"

\* A step in which nobody parks and no token changes.
LEMMA NobodyParks ==
    ASSUME StopNotMissed, UNCHANGED <<stop, firing>>, At({"parked"})' \subseteq At({"parked"})
    PROVE  StopNotMissed'
  BY DEF StopNotMissed, Stopped

\* A consumer tests its token with the mutex held before it parks.
LEMMA TestedBeforeParked ==
    ASSUME TypeOK, StopNotMissed, NEW c \in Consumers, WaitTest(c), UNCHANGED <<stop, firing>>
    PROVE  StopNotMissed'
<1>1. \A d \in At({"parked"})' : d \in At({"parked"}) \/ (d = c /\ ~Stopped(c))
  BY DEF WaitTest, At, TypeOK
<1> QED
  BY <1>1 DEF StopNotMissed, Stopped

\* The callbacks of a stop run after its flag is set, and leave nobody of it parked.
LEMMA StopStep ==
    ASSUME TypeOK, StopNotMissed, NEW t \in Tokens, RequestStop(t) \/ RunCallbacks(t)
    PROVE  StopNotMissed'
<1>1. CASE RequestStop(t)
  BY <1>1 DEF RequestStop, StopNotMissed, Stopped, At, TypeOK
<1>2. CASE RunCallbacks(t) /\ \E c \in At({"parked", "woken"}) : TokenOf[c] = t
  <2>1. At({"parked"})' = {}
    BY <1>2 DEF RunCallbacks, At, TypeOK
  <2> QED
    BY <2>1 DEF StopNotMissed
<1>3. CASE RunCallbacks(t) /\ ~\E c \in At({"parked", "woken"}) : TokenOf[c] = t
  <2>1. \A c \in At({"parked"}) : TokenOf[c] # t /\ TokenOf[c] \in Tokens
    BY <1>3 DEF At
  <2> QED
    BY <1>3, <2>1 DEF RunCallbacks, StopNotMissed, Stopped, At, TypeOK
<1> QED
  BY <1>1, <1>2, <1>3

\* Every step keeps the callbacks ahead of whoever sleeps through a stop.
LEMMA NextStopNotMissed == IInv /\ StopNotMissed /\ [Next]_vars => StopNotMissed'
<1> SUFFICES ASSUME IInv, StopNotMissed, [Next]_vars PROVE StopNotMissed'
  OBVIOUS
<1>1. TypeOK
  BY DEF IInv
<1>2. CASE Push
  BY <1>1, <1>2, NobodyParks DEF Push, NotifyOne, At, TypeOK
<1>3. CASE TryPop \/ Clear \/ UNCHANGED vars
  BY <1>3, NobodyParks DEF TryPop, Clear, vars, At
<1>4. ASSUME NEW c \in Consumers, PopEnter(c) \/ Resume(c) PROVE StopNotMissed'
  BY <1>1, <1>4, TestedBeforeParked DEF PopEnter, Resume
<1>5. ASSUME NEW c \in Consumers, PopReturn(c) \/ Spurious(c) PROVE StopNotMissed'
  BY <1>1, <1>5, NobodyParks DEF PopReturn, Spurious, At, TypeOK
<1> QED
  BY <1>1, <1>2, <1>3, <1>4, <1>5, StopStep DEF Next, ConsumerStep

\* No stop is missed, whether it comes before the test, between the test and the park or
\* later, and with any number of consumers and tokens: a stopped consumer does not sleep,
\* except until the callbacks of condition_variable_any have run.
THEOREM StopNeverMissed == Spec => []StopNotMissed
<1>1. Init => StopNotMissed
  BY DEF Init, StopNotMissed, At
<1> QED
  BY <1>1, NextStopNotMissed, Invariance, PTL DEF Spec

\* Nor does it sleep again: a stopped consumer is at most two steps of its own from the
\* return of pop(), and what the others do meanwhile does not set it back.
THEOREM StopLeadsOut == Spec => [][\A c \in Consumers : Stopped(c) => Forward(c)]_vars
<1>1. IInv /\ [Next]_vars => [\A c \in Consumers : Stopped(c) => Forward(c)]_vars
  <2> SUFFICES ASSUME IInv, Next, NEW c \in Consumers, Stopped(c) PROVE Forward(c)
    OBVIOUS
  <2>1. pc \in [Consumers -> Places]
    BY DEF IInv, TypeOK
  <2>2. CASE Push \/ TryPop \/ Clear
    BY <2>1, <2>2 DEF Push, NotifyOne, At, TryPop, Clear, Forward
  <2>3. ASSUME NEW d \in Consumers, ConsumerStep(d) PROVE Forward(c)
    <3>1. CASE c = d
      BY <2>1, <2>3, <3>1
         DEF ConsumerStep, PopEnter, Resume, PopReturn, Spurious, WaitTest, Forward
    <3>2. CASE c # d
      BY <2>1, <2>3, <3>2
         DEF ConsumerStep, PopEnter, Resume, PopReturn, Spurious, WaitTest, Forward
    <3> QED
      BY <3>1, <3>2
  <2>4. ASSUME NEW t \in Tokens, RequestStop(t) \/ RunCallbacks(t) PROVE Forward(c)
    BY <2>1, <2>4 DEF RequestStop, RunCallbacks, Forward
  <2> QED
    BY <2>2, <2>3, <2>4 DEF Next
<1> QED
  BY <1>1, Invariance, PTL DEF Spec
=============================================================================
