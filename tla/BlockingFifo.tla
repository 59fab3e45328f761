---------------------------- MODULE BlockingFifo ----------------------------
(***************************************************************************)
(* What a blocking first-in first-out queue promises the threads that share*)
(* it, with no mutex, no condition variable and no wakeups: a consumer     *)
(* that waits gets the oldest item in one step, a cancelled one leaves     *)
(* without touching the items.  ConcurrentQueue implements this.           *)
(***************************************************************************)
EXTENDS Sequences

CONSTANTS
    Items,        \* what producers put
    Consumers     \* threads that may block waiting for an item

VARIABLES
    fifo,         \* the items put and not yet removed, oldest first
    waiting       \* consumers asking for an item and not cancelled

fifoVars == <<fifo, waiting>>

FifoInit == fifo = <<>> /\ waiting = {}

\* A producer adds an item at the end.
Put == \E x \in Items : fifo' = Append(fifo, x) /\ UNCHANGED waiting

\* A consumer asks for an item.
Join(c) == c \notin waiting /\ waiting' = waiting \cup {c} /\ UNCHANGED fifo

\* A waiting consumer receives the oldest item.
Take(c) ==
    /\ c \in waiting
    /\ fifo # <<>>
    /\ fifo' = Tail(fifo)
    /\ waiting' = waiting \ {c}

\* Some consumers are cancelled: they leave and no item goes with them.
Cancel == \E C \in SUBSET Consumers : waiting' = waiting \ C /\ UNCHANGED fifo

\* A thread that does not block removes the oldest item.
Poll == fifo # <<>> /\ fifo' = Tail(fifo) /\ UNCHANGED waiting

\* All items are dropped.
Flush == fifo' = <<>> /\ UNCHANGED waiting

FifoNext ==
    \/ Put \/ Poll \/ Flush \/ Cancel
    \/ \E c \in Consumers : Join(c) \/ Take(c)

\* The safety part of the promise.
FifoSafety == FifoInit /\ [][FifoNext]_fifoVars

\* As long as items are there and somebody waits, somebody is served.
SomeoneServed == WF_fifoVars(\E c \in Consumers : Take(c))

FifoSpec == FifoSafety /\ SomeoneServed
=============================================================================
