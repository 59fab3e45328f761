------------------------- MODULE PtsFrameBuffer_proofs -------------------------
(***************************************************************************)
(* Proofs about PtsFrameBuffer for any numbers of threads, any capacity,   *)
(* any period of the timestamps and any presentation times: the capacity,  *)
(* that no wakeup is missed, and that the comparator of the heap gives the *)
(* order of presentation across the wrap, from which the safety half of    *)
(* the refinement of PresentationBuffer follows.                           *)
(***************************************************************************)
EXTENDS PtsFrameBuffer, FiniteSetTheorems, TLAPS

-----------------------------------------------------------------------------
\* Counting threads

Unit(x, S) == IF x \in S THEN 1 ELSE 0

LEMMA AboutCorrect ==
    ASSUME NEW f, NEW S, IsFiniteSet(S), NEW places
    PROVE  About(f, S, places) \in Nat
<1>1. {t \in S : f[t] \in places} \in SUBSET S
  OBVIOUS
<1> QED
  BY <1>1, FS_Subset, FS_CardinalityType DEF About

\* Unit thread of the set moves.
LEMMA AboutMoved ==
    ASSUME NEW f, NEW g, NEW S, IsFiniteSet(S), NEW t \in S, NEW places, \A u \in S : u # t => g[u] = f[u]
    PROVE  About(g, S, places) = About(f, S, places) + Unit(g[t], places) - Unit(f[t], places)
<1> DEFINE A == {u \in S : f[u] \in places}  B == {u \in S : g[u] \in places}
<1>1. IsFiniteSet(A) /\ Cardinality(A) \in Nat
  BY FS_Subset, FS_CardinalityType
<1>2. Cardinality(B) = Cardinality(A) + Unit(g[t], places) - Unit(f[t], places)
  <2>1. CASE f[t] \in places <=> g[t] \in places
    <3>1. A = B
      BY <2>1
    <3>2. Unit(g[t], places) = Unit(f[t], places) /\ Unit(f[t], places) \in Nat
      BY <2>1 DEF Unit
    <3> HIDE DEF A, B
    <3> QED
      BY <1>1, <3>1, <3>2
  <2>2. CASE f[t] \in places /\ g[t] \notin places
    <3>1. t \in A /\ B = A \ {t}
      BY <2>2
    <3>2. Cardinality(B) = Cardinality(A) - 1
      BY <1>1, <3>1, FS_RemoveElement
    <3> QED
      BY <1>1, <2>2, <3>2 DEF Unit
  <2>3. CASE f[t] \notin places /\ g[t] \in places
    <3>1. t \notin A /\ B = A \cup {t}
      BY <2>3
    <3>2. Cardinality(B) = Cardinality(A) + 1
      BY <1>1, <3>1, FS_AddElement
    <3> QED
      BY <1>1, <2>3, <3>2 DEF Unit
  <2> QED
    BY <2>1, <2>2, <2>3
<1> QED
  BY <1>2 DEF About

\* No thread of the set moves.
LEMMA AboutKept ==
    ASSUME NEW f, NEW g, NEW S, \A u \in S : g[u] = f[u], NEW places
    PROVE  About(g, S, places) = About(f, S, places)
<1>1. {u \in S : f[u] \in places} = {u \in S : g[u] \in places}
  OBVIOUS
<1> QED
  BY <1>1 DEF About

-----------------------------------------------------------------------------
\* The inductive invariant

\* The frames in the buffer have the numbers given so far.
Numbered == IsFiniteSet(queue_) /\ \A x \in queue_ : x.seq < next_seq_num_

\* A producer in push() has its frame, and a number is left for it.
Holding ==
    /\ \A p \in Producers : pc[p] \in {"parked", "woken"} => hand[p] \in Moments
    /\ next_seq_num_ + About(pc, Producers, {"parked", "woken"}) <= sent

IInv == TypeOK /\ Numbered /\ Holding /\ NoMissedWakeup

LEMMA InitIInv == Init => IInv
<1> SUFFICES ASSUME Init PROVE IInv
  OBVIOUS
<1>1. TypeOK
  <2>1. Cardinality(queue_) <= Capacity
    BY FS_EmptySet, SizesAssumption DEF Init
  <2>2. Len(Times) \in Nat
    BY TimesAssumption
  <2>3. pc \in [Threads -> Places] /\ hand \in [Producers -> Moments \cup {0}]
    BY DEF Init, Places
  <2>4. disturbed \in BOOLEAN /\ aborted_ \in BOOLEAN
    BY DEF Init
  <2> QED
    BY <2>1, <2>2, <2>3, <2>4 DEF Init, TypeOK
<1>2. Numbered
  BY FS_EmptySet DEF Init, Numbered
<1>3. Holding
  <2>1. {p \in Producers : pc[p] \in {"parked", "woken"}} = {}
    BY DEF Init, Threads
  <2> QED
    BY <2>1, FS_EmptySet DEF Init, Holding, About, Threads
<1>4. NoMissedWakeup
  BY DEF Init, NoMissedWakeup, Attended, Parked, Threads
<1> QED
  BY <1>1, <1>2, <1>3, <1>4 DEF IInv

-----------------------------------------------------------------------------
\* Unit lemma per action

\* The two sides of the buffer.
Sides(mine, other) ==
    \/ mine = Producers /\ other = Consumers
    \/ mine = Consumers /\ other = Producers

\* What one thread's move is, and what it changes in the counts of both sides.
LEMMA MoveCorrect ==
    ASSUME pc \in [Threads -> Places], NEW t \in Threads, NEW to \in Places, pc' = [pc EXCEPT ![t] = to]
    PROVE  /\ pc' \in [Threads -> Places] /\ pc'[t] = to
           /\ \A u \in Threads : u # t => pc'[u] = pc[u]
  OBVIOUS

LEMMA Moved ==
    ASSUME NEW mine, NEW other, Sides(mine, other),
           NEW t \in mine, \A u \in Threads : u # t => pc'[u] = pc[u]
    PROVE  /\ \A places : About(pc', mine, places)
                            = About(pc, mine, places) + Unit(pc'[t], places) - Unit(pc[t], places)
           /\ \A places : About(pc', other, places) = About(pc, other, places)
           /\ Parked(other)' = Parked(other)
           /\ pc'[t] # "parked" => Parked(mine)' \subseteq Parked(mine)
<1>1. /\ mine \subseteq Threads /\ other \subseteq Threads /\ t \in Threads /\ t \notin other
      /\ IsFiniteSet(mine)
  BY ThreadsAssumption DEF Sides, Threads
<1>2. (\A u \in mine : u # t => pc'[u] = pc[u]) /\ (\A u \in other : pc'[u] = pc[u])
  BY <1>1
<1>3. ASSUME NEW places
      PROVE  About(pc', mine, places) = About(pc, mine, places) + Unit(pc'[t], places) - Unit(pc[t], places)
  BY <1>1, <1>2, AboutMoved
<1>4. ASSUME NEW places PROVE About(pc', other, places) = About(pc, other, places)
  BY <1>2, AboutKept
<1>5. Parked(other)' = Parked(other) /\ (pc'[t] # "parked" => Parked(mine)' \subseteq Parked(mine))
  BY <1>2 DEF Parked
<1> QED
  BY <1>3, <1>4, <1>5

\* The counts that the invariant is about.
LEMMA CountsCorrect ==
    /\ \A f, places : About(f, Producers, places) \in Nat /\ About(f, Consumers, places) \in Nat
    /\ IInv => /\ pc \in [Threads -> Places] /\ Cardinality(queue_) \in Nat /\ Capacity \in Nat
               /\ Cardinality(queue_) <= Capacity
<1>1. \A f, places : About(f, Producers, places) \in Nat /\ About(f, Consumers, places) \in Nat
  BY AboutCorrect, ThreadsAssumption
<1>2. IInv => /\ pc \in [Threads -> Places] /\ Cardinality(queue_) \in Nat /\ Capacity \in Nat
              /\ Cardinality(queue_) <= Capacity
  BY FS_CardinalityType, SizesAssumption DEF IInv, TypeOK, Numbered
<1> QED
  BY <1>1, <1>2

\* The counts of NoMissedWakeup when one thread moves.
LEMMA WakersMoved ==
    ASSUME NEW mine, NEW other, Sides(mine, other),
           NEW t \in mine, \A u \in Threads : u # t => pc'[u] = pc[u]
    PROVE  /\ About(pc, mine, {"woken"}) \in Nat /\ About(pc, mine, {"notify"}) \in Nat
           /\ About(pc, other, {"woken"}) \in Nat /\ About(pc, other, {"notify"}) \in Nat
           /\ About(pc', mine, {"woken"})
                = About(pc, mine, {"woken"}) + Unit(pc'[t], {"woken"}) - Unit(pc[t], {"woken"})
           /\ About(pc', mine, {"notify"})
                = About(pc, mine, {"notify"}) + Unit(pc'[t], {"notify"}) - Unit(pc[t], {"notify"})
           /\ About(pc', other, {"woken"}) = About(pc, other, {"woken"})
           /\ About(pc', other, {"notify"}) = About(pc, other, {"notify"})
  BY Moved, CountsCorrect DEF Sides

\* The other side stays attended: what it waits for may grow by as many as the thread that
\* moves is about to announce.
LEMMA OthersAttended ==
    ASSUME NEW mine, NEW other, Sides(mine, other),
           NEW t \in mine, \A u \in Threads : u # t => pc'[u] = pc[u],
           NEW n \in Int, NEW m \in Int, Attended(other, mine, n),
           ~aborted_' => ~aborted_ /\ m <= n + Unit(pc'[t], {"notify"}) - Unit(pc[t], {"notify"})
    PROVE  ~aborted_' /\ Parked(other)' # {} =>
              m <= About(pc', other, {"woken"}) + About(pc', mine, {"notify"})
<1> SUFFICES ASSUME ~aborted_', Parked(other)' # {}
             PROVE  m <= About(pc', other, {"woken"}) + About(pc', mine, {"notify"})
  OBVIOUS
<1>1. /\ ~aborted_ /\ m <= n + Unit(pc'[t], {"notify"}) - Unit(pc[t], {"notify"})
      /\ Parked(other) # {}
  BY Moved
<1>2. n <= About(pc, other, {"woken"}) + About(pc, mine, {"notify"})
  BY <1>1 DEF Attended
<1>3. Unit(pc[t], {"notify"}) \in Nat /\ Unit(pc'[t], {"notify"}) \in Nat
  BY DEF Unit
<1> QED
  BY <1>1, <1>2, <1>3, WakersMoved

\* So does its own side: it parks only when there is nothing to wait for, and what it takes
\* it was woken up for.
LEMMA OwnAttended ==
    ASSUME NEW mine, NEW other, Sides(mine, other),
           NEW t \in mine, \A u \in Threads : u # t => pc'[u] = pc[u],
           NEW n \in Int, NEW m \in Int, Attended(mine, other, n),
           ~aborted_' =>
               /\ ~aborted_
               /\ \/ m <= 0
                  \/ /\ pc'[t] # "parked"
                     /\ m <= n + Unit(pc'[t], {"woken"}) - Unit(pc[t], {"woken"})
    PROVE  ~aborted_' /\ Parked(mine)' # {} =>
              m <= About(pc', mine, {"woken"}) + About(pc', other, {"notify"})
<1> SUFFICES ASSUME ~aborted_', Parked(mine)' # {}
             PROVE  m <= About(pc', mine, {"woken"}) + About(pc', other, {"notify"})
  OBVIOUS
<1>1. CASE m <= 0
  <2>1. About(pc', mine, {"woken"}) \in Nat /\ About(pc', other, {"notify"}) \in Nat
    BY CountsCorrect DEF Sides
  <2> QED
    BY <1>1, <2>1
<1>2. CASE pc'[t] # "parked" /\ m <= n + Unit(pc'[t], {"woken"}) - Unit(pc[t], {"woken"})
  <2>1. Parked(mine) # {}
    BY <1>2, Moved
  <2>2. n <= About(pc, mine, {"woken"}) + About(pc, other, {"notify"})
    BY <2>1 DEF Attended
  <2>3. Unit(pc[t], {"woken"}) \in Nat /\ Unit(pc'[t], {"woken"}) \in Nat
    BY DEF Unit
  <2> QED
    BY <1>2, <2>2, <2>3, WakersMoved
<1> QED
  BY <1>1, <1>2

\* push() with mutex_ held.  An inserted frame is matched by the notification to come; a
\* producer parks only when there is no room.
LEMMA PushLockedStep ==
    ASSUME IInv, NEW p \in Producers, NEW time \in Moments, PushLocked(p, time),
           pc[p] \in {"out", "woken"}, UNCHANGED aborted_,
           sent' = sent + Unit(pc[p], {"out"}), sent' <= Len(Times)
    PROVE  IInv'
<1>1. Sides(Producers, Consumers)
  BY DEF Sides
<1>2. /\ TypeOK /\ Numbered /\ Holding /\ NoMissedWakeup
      /\ pc \in [Threads -> Places] /\ Cardinality(queue_) \in Nat /\ Capacity \in Nat
      /\ Cardinality(queue_) <= Capacity
  BY CountsCorrect DEF IInv
<1>3. sent \in Nat /\ Len(Times) \in Nat /\ next_seq_num_ \in Nat /\ sent' \in 0 .. Len(Times)
  <2>1. sent \in 0 .. Len(Times) /\ next_seq_num_ \in 0 .. Len(Times) /\ Len(Times) \in Nat
    BY <1>2, TimesAssumption DEF TypeOK
  <2> QED
    BY <2>1 DEF Unit
<1>4. PICK to \in {"out", "parked", "notify"}, held \in {0, time} :
         /\ pc' = [pc EXCEPT ![p] = to] /\ hand' = [hand EXCEPT ![p] = held]
         /\ to = "parked" => held = time
         /\ \/ to = "out" /\ aborted_ /\ UNCHANGED <<queue_, disturbed, next_seq_num_>>
            \/ to = "parked" /\ ~aborted_ /\ ~HasRoom /\ UNCHANGED <<queue_, disturbed, next_seq_num_>>
            \/ /\ to = "notify" /\ ~aborted_ /\ HasRoom /\ next_seq_num_' = next_seq_num_ + 1
               /\ Rearranged(queue_ \cup {[time |-> time, seq |-> next_seq_num_]})
  BY DEF PushLocked
<1>5. to \in Places
  BY DEF Places
<1>6. /\ pc' \in [Threads -> Places] /\ pc'[p] = to /\ p \in Threads
      /\ \A u \in Threads : u # p => pc'[u] = pc[u]
  BY <1>2, <1>4, <1>5, MoveCorrect DEF Threads
<1>7. /\ About(pc', Producers, {"parked", "woken"}) \in Nat /\ About(pc, Producers, {"parked", "woken"}) \in Nat
      /\ About(pc', Producers, {"parked", "woken"})
           = About(pc, Producers, {"parked", "woken"})
               + Unit(to, {"parked", "woken"}) - Unit(pc[p], {"parked", "woken"})
  BY <1>1, <1>6, Moved, CountsCorrect
<1>8. /\ hand' \in [Producers -> Moments \cup {0}]
      /\ \A q \in Producers : pc'[q] \in {"parked", "woken"} => hand'[q] \in Moments
  BY <1>2, <1>4, <1>6 DEF TypeOK, Holding, Threads
<1>9. ASSUME NEW m \in Int, ~aborted_ => m <= Cardinality(queue_) + Unit(to, {"notify"})
      PROVE  ~aborted_' /\ Parked(Consumers)' # {} =>
                m <= About(pc', Consumers, {"woken"}) + About(pc', Producers, {"notify"})
  <2>1. Attended(Consumers, Producers, Cardinality(queue_)) /\ Cardinality(queue_) \in Int
    BY <1>2 DEF NoMissedWakeup
  <2>2. Unit(pc[p], {"notify"}) = 0 /\ Unit(to, {"notify"}) \in Int
    BY DEF Unit
  <2>3. ~aborted_' => ~aborted_ /\ m <= Cardinality(queue_) + Unit(pc'[p], {"notify"}) - Unit(pc[p], {"notify"})
    BY <1>6, <1>9, <2>1, <2>2
  <2> QED
    BY <1>1, <1>6, <2>1, <2>3, OthersAttended
<1>10. ASSUME NEW m \in Int,
              ~aborted_ => m <= 0 \/ (to # "parked" /\ m <= Capacity - Cardinality(queue_) - 1)
       PROVE  ~aborted_' /\ Parked(Producers)' # {} =>
                m <= About(pc', Producers, {"woken"}) + About(pc', Consumers, {"notify"})
  <2>1. Attended(Producers, Consumers, Capacity - Cardinality(queue_)) /\ Capacity - Cardinality(queue_) \in Int
    BY <1>2 DEF NoMissedWakeup
  <2>2. Unit(pc[p], {"woken"}) <= 1 /\ Unit(pc[p], {"woken"}) \in Int /\ Unit(to, {"woken"}) = 0
    BY <1>4 DEF Unit
  <2>3. ~aborted_' =>
          /\ ~aborted_
          /\ \/ m <= 0
             \/ /\ pc'[p] # "parked"
                /\ m <= Capacity - Cardinality(queue_) + Unit(pc'[p], {"woken"}) - Unit(pc[p], {"woken"})
    BY <1>6, <1>10, <2>1, <2>2
  <2> QED
    BY <1>1, <1>6, <2>1, <2>3, OwnAttended
<1>11. CASE to = "notify"
  <2> DEFINE x == [time |-> time, seq |-> next_seq_num_]
  <2>1. /\ ~aborted_ /\ Cardinality(queue_) < Capacity /\ next_seq_num_' = next_seq_num_ + 1
        /\ queue_' = queue_ \cup {x} /\ disturbed' \in BOOLEAN
    BY <1>4, <1>11 DEF HasRoom, Rearranged
  <2>2. x \in [time : Moments, seq : Nat] /\ x.seq = next_seq_num_
    BY <1>3
  <2> HIDE DEF x
  <2>3. x \notin queue_ /\ IsFiniteSet(queue_) /\ \A y \in queue_ : y \in [time : Moments, seq : Nat]
    BY <1>2, <1>3, <2>2 DEF Numbered, TypeOK
  <2>4. Cardinality(queue_') = Cardinality(queue_) + 1 /\ IsFiniteSet(queue_')
    BY <2>1, <2>3, FS_AddElement
  <2>5. Numbered'
    <3>1. \A y \in queue_ : y.seq \in Nat /\ y.seq < next_seq_num_
      BY <1>2, <2>3 DEF Numbered
    <3> QED
      BY <1>3, <2>1, <2>2, <2>4, <3>1 DEF Numbered
  <2>6. Holding' /\ next_seq_num_' <= sent'
    <3>1. next_seq_num_ + About(pc, Producers, {"parked", "woken"}) <= sent
      BY <1>2 DEF Holding
    <3>2. next_seq_num_' + About(pc', Producers, {"parked", "woken"}) <= sent'
      BY <1>3, <1>7, <1>11, <2>1, <3>1 DEF Unit
    <3>3. About(pc', Producers, {"parked", "woken"}) \in Nat
      BY CountsCorrect
    <3> QED
      BY <1>3, <1>8, <2>1, <3>2, <3>3 DEF Holding
  <2>7. TypeOK'
    <3>1. queue_' \subseteq [time : Moments, seq : Nat]
      BY <2>1, <2>2, <2>3
    <3>2. Cardinality(queue_') <= Capacity
      BY <1>2, <2>1, <2>4
    <3>3. next_seq_num_' \in 0 .. Len(Times)
      BY <1>3, <2>1, <2>6
    <3> QED
      BY <1>2, <1>3, <1>6, <1>8, <2>1, <3>1, <3>2, <3>3 DEF TypeOK
  <2>8. NoMissedWakeup'
    <3>1. /\ Cardinality(queue_') \in Int /\ Capacity - Cardinality(queue_') \in Int
          /\ Cardinality(queue_') <= Cardinality(queue_) + Unit(to, {"notify"})
          /\ Capacity - Cardinality(queue_') <= Capacity - Cardinality(queue_) - 1
      BY <1>2, <1>11, <2>4 DEF Unit
    <3> QED
      BY <1>9, <1>10, <1>11, <3>1 DEF NoMissedWakeup, Attended
  <2> QED
    BY <2>5, <2>6, <2>7, <2>8 DEF IInv
<1>12. CASE to # "notify"
  <2>1. UNCHANGED <<queue_, disturbed, next_seq_num_>> /\ (to = "out" => aborted_) /\ (to = "parked" => ~HasRoom)
    BY <1>4, <1>12
  <2>2. Numbered'
    BY <1>2, <2>1 DEF Numbered
  <2>3. Holding'
    <3>1. next_seq_num_ + About(pc, Producers, {"parked", "woken"}) <= sent
      BY <1>2 DEF Holding
    <3>2. next_seq_num_' + About(pc', Producers, {"parked", "woken"}) <= sent'
      BY <1>3, <1>4, <1>7, <2>1, <3>1 DEF Unit
    <3> QED
      BY <1>8, <3>2 DEF Holding
  <2>4. TypeOK'
    BY <1>2, <1>3, <1>6, <1>8, <2>1 DEF TypeOK
  <2>5. NoMissedWakeup'
    <3>1. /\ Cardinality(queue_') = Cardinality(queue_) /\ Cardinality(queue_) \in Int
          /\ Capacity - Cardinality(queue_) \in Int /\ Unit(to, {"notify"}) = 0
      BY <1>2, <1>12, <2>1 DEF Unit
    <3>2. ~aborted_ => Capacity - Cardinality(queue_) <= 0
      BY <1>2, <1>4, <1>12, <2>1 DEF HasRoom
    <3> QED
      BY <1>9, <1>10, <3>1, <3>2 DEF NoMissedWakeup, Attended
  <2> QED
    BY <2>2, <2>3, <2>4, <2>5 DEF IInv
<1> QED
  BY <1>11, <1>12

\* A step that lets no producer into its wait or out of it.
LEMMA HoldingKept ==
    ASSUME Holding, UNCHANGED <<next_seq_num_, hand, sent>>,
           \A p \in Producers : pc'[p] \in {"parked", "woken"} <=> pc[p] \in {"parked", "woken"}
    PROVE  Holding'
<1>1. {p \in Producers : pc'[p] \in {"parked", "woken"}} = {p \in Producers : pc[p] \in {"parked", "woken"}}
  OBVIOUS
<1>2. About(pc', Producers, {"parked", "woken"}) = About(pc, Producers, {"parked", "woken"})
  BY <1>1 DEF About
<1>3. \A p \in Producers : pc'[p] \in {"parked", "woken"} => hand'[p] \in Moments
  BY DEF Holding
<1> QED
  BY <1>2, <1>3 DEF Holding

\* pop() with mutex_ held: a frame taken is a place announced to the producers.
LEMMA PopLockedStep ==
    ASSUME IInv, NEW c \in Consumers, PopLocked(c), pc[c] \in {"out", "woken"},
           UNCHANGED <<next_seq_num_, aborted_, hand, sent>>
    PROVE  IInv'
<1>1. Sides(Consumers, Producers)
  BY DEF Sides
<1>2. /\ TypeOK /\ Numbered /\ Holding /\ NoMissedWakeup
      /\ pc \in [Threads -> Places] /\ Cardinality(queue_) \in Nat /\ Capacity \in Nat
      /\ Cardinality(queue_) <= Capacity
  BY CountsCorrect DEF IInv
<1>3. PICK to \in {"out", "parked", "notify"} :
         /\ pc' = [pc EXCEPT ![c] = to]
         /\ \/ to = "out" /\ aborted_ /\ UNCHANGED <<queue_, disturbed>>
            \/ to = "parked" /\ ~aborted_ /\ queue_ = {} /\ UNCHANGED <<queue_, disturbed>>
            \/ to = "notify" /\ ~aborted_ /\ \E x \in Front : Rearranged(queue_ \ {x})
  BY DEF PopLocked
<1>4. /\ pc' \in [Threads -> Places] /\ pc'[c] = to /\ c \in Threads /\ c \notin Producers
      /\ \A u \in Threads : u # c => pc'[u] = pc[u]
  BY <1>2, <1>3, MoveCorrect, ThreadsAssumption DEF Threads, Places
<1>5. Holding'
  BY <1>2, <1>4, HoldingKept DEF Threads
<1>6. ASSUME NEW m \in Int, ~aborted_ => m <= Capacity - Cardinality(queue_) + Unit(to, {"notify"})
      PROVE  ~aborted_' /\ Parked(Producers)' # {} =>
                m <= About(pc', Producers, {"woken"}) + About(pc', Consumers, {"notify"})
  <2>1. Attended(Producers, Consumers, Capacity - Cardinality(queue_)) /\ Capacity - Cardinality(queue_) \in Int
    BY <1>2 DEF NoMissedWakeup
  <2>2. Unit(pc[c], {"notify"}) = 0 /\ Unit(to, {"notify"}) \in Int
    BY DEF Unit
  <2>3. ~aborted_' =>
          ~aborted_ /\ m <= Capacity - Cardinality(queue_) + Unit(pc'[c], {"notify"}) - Unit(pc[c], {"notify"})
    BY <1>4, <1>6, <2>1, <2>2
  <2> QED
    BY <1>1, <1>4, <2>1, <2>3, OthersAttended
<1>7. ASSUME NEW m \in Int, ~aborted_ => m <= 0 \/ (to # "parked" /\ m <= Cardinality(queue_) - 1)
      PROVE  ~aborted_' /\ Parked(Consumers)' # {} =>
                m <= About(pc', Consumers, {"woken"}) + About(pc', Producers, {"notify"})
  <2>1. Attended(Consumers, Producers, Cardinality(queue_)) /\ Cardinality(queue_) \in Int
    BY <1>2 DEF NoMissedWakeup
  <2>2. Unit(pc[c], {"woken"}) <= 1 /\ Unit(pc[c], {"woken"}) \in Int /\ Unit(to, {"woken"}) = 0
    BY <1>3 DEF Unit
  <2>3. ~aborted_' =>
          /\ ~aborted_
          /\ \/ m <= 0
             \/ /\ pc'[c] # "parked"
                /\ m <= Cardinality(queue_) + Unit(pc'[c], {"woken"}) - Unit(pc[c], {"woken"})
    BY <1>4, <1>7, <2>1, <2>2
  <2> QED
    BY <1>1, <1>4, <2>1, <2>3, OwnAttended
<1>8. CASE to = "notify"
  <2>1. PICK x \in queue_ : queue_' = queue_ \ {x} /\ disturbed' \in BOOLEAN
    BY <1>3, <1>8 DEF Front, Rearranged
  <2>2. Cardinality(queue_') = Cardinality(queue_) - 1 /\ IsFiniteSet(queue_')
    BY <1>2, <2>1, FS_RemoveElement DEF Numbered
  <2>3. Numbered'
    BY <1>2, <2>1, <2>2 DEF Numbered
  <2>4. TypeOK'
    <3>1. queue_' \subseteq [time : Moments, seq : Nat] /\ Cardinality(queue_') <= Capacity
      BY <1>2, <2>1, <2>2 DEF TypeOK
    <3> QED
      BY <1>2, <1>4, <2>1, <3>1 DEF TypeOK
  <2>5. NoMissedWakeup'
    <3>1. /\ Cardinality(queue_') \in Int /\ Capacity - Cardinality(queue_') \in Int
          /\ Cardinality(queue_') <= Cardinality(queue_) - 1
          /\ Capacity - Cardinality(queue_') <= Capacity - Cardinality(queue_) + Unit(to, {"notify"})
      BY <1>2, <1>8, <2>2 DEF Unit
    <3> QED
      BY <1>6, <1>7, <1>8, <3>1 DEF NoMissedWakeup, Attended
  <2> QED
    BY <1>5, <2>3, <2>4, <2>5 DEF IInv
<1>9. CASE to # "notify"
  <2>1. UNCHANGED <<queue_, disturbed>>
    BY <1>3, <1>9
  <2>2. Numbered' /\ TypeOK'
    BY <1>2, <1>4, <2>1 DEF Numbered, TypeOK
  <2>3. NoMissedWakeup'
    <3>1. /\ Cardinality(queue_') = Cardinality(queue_) /\ Cardinality(queue_) \in Int
          /\ Capacity - Cardinality(queue_) \in Int /\ Unit(to, {"notify"}) = 0
      BY <1>2, <1>9, <2>1 DEF Unit
    <3>2. ~aborted_ => Cardinality(queue_) <= 0
      BY <1>3, <1>9, FS_EmptySet
    <3> QED
      BY <1>6, <1>7, <3>1, <3>2 DEF NoMissedWakeup, Attended
  <2> QED
    BY <1>5, <2>2, <2>3 DEF IInv
<1> QED
  BY <1>8, <1>9

\* notify_one(): the notification to come is a thread awake, or nobody is parked.
LEMMA NotifyStep ==
    ASSUME IInv, NEW mine, NEW other, Sides(mine, other), NEW t \in mine, NotifyOne(t, other)
    PROVE  IInv'
<1>1. /\ TypeOK /\ Numbered /\ Holding /\ NoMissedWakeup /\ pc \in [Threads -> Places]
      /\ Cardinality(queue_) \in Nat /\ Capacity \in Nat
  BY CountsCorrect DEF IInv
<1>2. /\ pc[t] = "notify" /\ t \in Threads /\ t \notin other /\ mine \subseteq Threads /\ other \subseteq Threads
      /\ Threads = mine \cup other /\ IsFiniteSet(mine) /\ IsFiniteSet(other)
      /\ UNCHANGED <<queue_, disturbed, next_seq_num_, aborted_, hand, sent>>
  BY ThreadsAssumption DEF NotifyOne, Sides, Threads
<1>3. \/ Parked(other) = {} /\ pc' = [pc EXCEPT ![t] = "out"]
      \/ \E w \in Parked(other) : pc' = [pc EXCEPT ![t] = "out", ![w] = "woken"]
  BY DEF NotifyOne
<1>4. /\ pc' \in [Threads -> Places] /\ pc'[t] = "out" /\ \A u \in mine : u # t => pc'[u] = pc[u]
      /\ \/ Parked(other) = {} /\ \A u \in other : pc'[u] = pc[u]
         \/ \E w \in other : /\ pc[w] = "parked" /\ pc'[w] = "woken"
                             /\ \A u \in other : u # w => pc'[u] = pc[u]
  BY <1>1, <1>2, <1>3, ThreadsAssumption DEF Parked, Places, Sides
<1>5. TypeOK' /\ Numbered'
  BY <1>1, <1>2, <1>4 DEF TypeOK, Numbered
<1>6. Holding'
  <2>1. \A u \in Threads : pc'[u] \in {"parked", "woken"} <=> pc[u] \in {"parked", "woken"}
    BY <1>2, <1>4
  <2> QED
    BY <1>1, <1>2, <2>1, HoldingKept DEF Threads
<1>7. ASSUME NEW n \in Int, Attended(mine, other, n)
      PROVE  ~aborted_' /\ Parked(mine)' # {} =>
                n <= About(pc', mine, {"woken"}) + About(pc', other, {"notify"})
  <2>1. Parked(mine)' \subseteq Parked(mine)
    BY <1>2, <1>4 DEF Parked
  <2>2. About(pc', mine, {"woken"}) = About(pc, mine, {"woken"})
    <3>1. {u \in mine : pc'[u] \in {"woken"}} = {u \in mine : pc[u] \in {"woken"}}
      BY <1>2, <1>4
    <3> QED
      BY <3>1 DEF About
  <2>3. About(pc', other, {"notify"}) = About(pc, other, {"notify"})
    <3>1. {u \in other : pc'[u] \in {"notify"}} = {u \in other : pc[u] \in {"notify"}}
      BY <1>4
    <3> QED
      BY <3>1 DEF About
  <2> QED
    BY <1>2, <1>7, <2>1, <2>2, <2>3 DEF Attended
<1>8. ASSUME NEW n \in Int, Attended(other, mine, n)
      PROVE  ~aborted_' /\ Parked(other)' # {} =>
                n <= About(pc', other, {"woken"}) + About(pc', mine, {"notify"})
  <2>1. CASE Parked(other) = {} /\ \A u \in other : pc'[u] = pc[u]
    BY <2>1 DEF Parked
  <2>2. ASSUME NEW w \in other, pc[w] = "parked", pc'[w] = "woken", \A u \in other : u # w => pc'[u] = pc[u]
        PROVE  ~aborted_' /\ Parked(other)' # {} =>
                  n <= About(pc', other, {"woken"}) + About(pc', mine, {"notify"})
    <3>1. About(pc', other, {"woken"}) = About(pc, other, {"woken"}) + Unit("woken", {"woken"}) - Unit("parked", {"woken"})
      BY <1>2, <2>2, AboutMoved
    <3>2. About(pc', mine, {"notify"}) = About(pc, mine, {"notify"}) + Unit("out", {"notify"}) - Unit("notify", {"notify"})
      BY <1>2, <1>4, AboutMoved
    <3>3. /\ Unit("woken", {"woken"}) = 1 /\ Unit("parked", {"woken"}) = 0
          /\ Unit("out", {"notify"}) = 0 /\ Unit("notify", {"notify"}) = 1
      BY DEF Unit
    <3>4. About(pc, other, {"woken"}) \in Nat /\ About(pc, mine, {"notify"}) \in Nat
      BY <1>2, AboutCorrect
    <3>5. Parked(other) # {}
      BY <2>2 DEF Parked
    <3> QED
      BY <1>2, <1>8, <3>1, <3>2, <3>3, <3>4, <3>5 DEF Attended
  <2> QED
    BY <1>4, <2>1, <2>2
<1>9. NoMissedWakeup'
  <2>1. /\ Attended(Consumers, Producers, Cardinality(queue_))
        /\ Attended(Producers, Consumers, Capacity - Cardinality(queue_))
        /\ Cardinality(queue_) \in Int /\ Capacity - Cardinality(queue_) \in Int
    BY <1>1 DEF NoMissedWakeup
  <2> QED
    BY <1>2, <1>7, <1>8, <2>1 DEF NoMissedWakeup, Attended, Sides
<1> QED
  BY <1>5, <1>6, <1>9 DEF IInv

LEMMA AbortStep == ASSUME IInv, Abort PROVE IInv'
<1>1. /\ aborted_' = TRUE /\ UNCHANGED <<queue_, disturbed, next_seq_num_, hand, sent>>
      /\ pc \in [Threads -> Places] /\ pc' = [t \in Threads |-> IF t \in Parked(Threads) THEN "woken" ELSE pc[t]]
  BY DEF Abort, IInv, TypeOK
<1>2. /\ pc' \in [Threads -> Places]
      /\ \A t \in Threads : pc'[t] \in {"parked", "woken"} <=> pc[t] \in {"parked", "woken"}
  BY <1>1 DEF Parked, Places
<1>3. TypeOK' /\ Numbered'
  BY <1>1, <1>2 DEF IInv, TypeOK, Numbered
<1>4. Holding'
  BY <1>1, <1>2, HoldingKept DEF IInv, Threads
<1>5. NoMissedWakeup'
  BY <1>1 DEF NoMissedWakeup, Attended
<1> QED
  BY <1>3, <1>4, <1>5 DEF IInv

LEMMA SpuriousStep == ASSUME IInv, NEW t \in Threads, Spurious(t) PROVE IInv'
<1>1. /\ pc[t] = "parked" /\ pc' = [pc EXCEPT ![t] = "woken"] /\ pc \in [Threads -> Places] /\ NoMissedWakeup
      /\ UNCHANGED <<queue_, disturbed, next_seq_num_, aborted_, hand, sent>>
      /\ Cardinality(queue_) \in Nat /\ Capacity \in Nat
  BY CountsCorrect DEF Spurious, IInv
<1>2. /\ pc' \in [Threads -> Places] /\ pc'[t] = "woken" /\ \A u \in Threads : u # t => pc'[u] = pc[u]
  BY <1>1, MoveCorrect DEF Places
<1>3. TypeOK' /\ Numbered'
  BY <1>1, <1>2 DEF IInv, TypeOK, Numbered
<1>4. Holding'
  BY <1>1, <1>2, HoldingKept DEF IInv, Threads
<1>5. ASSUME NEW mine, NEW other, Sides(mine, other), t \in mine, NEW n \in Int, NEW m \in Int,
             Attended(mine, other, n), Attended(other, mine, m)
      PROVE  /\ ~aborted_' /\ Parked(mine)' # {} =>
                   n <= About(pc', mine, {"woken"}) + About(pc', other, {"notify"})
             /\ ~aborted_' /\ Parked(other)' # {} =>
                   m <= About(pc', other, {"woken"}) + About(pc', mine, {"notify"})
  <2>1. /\ Unit(pc'[t], {"woken"}) = 1 /\ Unit(pc[t], {"woken"}) = 0
        /\ Unit(pc'[t], {"notify"}) = 0 /\ Unit(pc[t], {"notify"}) = 0
    BY <1>1, <1>2 DEF Unit
  <2>2. /\ n <= n + Unit(pc'[t], {"woken"}) - Unit(pc[t], {"woken"}) /\ pc'[t] # "parked"
        /\ m <= m + Unit(pc'[t], {"notify"}) - Unit(pc[t], {"notify"}) /\ (~aborted_' => ~aborted_)
    BY <1>1, <1>2, <2>1
  <2>3. ~aborted_' /\ Parked(mine)' # {} => n <= About(pc', mine, {"woken"}) + About(pc', other, {"notify"})
    BY <1>2, <1>5, <2>2, OwnAttended
  <2>4. ~aborted_' /\ Parked(other)' # {} => m <= About(pc', other, {"woken"}) + About(pc', mine, {"notify"})
    BY <1>2, <1>5, <2>2, OthersAttended
  <2> QED
    BY <2>3, <2>4
<1>6. NoMissedWakeup'
  <2>1. /\ Attended(Consumers, Producers, Cardinality(queue_))
        /\ Attended(Producers, Consumers, Capacity - Cardinality(queue_))
        /\ Cardinality(queue_) \in Int /\ Capacity - Cardinality(queue_) \in Int
    BY <1>1 DEF NoMissedWakeup
  <2>2. CASE t \in Producers
    BY <1>1, <1>5, <2>1, <2>2 DEF NoMissedWakeup, Attended, Sides
  <2>3. CASE t \in Consumers
    BY <1>1, <1>5, <2>1, <2>3 DEF NoMissedWakeup, Attended, Sides
  <2> QED
    BY <2>2, <2>3 DEF Threads
<1> QED
  BY <1>3, <1>4, <1>6 DEF IInv

LEMMA NextIInv == IInv /\ [Next]_vars => IInv'
<1> SUFFICES ASSUME IInv, [Next]_vars PROVE IInv'
  OBVIOUS
<1>1. sent \in Nat /\ TypeOK /\ Holding
  BY TimesAssumption DEF IInv, TypeOK
<1>2. ASSUME NEW p \in Producers, PushEnter(p) PROVE IInv'
  <2>1. /\ pc[p] = "out" /\ sent < Len(Times) /\ sent' = sent + 1 /\ PushLocked(p, Times[sent + 1])
        /\ UNCHANGED aborted_
    BY <1>2 DEF PushEnter
  <2>2. Times[sent + 1] \in Moments /\ sent + 1 <= Len(Times)
    BY <1>1, <2>1, TimesAssumption DEF Moments
  <2>3. sent' = sent + Unit(pc[p], {"out"})
    BY <2>1 DEF Unit
  <2> QED
    BY <2>1, <2>2, <2>3, PushLockedStep
<1>3. ASSUME NEW p \in Producers, PushResume(p) PROVE IInv'
  <2>1. pc[p] = "woken" /\ PushLocked(p, hand[p]) /\ UNCHANGED <<aborted_, sent>>
    BY <1>3 DEF PushResume
  <2>2. hand[p] \in Moments
    BY <1>1, <2>1 DEF Holding
  <2>3. sent' = sent + Unit(pc[p], {"out"}) /\ sent' <= Len(Times)
    BY <1>1, <2>1 DEF Unit, TypeOK
  <2> QED
    BY <2>1, <2>2, <2>3, PushLockedStep
<1>4. ASSUME NEW c \in Consumers, PopEnter(c) \/ PopResume(c) PROVE IInv'
  BY <1>4, PopLockedStep DEF PopEnter, PopResume
<1>5. ASSUME NEW p \in Producers, PushNotify(p) PROVE IInv'
  BY <1>5, NotifyStep DEF PushNotify, Sides
<1>6. ASSUME NEW c \in Consumers, PopNotify(c) PROVE IInv'
  BY <1>6, NotifyStep DEF PopNotify, Sides
<1>7. CASE Abort \/ \E t \in Threads : Spurious(t)
  BY <1>7, AbortStep, SpuriousStep
<1>8. CASE UNCHANGED vars
  BY <1>8 DEF vars, IInv, TypeOK, Numbered, Holding, NoMissedWakeup, Attended, Parked
<1> QED
  BY <1>2, <1>3, <1>4, <1>5, <1>6, <1>7, <1>8 DEF Next

LEMMA Invariance == Spec => []IInv
  BY InitIInv, NextIInv, PTL DEF Spec

-----------------------------------------------------------------------------
\* The buffer never holds more frames than its capacity, nor a thread a frame that was not sent.
THEOREM TypeCorrect == Spec => []TypeOK
  BY Invariance, PTL DEF IInv

\* For any numbers of producers and consumers, no notification between an unlock and its
\* notify_one() is lost: nobody is left parked with a frame, or a place, that nobody will announce.
THEOREM WakeupsNeverMissed == Spec => []NoMissedWakeup
  BY Invariance, PTL DEF IInv

-----------------------------------------------------------------------------
\* The order of presentation across the wrap

\* A moment is so many periods and its timestamp.
LEMMA PtsCorrect ==
    ASSUME NEW time \in Nat
    PROVE  \E laps \in Nat : time = Period * laps + (time % Period) /\ (time % Period) \in 0 .. Period - 1
<1>1. /\ time = Period * (time \div Period) + (time % Period)
      /\ (time % Period) \in 0 .. Period - 1 /\ time \div Period \in Int
  BY SizesAssumption
<1>2. time \div Period \in Nat
  BY SizesAssumption
<1> QED
  BY <1>1, <1>2

\* Moments less than a period apart are in the same one or in adjacent ones.
LEMMA LapsOfNear ==
    ASSUME NEW i \in Nat, NEW j \in Nat, NEW a \in 0 .. Period - 1, NEW b \in 0 .. Period - 1,
           Period * i + a - (Period * j + b) < Period, Period * j + b - (Period * i + a) < Period
    PROVE  \/ i = j /\ Period * i = Period * j
           \/ i = j + 1 /\ Period * i = Period * j + Period
           \/ j = i + 1 /\ Period * j = Period * i + Period
<1>1. Period \in Nat /\ Period > 0 /\ Period * i \in Nat /\ Period * j \in Nat
  BY SizesAssumption
<1>2. ASSUME NEW m \in Nat, NEW n \in Nat, m >= n + 2 PROVE Period * m >= Period * n + Period + Period
  <2>1. PICK k \in Nat : m = n + 2 + k
    <3>1. m - n - 2 \in Nat /\ m = n + 2 + (m - n - 2)
      BY <1>2
    <3> QED
      BY <3>1
  <2>2. Period * m = Period * n + Period * 2 + Period * k /\ Period * k \in Nat
    BY <1>1, <2>1
  <2> QED
    BY <1>1, <2>2
<1>3. i < j + 2 /\ j < i + 2
  <2>1. ~(i >= j + 2)
    <3>1. SUFFICES ASSUME i >= j + 2 PROVE FALSE
      OBVIOUS
    <3>2. Period * i >= Period * j + Period + Period
      BY <1>2, <3>1
    <3> QED
      BY <1>1, <3>2
  <2>2. ~(j >= i + 2)
    <3>1. SUFFICES ASSUME j >= i + 2 PROVE FALSE
      OBVIOUS
    <3>2. Period * j >= Period * i + Period + Period
      BY <1>2, <3>1
    <3> QED
      BY <1>1, <3>2
  <2> QED
    BY <2>1, <2>2
<1>4. i = j \/ i = j + 1 \/ j = i + 1
  BY <1>3
<1>5. i = j + 1 => Period * i = Period * j + Period
  BY <1>1
<1>6. j = i + 1 => Period * j = Period * i + Period
  BY <1>1
<1> QED
  BY <1>4, <1>5, <1>6

\* The comparator tells the order of presentation of two frames less than half a period apart,
\* whether a wrap lies between them or not.
LEMMA ComparatorCorrect ==
    ASSUME NEW x \in [time : Moments, seq : Nat], NEW y \in [time : Moments, seq : Nat],
           x.time < y.time + WrapThreshold, y.time < x.time + WrapThreshold
    PROVE  PtsComparator(x, y) <=> Buffer!Before(y, x)
<1>1. x.time \in Nat /\ y.time \in Nat /\ x.seq \in Nat /\ y.seq \in Nat
  BY TimesAssumption DEF Moments
<1>2. PICK i \in Nat : x.time = Period * i + Pts(x) /\ Pts(x) \in 0 .. Period - 1
  BY <1>1, PtsCorrect DEF Pts
<1>3. PICK j \in Nat : y.time = Period * j + Pts(y) /\ Pts(y) \in 0 .. Period - 1
  BY <1>1, PtsCorrect DEF Pts
<1>4. WrapThreshold \in Nat /\ WrapThreshold + WrapThreshold <= Period /\ Period \in Nat /\ WrapThreshold < Period
  <2>1. Period \in Nat /\ Period > 0
    BY SizesAssumption
  <2>2. WrapThreshold \in Nat /\ WrapThreshold + WrapThreshold <= Period
    BY <2>1 DEF WrapThreshold
  <2> QED
    BY <2>1, <2>2
<1>5. Period * i \in Nat /\ Period * j \in Nat
  BY <1>4
<1>6. \/ i = j /\ Period * i = Period * j
      \/ i = j + 1 /\ Period * i = Period * j + Period
      \/ j = i + 1 /\ Period * j = Period * i + Period
  <2>1. /\ Period * i + Pts(x) - (Period * j + Pts(y)) < Period
        /\ Period * j + Pts(y) - (Period * i + Pts(x)) < Period
    BY <1>1, <1>2, <1>3, <1>4, <1>5
  <2> QED
    BY <1>2, <1>3, <2>1, LapsOfNear
<1> DEFINE a == Pts(x)  b == Pts(y)  I == Period * i  J == Period * j
<1>7. /\ a \in Nat /\ b \in Nat /\ a < Period /\ b < Period /\ I \in Nat /\ J \in Nat
      /\ x.time = I + a /\ y.time = J + b
      /\ I = J \/ I = J + Period \/ J = I + Period
  BY <1>2, <1>3, <1>4, <1>5, <1>6
<1>8. /\ PtsComparator(x, y) <=>
           IF Distance(a, b) > WrapThreshold THEN a < b ELSE a > b \/ (a = b /\ x.seq > y.seq)
      /\ Distance(a, b) = IF a < b THEN b - a ELSE a - b
      /\ Buffer!Before(y, x) <=> y.time < x.time \/ (y.time = x.time /\ y.seq < x.seq)
  BY DEF PtsComparator, Distance, Buffer!Before
<1> HIDE DEF a, b, I, J
<1>9. CASE I = J
  BY <1>1, <1>4, <1>7, <1>8, <1>9
<1>10. CASE I = J + Period
  BY <1>1, <1>4, <1>7, <1>8, <1>10
<1>11. CASE J = I + Period
  BY <1>1, <1>4, <1>7, <1>8, <1>11
<1> QED
  BY <1>7, <1>9, <1>10, <1>11

\* Frames that lie together are in order for the heap, and the order is total.
LEMMA TogetherCorrect ==
    ASSUME NEW frames, frames \subseteq [time : Moments, seq : Nat], Buffer!Together(frames)
    PROVE  /\ Ordered(frames)
           /\ \A x \in frames : \A y \in frames \ {x} : ~PtsComparator(x, y) => Buffer!Before(x, y)
<1>1. ASSUME NEW x \in frames, NEW y \in frames PROVE PtsComparator(x, y) <=> Buffer!Before(y, x)
  BY ComparatorCorrect DEF Buffer!Together
<1>2. \A x \in frames : /\ x \in [time : Moments, seq : Nat] /\ x.time \in Nat /\ x.seq \in Nat
                        /\ x = [time |-> x.time, seq |-> x.seq]
  BY TimesAssumption DEF Moments
<1>3. Ordered(frames)
  <2>1. ASSUME NEW x \in frames, NEW y \in frames, NEW z \in frames,
               Buffer!Before(y, x), Buffer!Before(z, y)
        PROVE  Buffer!Before(z, x)
    BY <1>2, <2>1 DEF Buffer!Before
  <2> QED
    BY <1>1, <2>1 DEF Ordered
<1>4. ASSUME NEW x \in frames, NEW y \in frames, x # y, ~Buffer!Before(y, x) PROVE Buffer!Before(x, y)
  BY <1>2, <1>4 DEF Buffer!Before
<1> QED
  BY <1>1, <1>3, <1>4

-----------------------------------------------------------------------------
\* PtsFrameBuffer implements PresentationBuffer, but for the fairness

\* The instance counts as this module does.
LEMMA SameCardinality == \A frames : Buffer!Cardinality(frames) = Cardinality(frames)
  BY DEF Buffer!Cardinality, Cardinality

\* The heap is disturbed only by frames that do not lie together.
LEMMA RearrangedIsHold ==
    ASSUME NEW frames, frames \subseteq [time : Moments, seq : Nat], Rearranged(frames)
    PROVE  Buffer!Hold(frames)
<1>1. queue_' = frames /\ disturbed' = (Cardinality(frames) > 1 /\ (disturbed \/ ~Ordered(frames)))
  BY DEF Rearranged
<1>2. disturbed' \in BOOLEAN
  BY <1>1
<1>3. disturbed' => Cardinality(frames) > 1 /\ (disturbed \/ ~Buffer!Together(frames))
  BY <1>1, TogetherCorrect
<1> QED
  BY <1>1, <1>2, <1>3, SameCardinality DEF Buffer!Hold

\* Who is kept waiting when one thread moves and the buffer stays open.
LEMMA WaitingMoved ==
    ASSUME NEW threads \in {Producers, Consumers}, ~aborted_, UNCHANGED aborted_,
           NEW t \in Threads, \A u \in Threads : u # t => pc'[u] = pc[u]
    PROVE  /\ t \notin threads => Waiting(threads)' = Waiting(threads)
           /\ t \in threads /\ pc'[t] \in {"parked", "woken"} => Waiting(threads)' = Waiting(threads) \cup {t}
           /\ t \in threads /\ pc'[t] \notin {"parked", "woken"} => Waiting(threads)' = Waiting(threads) \ {t}
  BY DEF Waiting, Threads

\* A step that keeps everyone who waits waiting.
LEMMA WaitingKept ==
    ASSUME UNCHANGED aborted_,
           aborted_ \/ \A u \in Threads : pc'[u] \in {"parked", "woken"} <=> pc[u] \in {"parked", "woken"}
    PROVE  Waiting(Producers)' = Waiting(Producers) /\ Waiting(Consumers)' = Waiting(Consumers)
  BY DEF Waiting, Threads

\* push() with mutex_ held is a frame accepted, a thread made to wait, or nothing.
LEMMA PushImplements ==
    ASSUME IInv, NEW p \in Producers, NEW time \in Moments, PushLocked(p, time), UNCHANGED aborted_
    PROVE  Buffer!WaitToGive(p) \/ Buffer!Accept(p) \/ UNCHANGED Buffer!bufferVars
<1>1. /\ pc \in [Threads -> Places] /\ p \in Threads /\ p \notin Consumers
      /\ queue_ \subseteq [time : Moments, seq : Nat] /\ next_seq_num_ \in Nat
  BY ThreadsAssumption, TimesAssumption DEF IInv, TypeOK, Threads
<1>2. CASE aborted_ /\ UNCHANGED <<queue_, disturbed, next_seq_num_>>
  BY <1>2, WaitingKept DEF Buffer!bufferVars
<1>3. CASE ~aborted_ /\ pc' = [pc EXCEPT ![p] = "parked"] /\ UNCHANGED <<queue_, disturbed, next_seq_num_>>
  <2>1. pc'[p] = "parked" /\ \A u \in Threads : u # p => pc'[u] = pc[u]
    BY <1>1, <1>3
  <2>2. Waiting(Producers)' = Waiting(Producers) \cup {p} /\ Waiting(Consumers)' = Waiting(Consumers)
    BY <1>1, <1>3, <2>1, WaitingMoved
  <2> QED
    BY <1>3, <2>2 DEF Buffer!WaitToGive
<1>4. CASE /\ ~aborted_ /\ HasRoom /\ pc' = [pc EXCEPT ![p] = "notify"] /\ next_seq_num_' = next_seq_num_ + 1
           /\ Rearranged(queue_ \cup {[time |-> time, seq |-> next_seq_num_]})
  <2>1. pc'[p] = "notify" /\ \A u \in Threads : u # p => pc'[u] = pc[u]
    BY <1>1, <1>4
  <2>2. Waiting(Producers)' = Waiting(Producers) \ {p} /\ Waiting(Consumers)' = Waiting(Consumers)
    BY <1>1, <1>4, <2>1, WaitingMoved
  <2>3. Buffer!Hold(queue_ \cup {[time |-> time, seq |-> next_seq_num_]})
    <3>1. queue_ \cup {[time |-> time, seq |-> next_seq_num_]} \subseteq [time : Moments, seq : Nat]
      BY <1>1
    <3> QED
      BY <1>4, <3>1, RearrangedIsHold
  <2> QED
    BY <1>4, <2>2, <2>3, SameCardinality DEF Buffer!Accept, HasRoom
<1> QED
  BY <1>2, <1>3, <1>4 DEF PushLocked

\* pop() with mutex_ held is a thread served with the first frame, one made to wait, or nothing.
LEMMA PopImplements ==
    ASSUME IInv, NEW c \in Consumers, PopLocked(c), UNCHANGED <<next_seq_num_, aborted_>>
    PROVE  Buffer!WaitToTake(c) \/ Buffer!Serve(c) \/ UNCHANGED Buffer!bufferVars
<1>1. /\ pc \in [Threads -> Places] /\ c \in Threads /\ c \notin Producers
      /\ queue_ \subseteq [time : Moments, seq : Nat]
  BY ThreadsAssumption DEF IInv, TypeOK, Threads
<1>2. CASE aborted_ /\ UNCHANGED <<queue_, disturbed>>
  BY <1>2, WaitingKept DEF Buffer!bufferVars
<1>3. CASE ~aborted_ /\ pc' = [pc EXCEPT ![c] = "parked"] /\ UNCHANGED <<queue_, disturbed>>
  <2>1. pc'[c] = "parked" /\ \A u \in Threads : u # c => pc'[u] = pc[u]
    BY <1>1, <1>3
  <2>2. Waiting(Consumers)' = Waiting(Consumers) \cup {c} /\ Waiting(Producers)' = Waiting(Producers)
    BY <1>1, <1>3, <2>1, WaitingMoved
  <2> QED
    BY <1>3, <2>2 DEF Buffer!WaitToTake
<1>4. CASE ~aborted_ /\ pc' = [pc EXCEPT ![c] = "notify"] /\ \E x \in Front : Rearranged(queue_ \ {x})
  <2>1. pc'[c] = "notify" /\ \A u \in Threads : u # c => pc'[u] = pc[u]
    BY <1>1, <1>4
  <2>2. Waiting(Consumers)' = Waiting(Consumers) \ {c} /\ Waiting(Producers)' = Waiting(Producers)
    BY <1>1, <1>4, <2>1, WaitingMoved
  <2>3. PICK x \in Front : Rearranged(queue_ \ {x})
    BY <1>4
  <2>4. x \in queue_ /\ (disturbed \/ \A y \in queue_ : ~PtsComparator(x, y))
    BY <2>3 DEF Front
  <2>5. Buffer!Hold(queue_ \ {x})
    <3>1. queue_ \ {x} \subseteq [time : Moments, seq : Nat]
      BY <1>1
    <3> QED
      BY <2>3, <3>1, RearrangedIsHold
  <2>6. ~disturbed /\ Buffer!Together(queue_) => \A y \in queue_ \ {x} : Buffer!Before(x, y)
    BY <1>1, <2>4, TogetherCorrect
  <2> QED
    BY <1>4, <2>2, <2>4, <2>5, <2>6 DEF Buffer!Serve
<1> QED
  BY <1>2, <1>3, <1>4 DEF PopLocked

\* notify_one() is nothing that a caller can see.
LEMMA NotifyImplements ==
    ASSUME IInv, NEW t \in Threads, NEW waiters \in {Producers, Consumers}, NotifyOne(t, waiters)
    PROVE  UNCHANGED Buffer!bufferVars
<1>1. /\ pc \in [Threads -> Places] /\ pc[t] = "notify" /\ waiters \subseteq Threads
      /\ UNCHANGED <<queue_, disturbed, next_seq_num_, aborted_, hand, sent>>
      /\ \/ pc' = [pc EXCEPT ![t] = "out"]
         \/ \E w \in Parked(waiters) : pc' = [pc EXCEPT ![t] = "out", ![w] = "woken"]
  BY DEF IInv, TypeOK, NotifyOne, Threads
<1>2. \A u \in Threads : pc'[u] \in {"parked", "woken"} <=> pc[u] \in {"parked", "woken"}
  BY <1>1 DEF Parked
<1> QED
  BY <1>1, <1>2, WaitingKept DEF Buffer!bufferVars

LEMMA StepImplements == IInv /\ [Next]_vars => [Buffer!BufferNext]_(Buffer!bufferVars)
<1> SUFFICES ASSUME IInv, [Next]_vars PROVE Buffer!BufferNext \/ UNCHANGED Buffer!bufferVars
  OBVIOUS
<1>1. ASSUME NEW p \in Producers, PushEnter(p) \/ PushResume(p)
      PROVE  Buffer!BufferNext \/ UNCHANGED Buffer!bufferVars
  <2>1. PICK time \in Moments : PushLocked(p, time) /\ UNCHANGED aborted_
    <3>1. CASE PushEnter(p)
      <4>1. sent < Len(Times) /\ sent \in Nat /\ PushLocked(p, Times[sent + 1]) /\ UNCHANGED aborted_
        BY <3>1, TimesAssumption DEF PushEnter, IInv, TypeOK
      <4>2. Times[sent + 1] \in Moments
        BY <4>1, TimesAssumption DEF Moments
      <4> QED
        BY <4>1, <4>2
    <3>2. CASE PushResume(p)
      BY <3>2 DEF PushResume, IInv, Holding
    <3> QED
      BY <1>1, <3>1, <3>2
  <2>2. Buffer!WaitToGive(p) \/ Buffer!Accept(p) \/ UNCHANGED Buffer!bufferVars
    BY <2>1, PushImplements
  <2> QED
    BY <2>2 DEF Buffer!BufferNext
<1>2. ASSUME NEW c \in Consumers, PopEnter(c) \/ PopResume(c)
      PROVE  Buffer!BufferNext \/ UNCHANGED Buffer!bufferVars
  <2>1. Buffer!WaitToTake(c) \/ Buffer!Serve(c) \/ UNCHANGED Buffer!bufferVars
    BY <1>2, PopImplements DEF PopEnter, PopResume
  <2> QED
    BY <2>1 DEF Buffer!BufferNext
<1>3. ASSUME NEW p \in Producers, PushNotify(p) PROVE UNCHANGED Buffer!bufferVars
  BY <1>3, NotifyImplements DEF PushNotify, Threads
<1>4. ASSUME NEW c \in Consumers, PopNotify(c) PROVE UNCHANGED Buffer!bufferVars
  BY <1>4, NotifyImplements DEF PopNotify, Threads
<1>5. ASSUME NEW t \in Threads, Spurious(t) PROVE UNCHANGED Buffer!bufferVars
  <2>1. /\ UNCHANGED <<queue_, disturbed, next_seq_num_, aborted_>>
        /\ \A u \in Threads : pc'[u] \in {"parked", "woken"} <=> pc[u] \in {"parked", "woken"}
    BY <1>5 DEF Spurious, IInv, TypeOK
  <2> QED
    BY <2>1, WaitingKept DEF Buffer!bufferVars
<1>6. CASE Abort
  <2>1. aborted_' = TRUE /\ UNCHANGED <<queue_, disturbed, next_seq_num_>>
    BY <1>6 DEF Abort
  <2>2. Waiting(Producers)' = {} /\ Waiting(Consumers)' = {}
    BY <2>1 DEF Waiting
  <2> QED
    BY <2>1, <2>2 DEF Buffer!BufferNext, Buffer!Close
<1>7. CASE UNCHANGED vars
  BY <1>7 DEF vars, Waiting, Buffer!bufferVars
<1> QED
  BY <1>1, <1>2, <1>3, <1>4, <1>5, <1>6, <1>7 DEF Next

\* For any threads, capacity, period and presentation times, the buffer is one that decoder and
\* renderer can rely on: what pop() returns is the frame to be presented first, across the
\* wrap of the timestamps, unless a jump of the times has disturbed the heap.
THEOREM ImplementsBufferSafety == Spec => Buffer!BufferSafety
<1>1. Init => Buffer!BufferInit
  BY DEF Init, Waiting, Threads, Buffer!BufferInit
<1> QED
  BY <1>1, Invariance, StepImplements, PTL DEF Spec, Buffer!BufferSafety

-----------------------------------------------------------------------------
\* What AbortUnblocks rests on besides fairness.

\* Once aborted, the buffer keeps nobody waiting.
AbortReachesAll == aborted_ => Parked(Threads) = {}

\* After abort() no thread is parked, and none parks any more: whoever is between its test
\* and its park is under the mutex, and whoever comes later sees the flag.
THEOREM AbortNeverMissed == Spec => []AbortReachesAll
<1>1. Init => AbortReachesAll
  BY DEF Init, AbortReachesAll
<1>2. IInv /\ AbortReachesAll /\ [Next]_vars => AbortReachesAll'
  <2> SUFFICES ASSUME IInv, AbortReachesAll, [Next]_vars, aborted_' PROVE Parked(Threads)' = {}
    BY DEF AbortReachesAll
  <2>1. pc \in [Threads -> Places]
    BY DEF IInv, TypeOK
  <2>2. CASE Abort
    BY <2>1, <2>2 DEF Abort, Parked
  <2>3. ASSUME ~Abort PROVE Parked(Threads)' = {}
    <3>1. aborted_ /\ \A t \in Threads : pc[t] # "parked"
      BY <2>3 DEF AbortReachesAll, Parked, Next, PushEnter, PushResume, PushNotify, PopEnter,
                  PopResume, PopNotify, NotifyOne, Spurious, vars
    <3>2. ASSUME NEW p \in Producers, PushEnter(p) \/ PushResume(p) PROVE Parked(Threads)' = {}
      BY <2>1, <3>1, <3>2 DEF PushEnter, PushResume, PushLocked, Parked
    <3>3. ASSUME NEW c \in Consumers, PopEnter(c) \/ PopResume(c) PROVE Parked(Threads)' = {}
      BY <2>1, <3>1, <3>3 DEF PopEnter, PopResume, PopLocked, Parked
    <3>4. ASSUME NEW t \in Threads, NEW W, NotifyOne(t, W), W \subseteq Threads
          PROVE  Parked(Threads)' = {}
      BY <2>1, <3>1, <3>4 DEF NotifyOne, Parked
    <3>5. CASE (\E t \in Threads : Spurious(t)) \/ UNCHANGED vars
      BY <3>1, <3>5 DEF Spurious, Parked, vars
    <3> QED
      BY <2>3, <3>2, <3>3, <3>4, <3>5 DEF Next, PushNotify, PopNotify, Threads
  <2> QED
    BY <2>2, <2>3
<1> QED
  BY <1>1, <1>2, Invariance, PTL DEF Spec
=============================================================================
