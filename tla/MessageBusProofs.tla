--------------------------- MODULE MessageBusProofs ---------------------------
(***************************************************************************)
(* Theorems about MessageBus for every set of producers and consumers,     *)
(* every ring length and every number of messages.                         *)
(***************************************************************************)
EXTENDS MessageBus, SequenceTheorems, FiniteSetTheorems, TLAPS

\* Round the ring at most once, the remainder is a subtraction.
LEMMA WrapOnce ==
    ASSUME NEW n \in Nat \ {0}, NEW a \in 0 .. (2 * n - 1)
    PROVE  a % n = IF a < n THEN a ELSE a - n
<1>1. CASE a < n
  BY <1>1
<1>2. CASE a >= n
  BY <1>2
<1>3. QED
  BY <1>1, <1>2

\* A position at most one turn ahead, as a slot.
LEMMA WrapRing ==
    ASSUME NEW h \in Slot, NEW k \in 0 .. QUEUE_LEN
    PROVE  (h + k) % QUEUE_LEN = IF h + k < QUEUE_LEN THEN h + k
                                 ELSE h + k - QUEUE_LEN
<1>1. CASE h + k < QUEUE_LEN
  BY <1>1, BusAssumption DEF Slot
<1>2. CASE h + k >= QUEUE_LEN
  <2>1. PICK a \in 0 .. (QUEUE_LEN - 1) : h + k = a + QUEUE_LEN
    BY <1>2, BusAssumption DEF Slot
  <2>2. (a + QUEUE_LEN) % QUEUE_LEN = a
    BY BusAssumption
  <2>3. QED
    BY <1>2, <2>1, <2>2, BusAssumption DEF Slot
<1>3. QED
  BY <1>1, <1>2, BusAssumption DEF Slot

\* The slot after a slot is a slot.
LEMMA SlotAfterWraps ==
    ASSUME NEW i \in Slot
    PROVE  SlotAfter(i) = IF i + 1 < QUEUE_LEN THEN i + 1 ELSE 0
BY WrapOnce, BusAssumption DEF SlotAfter, Slot
------------------------------------------------------------------------------
\* The inductive invariant holds at the start ...
LEMMA InitBusInv == Init => BusInv
<1> SUFFICES ASSUME Init PROVE BusInv
  OBVIOUS
<1> USE BusAssumption DEF Init
<1>1. TypeOK
  <2>1. 0 \in Slot
    BY DEF Slot
  <2>2. destroyed \in BOOLEAN
    OBVIOUS
  <2>3. count \in 0 .. QUEUE_LEN /\ sent \in [Producers -> 0 .. MaxMsgs]
    OBVIOUS
  <2>4. QED
    BY <2>1, <2>2, <2>3 DEF TypeOK, PushStates, PopStates, Threads
<1>2. RingConsistent
  BY DEF RingConsistent
<1>3. HandMatchesPc
  BY DEF HandMatchesPc, Responsible
<1>4. OccupiedHoldMsgs
  BY DEF OccupiedHoldMsgs, Occupied, Age, Slot
<1>5. QED
  BY <1>1, <1>2, <1>3, <1>4 DEF BusInv

\* ... and every step keeps it.
LEMMA NextBusInv == BusInv /\ [Next]_vars => BusInv'
<1> SUFFICES ASSUME BusInv, [Next]_vars PROVE BusInv'
  OBVIOUS
<1> USE BusAssumption
    DEF BusInv, TypeOK, RingConsistent, OccupiedHoldMsgs, Occupied, Age, HandMatchesPc,
        Responsible, PushStates, PopStates, Threads, ring
<1>1. ASSUME NEW p \in Producers, PushCall(p) PROVE BusInv'
  BY <1>1 DEF PushCall, Msg
<1>2. ASSUME NEW p \in Producers, PushWait(p) PROVE BusInv'
  BY <1>2 DEF PushWait
<1>3. ASSUME NEW p \in Producers, PushStore(p) PROVE BusInv'
  <2>1. count < QUEUE_LEN
    BY <1>3 DEF PushStore, Full
  <2>2. PICK u \in Threads \cup {NoThread} :
          /\ u # NoThread => pc[u] = "popWait"
          /\ pc' = [t \in Threads |-> IF t = u THEN "popWoken"
                                      ELSE IF t = p THEN "idle" ELSE pc[t]]
    BY <1>3 DEF PushStore, Signal, At
  <2>3. tail' \in Slot /\ RingConsistent'
    BY <1>3, <2>1, SlotAfterWraps DEF PushStore, Slot
  <2>4. items' \in [Slot -> Msg \cup {NoMsg}]
    BY <1>3 DEF PushStore
  <2>5. HandMatchesPc'
    BY <1>3, <2>2 DEF PushStore
  <2>8. OccupiedHoldMsgs'
    <3>1. msg[p] \in Msg
      BY <1>3 DEF PushStore
    <3>2. ASSUME NEW s \in Slot, Age(s)' < count' PROVE items'[s] \in Msg
      BY <1>3, <2>1, <3>1, <3>2 DEF PushStore, Slot
    <3>3. QED
      BY <3>2
  <2>6. /\ \A q \in Producers : pc'[q] \in PushStates
        /\ \A c \in Consumers : pc'[c] \in PopStates
    BY <2>2
  <2>7. QED
    BY <1>3, <2>1, <2>2, <2>3, <2>4, <2>5, <2>6, <2>8 DEF PushStore
<1>4. ASSUME NEW p \in Producers, PushTimeout(p) PROVE BusInv'
  BY <1>4 DEF PushTimeout
<1>5. ASSUME NEW p \in Producers, PushRefuse(p) PROVE BusInv'
  BY <1>5 DEF PushRefuse
<1>6. ASSUME NEW p \in Producers, RefusedReturn(p) PROVE BusInv'
  BY <1>6 DEF RefusedReturn
<1>7. ASSUME NEW c \in Consumers, PopCall(c) PROVE BusInv'
  BY <1>7 DEF PopCall
<1>8. ASSUME NEW c \in Consumers, PopWait(c) PROVE BusInv'
  BY <1>8 DEF PopWait
<1>9. ASSUME NEW c \in Consumers, PopTake(c) PROVE BusInv'
  <2>1. count > 0
    BY <1>9 DEF PopTake, Empty
  <2>2. PICK u \in Threads \cup {NoThread} :
          /\ u # NoThread => pc[u] = "pushWait"
          /\ pc' = [t \in Threads |-> IF t = u THEN "pushWoken"
                                      ELSE IF t = c THEN "holding" ELSE pc[t]]
    BY <1>9 DEF PopTake, Signal, At
  <2>3. head' \in Slot /\ RingConsistent'
    <3>1. head' = IF head + 1 < QUEUE_LEN THEN head + 1 ELSE 0
      BY <1>9, SlotAfterWraps DEF PopTake
    <3>2. tail' = tail /\ count' = count - 1
      BY <1>9 DEF PopTake
    <3>3. QED
      BY <2>1, <3>1, <3>2 DEF Slot
  <2>4. items[head] \in Msg
    BY <2>1 DEF Slot
  <2>5. HandMatchesPc'
    BY <1>9, <2>2, <2>4 DEF PopTake
  <2>8. OccupiedHoldMsgs'
    <3>1. ASSUME NEW s \in Slot, Age(s)' < count' PROVE Age(s) < count
      BY <1>9, <2>1, <3>1, SlotAfterWraps DEF PopTake, Slot
    <3>2. QED
      BY <1>9, <3>1 DEF PopTake
  <2>6. /\ \A p \in Producers : pc'[p] \in PushStates
        /\ \A d \in Consumers : pc'[d] \in PopStates
    BY <2>2
  <2>7. QED
    BY <1>9, <2>1, <2>2, <2>3, <2>4, <2>5, <2>6, <2>8 DEF PopTake
<1>10. ASSUME NEW c \in Consumers, PopTimeout(c) PROVE BusInv'
  BY <1>10 DEF PopTimeout
<1>11. ASSUME NEW c \in Consumers, PopEmptyHanded(c) PROVE BusInv'
  BY <1>11 DEF PopEmptyHanded
<1>12. ASSUME NEW c \in Consumers, FreeContent(c) PROVE BusInv'
  BY <1>12 DEF FreeContent
<1>13. ASSUME NEW t \in Threads, SpuriousWakeup(t) PROVE BusInv'
  BY <1>13 DEF SpuriousWakeup
<1>14. ASSUME NEW t \in Threads, StopThread(t) PROVE BusInv'
  BY <1>14 DEF StopThread
<1>15. ASSUME NEW p \in Producers, Cancel(p) PROVE BusInv'
  BY <1>15 DEF Cancel
<1>16. ASSUME Destroy PROVE BusInv'
  <2>1. head' \in Slot /\ head' = tail
    <3>1. (head + count) % QUEUE_LEN = IF head + count < QUEUE_LEN THEN head + count
                                       ELSE head + count - QUEUE_LEN
      BY WrapRing
    <3>2. QED
      BY <1>16, <3>1 DEF Destroy, Slot
  <2>2. RingConsistent'
    BY <1>16, <2>1 DEF Destroy, Slot
  <2>3. OccupiedHoldMsgs' /\ HandMatchesPc'
    BY <1>16, <2>1 DEF Destroy, Slot
  <2>4. destroyed' \in BOOLEAN
    BY <1>16, Zenon DEF Destroy
  <2>5. QED
    BY <1>16, <2>1, <2>2, <2>3, <2>4 DEF Destroy
<1>17. CASE UNCHANGED vars
  BY <1>17 DEF vars
<1>18. QED
  BY <1>1, <1>2, <1>3, <1>4, <1>5, <1>6, <1>7, <1>8, <1>9, <1>10, <1>11, <1>12,
     <1>13, <1>14, <1>15, <1>16, <1>17
  DEF Next, PushStep, PopStep, Ended

\* Every reachable state has well-typed ring and thread state: in particular
\* head and tail never leave the ring and count never leaves 0 .. QUEUE_LEN.
THEOREM BusTypeCorrect == Spec => []TypeOK
<1>1. BusInv => TypeOK
  BY DEF BusInv
<1>2. QED
  BY <1>1, InitBusInv, NextBusInv, PTL DEF Spec

\* The ring indices agree with count, the slots between them hold messages, and
\* a thread has a message exactly where the code makes it responsible for one.
THEOREM BusInvariant == Spec => []BusInv
BY InitBusInv, NextBusInv, PTL DEF Spec

------------------------------------------------------------------------------
\* The ring read from head is a sequence of messages.
LEMMA QueueIsSeq ==
    ASSUME BusInv
    PROVE  /\ Queue \in Seq(Msg)
           /\ Len(Queue) = count
           /\ \A i \in 1 .. count : Queue[i] = items[SlotOf(i)]
<1>1. count \in Nat
  BY DEF BusInv, TypeOK
<1>2. ASSUME NEW i \in 1 .. count PROVE items[SlotOf(i)] \in Msg
  <2>1. SlotOf(i) \in Slot /\ Age(SlotOf(i)) < count
    BY BusAssumption DEF BusInv, TypeOK, SlotOf, Slot, Age
  <2>2. QED
    BY <2>1 DEF BusInv, OccupiedHoldMsgs, Occupied
<1>3. Queue \in [1 .. count -> Msg]
  BY <1>2 DEF Queue
<1>4. QED
  BY <1>1, <1>3 DEF Queue

\* A store appends to the queue.
LEMMA StoreAppends ==
    ASSUME BusInv, NEW p \in Producers, PushStore(p)
    PROVE  /\ Len(Queue) < QUEUE_LEN
           /\ Queue' = Append(Queue, msg[p])
           /\ msg[p] # NoMsg
<1>1. count < QUEUE_LEN /\ count' = count + 1 /\ count \in Nat
  BY BusAssumption DEF BusInv, TypeOK, PushStore, Full
<1>2. msg[p] \in Msg /\ msg[p] # NoMsg
  BY BusAssumption
  DEF BusInv, TypeOK, HandMatchesPc, Responsible, PushStore, Threads
<1>3. Queue \in Seq(Msg) /\ Len(Queue) = count
  BY QueueIsSeq
<1>4. \A i \in 1 .. count : Queue[i] = items[SlotOf(i)]
  BY QueueIsSeq
<1>5. Append(Queue, msg[p])
       = [i \in 1 .. count + 1 |-> IF i = count + 1 THEN msg[p] ELSE Queue[i]]
  BY <1>1, <1>2, <1>3
<1>6. ASSUME NEW i \in 1 .. count + 1
       PROVE items'[SlotOf(i)'] = IF i = count + 1 THEN msg[p] ELSE Queue[i]
  <2>1. head' = head /\ items' = [items EXCEPT ![tail] = msg[p]]
    BY DEF PushStore
  <2>2. SlotOf(i)' = SlotOf(i)
    BY <2>1 DEF SlotOf
  <2>3. SlotOf(i) \in Slot /\ tail \in Slot /\ items \in [Slot -> Msg \cup {NoMsg}]
    BY <1>1, BusAssumption DEF BusInv, TypeOK, SlotOf, Slot
  <2>4. SlotOf(i) = tail <=> i = count + 1
    BY <1>1, BusAssumption DEF BusInv, TypeOK, RingConsistent, SlotOf, Slot
  <2>5. i # count + 1 => i \in 1 .. count
    BY <1>1
  <2>6. QED
    BY <1>4, <2>1, <2>2, <2>3, <2>4, <2>5
<1>7. Queue' = [i \in 1 .. count + 1 |-> items'[SlotOf(i)']]
  BY <1>1 DEF Queue
<1>8. Queue' = Append(Queue, msg[p])
  BY <1>5, <1>6, <1>7
<1>9. QED
  BY <1>1, <1>2, <1>3, <1>8

\* A take delivers the oldest message.
LEMMA TakeIsHead ==
    ASSUME BusInv, NEW c \in Consumers, PopTake(c)
    PROVE  /\ Queue # <<>>
           /\ items[head] = Head(Queue)
           /\ Queue' = Tail(Queue)
<1>1. count > 0 /\ count' = count - 1 /\ count \in Nat
  BY BusAssumption DEF BusInv, TypeOK, PopTake, Empty
<1>2. Queue \in Seq(Msg) /\ Len(Queue) = count
  BY QueueIsSeq
<1>3. \A i \in 1 .. count : Queue[i] = items[SlotOf(i)]
  BY QueueIsSeq
<1>4. Queue # <<>>
  BY <1>1, <1>2
<1>5. items[head] = Head(Queue)
  <2>1. SlotOf(1) = head
    BY BusAssumption DEF BusInv, TypeOK, SlotOf, Slot
  <2>2. Head(Queue) = Queue[1] /\ 1 \in 1 .. count
    BY <1>1, <1>2, <1>4
  <2>3. QED
    BY <1>3, <2>1, <2>2
<1>6. Tail(Queue) = [i \in 1 .. count - 1 |-> Queue[i + 1]]
  <2>1. /\ Tail(Queue) \in Seq(Msg) /\ Len(Tail(Queue)) = count - 1
        /\ \A i \in 1 .. count - 1 : Tail(Queue)[i] = Queue[i + 1]
    BY <1>2, <1>4, HeadTailProperties
  <2>2. Tail(Queue) \in [1 .. count - 1 -> Msg]
    BY <2>1, LenProperties
  <2>3. QED
    BY <2>1, <2>2
<1>7. ASSUME NEW i \in 1 .. count - 1
       PROVE items'[SlotOf(i)'] = Queue[i + 1]
  <2>1. head' = IF head + 1 < QUEUE_LEN THEN head + 1 ELSE 0
    BY SlotAfterWraps DEF BusInv, TypeOK, PopTake
  <2>2. SlotOf(i)' = SlotOf(i + 1)
    BY <1>1, <2>1, BusAssumption DEF BusInv, TypeOK, SlotOf, Slot
  <2>3. items' = items /\ i + 1 \in 1 .. count
    BY <1>1 DEF PopTake
  <2>4. QED
    BY <1>3, <2>2, <2>3
<1>8. Queue' = [i \in 1 .. count - 1 |-> items'[SlotOf(i)']]
  BY <1>1 DEF Queue
<1>9. Queue' = Tail(Queue)
  BY <1>6, <1>7, <1>8
<1>10. QED
  BY <1>4, <1>5, <1>9

\* Steps that leave the ring alone leave the queue alone.
LEMMA RingSameQueueSame == ring' = ring => Queue' = Queue
BY DEF ring, Queue, SlotOf

------------------------------------------------------------------------------
\* Each step of the ring is a step of the abstract queue, or none.
LEMMA StepImplements ==
    BusInv /\ [Next]_vars => [Fifo!FifoNext]_(Fifo!fifoVars)
<1> SUFFICES ASSUME BusInv, [Next]_vars
             PROVE  Fifo!FifoNext \/ (Queue' = Queue /\ msg' = msg)
  BY DEF Fifo!fifoVars
<1> USE RingSameQueueSame
<1>h. \A t \in Threads : msg[t] # NoMsg <=> pc[t] \in Responsible
  BY DEF BusInv, HandMatchesPc
<1>1. ASSUME NEW p \in Producers, PushCall(p) PROVE Fifo!FifoNext
  <2>1. msg[p] = NoMsg
    BY <1>1, <1>h DEF PushCall, Responsible, Threads
  <2>2. <<p, sent[p] + 1>> \in Msg
    BY <1>1, BusAssumption DEF PushCall, Msg, BusInv, TypeOK
  <2>3. Fifo!Offer(p)
    BY <1>1, <2>1, <2>2 DEF Fifo!Offer, PushCall
  <2>4. QED
    BY <2>3 DEF Fifo!FifoNext
<1>2. ASSUME NEW p \in Producers, PushStore(p) PROVE Fifo!FifoNext
  <2>1. Fifo!Accept(p)
    BY <1>2, StoreAppends DEF Fifo!Accept, PushStore
  <2>2. QED
    BY <2>1 DEF Fifo!FifoNext
<1>3. ASSUME NEW p \in Producers, RefusedReturn(p) PROVE Fifo!FifoNext
  <2>1. Fifo!Refuse(p)
    BY <1>3, <1>h DEF Fifo!Refuse, RefusedReturn, Responsible, Threads
  <2>2. QED
    BY <2>1 DEF Fifo!FifoNext
<1>4. ASSUME NEW c \in Consumers, PopTake(c) PROVE Fifo!FifoNext
  <2>1. msg[c] = NoMsg
    BY <1>4, <1>h DEF PopTake, Responsible, Threads
  <2>2. Fifo!Deliver(c)
    BY <1>4, <2>1, TakeIsHead DEF Fifo!Deliver, PopTake
  <2>3. QED
    BY <2>2 DEF Fifo!FifoNext
<1>5. ASSUME NEW c \in Consumers, FreeContent(c) PROVE Fifo!FifoNext
  <2>1. Fifo!Dispose(c)
    BY <1>5, <1>h DEF Fifo!Dispose, FreeContent, Responsible, Threads
  <2>2. QED
    BY <2>1 DEF Fifo!FifoNext
<1>6. ASSUME NEW p \in Producers, Cancel(p)
       PROVE Fifo!FifoNext \/ (Queue' = Queue /\ msg' = msg)
  <2>1. CASE msg' = msg
    BY <1>6, <2>1 DEF Cancel
  <2>2. CASE msg' # msg
    <3>1. Fifo!Refuse(p)
      BY <1>6, <2>2, <1>h DEF Fifo!Refuse, Cancel, Responsible, Threads
    <3>2. QED
      BY <3>1 DEF Fifo!FifoNext
  <2>3. QED
    BY <2>1, <2>2
<1>7. ASSUME Destroy PROVE Fifo!FifoNext
  <2>1. Queue' = <<>> /\ msg' = msg
    BY <1>7 DEF Destroy, Queue
  <2>2. QED
    BY <2>1 DEF Fifo!FifoNext, Fifo!Discard
<1>8. ASSUME \/ \E p \in Producers : PushWait(p) \/ PushTimeout(p) \/ PushRefuse(p)
             \/ \E c \in Consumers : PopCall(c) \/ PopWait(c) \/ PopTimeout(c)
                                      \/ PopEmptyHanded(c)
             \/ \E t \in Threads : SpuriousWakeup(t) \/ StopThread(t)
             \/ UNCHANGED vars
       PROVE Queue' = Queue /\ msg' = msg
  BY <1>8 DEF PushWait, PushTimeout, PushRefuse, PopCall, PopWait, PopTimeout,
              PopEmptyHanded, SpuriousWakeup, StopThread, vars, ring
<1>9. QED
  BY <1>1, <1>2, <1>3, <1>4, <1>5, <1>6, <1>7, <1>8
  DEF Next, PushStep, PopStep, Ended

LEMMA InitImplements == Init => Fifo!FifoInit
BY DEF Init, Fifo!FifoInit, Queue, Threads

\* Whatever threads push and pop, time out or are cancelled, the ring behaves as
\* a bounded first-in first-out queue whose messages are always in the hand of
\* exactly the thread the code makes responsible for them.
THEOREM BusImplementsFifo == Spec => ImplementsFifo
<1>1. Spec => []BusInv
  BY BusInvariant
<1>2. QED
  BY <1>1, InitImplements, StepImplements, PTL
  DEF Spec, ImplementsFifo, Fifo!FifoSpec

------------------------------------------------------------------------------
\* The slots that hold messages after a store, a take, and a destroy.
LEMMA OccupiedAfterStore ==
    ASSUME BusInv, NEW p \in Producers, PushStore(p)
    PROVE  Occupied' = Occupied \cup {tail} /\ tail \in Slot \ Occupied
<1> USE BusAssumption DEF BusInv, TypeOK, RingConsistent, Slot, PushStore, Full
<1>1. count < QUEUE_LEN /\ head' = head /\ count' = count + 1
  OBVIOUS
<1>2. ASSUME NEW s \in Slot
       PROVE Age(s)' < count' <=> (Age(s) < count \/ s = tail)
  BY <1>1 DEF Age
<1>3. tail \in Slot /\ ~(Age(tail) < count)
  BY <1>1 DEF Age
<1>4. QED
  BY <1>2, <1>3 DEF Occupied

LEMMA OccupiedAfterTake ==
    ASSUME BusInv, NEW c \in Consumers, PopTake(c)
    PROVE  Occupied' = Occupied \ {head} /\ head \in Occupied
<1>1. /\ count \in 1 .. QUEUE_LEN /\ head \in Slot /\ count' = count - 1
      /\ head' = IF head + 1 < QUEUE_LEN THEN head + 1 ELSE 0
  BY SlotAfterWraps, BusAssumption DEF BusInv, TypeOK, PopTake, Empty
<1>2. ASSUME NEW s \in Slot
       PROVE Age(s)' < count' <=> (Age(s) < count /\ s # head)
  BY <1>1, BusAssumption DEF Age, Slot
<1>3. Age(head) < count
  BY <1>1 DEF Age, Slot
<1>4. QED
  BY <1>1, <1>2, <1>3 DEF Occupied

LEMMA OccupiedSame ==
    head' = head /\ count' = count => Occupied' = Occupied
BY DEF Occupied, Age

LEMMA InitOwnerInv == Init => OwnerInv
BY BusAssumption DEF Init, OwnerInv, OneOwner, OnlyCreated, Occupied, Age, Slot

LEMMA NextOwnerInv == BusInv /\ OwnerInv /\ [Next]_vars => OwnerInv'
<1> SUFFICES ASSUME BusInv, OwnerInv, [Next]_vars PROVE OwnerInv'
  OBVIOUS
<1>t. /\ msg \in [Threads -> Msg \cup {NoMsg}] /\ items \in [Slot -> Msg \cup {NoMsg}]
      /\ \A s \in Occupied : s \in Slot /\ items[s] \in Msg
      /\ leaked \subseteq Msg
      /\ sent \in [Producers -> Nat]
      /\ \A t \in Threads : msg[t] # NoMsg <=> pc[t] \in Responsible
      /\ tail \in Slot /\ Producers \subseteq Threads /\ Consumers \subseteq Threads
  BY BusAssumption DEF BusInv, TypeOK, OccupiedHoldMsgs, Occupied, HandMatchesPc,
                       Threads
<1> USE DEF OwnerInv, OneOwner, OnlyCreated, Created
<1>1. ASSUME NEW p \in Producers, PushCall(p) PROVE OwnerInv'
  <2> DEFINE new == <<p, sent[p] + 1>>
  <2>1. /\ msg' = [msg EXCEPT ![p] = new] /\ sent' = [sent EXCEPT ![p] = @ + 1]
        /\ items' = items /\ leaked' = leaked /\ Occupied' = Occupied
    BY <1>1, OccupiedSame DEF PushCall, ring
  <2>2. ASSUME NEW m \in Msg, Created(m) PROVE m # new
    BY <2>2, <1>t DEF Msg
  <2>3. ASSUME NEW m \in Msg, Created(m) PROVE Created(m)'
    BY <2>3, <2>1, <1>t DEF Msg
  <2>4. sent'[p] = sent[p] + 1 /\ new[1] = p /\ new[2] = sent[p] + 1
        /\ sent[p] \in Nat
    BY <2>1, <1>t
  <2>5. new[2] <= sent'[new[1]]
    BY <2>4
  <2>6. \A s \in Occupied : items[s][2] <= sent'[items[s][1]]
    BY <2>3, <1>t
  <2>7. \A m \in leaked : m[2] <= sent'[m[1]]
    BY <2>3, <1>t
  <2>8. ASSUME NEW t \in Threads, msg'[t] # NoMsg
         PROVE  msg'[t][2] <= sent'[msg'[t][1]]
    <3>1. CASE t = p
      BY <3>1, <2>1, <2>5, <1>t
    <3>2. CASE t # p
      <4>1. msg'[t] = msg[t] /\ msg[t] \in Msg /\ msg[t] # NoMsg
        BY <3>2, <2>1, <2>8, <1>t
      <4>2. msg[t][2] <= sent'[msg[t][1]]
        BY <4>1, <2>3
      <4>3. QED
        BY <4>1, <4>2
    <3>3. QED
      BY <3>1, <3>2
  <2>9. OnlyCreated'
    <3>1. items' = items /\ leaked' = leaked /\ Occupied' = Occupied
      BY <2>1
    <3>2. \A s \in Occupied' : items'[s][2] <= sent'[items'[s][1]]
      BY <3>1, <2>6
    <3>3. \A m \in leaked' : m[2] <= sent'[m[1]]
      BY <3>1, <2>7
    <3>4. QED
      BY <3>2, <3>3, <2>8
  <2> HIDE DEF Created, new
  <2>10. OneOwner'
    BY <2>1, <2>2, <1>t
  <2>11. QED
    BY <2>9, <2>10
<1>2. ASSUME NEW p \in Producers, PushStore(p) PROVE OwnerInv'
  <2>1. /\ msg' = [msg EXCEPT ![p] = NoMsg] /\ sent' = sent
        /\ items' = [items EXCEPT ![tail] = msg[p]] /\ leaked' = leaked
        /\ msg[p] # NoMsg
    BY <1>2, <1>t DEF PushStore, Responsible
  <2>2. Occupied' = Occupied \cup {tail} /\ tail \notin Occupied
    BY <1>2, OccupiedAfterStore
  <2>3. QED
    BY <2>1, <2>2, <1>t
<1>3. ASSUME NEW c \in Consumers, PopTake(c) PROVE OwnerInv'
  <2>1. /\ msg' = [msg EXCEPT ![c] = items[head]] /\ sent' = sent
        /\ items' = items /\ leaked' = leaked
    BY <1>3 DEF PopTake
  <2>2. Occupied' = Occupied \ {head} /\ head \in Occupied
    BY <1>3, OccupiedAfterTake
  <2>3. QED
    BY <2>1, <2>2, <1>t
<1>4. ASSUME NEW t \in Threads, msg' = [msg EXCEPT ![t] = NoMsg], msg[t] # NoMsg,
             leaked' = leaked \/ leaked' = leaked \cup {msg[t]},
             UNCHANGED <<ring, sent>>
       PROVE OwnerInv'
  <2>1. Occupied' = Occupied
    BY <1>4, OccupiedSame DEF ring
  <2>2. QED
    BY <1>4, <2>1, <1>t DEF ring
<1>5. ASSUME UNCHANGED <<ring, msg, sent, leaked>> PROVE OwnerInv'
  <2>1. Occupied' = Occupied
    BY <1>5, OccupiedSame DEF ring
  <2>2. QED
    BY <1>5, <2>1 DEF ring
<1>6. ASSUME NEW p \in Producers, RefusedReturn(p) PROVE OwnerInv'
  <2>1. msg[p] # NoMsg
    BY <1>6, <1>t DEF RefusedReturn, Responsible
  <2>2. QED
    BY <1>6, <1>4, <1>t, <2>1 DEF RefusedReturn
<1>7. ASSUME NEW p \in Producers, Cancel(p) PROVE OwnerInv'
  <2>1. CASE pc[p] = "idle"
    BY <1>7, <1>5, <2>1 DEF Cancel
  <2>2. CASE pc[p] = "pushWait"
    <3>1. msg[p] # NoMsg
      BY <2>2, <1>t DEF Responsible
    <3>2. QED
      BY <1>7, <1>4, <1>t, <2>2, <3>1 DEF Cancel
  <2>3. QED
    BY <1>7, <2>1, <2>2 DEF Cancel
<1>8. ASSUME NEW c \in Consumers, FreeContent(c) PROVE OwnerInv'
  <2>1. msg[c] # NoMsg
    BY <1>8, <1>t DEF FreeContent, Responsible
  <2>2. QED
    BY <1>8, <1>4, <1>t, <2>1 DEF FreeContent
<1>9. ASSUME Destroy PROVE OwnerInv'
  <2>1. Occupied' = {}
    <3>1. count' = 0 /\ head' \in Slot
      BY <1>9, NextBusInv DEF Destroy, BusInv, TypeOK, Next
    <3>2. ASSUME NEW s \in Slot PROVE Age(s)' >= 0
      BY <3>1, BusAssumption DEF Age, Slot
    <3>3. QED
      BY <3>1, <3>2, BusAssumption DEF Occupied, Age, Slot
  <2>2. QED
    BY <1>9, <2>1 DEF Destroy
<1>10. ASSUME \/ \E p \in Producers : PushWait(p) \/ PushTimeout(p) \/ PushRefuse(p)
              \/ \E c \in Consumers : PopCall(c) \/ PopWait(c) \/ PopTimeout(c)
                                       \/ PopEmptyHanded(c)
              \/ \E t \in Threads : SpuriousWakeup(t) \/ StopThread(t)
              \/ UNCHANGED vars
       PROVE OwnerInv'
  <2>1. UNCHANGED <<ring, msg, sent, leaked>>
    BY <1>10 DEF PushWait, PushTimeout, PushRefuse, PopCall, PopWait, PopTimeout,
                 PopEmptyHanded, SpuriousWakeup, StopThread, vars, ring
  <2>2. QED
    BY <2>1, <1>5
<1>11. QED
  BY <1>1, <1>2, <1>3, <1>6, <1>7, <1>8, <1>9, <1>10
  DEF Next, PushStep, PopStep, Ended

\* No content is ever owned twice: a message that was refused, popped or leaked
\* is nowhere else, so no path frees it twice or reads it after free.
THEOREM BusOneOwner == Spec => []OneOwner
<1>1. OwnerInv => OneOwner
  BY DEF OwnerInv
<1>2. Spec => []BusInv
  BY BusInvariant
<1>3. QED
  BY <1>1, <1>2, InitOwnerInv, NextOwnerInv, PTL DEF Spec

\* Taking one element out of a finite set makes it at most one smaller.
LEMMA RemoveOne ==
    ASSUME NEW S, NEW x, IsFiniteSet(S)
    PROVE  Cardinality(S) <= Cardinality(S \ {x}) + 1
<1>1. Cardinality(S) \in Nat /\ Cardinality(S \ {x}) \in Nat
  BY FS_RemoveElement, FS_CardinalityType
<1>2. Cardinality(S \ {x}) = IF x \in S THEN Cardinality(S) - 1 ELSE Cardinality(S)
  BY FS_RemoveElement
<1>3. QED
  BY <1>1, <1>2

------------------------------------------------------------------------------
\* The sets of threads at a place are finite, so their sizes are numbers.
LEMMA AtFinite ==
    ASSUME NEW s PROVE IsFiniteSet(At(s)) /\ Cardinality(At(s)) \in Nat
<1>1. IsFiniteSet(At(s))
  BY FS_Subset, BusAssumption DEF At
<1>2. QED
  BY <1>1, FS_CardinalityType

LEMMA AtFiniteNext ==
    ASSUME NEW s PROVE IsFiniteSet(At(s)') /\ Cardinality(At(s)') \in Nat
<1>1. IsFiniteSet(At(s)')
  BY FS_Subset, BusAssumption DEF At
<1>2. QED
  BY <1>1, FS_CardinalityType

\* A step that neither puts a thread to sleep nor uses up a wakeup, and leaves
\* the ring as it is, keeps the count of wakeups sufficient.
LEMMA WakeupsKept ==
    ASSUME BusInv, NoLostWakeup, count' = count,
           \A s \in {"popWait", "pushWait"} : At(s)' \subseteq At(s),
           \A s \in {"popWoken", "pushWoken"} : At(s) \subseteq At(s)'
    PROVE  NoLostWakeup'
<1>1. \A s \in {"popWoken", "pushWoken"} : Cardinality(At(s)) <= Cardinality(At(s)')
  BY AtFiniteNext, FS_Subset
<1>2. \A s \in {"popWoken", "pushWoken"} :
        Cardinality(At(s)) \in Nat /\ Cardinality(At(s)') \in Nat
  BY AtFinite, AtFiniteNext
<1>3. count \in Nat /\ QUEUE_LEN \in Nat
  BY BusAssumption DEF BusInv, TypeOK
<1>4. At("popWait")' # {} => count' <= Cardinality(At("popWoken")')
  BY <1>1, <1>2, <1>3 DEF NoLostWakeup
<1>5. At("pushWait")' # {} => QUEUE_LEN - count' <= Cardinality(At("pushWoken")')
  BY <1>1, <1>2, <1>3 DEF NoLostWakeup
<1>6. QED
  BY <1>4, <1>5 DEF NoLostWakeup

\* One thread moves from a place that is not "woken" to one that is not asleep.
LEMMA MoveKeepsWakeups ==
    ASSUME BusInv, NoLostWakeup, count' = count,
           NEW t \in Threads, NEW y, pc' = [pc EXCEPT ![t] = y],
           y \notin {"popWait", "pushWait"},
           pc[t] \notin {"popWoken", "pushWoken"}
    PROVE  NoLostWakeup'
<1>1. pc \in [Threads -> PushStates \cup PopStates]
  BY DEF BusInv, TypeOK
<1>2. \A s \in {"popWait", "pushWait"} : At(s)' \subseteq At(s)
  BY <1>1 DEF At
<1>3. \A s \in {"popWoken", "pushWoken"} : At(s) \subseteq At(s)'
  BY <1>1 DEF At
<1>4. QED
  BY <1>2, <1>3, WakeupsKept

\* A store uses up at most one free slot's wakeup and wakes one sleeper for the
\* message it adds.
LEMMA StoreKeepsWakeups ==
    ASSUME BusInv, NoLostWakeup, NEW p \in Producers, PushStore(p)
    PROVE  NoLostWakeup'
<1>1. /\ pc \in [Threads -> PushStates \cup PopStates] /\ p \in Threads
      /\ pc[p] \in {"push", "pushWoken"}
      /\ count \in Nat /\ QUEUE_LEN \in Nat /\ count' = count + 1
      /\ pc' \in Signal(At("popWait"), "popWoken", [pc EXCEPT ![p] = "idle"])
  BY BusAssumption DEF BusInv, TypeOK, PushStore, Threads
<1>2. CASE At("popWait") = {}
  <2>1. pc' = [pc EXCEPT ![p] = "idle"]
    BY <1>1, <1>2 DEF Signal
  <2>2. At("popWait")' = {}
    BY <2>1, <1>1, <1>2 DEF At
  <2>3. At("pushWait")' = At("pushWait")
        /\ At("pushWoken")' = At("pushWoken") \ {p}
    BY <2>1, <1>1 DEF At
  <2>4. QED
    <3>1. Cardinality(At("pushWoken")) <= Cardinality(At("pushWoken")') + 1
      BY <2>3, AtFinite, RemoveOne
    <3>2. Cardinality(At("pushWoken")) \in Nat /\ Cardinality(At("pushWoken")') \in Nat
      BY AtFinite, AtFiniteNext
    <3>3. At("pushWait")' # {} => QUEUE_LEN - count' <= Cardinality(At("pushWoken")')
      BY <3>1, <3>2, <2>3, <1>1 DEF NoLostWakeup
    <3>4. QED
      BY <3>3, <2>2 DEF NoLostWakeup
<1>3. CASE At("popWait") # {}
  <2>1. PICK t \in At("popWait") :
          pc' = [[pc EXCEPT ![p] = "idle"] EXCEPT ![t] = "popWoken"]
    BY <1>1, <1>3 DEF Signal
  <2>2. t \in Threads /\ pc[t] = "popWait" /\ t # p
    BY <2>1, <1>1 DEF At
  <2>3. At("popWoken")' = At("popWoken") \cup {t} /\ t \notin At("popWoken")
    BY <2>1, <2>2, <1>1 DEF At
  <2>4. At("pushWait")' = At("pushWait")
        /\ At("pushWoken")' = At("pushWoken") \ {p}
    BY <2>1, <2>2, <1>1 DEF At
  <2>5. Cardinality(At("popWoken")') = Cardinality(At("popWoken")) + 1
    BY <2>3, AtFinite, FS_AddElement
  <2>6. Cardinality(At("pushWoken")) <= Cardinality(At("pushWoken")') + 1
    BY <2>4, AtFinite, RemoveOne
  <2>7. /\ Cardinality(At("pushWoken")) \in Nat
        /\ Cardinality(At("pushWoken")') \in Nat
        /\ Cardinality(At("popWoken")) \in Nat
    BY AtFinite, AtFiniteNext
  <2>8. count' <= Cardinality(At("popWoken")')
    BY <2>5, <2>7, <1>1, <1>3 DEF NoLostWakeup
  <2>9. At("pushWait")' # {} => QUEUE_LEN - count' <= Cardinality(At("pushWoken")')
    BY <2>4, <2>6, <2>7, <1>1 DEF NoLostWakeup
  <2>10. QED
    BY <2>8, <2>9 DEF NoLostWakeup
<1>4. QED
  BY <1>2, <1>3

LEMMA TakeKeepsWakeups ==
    ASSUME BusInv, NoLostWakeup, NEW c \in Consumers, PopTake(c)
    PROVE  NoLostWakeup'
<1>1. /\ pc \in [Threads -> PushStates \cup PopStates] /\ c \in Threads
      /\ pc[c] \in {"pop", "popWoken"}
      /\ count \in Nat /\ QUEUE_LEN \in Nat /\ count' = count - 1
      /\ pc' \in Signal(At("pushWait"), "pushWoken", [pc EXCEPT ![c] = "holding"])
  BY BusAssumption DEF BusInv, TypeOK, PopTake, Threads
<1>2. CASE At("pushWait") = {}
  <2>1. pc' = [pc EXCEPT ![c] = "holding"]
    BY <1>1, <1>2 DEF Signal
  <2>2. At("pushWait")' = {}
    BY <2>1, <1>1, <1>2 DEF At
  <2>3. At("popWait")' = At("popWait")
        /\ At("popWoken")' = At("popWoken") \ {c}
    BY <2>1, <1>1 DEF At
  <2>4. QED
    <3>1. Cardinality(At("popWoken")) <= Cardinality(At("popWoken")') + 1
      BY <2>3, AtFinite, RemoveOne
    <3>2. Cardinality(At("popWoken")) \in Nat /\ Cardinality(At("popWoken")') \in Nat
      BY AtFinite, AtFiniteNext
    <3>3. At("popWait")' # {} => count' <= Cardinality(At("popWoken")')
      BY <3>1, <3>2, <2>3, <1>1 DEF NoLostWakeup
    <3>4. QED
      BY <3>3, <2>2 DEF NoLostWakeup
<1>3. CASE At("pushWait") # {}
  <2>1. PICK t \in At("pushWait") :
          pc' = [[pc EXCEPT ![c] = "holding"] EXCEPT ![t] = "pushWoken"]
    BY <1>1, <1>3 DEF Signal
  <2>2. t \in Threads /\ pc[t] = "pushWait" /\ t # c
    BY <2>1, <1>1 DEF At
  <2>3. At("pushWoken")' = At("pushWoken") \cup {t} /\ t \notin At("pushWoken")
    BY <2>1, <2>2, <1>1 DEF At
  <2>4. At("popWait")' = At("popWait")
        /\ At("popWoken")' = At("popWoken") \ {c}
    BY <2>1, <2>2, <1>1 DEF At
  <2>5. Cardinality(At("pushWoken")') = Cardinality(At("pushWoken")) + 1
    BY <2>3, AtFinite, FS_AddElement
  <2>6. Cardinality(At("popWoken")) <= Cardinality(At("popWoken")') + 1
    BY <2>4, AtFinite, RemoveOne
  <2>7. /\ Cardinality(At("popWoken")) \in Nat
        /\ Cardinality(At("popWoken")') \in Nat
        /\ Cardinality(At("pushWoken")) \in Nat
    BY AtFinite, AtFiniteNext
  <2>8. QUEUE_LEN - count' <= Cardinality(At("pushWoken")')
    BY <2>5, <2>7, <1>1, <1>3 DEF NoLostWakeup
  <2>9. At("popWait")' # {} => count' <= Cardinality(At("popWoken")')
    BY <2>4, <2>6, <2>7, <1>1 DEF NoLostWakeup
  <2>10. QED
    BY <2>8, <2>9 DEF NoLostWakeup
<1>4. QED
  BY <1>2, <1>3

LEMMA NextNoLostWakeup == BusInv /\ NoLostWakeup /\ [Next]_vars => NoLostWakeup'
<1> SUFFICES ASSUME BusInv, NoLostWakeup, [Next]_vars PROVE NoLostWakeup'
  OBVIOUS
<1>t. /\ pc \in [Threads -> PushStates \cup PopStates]
      /\ Producers \subseteq Threads /\ Consumers \subseteq Threads
      /\ \A p \in Producers : pc[p] \in PushStates
      /\ \A c \in Consumers : pc[c] \in PopStates
      /\ count \in Nat /\ QUEUE_LEN \in Nat
  BY BusAssumption DEF BusInv, TypeOK, Threads
<1>1. ASSUME NEW p \in Producers,
             PushCall(p) \/ PushTimeout(p) \/ PushRefuse(p) \/ RefusedReturn(p)
             \/ Cancel(p)
      PROVE NoLostWakeup'
  <2>1. PICK y \in {"push", "pushLate", "refused", "idle", "dead"} :
          pc' = [pc EXCEPT ![p] = y]
    BY <1>1 DEF PushCall, PushTimeout, PushRefuse, RefusedReturn, Cancel
  <2>2. count' = count /\ pc[p] \notin {"popWoken", "pushWoken"}
    BY <1>1 DEF PushCall, PushTimeout, PushRefuse, RefusedReturn, Cancel, ring
  <2>3. QED
    BY <2>1, <2>2, <1>t, MoveKeepsWakeups
<1>2. ASSUME NEW c \in Consumers,
             PopCall(c) \/ PopTimeout(c) \/ PopEmptyHanded(c) \/ FreeContent(c)
      PROVE NoLostWakeup'
  <2>1. PICK y \in {"pop", "popLate", "idle"} : pc' = [pc EXCEPT ![c] = y]
    BY <1>2 DEF PopCall, PopTimeout, PopEmptyHanded, FreeContent
  <2>2. count' = count /\ pc[c] \notin {"popWoken", "pushWoken"}
    BY <1>2 DEF PopCall, PopTimeout, PopEmptyHanded, FreeContent, ring
  <2>3. QED
    BY <2>1, <2>2, <1>t, MoveKeepsWakeups
<1>3. ASSUME NEW t \in Threads, SpuriousWakeup(t) PROVE NoLostWakeup'
  <2>1. PICK y \in {"pushWoken", "popWoken"} : pc' = [pc EXCEPT ![t] = y]
    BY <1>3 DEF SpuriousWakeup
  <2>2. count' = count /\ pc[t] \notin {"popWoken", "pushWoken"}
    BY <1>3 DEF SpuriousWakeup, ring
  <2>3. QED
    BY <2>1, <2>2, <1>t, MoveKeepsWakeups
<1>4. ASSUME NEW p \in Producers, PushWait(p) PROVE NoLostWakeup'
  <2>1. count' = count /\ QUEUE_LEN - count <= 0
    BY <1>4, <1>t DEF PushWait, Full, ring
  <2>2. At("popWait")' = At("popWait") /\ At("popWoken")' = At("popWoken")
    BY <1>4, <1>t DEF PushWait, At, PushStates
  <2>3. Cardinality(At("pushWoken")') \in Nat
    BY AtFiniteNext
  <2>4. QED
    BY <2>1, <2>2, <2>3, <1>t DEF NoLostWakeup
<1>5. ASSUME NEW c \in Consumers, PopWait(c) PROVE NoLostWakeup'
  <2>1. count' = count /\ count = 0
    BY <1>5 DEF PopWait, Empty, ring
  <2>2. At("pushWait")' = At("pushWait") /\ At("pushWoken")' = At("pushWoken")
    BY <1>5, <1>t DEF PopWait, At, PopStates
  <2>3. Cardinality(At("popWoken")') \in Nat
    BY AtFiniteNext
  <2>4. QED
    BY <2>1, <2>2, <2>3, <1>t DEF NoLostWakeup
<1>6. ASSUME Destroy PROVE NoLostWakeup'
  <2>1. At("popWait")' = {} /\ At("pushWait")' = {}
    BY <1>6 DEF Destroy, Quiet, At
  <2>2. QED
    BY <2>1 DEF NoLostWakeup
<1>7. ASSUME (\E t \in Threads : StopThread(t)) \/ UNCHANGED vars PROVE NoLostWakeup'
  <2>1. pc' = pc /\ count' = count
    BY <1>7 DEF StopThread, vars, ring
  <2>2. QED
    BY <2>1, WakeupsKept DEF At
<1>8. QED
  BY <1>1, <1>2, <1>3, <1>4, <1>5, <1>6, <1>7, StoreKeepsWakeups, TakeKeepsWakeups
  DEF Next, PushStep, PopStep, Ended

\* One pthread_cond_signal per message and per freed slot is enough: a thread
\* never sleeps while there is work for it that no woken thread will do, however
\* many producers and consumers there are.
THEOREM BusNoLostWakeup == Spec => []NoLostWakeup
<1>1. Init => NoLostWakeup
  BY DEF Init, NoLostWakeup, At
<1>2. Spec => []BusInv
  BY BusInvariant
<1>3. QED
  BY <1>1, <1>2, NextNoLostWakeup, PTL DEF Spec
==============================================================================
