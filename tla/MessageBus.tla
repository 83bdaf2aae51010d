------------------------------ MODULE MessageBus ------------------------------
(***************************************************************************)
(* One queue of the message bus (src/src/bus/message_bus.c): a ring of     *)
(* QUEUE_LEN slots under a mutex, with the condition variables not_full    *)
(* and not_empty, the timed waits of push and pop, and the callers'        *)
(* handling of a refused message.  The bus has two such queues, inbound    *)
(* (channels and services to the agent loop) and outbound (agent loop to   *)
(* the main loop); they share nothing.                                     *)
(*                                                                         *)
(* A section between lock and unlock (or a wait) is one step: no other     *)
(* thread can see its inside.  pc says where a thread is:                  *)
(*   idle          outside the bus                                         *)
(*   push, pop     inside queue_push/queue_pop, about to take the mutex    *)
(*   pushWait ...  asleep in pthread_cond_timedwait                        *)
(*   pushWoken ... awake in it with result 0, about to take the mutex      *)
(*   pushLate ...  awake in it with ETIMEDOUT, about to take the mutex     *)
(*   refused       push returned MC_ERR_NOMEM                              *)
(*   holding       pop returned a message the thread has not freed yet     *)
(*   dead          cancelled by pthread_cancel (cli_channel_stop)          *)
(***************************************************************************)
EXTENDS Integers, Sequences, FiniteSets

CONSTANTS
    Producers,       \* threads that push
    Consumers,       \* threads that pop
    QUEUE_LEN,       \* T113CLAW_BUS_QUEUE_LEN, 16 in the source
    MaxMsgs,         \* bound: messages each producer sends in its life
    FreesOnFailure,  \* producers whose caller frees a refused message
    Cancelable,      \* producers that are stopped with pthread_cancel
    NoMsg,           \* no message
    NoThread         \* the mutex is free

Threads == Producers \cup Consumers
Slot == 0 .. QUEUE_LEN - 1
Msg == Producers \X (1 .. MaxMsgs)

ASSUME BusAssumption ==
    /\ QUEUE_LEN \in Nat \ {0}
    /\ MaxMsgs \in Nat
    /\ IsFiniteSet(Threads)
    /\ Producers \cap Consumers = {}
    /\ FreesOnFailure \subseteq Producers
    /\ Cancelable \subseteq Producers
    /\ NoMsg \notin Msg
    /\ NoThread \notin Threads

VARIABLES
    items,      \* the ring
    head,       \* slot of the oldest message
    tail,       \* slot the next message goes to
    count,      \* messages in the ring
    mutex,      \* owner of the mutex between two steps, or NoThread
    pc,         \* where each thread is
    msg,        \* the message a thread has in its hand, or NoMsg
    sent,       \* messages each producer has created
    leaked,     \* messages nobody will ever free
    stopped,    \* threads main has told to stop (and is joining)
    destroyed   \* message_bus_destroy has run

ring == <<items, head, tail, count>>
vars == <<items, head, tail, count, mutex, pc, msg, sent, leaked, stopped,
          destroyed>>

At(s) == {t \in Threads : pc[t] = s}

Init ==
    /\ items = [i \in Slot |-> NoMsg]
    /\ head = 0
    /\ tail = 0
    /\ count = 0
    /\ mutex = NoThread
    /\ pc = [t \in Threads |-> "idle"]
    /\ msg = [t \in Threads |-> NoMsg]
    /\ sent = [p \in Producers |-> 0]
    /\ leaked = {}
    /\ stopped = {}
    /\ destroyed = FALSE

------------------------------------------------------------------------------
\* Index arithmetic of the ring.
SlotAfter(i) == (i + 1) % QUEUE_LEN

Full == count >= QUEUE_LEN

EmptyOffByOne == count <= 1
Empty == count = 0

\* pthread_cond_signal: one of the threads in W leaves its wait with result 0
\* and goes to s, if there is one; f is pc after the signaller's own move.
Signal(W, s, f) ==
    IF W = {} THEN {f} ELSE {[f EXCEPT ![t] = s] : t \in W}

\* A producer creates a message and calls push.
PushCall(p) ==
    /\ pc[p] = "idle"
    /\ p \notin stopped
    /\ sent[p] < MaxMsgs
    /\ sent' = [sent EXCEPT ![p] = @ + 1]
    /\ msg' = [msg EXCEPT ![p] = <<p, sent[p] + 1>>]
    /\ pc' = [pc EXCEPT ![p] = "push"]
    /\ UNCHANGED <<ring, mutex, leaked, stopped, destroyed>>

\* With the mutex, on entry or after a wakeup: no room, so wait (again).
PushWait(p) ==
    /\ pc[p] \in {"push", "pushWoken"}
    /\ mutex = NoThread
    /\ Full
    /\ pc' = [pc EXCEPT ![p] = "pushWait"]
    /\ UNCHANGED <<ring, mutex, msg, sent, leaked, stopped, destroyed>>

\* With the mutex and room: store the message and signal not_empty.
PushStore(p) ==
    /\ pc[p] \in {"push", "pushWoken"}
    /\ mutex = NoThread
    /\ ~Full
    /\ items' = [items EXCEPT ![tail] = msg[p]]
    /\ tail' = SlotAfter(tail)
    /\ count' = count + 1
    /\ msg' = [msg EXCEPT ![p] = NoMsg]
    /\ pc' \in Signal(At("popWait"), "popWoken", [pc EXCEPT ![p] = "idle"])
    /\ UNCHANGED <<head, mutex, sent, leaked, stopped, destroyed>>

PushTimeoutNever(p) == FALSE

\* The second is over: the wait ends with ETIMEDOUT.
PushTimeout(p) ==
    /\ pc[p] = "pushWait"
    /\ pc' = [pc EXCEPT ![p] = "pushLate"]
    /\ UNCHANGED <<ring, mutex, msg, sent, leaked, stopped, destroyed>>

PushRefuseStores(p) ==
    /\ pc[p] = "pushLate"
    /\ mutex = NoThread
    /\ pc' = [pc EXCEPT ![p] = "refused"]
    /\ IF Full THEN UNCHANGED ring
       ELSE /\ items' = [items EXCEPT ![tail] = msg[p]]
            /\ tail' = SlotAfter(tail)
            /\ count' = count + 1
            /\ UNCHANGED head
    /\ UNCHANGED <<mutex, msg, sent, leaked, stopped, destroyed>>

\* The wait returned non-zero: push fails without looking at count again.
PushRefuse(p) ==
    /\ pc[p] = "pushLate"
    /\ mutex = NoThread
    /\ pc' = [pc EXCEPT ![p] = "refused"]
    /\ UNCHANGED <<ring, mutex, msg, sent, leaked, stopped, destroyed>>

\* The caller of a failed push: some free the content, the others ignore the
\* result and lose the only pointer to it.
RefusedReturn(p) ==
    /\ pc[p] = "refused"
    /\ pc' = [pc EXCEPT ![p] = "idle"]
    /\ msg' = [msg EXCEPT ![p] = NoMsg]
    /\ leaked' = IF p \in FreesOnFailure THEN leaked ELSE leaked \cup {msg[p]}
    /\ UNCHANGED <<ring, mutex, sent, stopped, destroyed>>

PopCall(c) ==
    /\ pc[c] = "idle"
    /\ c \notin stopped
    /\ pc' = [pc EXCEPT ![c] = "pop"]
    /\ UNCHANGED <<ring, mutex, msg, sent, leaked, stopped, destroyed>>

PopWait(c) ==
    /\ pc[c] \in {"pop", "popWoken"}
    /\ mutex = NoThread
    /\ Empty
    /\ pc' = [pc EXCEPT ![c] = "popWait"]
    /\ UNCHANGED <<ring, mutex, msg, sent, leaked, stopped, destroyed>>

PopTakeNewest(c) ==
    /\ pc[c] \in {"pop", "popWoken"}
    /\ mutex = NoThread
    /\ ~Empty
    /\ msg' = [msg EXCEPT ![c] = items[(tail + QUEUE_LEN - 1) % QUEUE_LEN]]
    /\ tail' = (tail + QUEUE_LEN - 1) % QUEUE_LEN
    /\ count' = count - 1
    /\ pc' \in Signal(At("pushWait"), "pushWoken", [pc EXCEPT ![c] = "holding"])
    /\ UNCHANGED <<items, head, mutex, sent, leaked, stopped, destroyed>>

PopTakeSignalsIfFull(c) ==
    /\ pc[c] \in {"pop", "popWoken"}
    /\ mutex = NoThread
    /\ ~Empty
    /\ msg' = [msg EXCEPT ![c] = items[head]]
    /\ head' = SlotAfter(head)
    /\ count' = count - 1
    /\ pc' \in Signal(IF Full THEN At("pushWait") ELSE {}, "pushWoken",
                      [pc EXCEPT ![c] = "holding"])
    /\ UNCHANGED <<items, tail, mutex, sent, leaked, stopped, destroyed>>

\* With the mutex and a message: take the oldest and signal not_full.
PopTake(c) ==
    /\ pc[c] \in {"pop", "popWoken"}
    /\ mutex = NoThread
    /\ ~Empty
    /\ msg' = [msg EXCEPT ![c] = items[head]]
    /\ head' = SlotAfter(head)
    /\ count' = count - 1
    /\ pc' \in Signal(At("pushWait"), "pushWoken", [pc EXCEPT ![c] = "holding"])
    /\ UNCHANGED <<items, tail, mutex, sent, leaked, stopped, destroyed>>

PopTimeout(c) ==
    /\ pc[c] = "popWait"
    /\ pc' = [pc EXCEPT ![c] = "popLate"]
    /\ UNCHANGED <<ring, mutex, msg, sent, leaked, stopped, destroyed>>

\* MC_ERR_TIMEOUT: the consumer's loop goes round.
PopEmptyHanded(c) ==
    /\ pc[c] = "popLate"
    /\ mutex = NoThread
    /\ pc' = [pc EXCEPT ![c] = "idle"]
    /\ UNCHANGED <<ring, mutex, msg, sent, leaked, stopped, destroyed>>

\* The consumer has handled its message and frees the content.
FreeContent(c) ==
    /\ pc[c] = "holding"
    /\ pc' = [pc EXCEPT ![c] = "idle"]
    /\ msg' = [msg EXCEPT ![c] = NoMsg]
    /\ UNCHANGED <<ring, mutex, sent, leaked, stopped, destroyed>>

\* POSIX lets a condition wait return 0 without a signal.
SpuriousWakeup(t) ==
    /\ pc[t] \in {"pushWait", "popWait"}
    /\ pc' = [pc EXCEPT ![t] = IF @ = "pushWait" THEN "pushWoken" ELSE "popWoken"]
    /\ UNCHANGED <<ring, mutex, msg, sent, leaked, stopped, destroyed>>

------------------------------------------------------------------------------
\* Shutdown: main stops the threads one after the other, joining each, and
\* destroys the bus when all have ended.  Here the order is any; main's is the
\* channels, cron, the agent.
Quiet(t) == pc[t] \in {"idle", "dead"}

StopThread(t) ==
    /\ t \notin stopped
    /\ \A u \in stopped : Quiet(u)
    /\ stopped' = stopped \cup {t}
    /\ UNCHANGED <<ring, mutex, pc, msg, sent, leaked, destroyed>>

\* pthread_cancel acts at a cancellation point: in fgets the thread just ends;
\* in pthread_cond_timedwait it takes the mutex back first and, with no cleanup
\* handler, ends as its owner.
Cancel(p) ==
    /\ p \in Cancelable \cap stopped
    /\ \/ pc[p] = "idle" /\ UNCHANGED <<mutex, msg, leaked>>
       \/ /\ pc[p] = "pushWait"
          /\ mutex = NoThread
          /\ mutex' = p
          /\ leaked' = leaked \cup {msg[p]}
          /\ msg' = [msg EXCEPT ![p] = NoMsg]
    /\ pc' = [pc EXCEPT ![p] = "dead"]
    /\ UNCHANGED <<ring, sent, stopped, destroyed>>

\* message_bus_destroy: frees what is left, moving head up to tail.
Destroy ==
    /\ ~destroyed
    /\ stopped = Threads
    /\ \A t \in Threads : Quiet(t)
    /\ mutex = NoThread
    /\ head' = (head + count) % QUEUE_LEN
    /\ count' = 0
    /\ destroyed' = TRUE
    /\ UNCHANGED <<items, tail, mutex, pc, msg, sent, leaked, stopped>>

\* The program has ended.
Ended == destroyed /\ UNCHANGED vars

PushStep(p) ==
    \/ PushCall(p) \/ PushWait(p) \/ PushStore(p) \/ PushTimeout(p)
    \/ PushRefuse(p) \/ RefusedReturn(p)

PopStep(c) ==
    \/ PopCall(c) \/ PopWait(c) \/ PopTake(c) \/ PopTimeout(c)
    \/ PopEmptyHanded(c) \/ FreeContent(c)

Next ==
    \/ \E p \in Producers : PushStep(p) \/ Cancel(p)
    \/ \E c \in Consumers : PopStep(c)
    \/ \E t \in Threads : SpuriousWakeup(t) \/ StopThread(t)
    \/ Destroy
    \/ Ended

Spec == Init /\ [][Next]_vars

\* Every thread that can run does run.  A producer's wait ends because its
\* deadline is absolute and is computed once, however often it is woken: strong
\* fairness.  A consumer's deadline is recomputed after each wakeup, so strong
\* fairness there says that spurious wakeups do not come faster than the
\* timeout for ever.  Nothing obliges the user to stop the program, but once
\* main has begun to shut down it goes on.
Fairness ==
    /\ \A p \in Producers :
         /\ WF_vars(PushWait(p) \/ PushStore(p) \/ PushRefuse(p) \/ RefusedReturn(p))
         /\ SF_vars(PushTimeout(p))
         /\ WF_vars(Cancel(p))
    /\ \A c \in Consumers :
         /\ WF_vars(PopCall(c) \/ PopWait(c) \/ PopTake(c) \/ PopEmptyHanded(c)
                    \/ FreeContent(c))
         /\ SF_vars(PopTimeout(c))
    /\ WF_vars(stopped # {} /\ \E t \in Threads : StopThread(t))
    /\ WF_vars(Destroy)

FairSpec == Spec /\ Fairness

------------------------------------------------------------------------------
\* The state read as a queue.
SlotOf(i) == IF head + i - 1 < QUEUE_LEN THEN head + i - 1
             ELSE head + i - 1 - QUEUE_LEN

\* How many queued messages are older than the one slot s would hold.
Age(s) == IF s >= head THEN s - head ELSE s - head + QUEUE_LEN

Occupied == {s \in Slot : Age(s) < count}

Queue == [i \in 1 .. count |-> items[SlotOf(i)]]

Fifo == INSTANCE BoundedFifo
        WITH queue <- Queue, hand <- msg, Capacity <- QUEUE_LEN

(***************************************************************************)
(* Properties.                                                             *)
(***************************************************************************)

PushStates == {"idle", "push", "pushWait", "pushWoken", "pushLate", "refused",
               "dead"}
PopStates == {"idle", "pop", "popWait", "popWoken", "popLate", "holding"}

\* Each variable stays in its range; in particular the indices stay slots and
\* count within the ring.
TypeOK ==
    /\ items \in [Slot -> Msg \cup {NoMsg}]
    /\ head \in Slot
    /\ tail \in Slot
    /\ count \in 0 .. QUEUE_LEN
    /\ mutex \in Producers \cup {NoThread}
    /\ pc \in [Threads -> PushStates \cup PopStates]
    /\ \A p \in Producers : pc[p] \in PushStates
    /\ \A c \in Consumers : pc[c] \in PopStates
    /\ msg \in [Threads -> Msg \cup {NoMsg}]
    /\ sent \in [Producers -> 0 .. MaxMsgs]
    /\ leaked \in SUBSET Msg
    /\ stopped \in SUBSET Threads
    /\ destroyed \in BOOLEAN

\* The three words the code keeps about the ring agree: tail is count slots
\* after head, round the end (queue_push and queue_pop move them separately).
RingConsistent ==
    tail = IF head + count < QUEUE_LEN THEN head + count
           ELSE head + count - QUEUE_LEN

\* The slots between head and tail hold messages.
OccupiedHoldMsgs == \A s \in Occupied : items[s] \in Msg

\* A thread is responsible for a message exactly while it is inside a push that
\* has not succeeded, or between a pop and the free.
Responsible == {"push", "pushWait", "pushWoken", "pushLate", "refused", "holding"}

HandMatchesPc == \A t \in Threads : msg[t] # NoMsg <=> pc[t] \in Responsible

\* The inductive invariant of the proofs.
BusInv == TypeOK /\ RingConsistent /\ OccupiedHoldMsgs /\ HandMatchesPc

\* No message content has two owners, so none is freed twice or used after
\* free: queued messages are distinct, no queued message is in a thread's hand,
\* no two threads have the same, and none of these has been given up.
OneOwner ==
    /\ \A s, r \in Occupied : items[s] = items[r] => s = r
    /\ \A s \in Occupied : items[s] \notin leaked
    /\ \A t \in Threads : msg[t] # NoMsg =>
         /\ \A s \in Occupied : items[s] # msg[t]
         /\ \A u \in Threads : msg[u] = msg[t] => u = t
         /\ msg[t] \notin leaked

\* Every message anywhere is one its producer has created.
Created(m) == m[2] <= sent[m[1]]

OnlyCreated ==
    /\ \A s \in Occupied : Created(items[s])
    /\ \A t \in Threads : msg[t] # NoMsg => Created(msg[t])
    /\ \A m \in leaked : Created(m)

\* What makes OneOwner inductive: a new message differs from all that exist.
OwnerInv == OneOwner /\ OnlyCreated

\* No wakeup is lost though push and pop signal one waiter and others barge in:
\* while a consumer sleeps every queued message has a consumer already woken for
\* it, and while a producer sleeps every free slot has a woken producer.
NoLostWakeup ==
    /\ At("popWait") # {} => count <= Cardinality(At("popWoken"))
    /\ At("pushWait") # {} => QUEUE_LEN - count <= Cardinality(At("pushWoken"))

\* The ring, the waits and the signalling implement the bounded queue.
ImplementsFifo == Fifo!FifoSpec

\* A thread cancelled inside its wait has kept the mutex.
MutexLost == mutex # NoThread

\* A push always returns, accepted or refused: the wait for room is bounded.
PushReturns ==
    \A p \in Producers : pc[p] = "push" ~> pc[p] \in {"idle", "refused"} \/ MutexLost

\* An accepted message reaches a consumer, unless the program is shut down.
Delivered ==
    \A m \in Msg : (\E i \in 1 .. count : Queue[i] = m)
                   ~> \/ destroyed \/ MutexLost
                      \/ \E c \in Consumers : msg[c] = m

\* Once main has begun to stop the threads, the bus is destroyed and the program
\* ends.
ShutdownCompletes == (stopped # {}) ~> destroyed

\* It does, wherever the threads are, unless one was cancelled inside its wait.
ShutdownElseCompletes == (stopped # {}) ~> destroyed \/ MutexLost
==============================================================================
