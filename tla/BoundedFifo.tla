----------------------------- MODULE BoundedFifo -----------------------------
(***************************************************************************)
(* What one direction of the T113Claw message bus promises its users: a    *)
(* bounded first-in first-out queue of heap-allocated messages.  A thread  *)
(* that calls push has the message in its hand until the queue accepts it  *)
(* or the push is refused; a thread that pops has it in its hand until it  *)
(* frees it.  How threads block, time out and are woken is not visible     *)
(* here; MessageBus describes it and is shown to implement this module.    *)
(***************************************************************************)
EXTENDS Naturals, Sequences

CONSTANTS Producers,  \* threads that push
          Consumers,  \* threads that pop
          Msg,        \* the messages
          NoMsg,      \* an empty hand
          Capacity    \* T113CLAW_BUS_QUEUE_LEN

VARIABLES queue,  \* the accepted, undelivered messages, oldest first
          hand    \* the message each thread is responsible for, or NoMsg

fifoVars == <<queue, hand>>

FifoInit ==
    /\ queue = <<>>
    /\ hand = [t \in Producers \cup Consumers |-> NoMsg]

\* A producer calls push with a message of its own.
Offer(p) ==
    /\ hand[p] = NoMsg
    /\ \E m \in Msg : hand' = [hand EXCEPT ![p] = m]
    /\ UNCHANGED queue

\* The queue takes the message over.
Accept(p) ==
    /\ hand[p] # NoMsg
    /\ Len(queue) < Capacity
    /\ queue' = Append(queue, hand[p])
    /\ hand' = [hand EXCEPT ![p] = NoMsg]

\* The push is refused and the message goes no further.
Refuse(p) ==
    /\ hand[p] # NoMsg
    /\ hand' = [hand EXCEPT ![p] = NoMsg]
    /\ UNCHANGED queue

\* A consumer receives the oldest message.
Deliver(c) ==
    /\ hand[c] = NoMsg
    /\ queue # <<>>
    /\ hand' = [hand EXCEPT ![c] = Head(queue)]
    /\ queue' = Tail(queue)

\* A consumer is done with its message and frees it.
Dispose(c) ==
    /\ hand[c] # NoMsg
    /\ hand' = [hand EXCEPT ![c] = NoMsg]
    /\ UNCHANGED queue

\* The bus is destroyed with everything that is still in it.
Discard ==
    /\ queue' = <<>>
    /\ UNCHANGED hand

FifoNext ==
    \/ \E p \in Producers : Offer(p) \/ Accept(p) \/ Refuse(p)
    \/ \E c \in Consumers : Deliver(c) \/ Dispose(c)
    \/ Discard

FifoSpec == FifoInit /\ [][FifoNext]_fifoVars
==============================================================================
