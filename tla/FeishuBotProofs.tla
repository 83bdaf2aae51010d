--------------------------- MODULE FeishuBotProofs ---------------------------
(* Theorems about FeishuBot, for any events, any size of the ring, any lifetimes *)
(* of tokens and any number of replies, faults and redeliveries.                 *)
EXTENDS FeishuBot, TLAPS

\* What the proofs need of the constants.
LEMMA Sizes ==
    /\ NoEvent \notin Events /\ DEDUP_SIZE \in Nat /\ DEDUP_SIZE > 0
    /\ HTTP_TIMEOUT \in Nat /\ MARGIN \in Nat /\ MARGIN > 2 * HTTP_TIMEOUT
BY FeishuAssumption

------------------------------------------------------------------------------
\* Types of what the deduplication uses; the thread has an event in hand while it
\* handles one.
DedupTypes ==
    /\ s_dedup_ring \in [Slots -> Events \cup {NoEvent}] /\ s_dedup_idx \in Slots
    /\ since \in [Events -> 0 .. DEDUP_SIZE]
    /\ allowed \in [Events -> Nat] /\ pushes \in [Events -> Nat]
    /\ wire \in Seq(Events)
    /\ wpc \in {"dedup", "push", "ack"} => cur \in Events

LEMMA InitDedupTypes == Init => DedupTypes
BY Sizes DEF Init, DedupTypes, Slots

LEMMA NextSlot ==
    ASSUME NEW i \in Slots
    PROVE  (i + 1) % DEDUP_SIZE = IF i + 1 = DEDUP_SIZE THEN 0 ELSE i + 1
<1>1. CASE i + 1 = DEDUP_SIZE
  BY <1>1, Sizes DEF Slots
<1>2. CASE i + 1 # DEDUP_SIZE
  BY <1>2, Sizes DEF Slots
<1>3. QED
  BY <1>1, <1>2

LEMMA NextDedupTypes == DedupTypes /\ [Next]_vars => DedupTypes'
<1> SUFFICES ASSUME DedupTypes, [Next]_vars PROVE DedupTypes'
  OBVIOUS
<1> USE DEF DedupTypes, wsVars, ringVars, handled
<1>1. CASE Start \/ Stop \/ Joined \/ SendReply \/ Posted \/ Post \/ Tick
  BY <1>1 DEF Start, Stop, Joined, SendReply, Posted, Post, Tick
<1>2. ASSUME NEW t \in Threads, Refresh(t) PROVE DedupTypes'
  BY <1>2 DEF Refresh, Grant, WriteToken, WriteExpiry, RefreshFails, GoTo, After
<1>3. CASE Top \/ Connect \/ Slept \/ CheckDue \/ ReceiveTimeout
  BY <1>3 DEF Top, Connect, Slept, CheckDue, ReceiveTimeout
<1>10. CASE Disconnect \/ ConnectionLost
  <2>1. wire' = <<>> /\ <<>> \in Seq(Events)
    BY <1>10 DEF Disconnect, ConnectionLost
  <2>2. QED
    BY <1>10, <2>1 DEF Disconnect, ConnectionLost
<1>4. CASE Receive
  BY <1>4 DEF Receive
<1>5. CASE Duplicate \/ Push \/ Ack
  <2>1. pushes' \in [Events -> Nat]
    BY <1>5 DEF Duplicate, Push, Ack
  <2>2. QED
    BY <1>5, <2>1 DEF Duplicate, Push, Ack
<1>6. CASE New
  <2>1. s_dedup_idx' \in Slots
    BY <1>6, NextSlot, Sizes DEF New, Remember, Slots
  <2>2. s_dedup_ring' \in [Slots -> Events \cup {NoEvent}]
    BY <1>6 DEF New, Remember
  <2>3. CASE cur \in Unnamed
    BY <1>6, <2>3 DEF New, Remember
  <2>4. CASE cur \notin Unnamed
    <3> DEFINE Later(f) == IF f = cur THEN 0
                           ELSE IF since[f] < DEDUP_SIZE THEN since[f] + 1 ELSE since[f]
    <3>1. \A f \in Events : Later(f) \in 0 .. DEDUP_SIZE
      BY Sizes
    <3>5. since' = [f \in Events |-> Later(f)]
      BY <1>6, <2>4 DEF New, Remember
    <3> HIDE DEF Later
    <3>2. since' \in [Events -> 0 .. DEDUP_SIZE]
      BY <3>1, <3>5
    <3>3. allowed[cur] + 1 \in Nat
      BY <1>6 DEF New
    <3>4. allowed' \in [Events -> Nat]
      BY <1>6, <2>4, <3>3 DEF New, Remember
    <3>6. QED
      BY <1>6, <2>1, <2>2, <3>2, <3>4 DEF New
  <2>5. QED
    BY <2>3, <2>4
<1>7. ASSUME NEW e \in Events, Server(e) PROVE DedupTypes'
  <2>1. CASE Happens(e) \/ Acked(e)
    BY <2>1 DEF Happens, Acked
  <2>2. CASE Deliver(e)
    <3>1. Append(wire, e) \in Seq(Events)
      OBVIOUS
    <3>2. QED
      BY <2>2, <3>1 DEF Deliver
  <2>3. QED
    BY <1>7, <2>1, <2>2 DEF Server
<1>8. CASE UNCHANGED vars
  BY <1>8 DEF vars
<1>9. QED
  BY <1>1, <1>2, <1>3, <1>4, <1>5, <1>6, <1>7, <1>8, <1>10 DEF Next, WsThread, Main, Threads

------------------------------------------------------------------------------
\* The slot written k ids ago.  An event fewer than DEDUP_SIZE ids ago is still there;
\* what was let through and is not pushed yet is counted with what was pushed.
Back(k) == IF k < s_dedup_idx THEN s_dedup_idx - 1 - k
           ELSE s_dedup_idx - 1 - k + DEDUP_SIZE

Pushing(e) == IF wpc = "push" /\ cur = e THEN 1 ELSE 0

RingInv == \A e \in Events \ Unnamed :
              since[e] < DEDUP_SIZE => s_dedup_ring[Back(since[e])] = e

CountInv == \A e \in Events \ Unnamed : pushes[e] + Pushing(e) <= allowed[e]

DedupInv == DedupTypes /\ RingInv /\ CountInv

LEMMA InitDedupInv == Init => DedupInv
BY InitDedupTypes, Sizes DEF Init, DedupInv, RingInv, CountInv, Pushing

LEMMA BackIsSlot ==
    ASSUME DedupTypes, NEW k \in 0 .. DEDUP_SIZE - 1 PROVE Back(k) \in Slots
BY Sizes DEF DedupTypes, Back, Slots

\* One id later, what was k ids ago is k + 1 ago, in the same slot, which is not the one
\* just written.
LEMMA BackMoves ==
    ASSUME DedupTypes, NEW k \in 0 .. DEDUP_SIZE - 2,
           s_dedup_idx' = (s_dedup_idx + 1) % DEDUP_SIZE
    PROVE  Back(k + 1)' = Back(k) /\ Back(k) # s_dedup_idx /\ Back(k) \in Slots
<1>1. s_dedup_idx' = IF s_dedup_idx + 1 = DEDUP_SIZE THEN 0 ELSE s_dedup_idx + 1
  BY NextSlot DEF DedupTypes
<1>2. QED
  BY <1>1, Sizes DEF DedupTypes, Back, Slots

LEMMA BackBegins ==
    ASSUME DedupTypes, s_dedup_idx' = (s_dedup_idx + 1) % DEDUP_SIZE
    PROVE  Back(0)' = s_dedup_idx
<1>1. s_dedup_idx' = IF s_dedup_idx + 1 = DEDUP_SIZE THEN 0 ELSE s_dedup_idx + 1
  BY NextSlot DEF DedupTypes
<1>2. QED
  BY <1>1, Sizes DEF DedupTypes, Back, Slots

\* An event the ring does not know came at least DEDUP_SIZE ids ago.
LEMMA UnseenIsOld ==
    ASSUME DedupInv, NEW e \in Events \ Unnamed, ~Seen(e)
    PROVE  since[e] = DEDUP_SIZE
<1>1. since[e] \in 0 .. DEDUP_SIZE
  BY DEF DedupInv, DedupTypes
<1>2. CASE since[e] < DEDUP_SIZE
  <2>1. s_dedup_ring[Back(since[e])] = e
    BY <1>2 DEF DedupInv, RingInv
  <2>2. Back(since[e]) \in Slots
    BY <1>1, <1>2, BackIsSlot, Sizes DEF DedupInv
  <2>3. QED
    BY <2>1, <2>2 DEF Seen
<1>3. QED
  BY <1>1, <1>2, Sizes

LEMMA NewKeepsRing == DedupInv /\ New => RingInv'
<1> SUFFICES ASSUME DedupInv, New, NEW e \in Events \ Unnamed, since'[e] < DEDUP_SIZE
             PROVE  s_dedup_ring'[Back(since[e])'] = e
  BY DEF RingInv
<1> USE DEF DedupInv
<1>1. CASE cur \in Unnamed
  BY <1>1 DEF New, Remember, ringVars, RingInv, Back
<1>2. CASE cur \notin Unnamed
  <2>1. /\ s_dedup_idx' = (s_dedup_idx + 1) % DEDUP_SIZE
        /\ s_dedup_ring' = [s_dedup_ring EXCEPT ![s_dedup_idx] = cur]
        /\ since'[e] = IF e = cur THEN 0
                       ELSE IF since[e] < DEDUP_SIZE THEN since[e] + 1 ELSE since[e]
    BY <1>2 DEF New, Remember
  <2>2. CASE e = cur
    <3>1. Back(0)' = s_dedup_idx
      BY <2>1, BackBegins
    <3>2. Back(since[e])' = Back(0)'
      BY <2>1, <2>2 DEF Back
    <3>3. QED
      BY <2>1, <2>2, <3>1, <3>2 DEF DedupTypes
  <2>3. CASE e # cur
    <3>1. PICK k \in 0 .. DEDUP_SIZE - 2 : since[e] = k /\ since'[e] = k + 1
      BY <2>1, <2>3, Sizes DEF DedupTypes
    <3>2. Back(k + 1)' = Back(k) /\ Back(k) # s_dedup_idx /\ Back(k) \in Slots
      BY <2>1, BackMoves
    <3>3. s_dedup_ring[Back(k)] = e
      BY <3>1, Sizes DEF RingInv
    <3>4. Back(since[e])' = Back(k + 1)'
      BY <3>1 DEF Back
    <3>5. QED
      BY <2>1, <3>2, <3>3, <3>4 DEF DedupTypes
  <2>4. QED
    BY <2>2, <2>3
<1>3. QED
  BY <1>1, <1>2

LEMMA NextDedupInv == DedupInv /\ [Next]_vars => DedupInv'
<1> SUFFICES ASSUME DedupInv, [Next]_vars PROVE DedupInv'
  OBVIOUS
<1>1. DedupTypes'
  BY NextDedupTypes DEF DedupInv
<1>2. RingInv'
  <2>1. CASE New
    BY <2>1, NewKeepsRing
  <2>2. CASE ~New
    <3>1. UNCHANGED <<s_dedup_ring, s_dedup_idx, since>>
      BY <2>2 DEF Next, WsThread, Main, Server, Refresh, Start, SendReply, Post, Posted,
                  Stop, Joined, Top, Connect, Slept, Receive, ReceiveTimeout, CheckDue,
                  Disconnect, Duplicate, Push, Ack, Happens, Deliver, Acked,
                  ConnectionLost, Tick, Grant, WriteToken, WriteExpiry, RefreshFails,
                  vars, ringVars
    <3>2. QED
      BY <3>1 DEF DedupInv, RingInv, Back
  <2>3. QED
    BY <2>1, <2>2
<1>3. CountInv'
  <2> SUFFICES ASSUME NEW e \in Events \ Unnamed
               PROVE  pushes'[e] + Pushing(e)' <= allowed'[e]
    BY DEF CountInv
  <2>1. pushes[e] + Pushing(e) <= allowed[e] /\ pushes[e] \in Nat /\ allowed[e] \in Nat
    BY DEF DedupInv, CountInv, DedupTypes
  <2>2. CASE New
    <3>1. CASE e = cur
      <4>1. since[e] = DEDUP_SIZE
        BY <2>2, <3>1, UnseenIsOld DEF New
      <4>2. allowed'[e] = allowed[e] + 1
        BY <2>2, <3>1, <4>1, Sizes DEF New, Remember, DedupInv, DedupTypes
      <4>3. Pushing(e) = 0 /\ Pushing(e)' <= 1
        BY <2>2 DEF New, Pushing
      <4>4. QED
        BY <2>1, <2>2, <4>2, <4>3 DEF New, handled, Pushing
    <3>2. CASE e # cur
      <4>1. allowed'[e] = allowed[e]
        BY <2>2, <3>2 DEF New, Remember, DedupInv, DedupTypes, ringVars
      <4>2. Pushing(e)' = 0
        BY <2>2, <3>2 DEF New, Pushing
      <4>3. QED
        BY <2>1, <2>2, <4>1, <4>2 DEF New, handled, Pushing
    <3>3. QED
      BY <3>1, <3>2
  <2>3. CASE Push
    <3>1. allowed' = allowed /\ Pushing(e)' = 0
      BY <2>3 DEF Push, ringVars, Pushing
    <3>2. pushes'[e] <= pushes[e] + Pushing(e)
      BY <2>1, <2>3 DEF Push, Pushing, DedupInv, DedupTypes
    <3>3. pushes'[e] \in Nat
      BY <1>1 DEF DedupTypes
    <3>4. QED
      BY <2>1, <3>1, <3>2, <3>3 DEF Pushing
  <2>4. CASE ~New /\ ~Push
    <3>1. pushes' = pushes /\ allowed' = allowed
      BY <2>4 DEF Next, WsThread, Main, Server, Refresh, Start, SendReply, Post, Posted,
                  Stop, Joined, Top, Connect, Slept, Receive, ReceiveTimeout, CheckDue,
                  Disconnect, Duplicate, Ack, Happens, Deliver, Acked,
                  ConnectionLost, Tick, Grant, WriteToken, WriteExpiry, RefreshFails,
                  vars, ringVars, handled
    <3>2. wpc' = "push" => wpc = "push" /\ cur' = cur
      BY <2>4 DEF Next, WsThread, Main, Server, Refresh, Start, SendReply, Post, Posted,
                  Stop, Joined, Top, Connect, Slept, Receive, ReceiveTimeout, CheckDue,
                  Disconnect, Duplicate, Ack, Happens, Deliver, Acked,
                  ConnectionLost, Tick, Grant, WriteToken, WriteExpiry, RefreshFails,
                  GoTo, After, vars
    <3>3. Pushing(e)' <= Pushing(e)
      BY <3>2 DEF Pushing
    <3>4. QED
      BY <2>1, <3>1, <3>3 DEF Pushing
  <2>5. QED
    BY <2>2, <2>3, <2>4
<1>4. QED
  BY <1>1, <1>2, <1>3 DEF DedupInv

THEOREM FeishuDedupInvariant == Spec => []DedupInv
BY InitDedupInv, NextDedupInv, PTL DEF Spec

\* However often an event is delivered, whatever ACKs and connections are lost, it is on
\* the bus once for every time it came with DEDUP_SIZE other ids in between.
THEOREM FeishuPushedOnce == Spec => []PushedOnce
<1>1. DedupInv => PushedOnce
  <2> SUFFICES ASSUME DedupInv, NEW e \in Events \ Unnamed PROVE pushes[e] <= allowed[e]
    BY DEF PushedOnce
  <2>1. pushes[e] + Pushing(e) <= allowed[e] /\ pushes[e] \in Nat /\ allowed[e] \in Nat
    BY DEF DedupInv, CountInv, DedupTypes
  <2>2. QED
    BY <2>1 DEF Pushing
<1>2. QED
  BY <1>1, FeishuDedupInvariant, PTL

------------------------------------------------------------------------------
\* What has an ACK was handled: so was what the ring remembers, but for the event that
\* is about to be pushed, and so was the event the thread is about to acknowledge.
Handled(e) == pushes[e] > 0 \/ e \in refused

NotStarted == mpc = "init" => wpc = "none"

HandledInv ==
    /\ NotStarted
    /\ \A e \in Text \cap Events : \A i \in Slots :
          s_dedup_ring[i] = e => Handled(e) \/ (wpc = "push" /\ cur = e)
    /\ wpc = "ack" /\ cur \in Text => Handled(cur)
    /\ AckMeansHandled
    /\ acks \subseteq Events

LEMMA InitHandledInv == Init => HandledInv
BY Sizes DEF Init, HandledInv, AckMeansHandled, NotStarted

\* What was handled stays so.
LEMMA HandledStays ==
    ASSUME DedupTypes, [Next]_vars, NEW e \in Events, Handled(e) PROVE Handled(e)'
<1>1. CASE Push
  <2>1. pushes[e] \in Nat /\ pushes[cur] \in Nat
    BY <1>1 DEF DedupTypes, Push
  <2>2. QED
    BY <1>1, <2>1 DEF Push, Handled, DedupTypes
<1>2. CASE ~Push
  <2>1. pushes' = pushes /\ refused' = refused
    BY <1>2 DEF Next, WsThread, Main, Server, Refresh, Start, SendReply, Post, Posted,
                Stop, Joined, Top, Connect, Slept, Receive, ReceiveTimeout, CheckDue,
                Disconnect, Duplicate, New, Ack, Happens, Deliver, Acked,
                ConnectionLost, Tick, Grant, WriteToken, WriteExpiry, RefreshFails,
                vars, handled
  <2>2. QED
    BY <2>1 DEF Handled
<1>3. QED
  BY <1>1, <1>2

LEMMA NextHandledInv == DedupTypes /\ HandledInv /\ [Next]_vars => HandledInv'
<1> SUFFICES ASSUME DedupTypes, HandledInv, [Next]_vars PROVE HandledInv'
  OBVIOUS
<1>1. \A e \in Events : Handled(e) => Handled(e)'
  BY HandledStays
<1>2. CASE Push
  <2>1. cur \in Events /\ pushes[cur] \in Nat
    BY <1>2 DEF Push, DedupTypes
  <2>2. Handled(cur)'
    BY <1>2, <2>1 DEF Push, Handled, DedupTypes
  <2>3. UNCHANGED <<mpc, s_dedup_ring, acks, cur>> /\ wpc = "push" /\ wpc' = "ack"
    BY <1>2 DEF Push, ringVars, wsVars
  <2>4. QED
    BY <1>1, <2>2, <2>3 DEF HandledInv, AckMeansHandled, Handled, NotStarted
<1>3. CASE New
  <2>1. /\ cur \in Events /\ UNCHANGED <<mpc, acks, pushes, refused, cur>> /\ wpc = "dedup"
        /\ wpc' = IF cur \in Text THEN "push" ELSE "ack"
    BY <1>3 DEF New, DedupTypes, wsVars, handled
  <2>2. \A i \in Slots : s_dedup_ring'[i] \in {s_dedup_ring[i], cur}
    BY <1>3 DEF New, Remember, DedupTypes, ringVars
  <2>3. QED
    BY <2>1, <2>2 DEF HandledInv, AckMeansHandled, Handled, NotStarted
<1>4. CASE Duplicate
  <2>1. /\ wpc = "dedup" /\ wpc' = "ack" /\ cur \in Events
        /\ UNCHANGED <<mpc, acks, pushes, refused, cur, s_dedup_ring>>
    BY <1>4 DEF Duplicate, DedupTypes, wsVars, handled, ringVars
  <2>2. \E i \in Slots : s_dedup_ring[i] = cur
    BY <1>4 DEF Duplicate, Seen
  <2>3. QED
    BY <2>1, <2>2 DEF HandledInv, AckMeansHandled, Handled, NotStarted
<1>5. CASE Ack
  <2>1. /\ wpc = "ack" /\ cur \in Events /\ wpc' = "due" /\ acks' \subseteq acks \cup {cur}
        /\ UNCHANGED <<mpc, pushes, refused, s_dedup_ring>>
    BY <1>5 DEF Ack, DedupTypes, handled, ringVars
  <2>2. QED
    BY <2>1 DEF HandledInv, AckMeansHandled, Handled, NotStarted
<1>6. CASE ~Push /\ ~New /\ ~Duplicate /\ ~Ack
  <2>1. /\ UNCHANGED <<s_dedup_ring, pushes, refused>> /\ acks' \subseteq acks
        /\ mpc' = "init" => mpc = "init" /\ wpc' = wpc
        /\ wpc \in {"push", "ack"} => wpc' = wpc /\ cur' = cur
        /\ wpc' \in {"push", "ack"} => wpc' = wpc /\ cur' = cur
    BY <1>6 DEF HandledInv, NotStarted,
                Next, WsThread, Main, Server, Refresh, Start, SendReply, Post, Posted,
                Stop, Joined, Top, Connect, Slept, Receive, ReceiveTimeout, CheckDue,
                Disconnect, Happens, Deliver, Acked, ConnectionLost, Tick, Grant,
                WriteToken, WriteExpiry, RefreshFails, At, GoTo, After, vars, handled,
                ringVars, wsVars
  <2>2. QED
    BY <2>1 DEF HandledInv, AckMeansHandled, Handled, NotStarted
<1>7. QED
  BY <1>2, <1>3, <1>4, <1>5, <1>6

\* For any events, faults and connections: no text is acknowledged that was neither put
\* on the bus nor refused by it.
THEOREM FeishuAckMeansHandled == Spec => []AckMeansHandled
<1>1. HandledInv => AckMeansHandled
  BY DEF HandledInv
<1>2. DedupInv => DedupTypes
  BY DEF DedupInv
<1>3. QED
  BY <1>1, <1>2, InitHandledInv, NextHandledInv, FeishuDedupInvariant, PTL DEF Spec

------------------------------------------------------------------------------
\* Time.  Requests end within HTTP_TIMEOUT and a token is granted for more than twice
\* that; the end is written MARGIN early, which is more than that, too.
LeftOK ==
    /\ left \in [events : SUBSET Events, sends : Nat, faults : Nat, expire : SUBSET Nat,
                 clock : BOOLEAN]
    /\ \A n \in left.expire : n > 2 * HTTP_TIMEOUT

TokenTypes ==
    /\ LeftOK /\ life \in Nat /\ due \in Nat
    /\ req \in [Threads -> [age : Nat, life : Nat, exp : Nat]]

\* What a request has been granted is as good as its age allows.
Asked(t) == At(t) = "ask" =>
    /\ req[t].age <= HTTP_TIMEOUT
    /\ req[t].exp > 0 => /\ req[t].exp > 2 * HTTP_TIMEOUT
                         /\ req[t].life + req[t].age >= req[t].exp

\* The token one thread alone has written, whose end is not written yet.
Written(t) == At(t) = "expire" =>
    /\ req[t].exp > 2 * HTTP_TIMEOUT
    /\ ~mixed => life + HTTP_TIMEOUT >= req[t].exp

\* With nobody between the two writes the token outlives its end by the margin.
Ended == ~mixed /\ (\A t \in Threads : At(t) # "expire") =>
             (due > 0 => life + HTTP_TIMEOUT >= due + MARGIN)

Sending ==
    /\ mpc = "send" /\ trusted /\ ~mixed => life > HTTP_TIMEOUT
    /\ mpc = "posting" => req["main"].age <= HTTP_TIMEOUT
    /\ mpc = "posting" /\ trusted =>
          req["main"].life + req["main"].age > HTTP_TIMEOUT

TokenInv ==
    /\ TokenTypes /\ NotStarted /\ Ended /\ Sending
    /\ \A t \in Threads : Asked(t) /\ Written(t)

LEMMA InitTokenInv == Init => TokenInv
<1> SUFFICES ASSUME Init PROVE TokenInv
  OBVIOUS
<1>1. LeftOK
  BY FeishuAssumption DEF Init, LeftOK
<1>2. req \in [Threads -> [age : Nat, life : Nat, exp : Nat]]
  BY DEF Init, NoRequest
<1>3. QED
  BY <1>1, <1>2 DEF Init, TokenInv, TokenTypes, NotStarted, Asked, Written, Ended, Sending,
                    At, Threads

LEMMA NextLeftOK == LeftOK /\ [Next]_vars => LeftOK'
<1> SUFFICES ASSUME LeftOK, [Next]_vars PROVE LeftOK'
  OBVIOUS
<1>1. UNCHANGED left \/ Fault \/ SendReply \/ \E e \in Events : Happens(e)
  BY DEF Next, WsThread, Main, Server, Refresh, Start, Post, Posted, Stop, Joined, Top,
         Connect, Slept, Receive, ReceiveTimeout, CheckDue, Disconnect, Duplicate, New,
         Push, Ack, Deliver, Acked, ConnectionLost, Tick, Grant, WriteToken, WriteExpiry,
         RefreshFails, vars, NoFault
<1>2. CASE UNCHANGED left
  BY <1>2 DEF LeftOK
<1>3. CASE Fault
  BY <1>3 DEF LeftOK, Fault
<1>4. CASE SendReply
  BY <1>4 DEF LeftOK, SendReply
<1>5. CASE \E e \in Events : Happens(e)
  BY <1>5 DEF LeftOK, Happens
<1>6. QED
  BY <1>1, <1>2, <1>3, <1>4, <1>5

\* The steps that have nothing to do with tokens.
Quiet ==
    /\ UNCHANGED <<tokenVars, req, trusted>>
    /\ mpc' # mpc => mpc' \in {"idle", "join", "end"} /\ mpc # "expire"
    /\ wpc' \in {"ask", "expire"} => wpc' = wpc
    /\ wpc = "expire" => wpc' = wpc
    /\ NotStarted'

LEMMA QuietKeepsToken == TokenInv /\ LeftOK' /\ Quiet => TokenInv'
BY DEF TokenInv, TokenTypes, Quiet, Asked, Written, Ended, Sending, At, tokenVars, Threads

LEMMA NextTokenInv == TokenInv /\ [Next]_vars => TokenInv'
<1> SUFFICES ASSUME TokenInv, [Next]_vars PROVE TokenInv'
  OBVIOUS
<1>0. LeftOK'
  BY NextLeftOK DEF TokenInv, TokenTypes
<1>q. NotStarted
  BY DEF TokenInv
<1>1. CASE Quiet
  BY <1>1, <1>0, QuietKeepsToken
<1>2. Start \/ Stop \/ Joined => Quiet
  BY <1>q DEF Quiet, NotStarted, Start, Stop, Joined
<1>3. Connect \/ Slept \/ Disconnect \/ ReceiveTimeout \/ Receive => Quiet
  BY <1>q DEF Quiet, NotStarted, Connect, Slept, Disconnect, ReceiveTimeout, Receive
<1>4. Duplicate \/ New \/ Push \/ Ack => Quiet
  BY <1>q DEF Quiet, NotStarted, Duplicate, New, Push, Ack
<1>5. ConnectionLost \/ (\E e \in Events : Server(e)) \/ UNCHANGED vars => Quiet
  BY <1>q DEF Quiet, NotStarted, Server, Happens, Deliver, Acked, ConnectionLost, vars,
              tokenVars
<1> USE Sizes DEF TokenInv, TokenTypes, NotStarted, Asked, Written, Ended, Sending, At,
                  Threads, tokenVars, Ask, NoRequest
<1>6. CASE Top \/ CheckDue
  BY <1>6, <1>0 DEF Top, CheckDue
<1>7. CASE SendReply
  BY <1>7, <1>0 DEF SendReply
<1>8. CASE Post
  <2>1. CASE has
    <3>1. req' = [req EXCEPT !["main"] = [age |-> 0, life |-> life, exp |-> 0]]
      BY <1>8, <2>1 DEF Post
    <3>2. req' \in [Threads -> [age : Nat, life : Nat, exp : Nat]]
      BY <3>1
    <3>3. /\ req'["main"].life = life /\ req'["main"].age = 0
          /\ req'["ws"] = req["ws"]
      BY <3>1
    <3>4. /\ mpc = "send" /\ mpc' = "posting" /\ (trusted' => trusted /\ ~mixed)
          /\ UNCHANGED <<wpc, has, life, mixed, due>>
      BY <1>8, <2>1 DEF Post
    <3>5. Ended' /\ NotStarted'
      BY <3>4
    <3>6. Sending'
      BY <3>2, <3>3, <3>4
    <3>7. \A t \in Threads : Asked(t)' /\ Written(t)'
      BY <3>2, <3>3, <3>4
    <3>8. QED
      BY <1>0, <3>2, <3>4, <3>5, <3>6, <3>7
  <2>2. CASE ~has
    BY <1>8, <1>0, <2>2 DEF Post
  <2>3. QED
    BY <2>1, <2>2
<1>9. CASE Posted
  BY <1>9, <1>0 DEF Posted
<1>10. ASSUME NEW t \in Threads, Grant(t) PROVE TokenInv'
  BY <1>10, <1>0 DEF Grant, LeftOK
<1>11. ASSUME NEW t \in Threads, WriteToken(t) PROVE TokenInv'
  BY <1>11, <1>0 DEF WriteToken, GoTo
<1>12. ASSUME NEW t \in Threads, WriteExpiry(t) PROVE TokenInv'
  BY <1>12, <1>0 DEF WriteExpiry, GoTo, After
<1>13. ASSUME NEW t \in Threads, RefreshFails(t) PROVE TokenInv'
  <2>1. CASE t = "ws"
    BY <1>13, <1>0, <2>1 DEF RefreshFails, GoTo, After
  <2>2. CASE t = "main"
    BY <1>13, <1>0, <2>2 DEF RefreshFails, GoTo, After
  <2>3. QED
    BY <2>1, <2>2
<1>14. CASE Tick
  <2>1. /\ \A t \in Threads : At(t) # "expire"
        /\ mpc # "send" /\ mpc' = mpc /\ wpc' = wpc /\ trusted' = trusted
        /\ mixed' = mixed
    BY <1>14 DEF Tick, Waiting
  <2>2. /\ life' = IF life > 0 THEN life - 1 ELSE 0
        /\ due' = IF due > 0 THEN due - 1 ELSE 0
    BY <1>14 DEF Tick, Less
  <2>3. ASSUME NEW t \in Threads
        PROVE  /\ req'[t] \in [age : Nat, life : Nat, exp : Nat]
               /\ At(t) \in {"ask", "posting"} =>
                     /\ req[t].age < HTTP_TIMEOUT
                     /\ req'[t].age = req[t].age + 1 /\ req'[t].exp = req[t].exp
                     /\ req'[t].life + 1 >= req[t].life
    <3>1. PICK r \in [age : Nat, life : Nat, exp : Nat] : req[t] = r
      OBVIOUS
    <3>2. CASE At(t) \in {"ask", "posting"}
      <4>1. /\ r.age < HTTP_TIMEOUT
            /\ req'[t] = [r EXCEPT !.age = @ + 1, !.life = Less(@)]
        BY <1>14, <3>1, <3>2 DEF Tick
      <4>2. req'[t] = [age |-> r.age + 1, life |-> Less(r.life), exp |-> r.exp]
        BY <4>1
      <4>3. QED
        BY <3>1, <4>1, <4>2 DEF Less
    <3>3. CASE At(t) \notin {"ask", "posting"}
      BY <1>14, <3>1, <3>3 DEF Tick
    <3>4. QED
      BY <3>2, <3>3
  <2>4. req' \in [Threads -> [age : Nat, life : Nat, exp : Nat]]
    <3> DEFINE Older(t) == IF At(t) \in {"ask", "posting"}
                           THEN [req[t] EXCEPT !.age = @ + 1, !.life = Less(@)]
                           ELSE req[t]
    <3>1. req' = [t \in Threads |-> Older(t)]
      BY <1>14 DEF Tick
    <3>2. \A t \in Threads : req'[t] = Older(t)
      BY <3>1
    <3> HIDE DEF Older
    <3>3. QED
      BY <2>3, <3>1, <3>2
  <2>5. Ended'
    BY <2>1, <2>2
  <2>6. Sending'
    BY <2>1, <2>3, <2>4
  <2>7. \A t \in Threads : Asked(t)' /\ Written(t)'
    BY <2>1, <2>3, <2>4
  <2>8. QED
    BY <1>0, <2>1, <2>2, <2>4, <2>5, <2>6, <2>7
<1>15. \A t \in Threads : Refresh(t) => TokenInv'
  BY <1>10, <1>11, <1>12, <1>13 DEF Refresh
<1> HIDE DEF TokenInv
<1>16. QED
  BY <1>1, <1>2, <1>3, <1>4, <1>5, <1>6, <1>7, <1>8, <1>9, <1>14, <1>15
  DEF Next, WsThread, Main

\* For any lifetimes and margins, with either thread refreshing at any time: a token that
\* nobody else was writing and that was kept up is good when the server looks at it.
THEOREM FeishuSentFresh == Spec => []SentFresh
<1>1. TokenInv => SentFresh
  <2> SUFFICES ASSUME TokenInv, mpc = "posting", trusted PROVE req["main"].life > 0
    BY DEF SentFresh
  <2>1. req["main"].age \in Nat /\ req["main"].life \in Nat
    BY DEF TokenInv, TokenTypes, Threads
  <2>2. QED
    BY <2>1, Sizes DEF TokenInv, Sending
<1>2. QED
  BY <1>1, InitTokenInv, NextTokenInv, PTL DEF Spec

------------------------------------------------------------------------------
\* The rest of the types: where the threads and the connection are, the flags, and
\* what the server and the thread hold.
PlacesOK ==
    /\ wpc \in {"none", "top", "ask", "expire", "config", "sleep", "recv", "dedup",
                "push", "ack", "due", "done"}
    /\ mpc \in {"init", "idle", "ask", "expire", "send", "posting", "join", "end"}
    /\ ws \in {"none", "up", "down"}

FlagsOK ==
    /\ s_running \in BOOLEAN /\ trusted \in BOOLEAN
    /\ has \in BOOLEAN /\ mixed \in BOOLEAN

HeldOK ==
    /\ acks \subseteq Events /\ unacked \subseteq Events /\ refused \subseteq Events
    /\ cur \in Events \cup {NoEvent}

LEMMA NextPlaces == PlacesOK /\ [Next]_vars => PlacesOK'
<1> SUFFICES ASSUME PlacesOK, [Next]_vars PROVE PlacesOK'
  OBVIOUS
<1> USE DEF PlacesOK, wsVars, GoTo, After, At
<1>1. CASE Start \/ Stop \/ Joined \/ SendReply \/ Post \/ Posted
  BY <1>1 DEF Start, Stop, Joined, SendReply, Post, Posted
<1>2. CASE Top \/ Connect \/ Slept \/ Receive \/ ReceiveTimeout \/ CheckDue
  BY <1>2 DEF Top, Connect, Slept, Receive, ReceiveTimeout, CheckDue
<1>3. CASE Disconnect \/ Duplicate \/ New \/ Push \/ Ack
  BY <1>3 DEF Disconnect, Duplicate, New, Push, Ack
<1>4. ASSUME NEW t \in Threads, Refresh(t) PROVE PlacesOK'
  <2>1. CASE t = "ws"
    BY <1>4, <2>1 DEF Refresh, Grant, WriteToken, WriteExpiry, RefreshFails
  <2>2. CASE t = "main"
    BY <1>4, <2>2 DEF Refresh, Grant, WriteToken, WriteExpiry, RefreshFails
  <2>3. QED
    BY <2>1, <2>2 DEF Threads
<1>5. ASSUME NEW e \in Events, Server(e) PROVE PlacesOK'
  BY <1>5 DEF Server, Happens, Deliver, Acked
<1>6. CASE ConnectionLost \/ Tick
  BY <1>6 DEF ConnectionLost, Tick
<1>7. CASE UNCHANGED vars
  BY <1>7 DEF vars
<1>8. QED
  BY <1>1, <1>2, <1>3, <1>4, <1>5, <1>6, <1>7 DEF Next, WsThread, Main, Threads

LEMMA NextFlags == FlagsOK /\ [Next]_vars => FlagsOK'
<1> SUFFICES ASSUME FlagsOK, [Next]_vars PROVE FlagsOK'
  OBVIOUS
<1> USE DEF FlagsOK, tokenVars
<1>1. CASE Start \/ Stop \/ Joined
  BY <1>1 DEF Start, Stop, Joined
<1>2. CASE SendReply \/ Post \/ Posted
  BY <1>2 DEF SendReply, Post, Posted
<1>3. CASE Top \/ Connect \/ Slept \/ Receive \/ ReceiveTimeout \/ CheckDue
  BY <1>3 DEF Top, Connect, Slept, Receive, ReceiveTimeout, CheckDue
<1>4. CASE Disconnect \/ Duplicate \/ New \/ Push \/ Ack
  BY <1>4 DEF Disconnect, Duplicate, New, Push, Ack
<1>5. ASSUME NEW t \in Threads, Grant(t) \/ WriteExpiry(t) PROVE FlagsOK'
  BY <1>5 DEF Grant, WriteExpiry
<1>6. ASSUME NEW t \in Threads, WriteToken(t) PROVE FlagsOK'
  BY <1>6 DEF WriteToken
<1>7. ASSUME NEW t \in Threads, RefreshFails(t) PROVE FlagsOK'
  BY <1>7 DEF RefreshFails
<1>8. ASSUME NEW e \in Events, Server(e) PROVE FlagsOK'
  BY <1>8 DEF Server, Happens, Deliver, Acked
<1>9. CASE ConnectionLost \/ Tick
  BY <1>9 DEF ConnectionLost, Tick
<1>10. CASE UNCHANGED vars
  BY <1>10 DEF vars
<1>11. QED
  BY <1>1, <1>2, <1>3, <1>4, <1>5, <1>6, <1>7, <1>8, <1>9, <1>10
  DEF Next, WsThread, Main, Refresh, Threads

LEMMA NextHeld == DedupTypes /\ LeftOK /\ HeldOK /\ [Next]_vars => HeldOK'
<1> SUFFICES ASSUME DedupTypes, LeftOK, HeldOK, [Next]_vars PROVE HeldOK'
  OBVIOUS
<1> USE DEF HeldOK, wsVars, handled
<1>1. CASE Start \/ Stop \/ Joined \/ SendReply \/ Post \/ Posted
  BY <1>1 DEF Start, Stop, Joined, SendReply, Post, Posted
<1>2. CASE Top \/ Connect \/ Slept \/ ReceiveTimeout \/ CheckDue \/ Disconnect
  BY <1>2 DEF Top, Connect, Slept, ReceiveTimeout, CheckDue, Disconnect
<1>3. CASE Receive
  <2>1. Head(wire) \in Events
    BY <1>3 DEF Receive, DedupTypes
  <2>2. QED
    BY <1>3, <2>1 DEF Receive
<1>4. CASE Duplicate \/ New \/ Push \/ Ack
  BY <1>4 DEF Duplicate, New, Push, Ack, DedupTypes
<1>5. ASSUME NEW t \in Threads, Refresh(t) PROVE HeldOK'
  BY <1>5 DEF Refresh, Grant, WriteToken, WriteExpiry, RefreshFails
<1>6. ASSUME NEW e \in Events, Server(e) PROVE HeldOK'
  BY <1>6 DEF Server, Happens, Deliver, Acked, LeftOK
<1>7. CASE ConnectionLost \/ Tick
  BY <1>7 DEF ConnectionLost, Tick
<1>8. CASE UNCHANGED vars
  BY <1>8 DEF vars
<1>9. QED
  BY <1>1, <1>2, <1>3, <1>4, <1>5, <1>6, <1>7, <1>8 DEF Next, WsThread, Main, Threads

\* For any events and any number of deliveries: the types, among them that the index of
\* the ring of ids never leaves its slots (dedup_check, feishu_bot.c:68-78).
THEOREM FeishuTypeCorrect == Spec => []TypeOK
<1>1. Init => PlacesOK /\ HeldOK
  BY DEF Init, PlacesOK, HeldOK
<1>2. Init => FlagsOK
  BY DEF Init, FlagsOK
<1>3. TokenInv => LeftOK
  BY DEF TokenInv, TokenTypes
<1>4. DedupInv => DedupTypes
  BY DEF DedupInv
<1>5. DedupTypes /\ TokenInv /\ PlacesOK /\ FlagsOK /\ HeldOK => TypeOK
  BY DEF DedupTypes, TokenInv, TokenTypes, PlacesOK, FlagsOK, HeldOK, TypeOK
<1>6. QED
  BY <1>1, <1>2, <1>3, <1>4, <1>5, InitTokenInv, NextTokenInv, NextPlaces, NextFlags,
     NextHeld, FeishuDedupInvariant, PTL DEF Spec
==============================================================================
