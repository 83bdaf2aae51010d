------------------------------ MODULE FeishuBot ------------------------------
(* The Feishu channel (channels/feishu/feishu_bot.c): a thread that keeps a     *)
(* WebSocket to the server (component/net/ws_client.c), receives events over it *)
(* and acknowledges them, and the main thread, which sends replies with the     *)
(* tenant token that either thread may refresh.  The server delivers an event   *)
(* again until it has seen its ACK.                                             *)
EXTENDS Integers, Sequences, FiniteSets

CONSTANTS
    Events,         \* what may happen in the chats of the bot
    NoEvent,        \* an unused slot of the ring
    Text,           \* the events with a text to answer
    Long,           \* the events whose frame is longer than rx_buf
    Unnamed,        \* the events without a message_id
    DEDUP_SIZE,     \* T113CLAW_FEISHU_DEDUP_SIZE
    HTTP_TIMEOUT,   \* longest a request takes, in ticks (http_client.c: 60 s)
    MARGIN,         \* how long before its end a token is refreshed (300 s)
    PROACTIVE,      \* how long before that the thread refreshes it (600 s)
    Days,           \* workloads: the events, how many replies are sent and faults
                    \* happen, the lifetimes of the tokens, whether time passes
    WireLen,        \* bound: frames under way
    MaxPush         \* bound: an event pushed so often is not delivered again

ASSUME FeishuAssumption ==
    /\ NoEvent \notin Events /\ Unnamed \subseteq Events
    /\ DEDUP_SIZE \in Nat \ {0}
    /\ HTTP_TIMEOUT \in Nat /\ MARGIN \in Nat /\ PROACTIVE \in Nat
    /\ MARGIN > 2 * HTTP_TIMEOUT
    /\ \A d \in Days :
          /\ d \in [events : SUBSET Events, sends : Nat, faults : Nat,
                    expire : SUBSET Nat, clock : BOOLEAN]
          /\ \A n \in d.expire : n > 2 * HTTP_TIMEOUT

VARIABLES
    s_running,
    wpc,            \* WebSocket thread: where it is
    mpc,            \* main thread: where it is
    ws,             \* the connection: none, up, or down and not noticed yet
    wire,           \* frames on their way to the device
    acks,           \* events whose ACK is on its way to the server
    unacked,        \* events the server has to deliver (again)
    cur,            \* the event the thread handles
    s_dedup_ring, s_dedup_idx,
    since,          \* how many ids came after the event's last (history)
    allowed,        \* how often it came when they were DEDUP_SIZE (history)
    pushes,         \* how often it was pushed (history)
    refused,        \* events a full bus refused (history)
    has,            \* s_tenant_token is not empty
    life,           \* how long it is still good for
    mixed,          \* two threads wrote it at the same time
    due,            \* time until s_token_expire_time
    req,            \* request of either thread: [age, life, exp]
    trusted,        \* the token to send was not kept after a failed refresh,
                    \* nor written by two threads at once (history)
    left            \* what the day still brings

wsVars == <<ws, wire, acks, unacked>>
ringVars == <<s_dedup_ring, s_dedup_idx, since, allowed>>
handled == <<pushes, refused>>
tokenVars == <<has, life, mixed, due>>
vars == <<s_running, wpc, mpc, cur, trusted, left, wsVars, ringVars, handled,
          tokenVars, req>>

Threads == {"ws", "main"}
Slots == 0 .. DEDUP_SIZE - 1
NoRequest == [age |-> 0, life |-> 0, exp |-> 0]
Less(n) == IF n > 0 THEN n - 1 ELSE 0
Fault == left.faults > 0 /\ left' = [left EXCEPT !.faults = @ - 1]
NoFault == UNCHANGED left

-------------------------------------------------------------------------------
\* feishu_bot_init.
Init ==
    /\ s_running = FALSE /\ wpc = "none" /\ mpc = "init"
    /\ ws = "none" /\ wire = <<>> /\ acks = {} /\ unacked = {}
    /\ cur = NoEvent
    /\ s_dedup_ring = [i \in Slots |-> NoEvent] /\ s_dedup_idx = 0
    /\ since = [e \in Events |-> DEDUP_SIZE]
    /\ allowed = [e \in Events |-> 0] /\ pushes = [e \in Events |-> 0]
    /\ refused = {}
    /\ has = FALSE /\ life = 0 /\ mixed = FALSE /\ due = 0
    /\ req = [t \in Threads |-> NoRequest] /\ trusted = TRUE
    /\ left \in Days

\* feishu_bot_start: nothing without an app id.
Start ==
    /\ mpc = "init"
    /\ mpc' = "idle"
    /\ \/ s_running' = TRUE /\ wpc' = "top"
       \/ UNCHANGED <<s_running, wpc>>
    /\ UNCHANGED <<cur, trusted, left, wsVars, ringVars, handled, tokenVars, req>>

\* feishu_bot_stop, and the join it waits for.
Stop ==
    /\ mpc = "idle"
    /\ mpc' = IF s_running THEN "join" ELSE "end"
    /\ s_running' = FALSE
    /\ UNCHANGED <<wpc, cur, trusted, left, wsVars, ringVars, handled, tokenVars, req>>
Joined ==
    /\ mpc = "join" /\ wpc = "done"
    /\ mpc' = "end"
    /\ UNCHANGED <<s_running, wpc, cur, trusted, left, wsVars, ringVars, handled,
                   tokenVars, req>>

-------------------------------------------------------------------------------
\* refresh_token, by either thread.  The server gives a token, at some time within
\* the request; the answer is parsed, the token written and then its end.
At(t) == IF t = "ws" THEN wpc ELSE mpc
GoTo(t, pc) ==
    IF t = "ws" THEN wpc' = pc /\ UNCHANGED mpc ELSE mpc' = pc /\ UNCHANGED wpc

Ask(t) == req' = [req EXCEPT ![t] = NoRequest]

Grant(t) ==
    /\ At(t) = "ask" /\ req[t].exp = 0
    /\ \E n \in left.expire : req' = [req EXCEPT ![t].life = n, ![t].exp = n]
    /\ UNCHANGED <<s_running, wpc, mpc, cur, trusted, left, wsVars, ringVars, handled,
                   tokenVars>>

\* The first refresh of a connection is followed by pull_ws_config, a later one by
\* the event loop, the main thread's by the request it is for.
After(t) == IF t = "main" THEN "send" ELSE IF ws = "none" THEN "config" ELSE "recv"

WriteToken(t) ==
    /\ At(t) = "ask" /\ req[t].exp > 0
    /\ has' = TRUE /\ life' = req[t].life
    /\ mixed' = \E u \in Threads \ {t} : At(u) = "expire"
    /\ GoTo(t, "expire")
    /\ UNCHANGED <<s_running, cur, trusted, left, wsVars, ringVars, handled, due, req>>

ExpiresAtEnd(t) ==
    /\ At(t) = "expire"
    /\ due' = req[t].exp
    /\ GoTo(t, After(t))
    /\ Ask(t)
    /\ UNCHANGED <<s_running, cur, trusted, left, wsVars, ringVars, handled, has, life,
                   mixed>>
WriteExpiry(t) ==
    /\ At(t) = "expire"
    /\ due' = IF req[t].exp > MARGIN THEN req[t].exp - MARGIN ELSE 0
    /\ GoTo(t, After(t))
    /\ Ask(t)
    /\ UNCHANGED <<s_running, cur, trusted, left, wsVars, ringVars, handled, has, life,
                   mixed>>

\* No answer, or one that is an error.  The thread sleeps and starts over, unless it
\* has a connection; the main thread uses the token it has.
RefreshFails(t) ==
    /\ At(t) = "ask" /\ Fault
    /\ GoTo(t, IF t = "ws" /\ ws = "none" THEN "sleep" ELSE After(t))
    /\ trusted' = (trusted /\ t # "main")
    /\ Ask(t)
    /\ UNCHANGED <<s_running, cur, wsVars, ringVars, handled, tokenVars>>

-------------------------------------------------------------------------------
\* feishu_bot_send: get_token, then the request.  The token is copied when the
\* request is made.
SendReply ==
    /\ mpc = "idle" /\ left.sends > 0
    /\ left' = [left EXCEPT !.sends = @ - 1]
    /\ trusted' = TRUE
    /\ mpc' = IF due = 0 THEN "ask" ELSE "send"
    /\ Ask("main")
    /\ UNCHANGED <<s_running, wpc, cur, wsVars, ringVars, handled, tokenVars>>

Post ==
    /\ mpc = "send"
    /\ IF has THEN /\ mpc' = "posting"
                   /\ req' = [req EXCEPT !["main"] = [NoRequest EXCEPT !.life = life]]
                   /\ trusted' = (trusted /\ ~mixed)
       ELSE mpc' = "idle" /\ UNCHANGED <<req, trusted>>
    /\ UNCHANGED <<s_running, wpc, cur, left, wsVars, ringVars, handled,
                   tokenVars>>

\* The server has looked at the token, or the request has failed.
Posted ==
    /\ mpc = "posting"
    /\ mpc' = "idle"
    /\ Ask("main")
    /\ UNCHANGED <<s_running, wpc, cur, trusted, left, wsVars, ringVars, handled,
                   tokenVars>>

-------------------------------------------------------------------------------
\* feishu_ws_thread, the connection.
Top ==
    /\ wpc = "top"
    /\ wpc' = IF s_running THEN "ask" ELSE "done"
    /\ Ask("ws")
    /\ UNCHANGED <<s_running, mpc, cur, trusted, left, wsVars, ringVars, handled,
                   tokenVars>>

\* pull_ws_config and ws_connect.
Connect ==
    /\ wpc = "config"
    /\ \/ NoFault /\ wpc' = "recv" /\ ws' = "up"
       \/ Fault /\ wpc' = "sleep" /\ UNCHANGED ws
    /\ UNCHANGED <<s_running, mpc, cur, trusted, wire, acks, unacked, ringVars, handled,
                   tokenVars, req>>

\* Sleeping in steps of 100 ms while s_running.
Slept ==
    /\ wpc = "sleep"
    /\ wpc' = "top"
    /\ UNCHANGED <<s_running, mpc, cur, trusted, left, wsVars, ringVars, handled,
                   tokenVars, req>>

ReceiveAcksAll ==
    /\ wpc = "recv" /\ s_running /\ ws = "up" /\ wire # <<>>
    /\ wire' = Tail(wire) /\ cur' = Head(wire)
    /\ wpc' = IF Head(wire) \in Long THEN "ack" ELSE "dedup"
    /\ UNCHANGED <<s_running, mpc, trusted, left, ws, acks, unacked, ringVars,
                   handled, tokenVars, req>>
\* ws_recv, which waits 200 ms, and handle_ws_frame: what does not fit into rx_buf is
\* cut off, does not parse and is not acknowledged.
Receive ==
    /\ wpc = "recv" /\ s_running /\ ws = "up" /\ wire # <<>>
    /\ wire' = Tail(wire)
    /\ IF Head(wire) \in Long THEN wpc' = "due" /\ UNCHANGED cur
       ELSE wpc' = "dedup" /\ cur' = Head(wire)
    /\ UNCHANGED <<s_running, mpc, trusted, left, ws, acks, unacked, ringVars,
                   handled, tokenVars, req>>
ReceiveTimeout ==
    /\ wpc = "recv" /\ s_running /\ ws = "up" /\ wire = <<>>
    /\ wpc' = "due"
    /\ UNCHANGED <<s_running, mpc, cur, trusted, left, wsVars, ringVars, handled,
                   tokenVars, req>>

\* The proactive refresh at the end of every round.
CheckDue ==
    /\ wpc = "due"
    /\ wpc' = IF due <= PROACTIVE THEN "ask" ELSE "recv"
    /\ Ask("ws")
    /\ UNCHANGED <<s_running, mpc, cur, trusted, left, wsVars, ringVars, handled,
                   tokenVars>>

DisconnectOnCloseOnly ==
    /\ wpc = "recv" /\ ws = "down"
    /\ ws' = "none" /\ wire' = <<>> /\ acks' = {}
    /\ wpc' = "sleep"
    /\ UNCHANGED <<s_running, mpc, cur, trusted, left, unacked, ringVars, handled,
                   tokenVars, req>>
DisconnectAndEnd ==
    /\ wpc = "recv" /\ ~(s_running /\ ws = "up")
    /\ ws' = "none" /\ wire' = <<>> /\ acks' = {}
    /\ wpc' = "done"
    /\ UNCHANGED <<s_running, mpc, cur, trusted, left, unacked, ringVars, handled,
                   tokenVars, req>>
\* The loop ends: ws_close.  What was under way is lost.
Disconnect ==
    /\ wpc = "recv" /\ ~(s_running /\ ws = "up")
    /\ ws' = "none" /\ wire' = <<>> /\ acks' = {}
    /\ wpc' = "sleep"
    /\ UNCHANGED <<s_running, mpc, cur, trusted, left, unacked, ringVars, handled,
                   tokenVars, req>>

-------------------------------------------------------------------------------
\* handle_message_event: dedup_check, which remembers the id of what it lets through.
SeenSkipsOne(e) ==
    e \notin Unnamed /\ \E i \in Slots \ {s_dedup_idx} : s_dedup_ring[i] = e
Seen(e) == e \notin Unnamed /\ \E i \in Slots : s_dedup_ring[i] = e

Remember(e) ==
    IF e \in Unnamed THEN UNCHANGED ringVars
    ELSE /\ s_dedup_ring' = [s_dedup_ring EXCEPT ![s_dedup_idx] = e]
         /\ s_dedup_idx' = (s_dedup_idx + 1) % DEDUP_SIZE
         /\ since' = [f \in Events |->
                        IF f = e THEN 0
                        ELSE IF since[f] < DEDUP_SIZE THEN since[f] + 1 ELSE since[f]]
         /\ allowed' = [allowed EXCEPT ![e] = IF since[e] >= DEDUP_SIZE THEN @ + 1 ELSE @]

Duplicate ==
    /\ wpc = "dedup" /\ Seen(cur)
    /\ wpc' = "ack"
    /\ UNCHANGED <<s_running, mpc, cur, trusted, left, wsVars, ringVars, handled,
                   tokenVars, req>>
New ==
    /\ wpc = "dedup" /\ ~Seen(cur)
    /\ Remember(cur)
    /\ wpc' = IF cur \in Text THEN "push" ELSE "ack"
    /\ UNCHANGED <<s_running, mpc, cur, trusted, left, wsVars, handled, tokenVars, req>>

\* message_bus_push_inbound: accepted, or refused by a full bus and freed.
Push ==
    /\ wpc = "push"
    /\ \/ NoFault /\ pushes' = [pushes EXCEPT ![cur] = @ + 1] /\ UNCHANGED refused
       \/ Fault /\ refused' = refused \cup {cur} /\ UNCHANGED pushes
    /\ wpc' = "ack"
    /\ UNCHANGED <<s_running, mpc, cur, trusted, wsVars, ringVars, tokenVars, req>>

\* The ACK, whatever became of the event.  It is not sent if the connection is gone.
Ack ==
    /\ wpc = "ack"
    /\ acks' = IF ws = "up" THEN acks \cup {cur} ELSE acks
    /\ cur' = NoEvent
    /\ wpc' = "due"
    /\ UNCHANGED <<s_running, mpc, trusted, left, ws, wire, unacked, ringVars,
                   handled, tokenVars, req>>

-------------------------------------------------------------------------------
\* The server: something happens; an event is sent; an ACK arrives; the connection is
\* lost, with what is under way.  An ACK may arrive after the event was sent again.
Happens(e) ==
    /\ e \in left.events
    /\ left' = [left EXCEPT !.events = @ \ {e}]
    /\ unacked' = unacked \cup {e}
    /\ UNCHANGED <<s_running, wpc, mpc, cur, trusted, ws, wire, acks, ringVars,
                   handled, tokenVars, req>>
Deliver(e) ==
    /\ e \in unacked /\ ws = "up"
    /\ Len(wire) < WireLen /\ pushes[e] < MaxPush
    /\ wire' = Append(wire, e)
    /\ UNCHANGED <<s_running, wpc, mpc, cur, trusted, left, ws, acks, unacked,
                   ringVars, handled, tokenVars, req>>
Acked(e) ==
    /\ e \in acks
    /\ acks' = acks \ {e} /\ unacked' = unacked \ {e}
    /\ UNCHANGED <<s_running, wpc, mpc, cur, trusted, left, ws, wire, ringVars,
                   handled, tokenVars, req>>
ConnectionLost ==
    /\ ws = "up" /\ Fault
    /\ ws' = "down" /\ wire' = <<>> /\ acks' = {}
    /\ UNCHANGED <<s_running, wpc, mpc, cur, trusted, unacked, ringVars, handled,
                   tokenVars, req>>

\* Time: a request ends in time, and what is not a request takes none.
Waiting(t) == At(t) \notin {"expire", "send"}
Tick ==
    /\ left.clock
    /\ \A t \in Threads : Waiting(t)
    /\ \A t \in Threads : At(t) \in {"ask", "posting"} => req[t].age < HTTP_TIMEOUT
    /\ life' = Less(life) /\ due' = Less(due)
    /\ req' = [t \in Threads |->
                 IF At(t) \in {"ask", "posting"}
                 THEN [req[t] EXCEPT !.age = @ + 1, !.life = Less(@)]
                 ELSE req[t]]
    /\ UNCHANGED <<s_running, wpc, mpc, cur, trusted, left, wsVars, ringVars, handled,
                   has, mixed>>

-------------------------------------------------------------------------------
Refresh(t) == Grant(t) \/ WriteToken(t) \/ WriteExpiry(t) \/ RefreshFails(t)
WsThread ==
    \/ Top \/ Connect \/ Slept \/ Receive \/ ReceiveTimeout \/ CheckDue \/ Disconnect
    \/ Duplicate \/ New \/ Push \/ Ack
Main == Start \/ SendReply \/ Post \/ Posted \/ Stop \/ Joined
Server(e) == Happens(e) \/ Deliver(e) \/ Acked(e)

Next ==
    \/ WsThread \/ Main \/ Refresh("ws") \/ Refresh("main")
    \/ \E e \in Events : Server(e)
    \/ ConnectionLost \/ Tick

Spec == Init /\ [][Next]_vars

\* Both threads go on; a request is answered or fails in time; an ACK that is not lost
\* arrives; an event is sent again until then, whatever else is sent meanwhile.
FairSpec ==
    /\ Spec
    /\ WF_vars(WsThread \/ Refresh("ws"))
    /\ WF_vars(Post \/ Posted \/ Joined \/ Refresh("main"))
    /\ \A e \in Events : WF_vars(Acked(e)) /\ SF_vars(Deliver(e))

-------------------------------------------------------------------------------
TypeOK ==
    /\ s_running \in BOOLEAN /\ trusted \in BOOLEAN
    /\ wpc \in {"none", "top", "ask", "expire", "config", "sleep", "recv", "dedup",
                "push", "ack", "due", "done"}
    /\ mpc \in {"init", "idle", "ask", "expire", "send", "posting", "join", "end"}
    /\ ws \in {"none", "up", "down"}
    /\ wire \in Seq(Events) /\ acks \subseteq Events /\ unacked \subseteq Events
    /\ cur \in Events \cup {NoEvent}
    /\ s_dedup_ring \in [Slots -> Events \cup {NoEvent}] /\ s_dedup_idx \in Slots
    /\ since \in [Events -> 0 .. DEDUP_SIZE]
    /\ allowed \in [Events -> Nat] /\ pushes \in [Events -> Nat]
    /\ refused \subseteq Events
    /\ has \in BOOLEAN /\ mixed \in BOOLEAN /\ life \in Nat /\ due \in Nat
    /\ req \in [Threads -> [age : Nat, life : Nat, exp : Nat]]

\* However often the server delivers an event, it is on the bus once, unless
\* DEDUP_SIZE other ids came in between: lost ACKs and lost connections, or an ACK
\* that crosses a redelivery, do not make the agent answer twice.
PushedOnce == \A e \in Events \ Unnamed : pushes[e] <= allowed[e]

\* The server stops delivering a text only after it was put on the bus or a full bus
\* refused it: no other return of the handlers loses a question.
AckMeansHandled ==
    \A e \in acks \cap Text : pushes[e] > 0 \/ e \in refused

\* The token that is sent is still good when the server looks at it, however long the
\* request takes and whichever thread refreshed it in between, unless the refresh
\* before it failed or two refreshes overlapped.
SentFresh == mpc = "posting" /\ trusted => req["main"].life > 0

\* A text whose frame fits into the buffer reaches the bus, or is refused by it, while
\* the bot runs: a lost connection or a failed refresh is recovered from.
TextHandled ==
    \A e \in Text \ Long :
        e \in unacked ~> pushes[e] > 0 \/ e \in refused \/ ~s_running

\* feishu_bot_stop returns, wherever the thread is.
StopReturns == mpc = "join" ~> mpc = "end"
==============================================================================
