------------------------------ MODULE Lifecycle ------------------------------
(* How the program comes up and goes down (main.c): main runs the UI and the    *)
(* outbound dispatcher while the bootstrap thread initialises and starts the    *)
(* channels (channel_manager.c) and the services one after the other; a signal  *)
(* at any time makes main wait for the bootstrap and stop, in reverse, what was *)
(* started.  What is started may fail, and what the threads do in between is    *)
(* the other modules' subject: here they live, use what they were given and end,*)
(* or stand for ever in a call without a limit while main waits for them.       *)
EXTENDS Naturals, Sequences, FiniteSets

CONSTANT MaxFaults      \* bound: how many things are broken in one life

Channels == {"cli", "feishu", "voice"}
Services == {"agent", "cron", "heartbeat"}
Workers == Channels \cup Services \cup {"button", "receiver"}
Threads == Workers \cup {"bootstrap"}

\* What may go wrong: a thread that cannot be created (by its name), a wake-word
\* model that does not load, a button that is not there, the audio program that is
\* missing, cannot be forked, cannot be reached or dies.
Faults == (Threads \ {"receiver"}) \cup
          {"appId", "detector", "gpio", "binary", "fork", "connect", "dies"}

\* Failures that leave a channel started by halves.
HalfStarted == Channels \cup {"button", "gpio", "detector"}

\* What the program holds and gives back.
Resources == {"bus", "http", "pcm", "socket"}

\* What a thread touches while it lives.  Without its detector the voice thread has
\* no buffer either (see BufferMissing).
Uses(t) == CASE t = "feishu" -> {"bus", "http"}
             [] t = "agent" -> {"bus", "http"}
             [] t = "voice" -> {"bus", "http", "pcm"}
             [] t \in {"cli", "cron"} -> {"bus"}
             [] t = "receiver" -> {"socket"}
             [] OTHER -> {}

ASSUME LifeAssumption == MaxFaults \in Nat

VARIABLES
    broken,         \* what is broken in this life
    s_running,      \* main's flag, cleared by the signal handler
    mpc,            \* main: what it does, and about which thread
    bpc,            \* bootstrap thread: its place in BootOrder
    thread,         \* each thread: none, alive, ended or joined
    flag,           \* each module's own s_running
    started,        \* s_..._started of main.c
    chans,          \* s_channels[]: the registered channels
    up,             \* the resources there are
    child,          \* the audio process: none, running, dead or reaped
    shut,           \* shutdown() was called on its socket
    s_connected,
    outbound,       \* a reply waiting in the outbound queue, and for whom
    locked,         \* the inbound queue's mutex was left locked (cli_channel.c:95)
    heldBy          \* main waits for a thread that stands in a call without a limit,
                    \* or stands in one itself: "nobody", or what it is a call to

mains == <<s_running, mpc>>
audio == <<child, shut, s_connected>>
world == <<thread, flag, started, chans, up, outbound>>
waits == <<locked, heldBy>>
vars == <<broken, mains, bpc, world, audio, waits>>

NoOne == "none"
Crashed == <<"crashed", "main">>
Exited == <<"exited", "main">>
Alive(t) == thread[t] = "alive"

------------------------------------------------------------------------------
\* Mutant: the agent is started with the other things the channels need.
BootOrderEager == <<"agent", "http", "register", "initAll", "audio",
                    "cli", "feishu", "voice", "cron", "heartbeat", "end">>

\* The bootstrap thread.  What has no state here (Wi-Fi: see Settings; LLM, memory,
\* sessions, skills, tools) is left out of the order.
BootOrder == <<"http", "register", "initAll", "agent", "audio",
               "cli", "feishu", "voice", "cron", "heartbeat", "end">>

At(step) == BootOrder[bpc] = step /\ Alive("bootstrap") /\ mpc # Crashed

Advance == bpc' = bpc + 1 /\ UNCHANGED <<broken, mains>>

Created(t) == t \notin broken

\* pthread_create, after the flag its loop looks at was set.
Create(t) == /\ flag' = [flag EXCEPT ![t] = TRUE]
             /\ thread' = [thread EXCEPT ![t] = IF Created(t) THEN "alive" ELSE @]

BootHttp ==
    /\ At("http") /\ Advance
    /\ up' = up \cup {"http"}
    /\ UNCHANGED <<thread, flag, started, chans, outbound, audio>>

BootRegister ==
    /\ At("register") /\ Advance
    /\ chans' = <<"cli", "feishu", "voice">>
    /\ UNCHANGED <<thread, flag, started, up, outbound, audio>>

\* The first init that fails ends channel_manager_init_all.  Only the voice channel's
\* can, and it is the last; nobody looks at the result.
BootInitAll ==
    /\ At("initAll") /\ Advance
    /\ up' = IF "detector" \in broken THEN up ELSE up \cup {"pcm"}
    /\ UNCHANGED <<thread, flag, started, chans, outbound, audio>>

BootService(s) ==
    /\ At(s) /\ Advance
    /\ Create(s)
    /\ started' = IF Created(s) THEN started \cup {s} ELSE started
    /\ UNCHANGED <<chans, up, outbound, audio>>

\* audio_service_start: no program is no error; a program that cannot be reached is
\* one, and is left to itself.
BootAudio ==
    /\ At("audio") /\ Advance
    /\ IF broken \cap {"binary", "fork"} # {}
         THEN UNCHANGED <<child, s_connected, up, thread, flag>>
         ELSE /\ child' = "running"
              /\ IF "connect" \in broken
                   THEN UNCHANGED <<s_connected, up, thread, flag>>
                   ELSE /\ s_connected' = TRUE
                        /\ up' = up \cup {"socket"}
                        /\ Create("receiver")
    /\ started' = IF \/ "binary" \in broken
                     \/ broken \cap {"fork", "connect"} = {}
                    THEN started \cup {"audio"} ELSE started
    /\ UNCHANGED <<chans, outbound, shut>>

BootCli ==
    /\ At("cli") /\ Advance
    /\ Create("cli")
    /\ UNCHANGED <<started, chans, up, outbound, audio>>

BootFeishu ==
    /\ At("feishu") /\ Advance
    /\ IF "appId" \in broken THEN UNCHANGED <<thread, flag>> ELSE Create("feishu")
    /\ UNCHANGED <<started, chans, up, outbound, audio>>

\* voice_manager_start and the end of channel_manager_start_all, which reports
\* success whatever failed.  The button's flag is set only once its pin is ready; when
\* the voice thread cannot be created the button's is stopped and joined at once.
BootVoice ==
    /\ At("voice") /\ Advance
    /\ flag' = [flag EXCEPT !["voice"] = TRUE,
                            !["button"] = "gpio" \notin broken
                                           /\ ("button" \in broken \/ Created("voice"))]
    /\ thread' = [thread EXCEPT
         !["button"] = IF broken \cap {"gpio", "button"} # {} THEN @
                       ELSE IF Created("voice") THEN "alive" ELSE "joined",
         !["voice"] = IF broken \cap {"gpio", "button", "voice"} = {}
                        THEN "alive" ELSE @]
    /\ started' = started \cup {"channels"}
    /\ UNCHANGED <<chans, up, outbound, audio>>

BootEnds ==
    /\ At("end")
    /\ thread' = [thread EXCEPT !["bootstrap"] = "ended"]
    /\ UNCHANGED <<broken, mains, bpc, flag, started, chans, up, outbound, audio>>

------------------------------------------------------------------------------
\* The threads.

\* A thread leaves its loop when it sees its flag, the CLI's also at the end of its
\* input, at /quit or when it is cancelled, the voice thread also when it cannot
\* record; the receiver is deaf until its socket ends.
MayEnd(t) ==
    CASE t = "cli" -> TRUE
      [] t = "voice" -> ~flag[t] \/ ~s_connected
      [] t = "receiver" -> shut \/ child # "running"
      [] OTHER -> ~flag[t]

\* The cancelled CLI thread may be in its push, in the wait for space: it ends there
\* with the queue's mutex.
ThreadEnds(t) ==
    /\ mpc \notin {Crashed, Exited} /\ Alive(t) /\ MayEnd(t)
    /\ mpc = <<"join", t>> => heldBy = "nobody"
    /\ thread' = [thread EXCEPT ![t] = "ended"]
    /\ locked' \in IF mpc = <<"join", "cli">> /\ t = "cli" THEN BOOLEAN ELSE {locked}
    /\ heldBy' = heldBy
    /\ s_connected' = (s_connected /\ t # "receiver")
    /\ UNCHANGED <<broken, mains, bpc, flag, started, chans, up, outbound, child, shut>>

\* What a thread asked to stop may stand in, and never look at its flag again: the
\* write to the audio process, whose reader may have stopped for good (see AudioIpc);
\* the speech service's connection; a command's output or end; the bus.
StandsIn(t) ==
    CASE t = "voice" -> {"speech"} \cup
                        (IF s_connected /\ child = "running" THEN {"audio"} ELSE {})
      [] t = "agent" -> {"tool"} \cup (IF locked THEN {"bus"} ELSE {})
      [] t = "cron" -> IF locked THEN {"bus"} ELSE {}
      [] OTHER -> {}

\* Main itself writes to the audio process first when it stops it.
Held ==
    /\ heldBy = "nobody"
    /\ \/ \E t \in Workers : /\ mpc = <<"join", t>> /\ Alive(t)
                              /\ heldBy' \in StandsIn(t)
       \/ /\ mpc = <<"stop", "receiver">> /\ "audio" \in started
          /\ s_connected /\ child = "running"
          /\ heldBy' = "audio"
    /\ UNCHANGED <<broken, mains, bpc, world, audio, locked>>

\* The agent answers somebody who can ask: a started channel, or for it a job.
AgentReplies(c) ==
    /\ mpc \notin {Crashed, Exited} /\ Alive("agent") /\ outbound = NoOne
    /\ thread[c] # "none" \/ thread["cron"] # "none"
    /\ outbound' = c
    /\ UNCHANGED <<broken, mains, bpc, thread, flag, started, chans, up, audio>>

\* Its death ends a write to it, with an error that ipc_send notes.
AudioDies ==
    /\ mpc \notin {Crashed, Exited} /\ child = "running"
    /\ "dies" \in broken \/ shut
    /\ child' = "dead"
    /\ s_connected' = (s_connected /\ heldBy # "audio")
    /\ heldBy' = IF heldBy = "audio" THEN "nobody" ELSE heldBy
    /\ UNCHANGED <<broken, mains, bpc, world, shut, locked>>

\* A sender notices that first: s_connected falls without the receiver.
SendFails ==
    /\ mpc \notin {Crashed, Exited} /\ child = "dead" /\ s_connected
    /\ s_connected' = FALSE
    /\ UNCHANGED <<broken, mains, bpc, world, child, shut>>

\* The voice thread was started though voice_manager_init failed: the first recorded
\* frame is copied to where no buffer is.
BufferMissing ==
    /\ mpc \notin {Crashed, Exited}
    /\ Alive("voice") /\ Alive("receiver") /\ "pcm" \notin up
    /\ mpc' = Crashed
    /\ UNCHANGED <<broken, s_running, bpc, world, audio>>

------------------------------------------------------------------------------
\* main.

Signal ==
    /\ s_running /\ mpc # Crashed
    /\ s_running' = FALSE
    /\ UNCHANGED <<broken, mpc, bpc, world, audio>>

\* dispatch_outbound and channel_manager_send, which forgets what has no channel.
Dispatch ==
    /\ mpc = <<"loop", "main">> /\ s_running /\ outbound # NoOne
    /\ outbound' = NoOne
    /\ UNCHANGED <<broken, mains, bpc, thread, flag, started, chans, up, audio>>

\* Mutant: main does not wait for the bootstrap thread.
LeaveLoopAtOnce ==
    /\ mpc = <<"loop", "main">> /\ ~s_running
    /\ mpc' = <<"stop", "voice">>
    /\ UNCHANGED <<broken, s_running, bpc, world, audio>>

LeaveLoop ==
    /\ mpc = <<"loop", "main">> /\ ~s_running
    /\ mpc' = IF thread["bootstrap"] # "none" THEN <<"join", "bootstrap">>
                                             ELSE <<"stop", "voice">>
    /\ UNCHANGED <<broken, s_running, bpc, world, audio>>

\* The stop functions, in main's order (the channels' in reverse).  Those of the
\* Feishu bot, the voice manager and the button return at once when the module's
\* flag is down; the CLI's does not look.
Stopped(t) ==
    CASE t \in Services -> t \in started
      [] t = "cli" -> "channels" \in started
      [] t = "button" -> flag[t]
      [] OTHER -> "channels" \in started /\ flag[t]

OnStop(t) == IF t = "voice" THEN <<"stop", "button">> ELSE <<"join", t>>

OnSkip(t) == CASE t = "voice" -> <<"stop", "feishu">>
               [] t = "button" -> <<"join", "voice">>
               [] t = "feishu" -> <<"stop", "cli">>
               [] t = "cli" -> <<"stop", "receiver">>
               [] t = "heartbeat" -> <<"stop", "cron">>
               [] t = "cron" -> <<"stop", "agent">>
               [] t = "agent" -> <<"free", "http">>

AfterJoin(t) == CASE t = "bootstrap" -> <<"stop", "voice">>
                  [] t = "voice" -> <<"free", "pcm">>
                  [] t = "receiver" -> <<"free", "socket">>
                  [] OTHER -> OnSkip(t)

Stop(t) ==
    /\ mpc = <<"stop", t>>
    /\ IF Stopped(t) THEN flag' = [flag EXCEPT ![t] = FALSE] /\ mpc' = OnStop(t)
                     ELSE flag' = flag /\ mpc' = OnSkip(t)
    /\ UNCHANGED <<broken, s_running, bpc, thread, started, chans, up, outbound, audio>>


\* audio_service_stop.  shutdown() is called only while s_connected stands, and the
\* receiver joined only if it was created.
StopAudio ==
    /\ mpc = <<"stop", "receiver">> /\ heldBy = "nobody"
    /\ IF "audio" \in started
         THEN /\ flag' = [flag EXCEPT !["receiver"] = FALSE]
              /\ shut' = s_connected
              /\ mpc' = IF thread["receiver"] = "none" THEN <<"free", "socket">>
                                                       ELSE <<"join", "receiver">>
         ELSE mpc' = <<"stop", "heartbeat">> /\ UNCHANGED <<flag, shut>>
    /\ UNCHANGED <<broken, s_running, bpc, thread, started, chans, up, outbound,
                   child, s_connected>>

Join(t) ==
    /\ mpc = <<"join", t>> /\ thread[t] = "ended"
    /\ thread' = [thread EXCEPT ![t] = "joined"]
    /\ mpc' = AfterJoin(t)
    /\ UNCHANGED <<broken, s_running, bpc, flag, started, chans, up, outbound, audio>>

\* pthread_join, and pthread_cancel, of a thread that was never created or has been
\* joined already: the call returns an error or brings the process down.
JoinNobody(t) ==
    /\ mpc = <<"join", t>> /\ thread[t] \in {"none", "joined"}
    /\ mpc' \in {AfterJoin(t), Crashed}
    /\ UNCHANGED <<broken, s_running, bpc, world, audio>>

FreeBuffer ==
    /\ mpc = <<"free", "pcm">>
    /\ up' = up \ {"pcm"}
    /\ mpc' = <<"stop", "feishu">>
    /\ UNCHANGED <<broken, s_running, bpc, thread, flag, started, chans, outbound, audio>>

\* The end of audio_service_stop: the socket is closed, the process killed and reaped.
CloseAudio ==
    /\ mpc = <<"free", "socket">>
    /\ up' = up \ {"socket"}
    /\ s_connected' = FALSE
    /\ child' = IF child = "none" THEN child ELSE "reaped"
    /\ mpc' = <<"stop", "heartbeat">>
    /\ UNCHANGED <<broken, s_running, bpc, thread, flag, started, chans, outbound, shut>>

\* ui_manager_shutdown, http_client_cleanup and message_bus_destroy, which locks the
\* queue to empty it.
HttpCleanup ==
    /\ mpc = <<"free", "http">>
    /\ up' = up \ {"http"}
    /\ mpc' = <<"free", "bus">>
    /\ UNCHANGED <<broken, s_running, bpc, thread, flag, started, chans, outbound, audio>>

BusDestroy ==
    /\ mpc = <<"free", "bus">> /\ ~locked
    /\ up' = up \ {"bus"}
    /\ mpc' = Exited
    /\ UNCHANGED <<broken, s_running, bpc, thread, flag, started, chans, outbound, audio>>

------------------------------------------------------------------------------
\* message_bus_init and the creation of the bootstrap thread, whose failure clears
\* s_running.
Init ==
    /\ broken \in {b \in SUBSET Faults : Cardinality(b) <= MaxFaults}
    /\ s_running = Created("bootstrap")
    /\ mpc = <<"loop", "main">> /\ bpc = 1
    /\ thread = [t \in Threads |->
                    IF t = "bootstrap" /\ Created(t) THEN "alive" ELSE "none"]
    /\ flag = [t \in Workers |-> FALSE]
    /\ started = {} /\ chans = <<>> /\ up = {"bus"}
    /\ child = "none" /\ shut = FALSE /\ s_connected = FALSE
    /\ outbound = NoOne
    /\ locked = FALSE /\ heldBy = "nobody"

Boot == /\ UNCHANGED waits
        /\ \/ BootHttp \/ BootRegister \/ BootInitAll
           \/ \E s \in Services : BootService(s)
           \/ BootAudio \/ BootCli \/ BootFeishu \/ BootVoice \/ BootEnds

Shutdown == /\ UNCHANGED waits
            /\ \/ LeaveLoop
               \/ \E t \in Workers \ {"receiver"} : Stop(t)
               \/ StopAudio
               \/ \E t \in Threads : Join(t) \/ JoinNobody(t)
               \/ FreeBuffer \/ CloseAudio \/ HttpCleanup \/ BusDestroy

Next == \/ Boot \/ Shutdown \/ Held
        \/ \E t \in Workers : ThreadEnds(t)
        \/ AudioDies
        \/ /\ UNCHANGED waits
           /\ \/ Signal \/ Dispatch \/ SendFails \/ BufferMissing
              \/ \E c \in Channels : AgentReplies(c)

Spec == Init /\ [][Next]_vars

\* The bootstrap and main run, and a thread asked to stop ends, the socket's reader
\* once it is shut, unless it is held.  What holds a thread need never let it go, and
\* nobody owes the program a signal.
FairSpec == /\ Spec /\ WF_vars(Boot) /\ WF_vars(Shutdown)
            /\ \A t \in Workers : WF_vars(ThreadEnds(t))

------------------------------------------------------------------------------
TypeOK ==
    /\ broken \subseteq Faults /\ s_running \in BOOLEAN
    /\ mpc \in {"loop", "stop", "join", "free", "exited", "crashed"} \X
               (Threads \cup Resources \cup {"main"})
    /\ bpc \in 1 .. Len(BootOrder)
    /\ thread \in [Threads -> {"none", "alive", "ended", "joined"}]
    /\ flag \in [Workers -> BOOLEAN]
    /\ started \subseteq Services \cup {"channels", "audio"}
    /\ chans \in {<<>>, <<"cli", "feishu", "voice">>}
    /\ up \subseteq Resources
    /\ child \in {"none", "running", "dead", "reaped"}
    /\ shut \in BOOLEAN /\ s_connected \in BOOLEAN
    /\ outbound \in Channels \cup {NoOne}
    /\ locked \in BOOLEAN /\ heldBy \in {"nobody", "audio", "speech", "tool", "bus"}

\* Every thread that lives has what it works with, and every reply a channel it can be
\* routed to: nothing is started before it is there, though main dispatches from the
\* first moment, and nothing is given back before those who use it were joined,
\* whenever the signal comes and whatever else failed (main.c:94-128, 212-233).  What
\* a failed voice_manager_init takes from the voice thread is left out: BufferMissing.
UsesLive ==
    /\ \A t \in Threads : Alive(t) =>
          Uses(t) \subseteq up \cup (IF "detector" \in broken THEN {"pcm"} ELSE {})
    /\ outbound # NoOne => \E i \in DOMAIN chans : chans[i] = outbound

\* When main returns every thread it created has been joined, what it allocated is
\* given back and the audio process is gone.  The exception is the code's: a process
\* that could not be reached is never killed (audio_service.c:309).
NothingLeft ==
    mpc = Exited => /\ \A t \in Threads : thread[t] \in {"none", "joined"}
                    /\ up = {} /\ ~s_connected
                    /\ child = "running" => "connect" \in broken

\* Main is stuck: with a thread that stands where nothing ends its wait, there itself,
\* or at the bus that a cancelled CLI thread left locked.
MainStands == heldBy # "nobody" \/ (mpc = <<"free", "bus">> /\ locked)

==============================================================================
